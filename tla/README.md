# CivicSys: models, checks and proofs

CivicSys is a civic platform: a citizen gets a soulbound identity token ("cedula") from a
wizard in the browser, votes on chain, and AI agents ("Hermes") comment on the results.
This directory holds TLA+ modules of its parts, translated from the source, the TLC
configurations that check them on small instances, and theorems checked by TLAPS.
`PROJECT.json` maps every definition to the lines it models.

## 1. The system

| Component | State it keeps | Operations | Talks to |
|---|---|---|---|
| `IdentitySBT.sol`: the cedula | next id, dniHash of a token, token of a holder, used dniHash and faceCommitment flags, ERC721 owners and balances | `mint`, `burn`, the ERC721 transfer functions, which must always revert | calls `onERC721Received` of a recipient with code; read by `Vote` |
| `CitizenRegistry.sol`: the older registry | one hash per address | `register` | read by `Vote` |
| `Vote.sol`: the public vote | one proposal, three counters, a mark per address | `castVote`, `close` | asks its registry `isRegistered` |
| `AnonymousVote.sol` | used nullifiers and a tally per proposal | `castAnonymous` | - |
| `AccountabilityLog.sol` | append-only list of report hashes | `anchor`, open to every account | - |
| Voting page (`app/votacion`) | identity secret in `localStorage`, state of the button | `vote()`, tally refresh every 5 s | `AnonymousVote`, through one relayer account shared by every browser |
| Registration wizard (`components/registro`) | data of five steps, in the memory of the page | submit document, selfie, dedupe check, wallet, `mint()` | Hermes, faucet, `IdentitySBT` |
| Faucet (`backend/src/faucet.ts`) | spent today and hits of each IP, in the memory of the process | `POST /faucet/drip` | the chain, from the relayer account |
| Anchoring (`backend/src/accountability.ts`) | - | `POST /accountability/anchor`, open to every client | the chain, from the same relayer account |
| Hermes face index (`face_index.py`, `identity.py`) | embeddings, in the memory of the process | `dedupe`, `register_face`, open to anyone | called by the wizard |
| La Toxica (`toxica.py`, Discord bot, page) | - | analyse, anchor | LLM, anchoring |
| Council (`council.py`) | log of 50 deliberations, statistics of each advisor | `deliberate` | LLM with fallbacks |
| RPC failover (`rpc.py`) | - | one call on two endpoints | RPC nodes |
| Channels (`channels/`) | persons registered, per channel | `register_person` | Discord, Telegram, WhatsApp |
| Reads of the backend (`blockchain.service.ts`, tRPC routers) | - | `getCitizenStatus`, proposals, reports | the chain, Postgres |
| Proposal page (`app/propuesta/[id]`) | wallet connected, cached answers of three queries, pending signature | `vote(choice)`, connect, disconnect | `Vote`, `CitizenRegistry`, through the citizen's wallet |
| Hermes console and status page (`app/hermes`, `app/sistema`) | the dialogue; the last status | `send`, a status read every 4 s | Hermes |
| Deployment scripts (`blockchain/scripts`) | `deployments/*.json`, ABIs and addresses in the frontend's `lib/abi` | two deploys, one addition to a file, a demo inscription | both networks; the frontend imports what they wrote |

How they meet: the contracts share one chain and call one another; the wizard, the voting page
and the backend reach the chain by transactions that are estimated now and run later; faucet and
anchoring share one account and so one sequence of nonces; the wizard depends on Hermes and on
the faucet by calls that may fail or whose answer may be lost.

### What is hard about it

* **Reentrancy.** `mint` calls the recipient before its events are out. The recipient may burn,
  vote, register, or let another contract mint.
* **Stale checks.** A duplicate document, a used nullifier and a wallet without gas are all
  noticed by a read, and acted on one or more awaits later.
* **Retries.** Timeouts and lost answers make pages offer their button again while the first
  transaction is still on its way; the Discord bot gives up after exactly as long as the backend
  may wait for a receipt.
* **Shared memory of one event loop.** Deliberations overlap at every `await` and write the same
  statistics and log; one that raises leaves its siblings running.
* **One account, many senders.** Pending nonces are read and used in two steps.
* **Open doors.** Hermes stores any face it is given, the anchoring route and the log take any post,
  and `mint` needs no wizard: what holds must hold in such company.
* **Memory only.** Faucet limits, the face index and the wizard's data go with their process;
  the transactions they led to do not. A restarted faucet has a new day's budget.
* **Old answers.** Pages poll without waiting for the last answer, or read three things at three
  blocks; a moved visitor leaves requests behind.
* **Scripts.** A deploy writes fourteen things one after the other and can die after each; any number
  of scripts may run side by side, one of them rewriting a file of another; networks share the ABIs.
* **Boundaries.** `closeAt` belongs to the voting period, midnight resets a budget.

`PROJECT.json` lists each of these under "hazards" at its line, with the properties that would
catch it going wrong.

### What makes each component correct

* Identity: a document, a face or an id serves one cedula for ever; the four records of who holds
  what agree at every call boundary; a cedula never changes hands; the log tells who holds what.
* Public vote: one ballot per person whatever wallets are used; the tally counts the ballots; the
  result announced is the tally for ever after.
* Anonymous vote and its page: an identity is counted once on a proposal, whatever tabs, retries
  and lost answers do; the page tells the truth about it.
* Faucet: a day's budget and an address's share are never exceeded by concurrent requests (after a
  restart on the same day they are, finding 3); an answer that says "sent" stands for a mined
  transaction; every request is answered.
* Registration: a document or a wallet never gets two cedulas; the token the page shows is the
  citizen's own; citizens stay distinct whatever Hermes forgets or is told by others.
* Accountability: a link shown to a user stands for an entry of the log with that post; a request
  is anchored once; what the relayer writes was asked for; every command gets a reply.
* Proposal page and backend reads: nothing shown goes back in time, every answer was true on the
  chain, the page believes of an address what `Vote` will say of it (it does not, see Observations).
* Console, status and La Toxica pages: answers stand under their questions, an approval belongs to
  the report on display, polled values catch up, controls come back.
* Deployment: what a file names of a chain is one deployment, with ABIs for it, and the demo
  inscribes where a `Vote` looks.
* Council: the log is the latest verdicts; the advisors' run counts agree with it whatever
  overlaps, fails or restarts; the running averages stay near the means.

## 2. Modules

| Module | Models | Composes |
|---|---|---|
| `IdentitySBT` | `IdentitySBT.sol` | |
| `CitizenRegistry` | `CitizenRegistry.sol` | |
| `Vote` | `Vote.sol` | |
| `CivicChain` | the three contracts on one chain, as deployed | `IdentitySBT`, `CitizenRegistry`, `Vote`, `Election` |
| `Election` | abstract: what a vote promises | |
| `CivicChainProofs`, `FaucetProofs`, `AccountabilityProofs`, `CouncilProofs`, `DeploymentProofs` | theorems about the module of that name | the module |
| `VotingPageProofs` | theorems about `VotingPage` and, in its last section, about `Pages` | both |
| `RegistrationProofs`, `ProposalPageProofs` | theorems about `Registration` and `ProposalPage` | the module, and the theorems of `CivicChainProofs` about the chain under it |
| `AnonymousVote` | `AnonymousVote.sol` | |
| `VotingPage` | tabs, identity secret, relayer, contract | `AnonymousVote`, `Election` |
| `Fund` | abstract: what a faucet promises | |
| `Faucet` | the drip handler, limits, the relayer account | `Fund` |
| `Registration` | wizards, Hermes' face index, mempool, contract | `IdentitySBT` |
| `Anchoring` | abstract: what a public log of requested posts promises | |
| `Accountability` | `/toxica`: bot, Hermes, anchoring handler, relayer, `AccountabilityLog` | `Anchoring` |
| `Council` | deliberations, advisors' statistics, the log | |
| `ProposalPage` | the public vote seen from `/propuesta/[id]` and from the backend's reads | `CivicChain` |
| `Deployment` | four scripts, the files they share, what the frontend reads of them | |
| `Poller` | a component that reads a value again and again | |
| `Pages` | a visitor's tab on `/hermes`, `/sistema`, `/toxica`, `/votacion` against the services | `Poller` (twice), `AnonymousVote` |
| `MC...` | instances for TLC: small sets and symmetries | |

Conventions. An action is a successful call of a contract, one segment of an async handler
between two awaits, or one move of the surroundings (a block, a clock tick, a restart). A
contract call that reverts changes nothing and is no step; where the property is that a call
*always* reverts (`TransferFrom`), the guards are evaluated inside the action. Awaits are the
values of a program counter named after what is awaited (`"balance"`, `"estimate"`, `"receipt"`).
Operators whose comment starts with "Bug:" are used by no specification: they are the mutations
that show each property can fail, listed under "mutants".

### CivicChain

One variable per storage mapping, plus the log's events. `frames` is the stack of `mint` calls
waiting in `onERC721Received`: while it is not empty only accounts with code can call (`Caller`),
which is what the EVM allows inside one transaction. That a callback may end in a revert of the
whole transaction is covered because states inside a callback are also checked, and the state
before it is a state of the model. `registry` records which registry `Vote` was given. Both wirings
are initial states: the deployment scripts give it `IdentitySBT` (and deploy `CitizenRegistry` for
compatibility), the contract's constructor and its tests take either. The history variable `ballots` is the
`VoteCast` log with the voter's `hashOf` at that time.

`Election` is the abstract specification: a voter casts at most one ballot and never changes it,
at most one result is certified, it counts exactly the ballots cast, and none is cast after it.
`CivicChain` implements it with a voter being a *person* (dniHash) under `IdentitySBT` and an
*address* under `CitizenRegistry`; that difference is the reason the newer contract exists.

### Faucet

`pc[r]` follows a request through `getBalance`, the limit check and reservation (one segment,
no await between them), `sendTransaction` (nonce read, then broadcast) and the receipt. `pool` is the
sequence of the relayer's transactions, `mined` how many are in blocks. `AnchorReport` is the
other user of the account. `Restart` loses limits and handlers and keeps transactions. The code
filters an address's list of reservation times by age; each time is recorded when it is `now`, so the
list is in order (`FaucetProofs` proves it) and `Recent` keeps the end of it.

`Fund` is the abstract specification: a request gets one drip at most, at the wallet and for the address it was made with;
the drips given on one day fit its budget and those to one address inside a window its share, until the faucet loses its memory
(`Forget`), when both are counted anew; no drip is taken back or changed; "sent" is told of a drip that is settled. Under the refinement mapping a drip is given when the
node takes its transaction (`Given`, numbered by its place in the account), and settled when that is in a block; what a
request asks for and got is in its job (`Asked`), and a life of the fund is a process of the backend. `DailyBudgetOfAll` is the
budget as the header of `faucet.ts` states it, over all processes; `faucet_restart` refutes it. Reservations, failures, other uses of the account and the clock are stutters.

### Registration

`wizard[b]` holds the data of `WizardProvider` and the local state of the step shown. `mint()` of
`StepMint` is six awaits; between two of them other wizards, Hermes and the chain move.
The chain is the `IdentitySBT` module itself: `Mine` runs `Mint` on the state it finds, or reverts.
`Estimate` evaluates the same requires (`MayMint`) on the latest block. The face index is a set of
embeddings with a similarity relation given as a constant: cosine similarity at the threshold is all
the code asks of an embedding. Nothing in this system is reserved to the wizard: `AnyoneRegisters` stores
a face of nobody's mint, as `register-face` lets anybody do, and `OutsiderMints` calls the contract with
any document and face from an account of its own. So no property speaks of the index; `CitizensAreDistinct`
says what holds although it knows too much or too little.

### VotingPage

Tabs share the secret of their browser and the relayer's nonces. `Prepare` estimates on the
latest block, where "ya votaste" is noticed; `Broadcast` needs the nonce still to be next; `Receipt`
does not look at the status, like the code. Outsiders call the contract directly with nullifiers
of their own, on any proposal.

### Accountability

`command[c]` is what the bot is doing for a user, `handler` the requests the backend accepted.
The two are loosely coupled: `GiveUp` (the client's 90 s timeout, or a backend out of reach) ends
the command and leaves the handler at work, so a report may be anchored after the bot has shown it
as not anchored, and a user's second command anchors a second one. A draft remembers whose
data it was written from (`law`), because an unknown id is analysed with the data of the first
proposal (`DataFor`). `approved` is FALSE from the one place that sets it. `AnybodyPosts` is another
client of the route, which asks nobody who he is, so that the relayer writes for him too (`Take` is what all
requests share); `AnybodyAnchors` is another account calling the contract. `reports` keeps who reported an
entry and, as history, which transaction of the relayer made it.

`Anchoring` is the abstract specification behind the bot's "anclado inmutable on-chain", on a log that is
public to write: what stands in it under the relayer's name was requested, each request enters it at most
once and unchanged, others write what they like under their own names, and a link is for a request of the bot that is in the
log. Under the refinement mapping a request is what the handler accepted, and from whom (`Requests`), in the log once
a transaction sent for it is in a block (`InLog`), linked once the bot has shown that transaction (`Told`);
a request of the bot has to be `Publishable`: a post that is not empty, under a natural number, with the data of that law if there
is one. Drips, refusals, timeouts and failures are stutters.

### Council

`slot[s]` is a deliberation under way. An advisor's answer and its `_track` are one step, so are
the verdict and its log entry: no `await` lies between them. `Raise` is an openrouter answer with
null content, which fails outside the fallbacks: `gather` raises, the request gets a 500, and the
other advisors go on and are counted (`astray`). `Vanish` ends such a deliberation. Averages are
kept in tenths and rounded at each run like the code; of a tie either neighbour is taken.

### ProposalPage

The chain is `CivicChain` as the scripts wire it (`registry = "IdentitySBT"`), without voters that
have code; `World` is everybody else on it. A query puts what the node answers into `reading`;
`Arrive` replaces the cache, `Lost` leaves it. react-query runs one fetch of a query at a time
(`Read`), and that is what keeps the page from going back in time: `ReadOverlapping` breaks it. The
wallet may `Sign` or `Reject`; a mined transaction votes or reverts, and the page awaits no receipt.
The backend's `request` is one tRPC call; handlers share nothing, so one stands for all.
`getCitizenStatus` is two reads at two blocks. `client` says whether a behaviour follows the page
or the backend: they meet on the chain only, where `World` makes any move of the other.

### Deployment

Runs are numbered as they begin; any of them may be of any script, of the same network too, and they know
nothing of each other. A run is a step counter with the addresses it holds; every step can be the last (`ScriptDies`).
Addresses are positions in `code[net]`, which also keeps the build, the run and the registry each contract
was created with. A restarted Anvil empties its chain (`RestartAnvil`), leaves the files behind and goes unnoticed
by a run under way, which goes on with the addresses it has. The history field `of` says, for every address, from
which chain it was learnt; a property about a file speaks of the names learnt from the chain that is there
now, whatever else the run that wrote the file has seen. `deploy-accountability-zk` reads and writes the file in two
steps, and whatever another process writes in between is lost. The demo inscribes a fresh
citizen at the address it read when it was loaded; each `IdentitySBT` numbers its own cedulas (`InscribedAt`).
The scripts that run on zkTanenbaum sign with one key; a nonce taken by another script fails a step, which is
one of the ways to die.

### Pages and Poller

`Poller` is `useEffect` with `setInterval`, instantiated for `/sistema` (the value is
`councils_run`) and for the tally of `/votacion`. Reads overlap and arrive in any order; the last
answer is shown, so a page may go back and only catches up in the end. `Go` unmounts the page
shown: its state is gone and late answers find nothing to change, while what Hermes had begun goes
on (`OtherCouncil`). Others call `AnonymousVote` with any choice and any nullifier (`OtherVote`). In the
console the buttons of the proposals stay enabled while a question is under way (`Offered`), so the test of
`loading` inside `send` is the only guard. `/toxica` displays whatever JSON it gets, so a refusal is a
report too.

## 3. Runs

| Run | Shows | Instance |
|---|---|---|
| `civic_chain` | the identity and voting contracts, callbacks included, keep their records consistent and implement `Election` | one account with code, one without, 2 documents, 2 faces, 2 token ids, 2 proposal ids (one of which does not exist), times 0..3 |
| `faucet_limits` | concurrent drips, failures, a midnight and a restart: no process overspends a day; "sent" means mined; every request is answered, even if the chain stops; `Fund`, which may forget, is implemented | 2 requests, 1 address, 1 wallet, a budget of 5 and drips of 2, days of one tick, times 0..1, 1 restart, 3 transactions |
| `registration` | two wizards racing, retrying, reloading, losing answers, an account that mints without a wizard, faces from anybody: no document or wallet has two cedulas, no wrong token is shown, citizens stay distinct | 2 browsers, 2 wallets, 1 outsider, 2 documents, 2 faces, 2 transactions, 1 mint and 1 face from others |
| `voting_page` | two tabs of a browser and an outsider: pages tell the truth, an identity counts once (`Election` is implemented) | 3 relayer transactions, 2 proposals |
| `accountability` | two commands, a slow or failing backend, drips from the same account, other clients and accounts: links stand for entries, no request is anchored twice, every command is answered, `Anchoring` is implemented | 2 commands, the id of the second of 2 laws and a negative one, which no law has, 1 post of others, 2 requests, 2 transactions, 1 entry by another account |
| `council` | two deliberations at once, advisors that raise, a restart: counts, log and averages agree | 2 advisors, 3 deliberations, a log of 2, one provider that may fail |
| `deployment` | four scripts on two networks, also two of one network at once, dying and overlapping, with recompilations and restarts of Anvil: what a file names of the present chain is one deployment, ABIs are not older than contracts, the demo inscribes where a `Vote` looks | 3 events (runs, recompilations, restarts of Anvil), 2 of them deploys, 2 scripts at a time |
| `proposal_page` | the page never shows an older state after a newer one; the backend's answers were true | 1 account, 2 token ids, times 0..2, 2 reads under way, 1 transaction |
| `pages` | dialogue, approvals, polling and waiting on four pages, while a visitor moves about and Hermes restarts | 2 nullifiers, 3 reads under way, 6 messages, 3 analyses, 2 councils, 1 restart |
| `faucet_refund` | finding: a wallet is funded twice | smaller than `faucet_limits`, one drip per address |
| `registration_done` | finding: "Cedula minteada" after a reverted mint | as `registration` |
| `faucet_restart` | finding: a restart begins the day's budget anew | as `faucet_limits` |

**Bounds, and why they are enough.** Two of everything that must not be confused (documents,
faces, browsers or tabs, requests, addresses), so that both "same" and "different" occur. Two
token ids allow mint, burn and a second mint, including the second mint inside the callback of
the first; a third id would only repeat the second. Times 0..3 hold every order of openAt,
closeAt, a vote at closeAt and one after it. The faucet's budget (5) is no multiple of a drip (2),
so the boundary test is not met by accident; three drips of one address are allowed there, so that the
budget, and not the address limit, is what stops the third. A liveness property is checked in that
run, so it uses no symmetry and a short clock; the address limit needs windows and days that cut each other, and is
proved for every size (`AddressLimitHolds`); in the run it is a part of `Fund` that the budget never lets it reach. A log of
two entries loses one at the third deliberation. Three relayer transactions are two conflicting
ones and one that follows. Three events are a deploy, a
second one over it or beside it, and a merge, a demo, a recompilation or a restart of Anvil that meets either; what
three scripts at a time add is that all three overlap, which the proofs cover. One entry by another account
shifts every entry of the relayer after it, and one of the two requests may be another client's, whose
post (about the first law, under the number of the second) is one the bot must never ask for. The
outsider's mint and the face from others meet both wizards, and a wizard that reloads may
take the other's wallet before it does. Three reads under way can arrive in every order of old,
older and newest. One account is enough for the proposal page, where accounts meet
only in the tally; two token ids let it lose its cedula and get another. `MaxTokenId`, `MaxTime`, `MaxTxs`,
`MaxRestarts`, `MaxRequests`, `MaxOthers`, `MaxMints`, `MaxFaces`, `MaxRuns`, `MaxReads`, `MaxEvents`, `MaxDeploys`, `MaxSide`, `MaxMessages`, `MaxAnalyses` and
`MaxCouncils` appear only as guards of the action they bound. Symmetry is used for sets of
interchangeable values only, never with a liveness property.

`Mine` and the rest of the surroundings may stop at any time. All runs but `deployment` check deadlock: in every
bounded model some step stays enabled (a transfer call that reverts, a new request, a reload, a
restart). `deployment` may stop: its scripts end and nobody has to start another.

### Findings

1. *The faucet refunds wallets that have gas* (`faucet_refund`). The balance is read before the limits
   are taken; two requests for one wallet, or a retry while the first drip is pending, both send.
   `faucet.ts:3` says it does not.
2. *"Cedula minteada" without a cedula* (`registration_done`). The receipt's status is not read.
   Another wizard with the same document, mined between the estimate and the block, makes the
   transaction revert; the page reads token 0, registers the face and reports success. The face is
   then in Hermes for a cedula that does not exist.
3. *A restart begins the day's budget anew* (`faucet_restart`). What was spent today is in the memory of the
   process (`faucet.ts:45`). Two drips of a day exhaust the budget, the backend restarts, a third goes out on
   the same day. `faucet.ts:4` and `:17-18` call the budget global and daily, all a distributed attacker
   can spend. What does hold is the budget of one process (`WithinDailyBudget`, `ImplementsFund`).

### Observations

Seen in the modules, with no run of their own.

* "Reintenta" after a failed duplicate check cannot be followed: the button exists in state idle only
  (`StepVerify.tsx:49`; `Verify` of `Registration` is not enabled in state error).
* "Voto registrado" may be shown for a choice that was not counted: two tabs with the same identity
  and different choices, and the second transaction reverts (`votacion/page.tsx:79`; the receipt's
  status is not read).
* The bot anchors drafts as they come (`discord_bot_toxica.py:102`), while the whitepaper (line 235)
  calls publication and anchoring "explicit, separate, human actions".
* The proposal page asks another registry than `Vote`: `page.tsx:40` reads `CitizenRegistry.isRegistered`, while
  the deploy scripts give `Vote` the `IdentitySBT` and say that it determines citizenship
  (`deploy-local.ts:13-14`). The wizard only mints cedulas, so a citizen who has gone through it is told to
  register; an address of the old registry is shown buttons whose transaction reverts.
* A `deploy-accountability-zk` that read `zkTanenbaum.json` before another deploy wrote it puts the
  older contracts back (`deploy-accountability-zk.ts:53-57`; its header says it does not touch them). The file is still
  one complete deployment, as `FilesDescribeOneDeployment` says. Two deploys of one network side by side can likewise
  leave `deployments/` and the frontend with different deployments, each complete.
* A `deploy-local` under way while Anvil restarts writes a file (`deploy-local.ts:85`) whose older addresses
  lead nowhere or, since a fresh chain gives the same addresses again, to contracts of other names. Only what it
  learnt from the new chain is one deployment.
* The index of faces holds whatever anybody sends it (`main.py:211`; known limitations L-12 and L-15), so
  a citizen may be refused as a duplicate of nobody, as a restart lets a real duplicate pass.
* `/toxica` displays a refused request as an empty draft that can be approved; `sendEmail` of the
  wizard reports a refused mail as sent.

Consequences of the models that contradict no statement of the repository, and for which there is
no property: the council's `councils_run` is the length of a log cut at 50, while the advisors'
run counts go on; a running average of 8.0 over 19 or more runs is not moved by any
number of answers of confidence 7, because each is lost in the rounding (`DriftBounded` is how far this can
go); a report under an id no proposal has is written from the data of the first proposal (under the id of a
proposal it is written from that proposal's data, as `ImplementsAnchoring` says).

A further one, of the `Registration` model: when the read of the token id fails after a successful mint, every retry fails in the
estimate ("ya tenes cedula"), so the page never shows the cedula the citizen has.

## 4. Fairness

`Faucet` states weak fairness of `Handle(r)` for each request. Every await of the handler settles
by itself (each viem call has a timeout, the receipt wait 90 s), and the event loop resumes whatever
has settled. `Accountability` states weak fairness of `Bot(c)` for each command: both of its calls
end by the 90 s timeout of the client at the latest. Nothing is assumed of the backend there, nor
of the chain in either: `Mine` may never happen, and `EveryRequestAnswered` and
`EveryCommandAnswered` hold all the same.

`Pages` states weak fairness of the two polls (`setInterval` ticks as long as the page is mounted; the bound on reads
under way only delays a tick), strong fairness of the arrival of their answers (reads go out again and again, and of
infinitely many attempts some are answered), and weak fairness of the end of a console request and of an
analysis (a fetch settles, by an answer or an error). With these, `ShownCatchesUp` speaks of a visitor who
stays on a page: the values themselves stop changing at their bounds, and the page then shows the last. The
other modules state none.

## 5. Proofs

Every theorem holds for every value of the constants that satisfies the assumption of its module: any
number of wallets, requests, browsers, deliberations or runs, and any bound. The assumptions say that
null values (`NoAccount`, `NoHash`, `"none"`) are outside the sets they are the null values of, that
contracts are accounts, that amounts, windows and caps are positive, that bounds are naturals, that proposal 1
can be named, that an embedding is similar to itself, that
nullifiers of outsiders are not those of a browser's secret, that outsiders of the registration have wallets of their own,
that others' posts have natural numbers and are about a law, and that the requests to the faucet and the advisors are finitely many.
`PageAssumption` of `ProposalPage` contains those of the chain under it.

| Module | Theorem | States |
|---|---|---|
| `CivicChainProofs` | `TypeCorrect`, `HoldersAlwaysAgree` | `Spec => [](TypeOK /\ HoldersAgree)` |
| | `CommitmentsAreUnique` | `Spec => [](CommitmentsBoundOnce /\ BallotsComeFromCedulas)` |
| | `OnePersonOneBallot` | `Spec => []OneBallotPerPerson` |
| | `TallyIsTheBallots` | `Spec => []TallyCountsVoters` |
| | `LogTells` | `Spec => []LogTellsHolders` |
| | `CedulasAreSoulbound` | `Spec => Soulbound` |
| | `ResultsAreFinal` | `Spec => []ResultIsFinal` |
| | `ChainImplementsElection` | `Spec => ImplementsElection` |
| | `TransferAlwaysReverts` | a transfer call changes nothing, in any typed state |
| `FaucetProofs` | `TypeCorrect` | `Spec => []TypeOK` |
| | `DailyBudgetHolds` | `Spec => []WithinDailyBudget` |
| | `SpentCoversTheDay` | `Spec => []ReservedBeforeSent` |
| | `AddressLimitHolds` | `Spec => []WithinAddressLimit`, which no run checks |
| | `SentIsMined` | `Spec => []SentMeansMined` |
| | `FaucetKeepsItsPromise` | `Spec => ImplementsFund` |
| `RegistrationProofs` | `TypeCorrect` | `Spec => []TypeOK` |
| | `OneCedula` | `Spec => []OneCedulaPerDocument` |
| | `ShownIsOwn` | `Spec => []ShownCedulaIsOwn` |
| | `WizardsUseTheChain` | `Spec => Proved!Spec`: the contract under the wizards is that of `CivicChain` |
| | `CitizensDiffer` | `Spec => []CitizensAreDistinct` |
| `VotingPageProofs` | `TypeCorrect` | `Spec => []TypeOK` |
| | `PagesTellTheTruth` | `Spec => []PageToldTheTruth` |
| | `PageImplementsElection` | `Spec => ImplementsElection` |
| | `SiteTypeCorrect` | `Site!Spec => []Site!TypeOK`; `Site` is `Pages` |
| | `ConsoleAnswersInTurn` | `Site!Spec => []Site!QuestionsAnsweredInTurn` |
| | `PublishedReportWasApproved` | `Site!Spec => []Site!PublishedWasApproved` |
| `AccountabilityProofs` | `TypeCorrect` | `Spec => []TypeOK` |
| | `RequestsAreAnchoredOnce` | `Spec => []AnchoredOnce` |
| | `LinksAreAnchored` | `Spec => []LinkMeansAnchored` |
| | `ToxicaKeepsItsPromise` | `Spec => ImplementsAnchoring` |
| `CouncilProofs` | `TypeCorrect` | `Spec => []TypeOK` |
| | `RunsAreAccountedFor` | `Spec => []RunsAccountFor` |
| | `LogIsTheLatest` | `Spec => []LogKeepsLatest` |
| | `DriftIsBounded` | `Spec => []DriftBounded` |
| `DeploymentProofs` | `TypeCorrect` | `Spec => []TypeOK` |
| | `FilesAreOneDeployment` | `Spec => []FilesDescribeOneDeployment` |
| | `AbisAreNotOlder` | `Spec => []AbiNotOlder` |
| | `InscribedCitizensCanVote` | `Spec => []InscribedWhereVotesLook` |
| `ProposalPageProofs` | `PageUsesTheChain` | `Spec => Proved!Spec`: the chain under the page is `CivicChain` |
| | `TypeCorrect` | `Spec => []TypeOK` |
| | `BackendAnswersHold` | `Spec => []AnswersHold` |
| | `PageNeverGoesBack` | `Spec => ShownNeverGoesBack` |
| | `PageKeepsElection` | `Spec => Proved!ImplementsElection` |
| | `ShownCountsAreVoters` | `Spec => []CountsAreVoters`, which no run checks |

Each module has one inductive invariant (`Inv`, or a short sequence of them), a conjunction of named parts; one lemma
per part or per action shows that every step keeps it.

**`CivicChain`.** `TypeOK` is not inductive: `burn` subtracts from a balance, and that the balance was
positive is known only from `HoldersAgree`. Their conjunction, `Typed`, is inductive: one lemma per
action. `CommitmentsBoundOnce` needs more than itself: a new `Provenance` invariant says that every
issued cedula (log or frame) has an id below `nextId`, that distinct ones share nothing, that a token
somebody holds carries the dniHash it was issued with, and that every ballot was cast by the
holder its dniHash was issued to. One ballot per person follows: two ballots of one dniHash lead
to one cedula, hence to one holder, and `voted` lets an address vote once. Soulbound is an action
property: a burn sets an owner to none, a mint only touches `nextId`, and a transfer never goes
through, because the override lets a call pass only if one end is `address(0)` and ERC721's owner
check then stops it. The refinement shows that each step casts one ballot, certifies the result or
stutters; it rests on an invariant that relates the counters to the abstract ballots. For the log
(`LogTells`) `BurnsAreLogged` says that an issued cedula is not with its holder any more exactly if its burn is in the
log; "issued" includes the mints in `frames`, whose events are not out yet, and between transactions there are none.

**`Faucet`.** The budget is not inductive: a drip reserved before midnight may be sent
after it, when `spent` has been reset. `DaysWithin` therefore bounds, for every day, the drips sent
and the reservations still pending together; sending moves one from the second count to the first.
`Ordered` says that nothing is dated after the day the limits were last rolled to, so a new day (or
a new process) starts from zero, which is what `rollDay` assumes; `ReservedBeforeSent` then carries
the check of `checkFaucetLimit` over to the counts. `Awaiting` relates a handler to the transaction
it waits for. The limit of an address counts inside windows that slide, while the state holds one list that is
cut at the present: `Remembered` says that for every time `lo` no older than a window, the list has at least as many entries
after `lo` as there are reservations of today after `lo`, sent or pending. Because the list is sorted (`Listed`), what
the filter keeps is its end and the counts survive the cut (`KeepingTheEnd`). A reservation at `now` then
meets fewer than `MaxPerIp` others in every window that contains `now`.
`FaucetKeepsItsPromise` puts these together: that sending a drip is a step of `Fund` follows from the two limits in the state
after it (`GivenWithinLimits`), once it is known that a handler that has not sent has no transaction yet (`NotYet`) and that every
drip is charged to an address (`Charged`). All of it is about one process at a time: `ProcessesWithin` and `EarlierWithin` keep
what earlier ones gave, and a restart is `Forget`.

**`Registration`.** The contract keeps a document from a second cedula (`MintedOnce`: a document's commitment is used
by the one transaction that succeeded with it). That a wallet gets no second one either, after burning
the first, is the wizard's doing: no two wizards have the same wallet (`OneOwner`) and all transactions of a wallet
carry one document and one face (`SameHolder`). An outsider's mint can only take a document away (`OutsiderKeeps`). `Wizards` says what a wizard may hold at its step: the
transactions of its wallet are its own data's, the one it awaits has its face and, once it has gone on, is
no longer pending, and a number it shows is that of a cedula minted from its data. The page reads the
token of its wallet, not of its transaction, so `Pointed` is needed: what `tokenOfOwner` names was minted by a
transaction of that wallet.

Wizards and holders move the contract as `CivicChain` allows (`ChainStep`, with no account that has code and with
registry, votes and proposals untouched), so `CommitmentsBoundOnce` and `LogTellsHolders` are inherited. With the
invariant above they give `CitizensAreDistinct`: two wizards that show one token would have minted one cedula, hence have
one wallet, and `OneOwner` says they do not; and by the log the token shown is where it was minted unless it was burned
from there.

**`VotingPage`.** `Held` says that a page that votes or has voted holds a nullifier, `Sent` that the transaction
it awaits carries it, and `Settled` that whatever is in a block has used its nullifier, by itself or before.
The last is why a page is right although it does not look at the receipt's status: only a used
nullifier makes these transactions fail. `CastOnce` (every vote in the log has used its nullifier, no two
votes the same) makes the log a function from nullifiers to choices, and with it each step of a page or an
outsider casts one ballot of `Election` or stutters.

**`Pages`.** `Dialogue` says that greeting or answer and question alternate, each with its number, and that the last
message is a question exactly while one is under way; it rests on the test of `loading` inside `send`, because
`Offered` lets the visitor try again. `Polled` gives the types of what the two polls show and have under way. `Attended`
adds to `PublishedWasApproved` that while an analysis runs there is no report and nothing is published, without which
its answer could replace a report that is on display as approved.

**`Accountability`.** The bot remembers only the place of its transaction in the relayer's account, where drips lie between
the anchors as entries of others lie between its own in the log; so no index says which entry belongs to it. `Logged` says that
what the relayer has in the log is its anchors in blocks, one entry each, with their contents; `SentOnce` and `Awaited` that a transaction and the request it
was sent for name each other, which survives the bot's giving up and asking again; `Linked` that a link names such a
transaction in a block.

For `ToxicaKeepsItsPromise` a transaction must carry not only the number of its request but its proposal and its draft
(`SentOnce`), and a command that has a draft must have the one written for its id (`Served`). Then a block
with an anchor appends to the log what its request asked for, and that request enters `InLog`, where it was not:
the account holds one transaction for it. A request of another client
and an entry of another account are steps of their own of `Anchoring`; every other step of handler and account stutters.

**`Council`.** `RunsAccountFor` is an equation of counts over all slots, so each step is a lemma about adding or
removing one element of a set; a verdict keeps it only because a deliberation that reaches its synthesis has heard all
its advisors (`Phases`). The type of `ended` needs the deliberations that are still under way (`Running`), the
type of an average that confidences lie in 6..8 and the first run sets it (`Averages`). The drift bound is an invariant
by itself once the rounding is bounded: a run adds at most half a tenth, (n + 1) times.

**`Deployment`.** What a run or a file knows is each address together with the chain it was learnt from. `Knows` says that
the addresses learnt from the present chain are contracts of the right names, created by one run, and that its `Vote` asks
its `IdentitySBT`; the lemmas on `Grows` say that this survives whatever else is created on the chain, and
that a chain that starts anew leaves nothing known. `Scripts` says it of every run under way, with what it must have
deployed and copied by its step; `Files` (`Sound`) of both files of a network; `Merges` of the copy a merge holds, which
is why writing it back over a newer file leaves a whole deployment; no run needs to be alone. `Fresh` says that
ABIs are at least as new as the contracts known, for the ABIs a run has copied and for those of the frontend (`Abis`);
`Builds` bounds contracts and ABIs by the build of the artifacts, without which a copy of another run could make an ABI
older. `Demos` carries what a demo read, minted and saw. That zkTanenbaum never starts anew (`OneZk`) makes its files complete.

**`ProposalPage`.** First `PageUsesTheChain`: every step is a step of `CivicChain` with no account that has code, or a
stutter; of the wallet it needs only that it is connected to an account (`Wallet`). So every theorem of
`CivicChainProofs` holds under the page (`OnChain` names those the rest uses), and so does `NothingIsTakenBack`: no count falls,
no closed proposal reopens, no event disappears, nobody leaves the `CitizenRegistry`. `Shown` says that what the page shows is true of
the chain by now, `UnderWay` that an answer on its way lies between what is shown and what the chain says, and that it is the only
one to its query; without the latter the invariant is not inductive, and the page would go back. `Requests` says that the second read of
`getCitizenStatus` is made of an address to which a cedula was once minted; by `LogTellsHolders` a zero hash then means a burn.
The page also inherits `Election` from the chain (`PageKeepsElection`); `CountsAreVoters` follows from both: a count on
display, or in an answer of the backend, is at most the number of voters with a ballot for that choice, as the registry
tells voters apart.

`BallotsComeFromCedulas` (no ballot without a person), `ReservedBeforeSent` (what the state calls spent covers every
drip sent or pending), `WithinAddressLimit` and `CountsAreVoters` are properties that only the
theorems state; no run spends time on them.

**Only model-checked.** Liveness under fairness: `EveryRequestAnswered`, `EveryCommandAnswered`, `ShownCatchesUp`,
`WaitEnds`. It is out of the prover's reach and stays with TLC, as do the three runs that expect a violation. Every other
property of a run is proved. The types of `Accountability` and of `Faucet` are proved for all constants (`TypeCorrect`) and left out of
their runs.

## 6. Not modelled, and why

* Hashes, signatures, encryption, embeddings: opaque values; collisions are not a behaviour of this
  code. The keystore's backup guards nothing in the wizard (a checkbox).
* Gas prices, reorganisations: the code handles neither.
* Token URIs, prompts, texts, layout, figures and percentages, logging; the checks that the backend is
  configured (503).
* The report router and its store, the dashboard that lists them: one insert or query per request, no state
  between requests. Reporter, listener, memory of the agents: parsing and adapters.
* `rpc.py`: no code calls it, and its tests reach each branch. The channel coordinator: `register_person`
  runs to its end without an await and its tests reach each of its returns; its data goes with the process.
* The keystore backup and its mail: whether it was sent guards no later step.

## 7. Plan

What was planned is modelled, checked and proved. What a change of the code would bring in:

1. The keystore backup and the report router, once something in the code depends on their outcome.
2. `rpc.py`, once a module calls it.
3. The channel coordinator, once registering a person awaits anything.
