------------------------------ MODULE ProposalPage ------------------------------
(******************************************************************************)
(* The public vote as a citizen meets it: the page /propuesta/[id] with its   *)
(* wallet button, the chain of the deploy scripts (Vote wired to IdentitySBT, *)
(* no voter with code), and the backend's tRPC reads of the same contracts.   *)
(*                                                                            *)
(* The page's three queries are cached by react-query: an answer under way is *)
(* in `reading` with what the node read, the cache keeps the last answer.     *)
(* Page and backend meet only on the chain, where World makes any move of the *)
(* other, so a behaviour follows one of them: client says which.              *)
(******************************************************************************)
EXTENDS Integers, Sequences, FiniteSets

CONSTANTS
    Account,      \* wallet addresses
    Dni, Face, NoAccount, NoHash, ProposalId, MaxTokenId, MaxTime,  \* as in CivicChain
    PageId,       \* the id in the page's URL
    MaxReads,     \* bound on answers under way to the page
    MaxTxs        \* bound on castVote transactions waiting to be mined

ASSUME PageAssumption ==
    /\ NoAccount \notin Account
    /\ NoHash \notin Dni \cup Face
    /\ 1 \in ProposalId /\ ProposalId \subseteq Nat
    /\ PageId \in ProposalId
    /\ {MaxTokenId, MaxTime, MaxReads, MaxTxs} \subseteq Nat

VARIABLES
    nextId, dniOf, tokenOfOwner, usedDni, usedFace, owner, balance, frames,
    cedulaMinted, cedulaBurned, hashes,
    registry, proposals, count, voted, proposalClosed, timestamp, ballots,
    client,       \* who reads the chain in this behaviour
    connected,    \* useAccount: the wallet's address, NoAccount when disconnected
    closed,       \* cache of getProposal: "unknown", "no" or "yes"
    tally,        \* cache of tally: <<>> until the first answer
    registered,   \* cache of isRegistered, one entry per address
    reading,      \* answers on their way to the page
    pending,      \* isPending: the castVote waiting for the wallet's signature
    sent,         \* castVote transactions waiting to be mined, in nonce order
    request       \* one tRPC request of the backend

Chain == INSTANCE CivicChain WITH Contract <- {}

chainVars == <<nextId, dniOf, tokenOfOwner, usedDni, usedFace, owner, balance, frames,
               cedulaMinted, cedulaBurned, hashes, registry, proposals, count, voted,
               proposalClosed, timestamp, ballots>>
pageVars == <<connected, closed, tally, registered, reading, pending, sent>>
vars == <<chainVars, client, pageVars, request>>

Answer == {"unknown", "no", "yes"}
Said(b) == IF b THEN "yes" ELSE "no"

NoRequest == [kind |-> "none", address |-> NoAccount, at |-> "idle",
              registered |-> FALSE, hash |-> NoHash, closed |-> FALSE, tally |-> <<>>]

\* The chain right after a deploy script, the page just opened.
Init ==
    /\ Chain!Init
    /\ registry = "IdentitySBT"
    /\ proposals[1].openAt = timestamp
    /\ client \in {"page", "backend"}
    /\ connected = NoAccount
    /\ closed = "unknown"
    /\ tally = <<>>
    /\ registered = [a \in Account |-> "unknown"]
    /\ reading = {}
    /\ pending = {}
    /\ sent = <<>>
    /\ request = NoRequest

--------------------------------------------------------------------------------
(* The chain, moved by everybody else (other tabs, other pages, time).        *)

World ==
    /\ \/ \E a \in Account :
            \/ \E d \in Dni, f \in Face : Chain!Mint(a, d, f)
            \/ \E t \in 1 .. MaxTokenId : Chain!Burn(a, t)
            \/ \E d \in Dni : Chain!Register(a, d)
            \/ \E id \in ProposalId, c \in Chain!Poll!Choice : Chain!CastVote(a, id, c)
       \/ \E id \in ProposalId : Chain!Close(id)
       \/ Chain!NextBlock
    /\ UNCHANGED <<client, pageVars, request>>

--------------------------------------------------------------------------------
(* The wallet button.                                                         *)

Connect(a) ==
    /\ client = "page"
    /\ connected = NoAccount
    /\ connected' = a
    /\ UNCHANGED <<chainVars, client, closed, tally, registered, reading, pending, sent, request>>

Disconnect ==
    /\ connected # NoAccount
    /\ connected' = NoAccount
    /\ UNCHANGED <<chainVars, client, closed, tally, registered, reading, pending, sent, request>>

--------------------------------------------------------------------------------
(* The queries.  Each may run again at any time: tally every five seconds, the *)
(* others when the window regains focus or the address changes.               *)

Query ==
    [query : {"proposal", "tally"}, account : {NoAccount}]
    \cup [query : {"registered"}, account : {connected} \ {NoAccount}]

\* What the node answers.  isRegistered goes to the CitizenRegistry address.
ReadAt(q) ==
    [query |-> q.query, account |-> q.account,
     closed |-> Said(proposals[PageId].closed),
     tally |-> IF q.query = "tally" THEN count[PageId] ELSE <<>>,
     registered |->
         IF q.query = "registered" THEN Said(Chain!Citizens!IsRegistered(q.account))
                                   ELSE "unknown"]

\* Bug: a query runs again while it is still waiting for its answer.
ReadOverlapping(q) ==
    /\ client = "page" /\ Cardinality(reading) < MaxReads
    /\ reading' = reading \cup {ReadAt(q)}
    /\ UNCHANGED <<chainVars, client, connected, closed, tally, registered, pending, sent,
                   request>>

\* One run of a query at a time; the node answers from its latest block.
Read(q) ==
    /\ client = "page" /\ Cardinality(reading) < MaxReads
    /\ ~ \E r \in reading : r.query = q.query /\ r.account = q.account
    /\ reading' = reading \cup {ReadAt(q)}
    /\ UNCHANGED <<chainVars, client, connected, closed, tally, registered, pending, sent,
                   request>>

\* The answer arrives and replaces the cached one.
Arrive(r) ==
    /\ reading' = reading \ {r}
    /\ closed' = IF r.query = "proposal" THEN r.closed ELSE closed
    /\ tally' = IF r.query = "tally" THEN r.tally ELSE tally
    /\ registered' = IF r.query = "registered"
                     THEN [registered EXCEPT ![r.account] = r.registered]
                     ELSE registered
    /\ UNCHANGED <<chainVars, client, connected, pending, sent, request>>

\* The read fails after its retries: the cached answer stays.
Lost(r) ==
    /\ reading' = reading \ {r}
    /\ UNCHANGED <<chainVars, client, connected, closed, tally, registered, pending, sent,
                   request>>

--------------------------------------------------------------------------------
(* Voting.                                                                    *)

\* The buttons: shown to a connected, registered address while the proposal is
\* not known to be closed, and disabled while a signature is pending.
MayClick ==
    /\ connected # NoAccount
    /\ registered[connected] = "yes"
    /\ closed # "yes"
    /\ pending = {}

\* Bug: the buttons stay enabled while the wallet asks for a signature.
ClickVoteAgain(c) ==
    /\ client = "page" /\ connected # NoAccount
    /\ registered[connected] = "yes"
    /\ closed # "yes"
    /\ pending' = pending \cup {[voter |-> connected, choice |-> c]}
    /\ UNCHANGED <<chainVars, client, connected, closed, tally, registered, reading, sent,
                   request>>

ClickVote(c) ==
    /\ MayClick
    /\ pending' = {[voter |-> connected, choice |-> c]}
    /\ UNCHANGED <<chainVars, client, connected, closed, tally, registered, reading, sent,
                   request>>

Sign ==
    /\ pending # {}
    /\ Len(sent) < MaxTxs
    /\ \E tx \in pending : sent' = Append(sent, tx)
    /\ pending' = {}
    /\ UNCHANGED <<chainVars, client, connected, closed, tally, registered, reading, request>>

Reject ==
    /\ pending # {}
    /\ pending' = {}
    /\ UNCHANGED <<chainVars, client, connected, closed, tally, registered, reading, sent,
                   request>>

\* A transaction is mined, behind the earlier ones of its voter: it votes, or
\* reverts and changes nothing.  The page waits for no receipt.
Mine(i) ==
    /\ \A j \in 1 .. i - 1 : sent[j].voter # sent[i].voter
    /\ sent' = SubSeq(sent, 1, i - 1) \o SubSeq(sent, i + 1, Len(sent))
    /\ LET a == sent[i].voter
       IN  IF Chain!Poll!MayCastVote(a, PageId, Chain!IsRegistered(a))
           THEN Chain!CastVote(a, PageId, sent[i].choice)
           ELSE UNCHANGED chainVars
    /\ UNCHANGED <<client, connected, closed, tally, registered, reading, pending, request>>

--------------------------------------------------------------------------------
(* The backend: a request lives in its handler only, so one stands for all.   *)
(* REGISTRY_ADDRESS is the IdentitySBT (docs/deployment-vercel-railway.md).   *)

Kind == {"isRegistered", "status", "proposal", "tally"}

\* The request goes out; none of these procedures writes.
Ask(kind, a) ==
    /\ client = "backend"
    /\ request.at = "idle"
    /\ request' = [NoRequest EXCEPT !.kind = kind, !.address = a, !.at = "first"]
    /\ UNCHANGED <<chainVars, client, pageVars>>

GetProposal ==
    /\ request.kind = "proposal" /\ request.at = "first"
    /\ request' = [request EXCEPT !.at = "answered", !.closed = proposals[PageId].closed]
    /\ UNCHANGED <<chainVars, client, pageVars>>

GetTally ==
    /\ request.kind = "tally" /\ request.at = "first"
    /\ request' = [request EXCEPT !.at = "answered", !.tally = count[PageId]]
    /\ UNCHANGED <<chainVars, client, pageVars>>

\* isRegistered, also as the first half of getCitizenStatus.
ReadRegistered ==
    LET says == Chain!Identity!IsRegistered(request.address)
    IN  /\ request.kind \in {"isRegistered", "status"} /\ request.at = "first"
        /\ request' = [request EXCEPT
               !.registered = says,
               !.at = IF request.kind = "status" /\ says THEN "second" ELSE "answered"]
        /\ UNCHANGED <<chainVars, client, pageVars>>

\* Bug: the two halves ask two registries.
ReadHashElsewhere ==
    /\ request.at = "second"
    /\ request' = [request EXCEPT !.at = "answered", !.hash = hashes[request.address]]
    /\ UNCHANGED <<chainVars, client, pageVars>>

\* The second half, at a later block.
ReadHash ==
    /\ request.at = "second"
    /\ request' = [request EXCEPT
           !.at = "answered", !.hash = Chain!Identity!HashOf(request.address)]
    /\ UNCHANGED <<chainVars, client, pageVars>>

\* The answer reaches its client, or a read failed and the client gets an error.
Reply ==
    /\ request.at # "idle"
    /\ request' = NoRequest
    /\ UNCHANGED <<chainVars, client, pageVars>>

Next ==
    \/ World
    \/ \E a \in Account : Connect(a)
    \/ Disconnect
    \/ \E q \in Query : Read(q)
    \/ \E r \in reading : Arrive(r) \/ Lost(r)
    \/ \E c \in Chain!Poll!Choice : ClickVote(c)
    \/ Sign
    \/ Reject
    \/ \E i \in 1 .. Len(sent) : Mine(i)
    \/ \E kind \in Kind, a \in Account : Ask(kind, a)
    \/ GetProposal
    \/ GetTally
    \/ ReadRegistered
    \/ ReadHash
    \/ Reply

Spec == Init /\ [][Next]_vars

--------------------------------------------------------------------------------
(* Properties.                                                                *)

Tally == [Chain!Poll!Choice -> Nat]
Ballot == [voter : Account, choice : Chain!Poll!Choice]
Reading == [query : {"proposal", "tally", "registered"},
            account : Account \cup {NoAccount},
            closed : Answer, tally : Tally \cup {<<>>}, registered : Answer]
Request == [kind : Kind \cup {"none"}, address : Account \cup {NoAccount},
            at : {"idle", "first", "second", "answered"}, registered : BOOLEAN,
            hash : Dni \cup {NoHash}, closed : BOOLEAN, tally : Tally \cup {<<>>}]

\* Every variable of the page and of the backend has its type.
TypeOK ==
    /\ client \in {"page", "backend"}
    /\ connected \in Account \cup {NoAccount}
    /\ closed \in Answer
    /\ tally \in Tally \cup {<<>>}
    /\ registered \in [Account -> Answer]
    /\ reading \subseteq Reading
    /\ pending \subseteq Ballot /\ Cardinality(pending) <= 1
    /\ sent \in Seq(Ballot) /\ Len(sent) <= MaxTxs
    /\ request \in Request

\* t has no choice with more votes than u.
AtMost(t, u) == \A c \in Chain!Poll!Choice : t[c] <= u[c]

\* The page never goes back in time: while answers overtake votes and each other,
\* no count it shows falls, a closed proposal never reopens and a registered
\* address never has to register again.
ShownNeverGoesBack ==
    [][/\ tally # <<>> => tally' # <<>> /\ AtMost(tally, tally')
       /\ closed = "yes" => closed' = "yes"
       /\ \A a \in Account : registered[a] = "yes" => registered'[a] = "yes"]_vars

\* What the backend answers was true on the chain, although getCitizenStatus
\* reads at two blocks: a hash is one a cedula was issued under to that very
\* address, the zero hash of a registered citizen means a burn in between, and
\* a result or a closing is never reported before it happened.
AnswersHold ==
    request.at = "answered" =>
        /\ request.kind = "status" /\ request.registered =>
             IF request.hash = NoHash
             THEN \E b \in cedulaBurned : b.holder = request.address
             ELSE \E m \in cedulaMinted :
                    m.holder = request.address /\ m.dni = request.hash
        /\ ~request.registered => request.hash = NoHash
        /\ request.kind = "isRegistered" /\ request.registered =>
             \E m \in cedulaMinted : m.holder = request.address
        /\ request.closed => proposals[PageId].closed
        /\ request.kind = "tally" => AtMost(request.tally, count[PageId])

================================================================================
