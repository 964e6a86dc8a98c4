----------------------------- MODULE Accountability -----------------------------
(******************************************************************************)
(* From /toxica in Discord to an entry of AccountabilityLog: the command of   *)
(* the bot (discord_bot_toxica.py, discord_common.py), the analysis by Hermes *)
(* (main.py, toxica.py), the anchoring handler of the backend                 *)
(* (accountability.ts), the relayer account and the contract.                 *)
(*                                                                            *)
(* The bot waits 90 s for an answer, as long as the handler may wait for its  *)
(* receipt; when it gives up, the handler goes on by itself.                  *)
(*                                                                            *)
(* Nothing here is reserved to the bot: anybody may post to the handler, which *)
(* then writes under the relayer's name, and any account may call anchor.     *)
(******************************************************************************)
EXTENDS Integers, Sequences, FiniteSets

CONSTANTS
    Command,       \* commands the bot can be serving at a time
    RequestId,     \* the ids users type
    Law,           \* the ids of mockdata.PROPOSALS
    FirstLaw,      \* PROPOSALS[0]
    OtherPost,     \* what others write: a proposal number, and the law it is about
    MaxRequests,   \* bound on anchoring requests
    MaxOthers,     \* bound on entries of the log from other accounts
    MaxTxs         \* bound on the relayer's transactions

ASSUME AccountabilityAssumption ==
    /\ RequestId \subseteq Int
    /\ Law \subseteq Nat
    /\ FirstLaw \in Law
    /\ OtherPost \subseteq [proposalId : Nat, law : Law]
    /\ {MaxRequests, MaxOthers, MaxTxs} \subseteq Nat

VARIABLES
    command,    \* command slot -> what the bot is doing
    handler,    \* the anchoring requests the backend accepted, in order
    pool,       \* the relayer's transactions, in nonce order
    mined,      \* how many of them are in a block
    reports,    \* AccountabilityLog.reports, with the relayer's transaction of each
    shown       \* history: the replies that carried a link to the chain

vars == <<command, handler, pool, mined, reports, shown>>

\* What the bot gets from Hermes.  law: whose data the post was written from.
NoDraft == [law |-> FirstLaw, text |-> FALSE, approved |-> FALSE]

\* request: the place in handler of the request the bot waits for.
Idle == [pc |-> "idle", id |-> 0, draft |-> NoDraft, request |-> 0]

Init ==
    /\ command = [c \in Command |-> Idle]
    /\ handler = <<>>
    /\ pool = <<>>
    /\ mined = 0
    /\ reports = <<>>
    /\ shown = {}

--------------------------------------------------------------------------------
(* The bot and Hermes. *)

Reply(c) == command' = [command EXCEPT ![c] = Idle]

Toxica(c, id) ==
    /\ command[c].pc = "idle"
    /\ command' = [command EXCEPT ![c].pc = "analyze", ![c].id = id]
    /\ UNCHANGED <<handler, pool, mined, reports, shown>>

\* The law whose data a post is written from: the one asked for or, when there is
\* none by that id, the first.
DataFor(id) == IF id \in Law THEN id ELSE FirstLaw

\* Bug: the data of the first law, whatever the id.
AnalyzedFirst(c) ==
    /\ command[c].pc = "analyze"
    /\ \E text \in BOOLEAN :
         command' = [command EXCEPT
           ![c].pc = "anchor",
           ![c].draft = [law |-> FirstLaw, text |-> text, approved |-> FALSE]]
    /\ UNCHANGED <<handler, pool, mined, reports, shown>>

\* Hermes drafts.  A provider of the LLM may give an empty text.  No
\* draft is approved.
Analyzed(c) ==
    /\ command[c].pc = "analyze"
    /\ \E text \in BOOLEAN :
         command' = [command EXCEPT
           ![c].pc = "anchor",
           ![c].draft = [law |-> DataFor(command[c].id), text |-> text, approved |-> FALSE]]
    /\ UNCHANGED <<handler, pool, mined, reports, shown>>

AnalyzeFails(c) ==
    /\ command[c].pc = "analyze"
    /\ Reply(c)
    /\ UNCHANGED <<handler, pool, mined, reports, shown>>

\* Bug: the bot waits for the backend without a timeout.
GiveUpNever(c) ==
    /\ command[c].pc = "anchor"
    /\ Reply(c)
    /\ UNCHANGED <<handler, pool, mined, reports, shown>>

\* The backend cannot be reached, or does not answer in 90 s: the reply carries
\* no link.  The handler, if there is one, does not notice.
GiveUp(c) ==
    /\ command[c].pc \in {"anchor", "wait"}
    /\ Reply(c)
    /\ UNCHANGED <<handler, pool, mined, reports, shown>>

--------------------------------------------------------------------------------
(* POST /accountability/anchor. *)

\* 400: the id is not a natural number, or the post is empty.
Refuse(c) ==
    /\ command[c].pc = "anchor"
    /\ command[c].id < 0 \/ ~command[c].draft.text
    /\ Reply(c)
    /\ UNCHANGED <<handler, pool, mined, reports, shown>>

\* The handler starts to anchor a post, asked for by the bot or by somebody else.
Take(by, proposalId, draft) ==
    /\ Len(handler) < MaxRequests
    /\ handler' = Append(handler, [pc |-> "prepare", by |-> by, proposalId |-> proposalId,
                                   draft |-> draft, nonce |-> 0, tx |-> 0])

\* Bug: the id is not checked.
AcceptAnyId(c) ==
    /\ command[c].pc = "anchor"
    /\ command[c].draft.text
    /\ Take("bot", command[c].id, command[c].draft)
    /\ command' = [command EXCEPT ![c].pc = "wait", ![c].request = Len(handler) + 1]
    /\ UNCHANGED <<pool, mined, reports, shown>>

Accept(c) ==
    /\ command[c].pc = "anchor"
    /\ command[c].id >= 0
    /\ command[c].draft.text
    /\ Take("bot", command[c].id, command[c].draft)
    /\ command' = [command EXCEPT ![c].pc = "wait", ![c].request = Len(handler) + 1]
    /\ UNCHANGED <<pool, mined, reports, shown>>

DraftOn(law) == [law |-> law, text |-> TRUE, approved |-> FALSE]

\* The route asks nobody who he is: any client may have a post anchored, under any
\* number, whatever it says.
AnybodyPosts(post) ==
    /\ Take("other", post.proposalId, DraftOn(post.law))
    /\ UNCHANGED <<command, pool, mined, reports, shown>>

\* The handler answers: if somebody still waits for it, he shows its link when
\* it has one.
Answer(h, linked) ==
    LET waiting == {c \in Command : command[c].pc = "wait" /\ command[c].request = h}
    IN  /\ handler' = [handler EXCEPT ![h].pc = "answered"]
        /\ command' = [c \in Command |-> IF c \in waiting THEN Idle ELSE command[c]]
        /\ shown' = IF linked /\ waiting # {}
                    THEN shown \cup {[proposalId |-> handler[h].proposalId,
                                      law |-> handler[h].draft.law, tx |-> handler[h].tx]}
                    ELSE shown

\* writeContract reads the relayer's pending nonce...
NonceRead(h) ==
    /\ handler[h].pc = "prepare"
    /\ handler' = [handler EXCEPT ![h].pc = "broadcast", ![h].nonce = Len(pool) + 1]
    /\ UNCHANGED <<command, pool, mined, reports, shown>>

\* ... and sends the transaction, if the nonce is still the next one.
Broadcast(h) ==
    /\ handler[h].pc = "broadcast"
    /\ handler[h].nonce = Len(pool) + 1
    /\ Len(pool) < MaxTxs
    /\ pool' = Append(pool, [proposalId |-> handler[h].proposalId,
                             draft |-> handler[h].draft, request |-> h])
    /\ handler' = [handler EXCEPT ![h].pc = "receipt", ![h].tx = Len(pool) + 1]
    /\ UNCHANGED <<command, mined, reports, shown>>

\* Bug: a link to the transaction is given before it is in a block.
ReceiptNotAwaited(h) ==
    /\ handler[h].pc = "receipt"
    /\ Answer(h, TRUE)
    /\ UNCHANGED <<pool, mined, reports>>

Receipt(h) ==
    /\ handler[h].pc = "receipt"
    /\ handler[h].tx <= mined
    /\ Answer(h, TRUE)
    /\ UNCHANGED <<pool, mined, reports>>

\* Bug: the handler tries again, whatever it had already sent.
FailAndRetry(h) ==
    /\ handler[h].pc \in {"prepare", "broadcast", "receipt"}
    /\ handler' = [handler EXCEPT ![h].pc = "prepare"]
    /\ UNCHANGED <<command, pool, mined, reports, shown>>

\* Any await fails (a nonce taken by somebody else among the reasons), or the
\* receipt times out: 500.
Fail(h) ==
    /\ handler[h].pc \in {"prepare", "broadcast", "receipt"}
    /\ Answer(h, FALSE)
    /\ UNCHANGED <<pool, mined, reports>>

--------------------------------------------------------------------------------
(* The chain and the relayer's other user. *)

IsAnchor(tx) == tx.request # 0

\* The faucet sends from the same account.
Drip ==
    /\ Len(pool) < MaxTxs
    /\ pool' = Append(pool, [proposalId |-> 0, draft |-> NoDraft, request |-> 0])
    /\ UNCHANGED <<command, handler, mined, reports, shown>>

\* AccountabilityLog.anchor: append, never fail, whoever calls.
AnchorCall(proposalId, draft, reporter, tx) ==
    reports' = Append(reports, [proposalId |-> proposalId, draft |-> draft,
                                reporter |-> reporter, tx |-> tx])

Mine ==
    /\ mined < Len(pool)
    /\ mined' = mined + 1
    /\ IF IsAnchor(pool[mined + 1])
       THEN AnchorCall(pool[mined + 1].proposalId, pool[mined + 1].draft, "relayer", mined + 1)
       ELSE UNCHANGED reports
    /\ UNCHANGED <<command, handler, pool, shown>>

FromOthers == {k \in DOMAIN reports : reports[k].reporter = "other"}

\* Any account calls the contract itself, which checks nothing.
AnybodyAnchors(post) ==
    /\ Cardinality(FromOthers) < MaxOthers
    /\ AnchorCall(post.proposalId, DraftOn(post.law), "other", 0)
    /\ UNCHANGED <<command, handler, pool, mined, shown>>

Others == \E post \in OtherPost : AnybodyPosts(post) \/ AnybodyAnchors(post)

Bot(c) == Analyzed(c) \/ AnalyzeFails(c) \/ Refuse(c) \/ Accept(c) \/ GiveUp(c)

Backend(h) == NonceRead(h) \/ Broadcast(h) \/ Receipt(h) \/ Fail(h)

Next ==
    \/ \E c \in Command, id \in RequestId : Toxica(c, id)
    \/ \E c \in Command : Bot(c)
    \/ \E h \in DOMAIN handler : Backend(h)
    \/ Drip
    \/ Mine
    \/ Others

\* Both calls of a command end by their client's 90 s timeout at the latest.
\* Nothing is assumed of the backend and of the chain.
Fairness == \A c \in Command : WF_vars(Bot(c))

Spec == Init /\ [][Next]_vars /\ Fairness

--------------------------------------------------------------------------------
(* Properties. *)

Draft == [law : Law, text : BOOLEAN, approved : BOOLEAN]
Report == [proposalId : Nat, draft : Draft, reporter : {"relayer", "other"}, tx : Nat]

CommandState == [pc : {"idle", "analyze", "anchor", "wait"}, id : RequestId \cup {0},
                 draft : Draft, request : Nat]

HandlerState == [pc : {"prepare", "broadcast", "receipt", "answered"},
                 by : {"bot", "other"}, proposalId : Nat, draft : Draft, nonce : Nat, tx : Nat]

\* Every variable has its type.
TypeOK ==
    /\ command \in [Command -> CommandState]
    /\ handler \in Seq(HandlerState)
    /\ pool \in Seq([proposalId : Nat, draft : Draft, request : Nat])
    /\ mined \in 0 .. Len(pool)
    /\ reports \in Seq(Report)
    /\ shown \subseteq [proposalId : Nat, law : Law, tx : Nat]

\* The entries of the log the relayer made: its transactions tell them from the ones
\* others wrote in between.
FromRelayer == {k \in DOMAIN reports : reports[k].reporter = "relayer"}

\* "Anclado inmutable on-chain": the transaction behind every link the bot has shown
\* made an entry of the log, with this proposal and this post, whatever other
\* commands, clients, accounts, drips and timeouts came between.
LinkMeansAnchored ==
    \A s \in shown :
        /\ s.tx \in 1 .. mined
        /\ \E k \in FromRelayer :
             /\ reports[k].tx = s.tx
             /\ reports[k].proposalId = s.proposalId
             /\ reports[k].draft.law = s.law

\* A request is anchored once: timeouts and failures of the handler never lead
\* to a second transaction for the same request, and of the log the relayer made
\* exactly its anchors in blocks, each one entry.
AnchoredOnce ==
    /\ \A i, j \in DOMAIN pool :
         IsAnchor(pool[i]) /\ pool[i].request = pool[j].request => i = j
    /\ \A k, l \in FromRelayer : reports[k].tx = reports[l].tx => k = l
    /\ {reports[k].tx : k \in FromRelayer} = {i \in 1 .. mined : IsAnchor(pool[i])}

\* What the bot may ask to be anchored: a post that is not empty, under a natural number
\* some user typed, written from the data of that law if there is one.
Publishable ==
    {[proposalId |-> id, draft |-> DraftOn(DataFor(id))] : id \in RequestId \cap Nat}

\* What others may write.
Writable ==
    {[proposalId |-> post.proposalId, draft |-> DraftOn(post.law)] : post \in OtherPost}

\* What the handler accepted and for whom, the log, which requests are in it, and
\* whose asker got a link.
Requests == [h \in DOMAIN handler |->
               [content |-> [proposalId |-> handler[h].proposalId, draft |-> handler[h].draft],
                by |-> handler[h].by]]
Entries == [k \in DOMAIN reports |->
              [content |-> [proposalId |-> reports[k].proposalId, draft |-> reports[k].draft],
               reporter |-> reports[k].reporter]]
InLog == {pool[i].request : i \in {j \in 1 .. mined : IsAnchor(pool[j])}}
Told == {pool[s.tx].request : s \in shown}

\* Bot, Hermes, handler, account and contract together keep the promise of Anchoring
\* among other clients and other accounts: whatever is late, fails or is given up, what
\* the relayer writes was asked for, each request enters the log at most once and
\* unchanged, and links are for requests of the bot that it holds.
Anchored == INSTANCE Anchoring WITH
    BotContent <- Publishable, OtherContent <- Writable,
    requested <- Requests, log <- Entries, anchored <- InLog, linked <- Told
ImplementsAnchoring == Anchored!Spec

\* The user of the bot gets a reply even when backend and chain stand still.
EveryCommandAnswered ==
    \A c \in Command : command[c].pc # "idle" ~> command[c].pc = "idle"

================================================================================
