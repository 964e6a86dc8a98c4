-------------------------- MODULE AccountabilityProofs --------------------------
(******************************************************************************)
(* Theorems about Accountability, for every value of its constants.           *)
(*                                                                            *)
(* A link is shown long after its transaction was sent, by a handler that     *)
(* remembers only the place of the transaction in the relayer's account.      *)
(* What carries the proofs is that this place and the request the transaction *)
(* was sent for name each other (SentOnce, Awaited), and that what the log has *)
(* from the relayer is its anchors in blocks, one entry each, whoever else    *)
(* writes to the log in between (Logged).                                     *)
(******************************************************************************)
EXTENDS Accountability, TLAPS

\* A transaction that anchors is the one its handler sent, with what was asked.
SentOnce ==
    \A i \in DOMAIN pool :
        IsAnchor(pool[i]) =>
            /\ pool[i].request \in DOMAIN handler
            /\ handler[pool[i].request].pc \in {"receipt", "answered"}
            /\ handler[pool[i].request].tx = i
            /\ pool[i].proposalId = handler[pool[i].request].proposalId
            /\ pool[i].draft = handler[pool[i].request].draft

\* A handler that waits for a receipt has sent what it was asked to anchor.
Awaited ==
    \A h \in DOMAIN handler :
        handler[h].pc = "receipt" =>
            /\ handler[h].tx \in DOMAIN pool
            /\ pool[handler[h].tx].request = h
            /\ pool[handler[h].tx].proposalId = handler[h].proposalId
            /\ pool[handler[h].tx].draft = handler[h].draft

\* What the relayer has in the log is its anchors in blocks, one entry each.
Logged ==
    /\ \A k \in FromRelayer :
         /\ reports[k].tx \in 1 .. mined
         /\ IsAnchor(pool[reports[k].tx])
         /\ reports[k].proposalId = pool[reports[k].tx].proposalId
         /\ reports[k].draft = pool[reports[k].tx].draft
    /\ \A i \in 1 .. mined : IsAnchor(pool[i]) => \E k \in FromRelayer : reports[k].tx = i
    /\ \A k, l \in FromRelayer : reports[k].tx = reports[l].tx => k = l

\* A link that was shown names an anchor in a block and tells its contents.
Linked ==
    \A s \in shown :
        /\ s.tx \in 1 .. mined
        /\ IsAnchor(pool[s.tx])
        /\ pool[s.tx].proposalId = s.proposalId
        /\ pool[s.tx].draft.law = s.law

Inv ==
    /\ TypeOK
    /\ SentOnce
    /\ Awaited
    /\ Logged
    /\ Linked

--------------------------------------------------------------------------------
(* The records.                                                               *)

Tx == [proposalId : Nat, draft : Draft, request : Nat]

LEMMA Drafts ==
    /\ NoDraft \in Draft
    /\ Idle \in CommandState
<1>1. NoDraft \in Draft
  BY AccountabilityAssumption DEF NoDraft, Draft
<1>2. QED
  BY <1>1 DEF Idle, CommandState

LEMMA Types ==
    ASSUME TypeOK
    PROVE  /\ command \in [Command -> CommandState]
           /\ handler \in Seq(HandlerState)
           /\ pool \in Seq(Tx)
           /\ Len(pool) \in Nat /\ mined \in Nat /\ mined <= Len(pool)
           /\ DOMAIN pool = 1 .. Len(pool)
           /\ DOMAIN handler = 1 .. Len(handler) /\ Len(handler) \in Nat
           /\ reports \in Seq(Report)
           /\ shown \subseteq [proposalId : Nat, law : Law, tx : Nat]
  BY DEF TypeOK, Tx

\* One entry is appended to the log.
LEMMA LogGrows ==
    ASSUME reports \in Seq(Report), NEW new \in Report, reports' = Append(reports, new)
    PROVE  /\ reports' \in Seq(Report)
           /\ DOMAIN reports' = DOMAIN reports \cup {Len(reports) + 1}
           /\ Len(reports) + 1 \notin DOMAIN reports
           /\ reports'[Len(reports) + 1] = new
           /\ \A k \in DOMAIN reports : reports'[k] = reports[k]
           /\ FromRelayer' = FromRelayer \cup
                               {k \in {Len(reports) + 1} : new.reporter = "relayer"}
<1>1. /\ reports' \in Seq(Report)
      /\ DOMAIN reports' = DOMAIN reports \cup {Len(reports) + 1}
      /\ Len(reports) + 1 \notin DOMAIN reports
      /\ reports'[Len(reports) + 1] = new
      /\ \A k \in DOMAIN reports : reports'[k] = reports[k]
  OBVIOUS
<1>2. QED
  BY <1>1 DEF FromRelayer

--------------------------------------------------------------------------------
(* The bot.                                                                   *)

\* What only the bot remembers does not matter to the anchors.
LEMMA CommandKeeps ==
    ASSUME Inv, command' \in [Command -> CommandState],
           UNCHANGED <<handler, pool, mined, reports, shown>>
    PROVE  Inv'
<1>1. TypeOK'
  BY DEF Inv, TypeOK
<1>2. SentOnce' /\ Awaited' /\ Linked'
  BY DEF Inv, SentOnce, Awaited, Linked, IsAnchor
<1>3. Logged'
  BY DEF Inv, Logged, IsAnchor, FromRelayer
<1>4. QED
  BY <1>1, <1>2, <1>3 DEF Inv

LEMMA ReplyKeeps ==
    ASSUME Inv, NEW c \in Command, Reply(c),
           UNCHANGED <<handler, pool, mined, reports, shown>>
    PROVE  Inv'
<1>1. command' \in [Command -> CommandState]
  BY Drafts DEF Reply, Inv, TypeOK
<1>2. QED
  BY <1>1, CommandKeeps

LEMMA ToxicaKeeps ==
    ASSUME Inv, NEW c \in Command, NEW id \in RequestId, Toxica(c, id)
    PROVE  Inv'
<1>1. PICK x : x = [command[c] EXCEPT !.pc = "analyze", !.id = id]
  OBVIOUS
<1>2. command' = [command EXCEPT ![c] = x]
  BY <1>1, Zenon DEF Toxica
<1>3. command \in [Command -> CommandState]
  BY DEF Inv, TypeOK
<1>4. x \in CommandState
  BY <1>1, <1>3 DEF CommandState
<1>5. command' \in [Command -> CommandState]
  BY <1>2, <1>3, <1>4
<1>6. QED
  BY <1>5, CommandKeeps DEF Toxica

LEMMA AnalyzedKeeps ==
    ASSUME Inv, NEW c \in Command, Analyzed(c)
    PROVE  Inv'
<1>1. PICK draft \in Draft :
             command' = [command EXCEPT ![c].pc = "anchor", ![c].draft = draft]
  <2>1. PICK text \in BOOLEAN :
               command' = [command EXCEPT
                 ![c].pc = "anchor",
                 ![c].draft = [law |-> DataFor(command[c].id), text |-> text,
                               approved |-> FALSE]]
    BY Zenon DEF Analyzed
  <2>2. [law |-> DataFor(command[c].id), text |-> text, approved |-> FALSE] \in Draft
    BY AccountabilityAssumption DEF Draft, DataFor
  <2>3. QED
    BY <2>1, <2>2, Zenon
<1>2. PICK x : x = [command[c] EXCEPT !.pc = "anchor", !.draft = draft]
  OBVIOUS
<1>3. command' = [command EXCEPT ![c] = x]
  BY <1>1, <1>2, Zenon
<1>4. command \in [Command -> CommandState]
  BY DEF Inv, TypeOK
<1>5. x \in CommandState
  BY <1>2, <1>4 DEF CommandState
<1>6. command' \in [Command -> CommandState]
  BY <1>3, <1>4, <1>5
<1>7. QED
  BY <1>6, CommandKeeps DEF Analyzed

--------------------------------------------------------------------------------
(* The handler.                                                               *)

\* The handler starts on a request, whoever made it.
LEMMA TakeKeeps ==
    ASSUME Inv, NEW by \in {"bot", "other"}, NEW proposalId \in Nat, NEW draft \in Draft,
           Take(by, proposalId, draft), command' \in [Command -> CommandState],
           UNCHANGED <<pool, mined, reports, shown>>
    PROVE  Inv'
<1>1. PICK new : new = [pc |-> "prepare", by |-> by, proposalId |-> proposalId,
                        draft |-> draft, nonce |-> 0, tx |-> 0]
  OBVIOUS
<1>2. handler' = Append(handler, new)
  BY <1>1 DEF Take
<1>3. new \in HandlerState
  BY <1>1 DEF HandlerState
<1>4. /\ handler' \in Seq(HandlerState)
      /\ DOMAIN handler' = 1 .. Len(handler) + 1
      /\ \A h \in DOMAIN handler : h \in DOMAIN handler' /\ handler'[h] = handler[h]
      /\ handler'[Len(handler) + 1] = new
  BY <1>2, <1>3, Types DEF Inv
<1>5. TypeOK'
  BY <1>4 DEF Inv, TypeOK
<1>6. SentOnce'
  BY <1>4 DEF Inv, SentOnce, IsAnchor
<1>7. Awaited'
  <2>1. new.pc = "prepare"
    BY <1>1
  <2>2. ASSUME NEW h \in DOMAIN handler', handler'[h].pc = "receipt"
        PROVE  h \in DOMAIN handler /\ handler'[h] = handler[h]
    BY <2>1, <2>2, <1>4, Types DEF Inv
  <2>3. QED
    BY <2>2 DEF Inv, Awaited
<1>8. Logged' /\ Linked'
  BY DEF Inv, Logged, Linked, IsAnchor, FromRelayer
<1>9. QED
  BY <1>5, <1>6, <1>7, <1>8 DEF Inv

LEMMA AcceptKeeps ==
    ASSUME Inv, NEW c \in Command, Accept(c)
    PROVE  Inv'
<1>1. PICK request : request = Len(handler) + 1
  OBVIOUS
<1>2. PICK x : x = [command[c] EXCEPT !.pc = "wait", !.request = request]
  OBVIOUS
<1>3. /\ command[c].id >= 0
      /\ Take("bot", command[c].id, command[c].draft)
      /\ UNCHANGED <<pool, mined, reports, shown>>
  BY DEF Accept
<1>4. command' = [command EXCEPT ![c] = x]
  BY <1>1, <1>2, Zenon DEF Accept
<1>5. command[c] \in CommandState
  BY Types DEF Inv
<1>6. command[c].id \in Nat /\ command[c].draft \in Draft
  <2>1. command[c].id \in RequestId \cup {0} /\ command[c].draft \in Draft
    BY <1>5 DEF CommandState
  <2>2. command[c].id \in Int
    <3>1. \A i \in RequestId : i \in Int
      BY AccountabilityAssumption
    <3>2. \A i \in RequestId \cup {0} : i \in Int
      BY <3>1
    <3>3. QED
      BY <2>1, <3>2, Zenon
  <2>3. QED
    BY <1>3, <2>1, <2>2
<1>7. x \in CommandState
  <2>1. request \in Nat
    BY <1>1, Types DEF Inv
  <2>2. QED
    BY <1>2, <1>5, <2>1 DEF CommandState
<1>8. command' \in [Command -> CommandState]
  BY <1>4, <1>7, Types DEF Inv
<1>9. QED
  BY <1>3, <1>6, <1>8, TakeKeeps

\* What others write has the type of what the bot writes.
LEMMA OthersWrite ==
    ASSUME NEW post \in OtherPost
    PROVE  post.proposalId \in Nat /\ DraftOn(post.law) \in Draft
  BY AccountabilityAssumption DEF DraftOn, Draft

LEMMA AnybodyPostsKeeps ==
    ASSUME Inv, NEW post \in OtherPost, AnybodyPosts(post)
    PROVE  Inv'
<1>1. command' \in [Command -> CommandState]
  BY Types DEF AnybodyPosts, Inv
<1>2. QED
  BY <1>1, OthersWrite, TakeKeeps DEF AnybodyPosts

\* One handler changes.
LEMMA HandlerChange ==
    ASSUME TypeOK, NEW h \in DOMAIN handler, NEW x \in HandlerState,
           handler' = [handler EXCEPT ![h] = x]
    PROVE  /\ handler' \in Seq(HandlerState)
           /\ DOMAIN handler' = DOMAIN handler
           /\ handler'[h] = x
           /\ \A g \in DOMAIN handler : g # h => handler'[g] = handler[g]
  BY Types

LEMMA NonceReadKeeps ==
    ASSUME Inv, NEW h \in DOMAIN handler, NonceRead(h)
    PROVE  Inv'
<1>1. PICK nonce : nonce = Len(pool) + 1
  OBVIOUS
<1>2. PICK x : x = [handler[h] EXCEPT !.pc = "broadcast", !.nonce = nonce]
  OBVIOUS
<1>3. handler' = [handler EXCEPT ![h] = x]
  BY <1>1, <1>2, Zenon DEF NonceRead
<1>4. /\ handler[h].pc = "prepare"
      /\ UNCHANGED <<command, pool, mined, reports, shown>>
  BY DEF NonceRead
<1>5. x \in HandlerState /\ x.pc = "broadcast"
  <2>1. handler[h] \in HandlerState /\ nonce \in Nat
    BY <1>1, Types DEF Inv
  <2>2. QED
    BY <1>2, <2>1 DEF HandlerState
<1>6. /\ handler' \in Seq(HandlerState)
      /\ DOMAIN handler' = DOMAIN handler
      /\ handler'[h] = x
      /\ \A g \in DOMAIN handler : g # h => handler'[g] = handler[g]
  BY <1>3, <1>5, HandlerChange DEF Inv
<1>7. TypeOK'
  BY <1>4, <1>6 DEF Inv, TypeOK
<1>8. SentOnce'
  BY <1>4, <1>6 DEF Inv, SentOnce, IsAnchor
<1>9. Awaited'
  BY <1>4, <1>5, <1>6 DEF Inv, Awaited
<1>10. Logged' /\ Linked'
  BY <1>4 DEF Inv, Logged, Linked, IsAnchor, FromRelayer
<1>11. QED
  BY <1>7, <1>8, <1>9, <1>10 DEF Inv

\* What enters the account later changes neither the log nor what links mean.
LEMMA SendKeepsLog ==
    ASSUME Inv, NEW tx \in Tx, pool' = Append(pool, tx), UNCHANGED <<mined, reports, shown>>
    PROVE  /\ pool' \in Seq(Tx)
           /\ Len(pool') = Len(pool) + 1
           /\ DOMAIN pool' = 1 .. Len(pool) + 1
           /\ pool'[Len(pool) + 1] = tx
           /\ \A i \in DOMAIN pool : pool'[i] = pool[i]
           /\ Logged'
           /\ Linked'
<1>1. /\ pool' \in Seq(Tx)
      /\ Len(pool') = Len(pool) + 1
      /\ DOMAIN pool' = 1 .. Len(pool) + 1
      /\ pool'[Len(pool) + 1] = tx
      /\ \A i \in DOMAIN pool : pool'[i] = pool[i]
  BY Types DEF Inv
<1>2. /\ pool \in Seq(Tx) /\ mined \in Nat /\ mined <= Len(pool) /\ Len(pool) \in Nat
      /\ \A i \in 1 .. mined : i \in DOMAIN pool
  BY Types DEF Inv
<1>3. FromRelayer' = FromRelayer
  BY DEF FromRelayer
<1>4. Logged'
  BY <1>1, <1>2, <1>3 DEF Inv, Logged, IsAnchor
<1>5. Linked'
  BY <1>1, <1>2 DEF Inv, Linked, IsAnchor
<1>6. QED
  BY <1>1, <1>4, <1>5

LEMMA BroadcastKeeps ==
    ASSUME Inv, NEW h \in DOMAIN handler, Broadcast(h)
    PROVE  Inv'
<1>1. PICK n : n = Len(pool) + 1
  OBVIOUS
<1>2. PICK x : x = [handler[h] EXCEPT !.pc = "receipt", !.tx = n]
  OBVIOUS
<1>3. PICK tx : tx = [proposalId |-> handler[h].proposalId,
                      draft |-> handler[h].draft, request |-> h]
  OBVIOUS
<1>4. handler' = [handler EXCEPT ![h] = x]
  BY <1>1, <1>2, Zenon DEF Broadcast
<1>5. /\ handler[h].pc = "broadcast"
      /\ pool' = Append(pool, tx)
      /\ UNCHANGED <<command, mined, reports, shown>>
  BY <1>3 DEF Broadcast
<1>6. /\ handler[h] \in HandlerState /\ n \in Nat
      /\ h \in Nat \ {0}
      /\ n \notin DOMAIN pool
  BY <1>1, Types DEF Inv
<1>7. /\ x \in HandlerState
      /\ x.pc = "receipt" /\ x.tx = n
      /\ x.proposalId = handler[h].proposalId /\ x.draft = handler[h].draft
  BY <1>2, <1>6 DEF HandlerState
<1>8. /\ tx \in Tx
      /\ tx.request = h
      /\ tx.proposalId = handler[h].proposalId /\ tx.draft = handler[h].draft
  BY <1>3, <1>6 DEF Tx, HandlerState
<1>9. /\ handler' \in Seq(HandlerState)
      /\ DOMAIN handler' = DOMAIN handler
      /\ handler'[h] = x
      /\ \A g \in DOMAIN handler : g # h => handler'[g] = handler[g]
  BY <1>4, <1>7, HandlerChange DEF Inv
<1>10. /\ pool' \in Seq(Tx)
       /\ Len(pool') = Len(pool) + 1
       /\ DOMAIN pool' = DOMAIN pool \cup {n}
       /\ pool'[n] = tx
       /\ \A i \in DOMAIN pool : pool'[i] = pool[i]
       /\ Logged'
       /\ Linked'
  BY <1>1, <1>5, <1>8, SendKeepsLog, Types DEF Inv
<1>11. TypeOK'
  BY <1>5, <1>9, <1>10, Types, SMTT(30) DEF Inv, TypeOK, Tx
<1>12. SentOnce'
  <2>1. ASSUME NEW i \in DOMAIN pool', IsAnchor(pool'[i])
        PROVE  /\ pool'[i].request \in DOMAIN handler'
               /\ handler'[pool'[i].request].pc \in {"receipt", "answered"}
               /\ handler'[pool'[i].request].tx = i
               /\ pool'[i].proposalId = handler'[pool'[i].request].proposalId
               /\ pool'[i].draft = handler'[pool'[i].request].draft
    <3>1. CASE i = n
      BY <3>1, <1>7, <1>8, <1>9, <1>10
    <3>2. CASE i \in DOMAIN pool
      <4>1. /\ pool[i].request \in DOMAIN handler
            /\ handler[pool[i].request].pc \in {"receipt", "answered"}
            /\ handler[pool[i].request].tx = i
            /\ pool[i].proposalId = handler[pool[i].request].proposalId
            /\ pool[i].draft = handler[pool[i].request].draft
        BY <2>1, <3>2, <1>10 DEF Inv, SentOnce, IsAnchor
      <4>2. pool[i].request # h
        BY <4>1, <1>5
      <4>3. QED
        BY <3>2, <4>1, <4>2, <1>9, <1>10
    <3>3. QED
      BY <3>1, <3>2, <1>10
  <2>2. QED
    BY <2>1 DEF SentOnce, IsAnchor
<1>13. Awaited'
  <2>1. ASSUME NEW g \in DOMAIN handler, g # h, handler'[g].pc = "receipt"
        PROVE  /\ handler[g].tx \in DOMAIN pool
               /\ pool[handler[g].tx].request = g
               /\ pool[handler[g].tx].proposalId = handler[g].proposalId
               /\ pool[handler[g].tx].draft = handler[g].draft
    BY <2>1, <1>9 DEF Inv, Awaited
  <2>2. QED
    BY <2>1, <1>7, <1>8, <1>9, <1>10 DEF Awaited
<1>14. QED
  BY <1>10, <1>11, <1>12, <1>13 DEF Inv

LEMMA DripKeeps ==
    ASSUME Inv, Drip
    PROVE  Inv'
<1>1. PICK tx : tx = [proposalId |-> 0, draft |-> NoDraft, request |-> 0]
  OBVIOUS
<1>2. /\ pool' = Append(pool, tx)
      /\ UNCHANGED <<command, handler, mined, reports, shown>>
  BY <1>1 DEF Drip
<1>3. tx \in Tx /\ ~IsAnchor(tx)
  BY <1>1, Drafts DEF Tx, IsAnchor
<1>4. /\ pool' \in Seq(Tx)
      /\ Len(pool') = Len(pool) + 1
      /\ DOMAIN pool' = DOMAIN pool \cup {Len(pool) + 1}
      /\ pool'[Len(pool) + 1] = tx
      /\ \A i \in DOMAIN pool : pool'[i] = pool[i]
      /\ Logged'
      /\ Linked'
  BY <1>2, <1>3, SendKeepsLog, Types DEF Inv
<1>5. TypeOK'
  BY <1>2, <1>4, Types DEF Inv, TypeOK, Tx
<1>6. SentOnce'
  BY <1>2, <1>3, <1>4 DEF Inv, SentOnce, IsAnchor
<1>7. Awaited'
  BY <1>2, <1>4 DEF Inv, Awaited
<1>8. QED
  BY <1>4, <1>5, <1>6, <1>7 DEF Inv

\* A handler answers, with a link only when its transaction is in a block.
LEMMA AnswerKeeps ==
    ASSUME Inv, NEW h \in DOMAIN handler, NEW linked \in BOOLEAN, Answer(h, linked),
           linked => handler[h].pc = "receipt" /\ handler[h].tx <= mined,
           UNCHANGED <<pool, mined, reports>>
    PROVE  Inv'
<1>1. PICK x : x = [handler[h] EXCEPT !.pc = "answered"]
  OBVIOUS
<1>2. handler' = [handler EXCEPT ![h] = x]
  BY <1>1, Zenon DEF Answer
<1>3. PICK link : link = [proposalId |-> handler[h].proposalId,
                          law |-> handler[h].draft.law, tx |-> handler[h].tx]
  OBVIOUS
<1>4. handler[h] \in HandlerState /\ h \in Nat \ {0}
  BY Types DEF Inv
<1>5. /\ x \in HandlerState
      /\ x.pc = "answered" /\ x.tx = handler[h].tx
      /\ x.proposalId = handler[h].proposalId /\ x.draft = handler[h].draft
  BY <1>1, <1>4 DEF HandlerState
<1>6. /\ handler' \in Seq(HandlerState)
      /\ DOMAIN handler' = DOMAIN handler
      /\ handler'[h] = x
      /\ \A g \in DOMAIN handler : g # h => handler'[g] = handler[g]
  BY <1>2, <1>5, HandlerChange DEF Inv
<1>7. /\ link \in [proposalId : Nat, law : Law, tx : Nat]
      /\ link.proposalId = handler[h].proposalId
      /\ link.law = handler[h].draft.law
      /\ link.tx = handler[h].tx
  <2>1. handler[h].draft.law \in Law
    BY <1>4 DEF HandlerState, Draft
  <2>2. QED
    BY <1>3, <1>4, <2>1 DEF HandlerState
<1>8. \A s \in shown' : s \in shown \/ (linked /\ s = link)
  BY <1>3 DEF Answer
<1>9. command' \in [Command -> CommandState]
  <2>1. \A c \in Command : command'[c] \in {Idle, command[c]}
    BY DEF Answer
  <2>2. QED
    BY <2>1, Types, Drafts DEF Answer, Inv
<1>10. TypeOK'
  BY <1>6, <1>7, <1>8, <1>9 DEF Inv, TypeOK
<1>11. SentOnce'
  BY <1>5, <1>6 DEF Inv, SentOnce, IsAnchor
<1>12. Awaited'
  BY <1>5, <1>6 DEF Inv, Awaited
<1>13. Logged'
  BY DEF Inv, Logged, IsAnchor, FromRelayer
<1>14. Linked'
  <2>1. ASSUME linked
        PROVE  /\ link.tx \in 1 .. mined
               /\ IsAnchor(pool[link.tx])
               /\ pool[link.tx].proposalId = link.proposalId
               /\ pool[link.tx].draft.law = link.law
    <3>1. /\ handler[h].tx \in DOMAIN pool
          /\ pool[handler[h].tx].request = h
          /\ pool[handler[h].tx].proposalId = handler[h].proposalId
          /\ pool[handler[h].tx].draft = handler[h].draft
      BY <2>1 DEF Inv, Awaited
    <3>2. handler[h].tx \in 1 .. mined
      BY <2>1, <3>1, Types DEF Inv
    <3>3. QED
      BY <1>4, <1>7, <3>1, <3>2 DEF IsAnchor
  <2>2. QED
    BY <2>1, <1>8 DEF Inv, Linked, IsAnchor
<1>15. QED
  BY <1>10, <1>11, <1>12, <1>13, <1>14 DEF Inv

--------------------------------------------------------------------------------
(* The chain.                                                                 *)

LEMMA MineKeeps ==
    ASSUME Inv, Mine
    PROVE  Inv'
<1>1. /\ mined < Len(pool)
      /\ mined' = mined + 1
      /\ UNCHANGED <<command, handler, pool, shown>>
  BY DEF Mine
<1>2. PICK tx : tx = pool[mined + 1]
  OBVIOUS
<1>3. PICK new : new = [proposalId |-> tx.proposalId, draft |-> tx.draft,
                        reporter |-> "relayer", tx |-> mined + 1]
  OBVIOUS
<1>4. /\ mined \in Nat /\ Len(pool) \in Nat /\ pool \in Seq(Tx)
      /\ reports \in Seq(Report)
      /\ tx \in Tx
  BY <1>1, <1>2, Types DEF Inv
<1>5. /\ new \in Report
      /\ new.reporter = "relayer" /\ new.tx = mined + 1
      /\ new.proposalId = tx.proposalId /\ new.draft = tx.draft
  BY <1>3, <1>4 DEF Report, Tx
<1>6. IF IsAnchor(tx) THEN reports' = Append(reports, new) ELSE reports' = reports
  BY <1>2, <1>3 DEF Mine, AnchorCall
<1>7. reports' \in Seq(Report)
  <2>1. CASE IsAnchor(tx)
    BY <1>4, <1>5, <1>6, <2>1
  <2>2. CASE ~IsAnchor(tx)
    BY <1>4, <1>6, <2>2
  <2>3. QED
    BY <2>1, <2>2
<1>8. Logged'
  <2>1. 1 .. mined' = (1 .. mined) \cup {mined + 1} /\ mined + 1 \notin 1 .. mined
    BY <1>1, <1>4
  <2>2. CASE IsAnchor(tx)
    <3>1. PICK n : n = Len(reports) + 1
      OBVIOUS
    <3>2. /\ n \notin DOMAIN reports
          /\ reports'[n] = new
          /\ \A k \in DOMAIN reports : reports'[k] = reports[k]
          /\ FromRelayer' = FromRelayer \cup {n}
      BY <1>4, <1>5, <1>6, <2>2, <3>1, LogGrows
    <3>3. \A k \in FromRelayer : k # n /\ reports'[k] = reports[k]
      BY <3>2 DEF FromRelayer
    <3>4. ASSUME NEW k \in FromRelayer'
          PROVE  /\ reports'[k].tx \in 1 .. mined'
                 /\ IsAnchor(pool'[reports'[k].tx])
                 /\ reports'[k].proposalId = pool'[reports'[k].tx].proposalId
                 /\ reports'[k].draft = pool'[reports'[k].tx].draft
      <4>1. CASE k = n
        BY <1>1, <1>2, <1>5, <2>1, <2>2, <3>2, <4>1
      <4>2. CASE k \in FromRelayer
        BY <1>1, <2>1, <3>3, <4>2 DEF Inv, Logged
      <4>3. QED
        BY <3>2, <4>1, <4>2
    <3>5. ASSUME NEW i \in 1 .. mined', IsAnchor(pool'[i])
          PROVE  \E k \in FromRelayer' : reports'[k].tx = i
      <4>1. CASE i = mined + 1
        BY <1>5, <3>2, <4>1
      <4>2. CASE i \in 1 .. mined
        <5>1. PICK k \in FromRelayer : reports[k].tx = i
          BY <1>1, <3>5, <4>2 DEF Inv, Logged
        <5>2. QED
          BY <3>2, <3>3, <5>1
      <4>3. QED
        BY <2>1, <4>1, <4>2
    <3>6. ASSUME NEW k \in FromRelayer', NEW l \in FromRelayer', reports'[k].tx = reports'[l].tx
          PROVE  k = l
      <4>1. \A m \in FromRelayer : reports'[m].tx \in 1 .. mined
        BY <3>3 DEF Inv, Logged
      <4>2. reports'[n].tx = mined + 1
        BY <1>5, <3>2
      <4>3. QED
        BY <2>1, <3>2, <3>3, <3>6, <4>1, <4>2 DEF Inv, Logged
    <3>7. QED
      BY <3>4, <3>5, <3>6 DEF Logged, IsAnchor
  <2>3. CASE ~IsAnchor(tx)
    <3>1. reports' = reports /\ FromRelayer' = FromRelayer
      BY <1>6, <2>3 DEF FromRelayer
    <3>2. QED
      BY <1>1, <1>2, <2>1, <2>3, <3>1 DEF Inv, Logged, IsAnchor
  <2>4. QED
    BY <2>2, <2>3
<1>9. TypeOK'
  BY <1>1, <1>4, <1>7 DEF Inv, TypeOK
<1>10. SentOnce' /\ Awaited'
  BY <1>1 DEF Inv, SentOnce, Awaited, IsAnchor
<1>11. Linked'
  BY <1>1, <1>4 DEF Inv, Linked, IsAnchor
<1>12. QED
  BY <1>8, <1>9, <1>10, <1>11 DEF Inv

\* What others write stands beside what the relayer wrote.
LEMMA AnybodyAnchorsKeeps ==
    ASSUME Inv, NEW post \in OtherPost, AnybodyAnchors(post)
    PROVE  Inv'
<1>1. PICK new : new = [proposalId |-> post.proposalId, draft |-> DraftOn(post.law),
                        reporter |-> "other", tx |-> 0]
  OBVIOUS
<1>2. reports' = Append(reports, new) /\ UNCHANGED <<command, handler, pool, mined, shown>>
  BY <1>1 DEF AnybodyAnchors, AnchorCall
<1>3. new \in Report /\ new.reporter = "other"
  BY <1>1, OthersWrite DEF Report
<1>4. reports \in Seq(Report)
  BY Types DEF Inv
<1>5. /\ reports' \in Seq(Report)
      /\ \A k \in DOMAIN reports : reports'[k] = reports[k]
      /\ FromRelayer' = FromRelayer
  BY <1>2, <1>3, <1>4, LogGrows
<1>6. \A k \in FromRelayer : reports'[k] = reports[k]
  BY <1>5 DEF FromRelayer
<1>7. Logged'
  <2>1. ASSUME NEW k \in FromRelayer'
        PROVE  /\ reports'[k].tx \in 1 .. mined'
               /\ IsAnchor(pool'[reports'[k].tx])
               /\ reports'[k].proposalId = pool'[reports'[k].tx].proposalId
               /\ reports'[k].draft = pool'[reports'[k].tx].draft
    <3>1. /\ reports[k].tx \in 1 .. mined
          /\ IsAnchor(pool[reports[k].tx])
          /\ reports[k].proposalId = pool[reports[k].tx].proposalId
          /\ reports[k].draft = pool[reports[k].tx].draft
      BY <1>5, <2>1 DEF Inv, Logged
    <3>2. reports'[k] = reports[k] /\ pool' = pool /\ mined' = mined
      BY <1>2, <1>5, <1>6, <2>1
    <3>3. QED
      BY <3>1, <3>2
  <2>2. ASSUME NEW i \in 1 .. mined', IsAnchor(pool'[i])
        PROVE  \E k \in FromRelayer' : reports'[k].tx = i
    <3>1. PICK k \in FromRelayer : reports[k].tx = i
      BY <1>2, <2>2 DEF Inv, Logged
    <3>2. QED
      BY <1>5, <1>6, <3>1
  <2>3. \A k, l \in FromRelayer' : reports'[k].tx = reports'[l].tx => k = l
    BY <1>5, <1>6 DEF Inv, Logged
  <2>4. QED
    BY <2>1, <2>2, <2>3 DEF Logged, IsAnchor
<1>8. TypeOK'
  BY <1>2, <1>5 DEF Inv, TypeOK
<1>9. SentOnce' /\ Awaited' /\ Linked'
  BY <1>2 DEF Inv, SentOnce, Awaited, Linked, IsAnchor
<1>10. QED
  BY <1>7, <1>8, <1>9 DEF Inv

--------------------------------------------------------------------------------
(* The theorems.                                                              *)

LEMMA InvHolds == Spec => []Inv
<1>1. Init => Inv
  <2>1. SUFFICES ASSUME Init
                 PROVE  Inv
    OBVIOUS
  <2>2. /\ command = [c \in Command |-> Idle] /\ handler = <<>> /\ pool = <<>>
        /\ mined = 0 /\ reports = <<>> /\ shown = {}
    BY <2>1 DEF Init
  <2>3. TypeOK
    BY <2>2, Drafts DEF TypeOK
  <2>4. SentOnce /\ Awaited /\ Linked
    BY <2>2 DEF SentOnce, Awaited, Linked
  <2>6. Logged
    BY <2>2 DEF Logged, FromRelayer
  <2>7. QED
    BY <2>3, <2>4, <2>6 DEF Inv
<1>2. Inv /\ [Next]_vars => Inv'
  <2>1. SUFFICES ASSUME Inv, [Next]_vars
                 PROVE  Inv'
    OBVIOUS
  <2>2. ASSUME NEW c \in Command, NEW id \in RequestId, Toxica(c, id)
        PROVE  Inv'
    BY <2>1, <2>2, ToxicaKeeps
  <2>3. ASSUME NEW c \in Command, Bot(c)
        PROVE  Inv'
    <3>1. CASE Analyzed(c)
      BY <2>1, <3>1, AnalyzedKeeps
    <3>2. CASE AnalyzeFails(c) \/ Refuse(c) \/ GiveUp(c)
      BY <2>1, <3>2, ReplyKeeps DEF AnalyzeFails, Refuse, GiveUp
    <3>3. CASE Accept(c)
      BY <2>1, <3>3, AcceptKeeps
    <3>4. QED
      BY <2>3, <3>1, <3>2, <3>3 DEF Bot
  <2>4. ASSUME NEW h \in DOMAIN handler, Backend(h)
        PROVE  Inv'
    <3>1. CASE NonceRead(h)
      BY <2>1, <3>1, NonceReadKeeps
    <3>2. CASE Broadcast(h)
      BY <2>1, <3>2, BroadcastKeeps
    <3>3. CASE Receipt(h)
      BY <2>1, <3>3, AnswerKeeps DEF Receipt
    <3>4. CASE Fail(h)
      BY <2>1, <3>4, AnswerKeeps DEF Fail
    <3>5. QED
      BY <2>4, <3>1, <3>2, <3>3, <3>4 DEF Backend
  <2>5. CASE Drip
    BY <2>1, <2>5, DripKeeps
  <2>6. CASE Mine
    BY <2>1, <2>6, MineKeeps
  <2>7. CASE UNCHANGED vars
    <3>1. /\ UNCHANGED <<handler, pool, mined, reports, shown>>
          /\ command' \in [Command -> CommandState]
      BY <2>1, <2>7 DEF vars, Inv, TypeOK
    <3>2. QED
      BY <2>1, <3>1, CommandKeeps
  <2>8. CASE Others
    BY <2>1, <2>8, AnybodyPostsKeeps, AnybodyAnchorsKeeps DEF Others
  <2>9. QED
    BY <2>1, <2>2, <2>3, <2>4, <2>5, <2>6, <2>7, <2>8 DEF Next
<1>3. QED
  BY <1>1, <1>2, PTL DEF Spec

\* Every variable has its type: no id below zero reaches the contract, and no more
\* transactions are in blocks than were sent.
THEOREM TypeCorrect == Spec => []TypeOK
<1>1. Inv => TypeOK
  BY DEF Inv
<1>2. QED
  BY <1>1, InvHolds, PTL

\* A request never leads to two transactions, and the relayer's entries of the log are
\* its anchors in blocks, one each, whatever other clients post and other accounts write.
THEOREM RequestsAreAnchoredOnce == Spec => []AnchoredOnce
<1>1. Inv => AnchoredOnce
  <2>1. SUFFICES ASSUME Inv
                 PROVE  AnchoredOnce
    OBVIOUS
  <2>2. \A i, j \in DOMAIN pool :
          IsAnchor(pool[i]) /\ pool[i].request = pool[j].request => i = j
    BY <2>1 DEF Inv, SentOnce, IsAnchor
  <2>3. QED
    BY <2>1, <2>2 DEF Inv, Logged, AnchoredOnce
<1>2. QED
  BY <1>1, InvHolds, PTL

\* The transaction of every link the bot has shown made an entry of the log with the
\* proposal and the post of the reply.
THEOREM LinksAreAnchored == Spec => []LinkMeansAnchored
<1>1. Inv => LinkMeansAnchored
  <2>1. SUFFICES ASSUME Inv, NEW s \in shown
                 PROVE  /\ s.tx \in 1 .. mined
                        /\ \E k \in FromRelayer :
                             /\ reports[k].tx = s.tx
                             /\ reports[k].proposalId = s.proposalId
                             /\ reports[k].draft.law = s.law
    BY DEF LinkMeansAnchored
  <2>2. /\ s.tx \in 1 .. mined
        /\ IsAnchor(pool[s.tx])
        /\ pool[s.tx].proposalId = s.proposalId
        /\ pool[s.tx].draft.law = s.law
    BY <2>1 DEF Inv, Linked
  <2>3. PICK k \in FromRelayer : reports[k].tx = s.tx
    BY <2>1, <2>2 DEF Inv, Logged
  <2>4. reports[k].proposalId = pool[s.tx].proposalId /\ reports[k].draft = pool[s.tx].draft
    BY <2>1, <2>3 DEF Inv, Logged
  <2>5. QED
    BY <2>2, <2>3, <2>4
<1>2. QED
  BY <1>1, InvHolds, PTL

--------------------------------------------------------------------------------
(* The promise of Anchoring.                                                  *)

\* What a command carries: an id its user typed, and a draft from the data of it.
Serves(x) ==
    /\ x.pc # "idle" => x.id \in RequestId
    /\ x.pc \in {"anchor", "wait"} =>
         x.draft = [law |-> DataFor(x.id), text |-> x.draft.text, approved |-> FALSE]

Served == \A c \in Command : Serves(command[c])

LEMMA OneServed ==
    ASSUME TypeOK, Served, NEW c \in Command, NEW x, Serves(x),
           command' = [command EXCEPT ![c] = x]
    PROVE  Served'
<1>1. command \in [Command -> CommandState]
  BY DEF TypeOK
<1>2. \A d \in Command : command'[d] = x \/ command'[d] = command[d]
  BY <1>1
<1>3. \A d \in Command : Serves(command'[d])
  BY <1>2, Zenon DEF Served
<1>4. QED
  BY <1>3 DEF Served, Serves

LEMMA IdleServes == Serves(Idle)
  BY DEF Serves, Idle

LEMMA ServedKept ==
    ASSUME Inv, Served, [Next]_vars
    PROVE  Served'
<1>1. TypeOK /\ command \in [Command -> CommandState]
  BY DEF Inv, TypeOK
<1>2. ASSUME UNCHANGED command
      PROVE  Served'
  BY <1>2 DEF Served, Serves
<1>3. ASSUME NEW c \in Command, Reply(c)
      PROVE  Served'
  BY <1>1, <1>3, IdleServes, OneServed DEF Reply
<1>4. ASSUME NEW c \in Command, NEW id \in RequestId, Toxica(c, id)
      PROVE  Served'
  <2>1. PICK x : x = [command[c] EXCEPT !.pc = "analyze", !.id = id]
    OBVIOUS
  <2>2. command' = [command EXCEPT ![c] = x]
    BY <1>4, <2>1, Zenon DEF Toxica
  <2>3. x.pc = "analyze" /\ x.id = id
    BY <1>1, <2>1 DEF CommandState
  <2>4. QED
    BY <1>1, <2>2, <2>3, OneServed DEF Serves
<1>5. ASSUME NEW c \in Command, Analyzed(c)
      PROVE  Served'
  <2>1. PICK text \in BOOLEAN :
               command' = [command EXCEPT
                 ![c].pc = "anchor",
                 ![c].draft = [law |-> DataFor(command[c].id), text |-> text,
                               approved |-> FALSE]]
    BY <1>5, Zenon DEF Analyzed
  <2>2. PICK draft : draft = [law |-> DataFor(command[c].id), text |-> text,
                              approved |-> FALSE]
    OBVIOUS
  <2>3. PICK x : x = [command[c] EXCEPT !.pc = "anchor", !.draft = draft]
    OBVIOUS
  <2>4. command' = [command EXCEPT ![c] = x]
    BY <2>1, <2>2, <2>3, Zenon
  <2>5. x.id = command[c].id /\ x.draft = draft
    BY <1>1, <2>3 DEF CommandState
  <2>6. x.id \in RequestId
    BY <1>5, <2>5 DEF Analyzed, Served, Serves
  <2>7. x.draft = [law |-> DataFor(x.id), text |-> x.draft.text, approved |-> FALSE]
    BY <2>2, <2>5
  <2>8. QED
    BY <1>1, <2>4, <2>6, <2>7, OneServed DEF Serves
<1>6. ASSUME NEW c \in Command, Accept(c)
      PROVE  Served'
  <2>1. PICK request : request = Len(handler) + 1
    OBVIOUS
  <2>2. PICK x : x = [command[c] EXCEPT !.pc = "wait", !.request = request]
    OBVIOUS
  <2>3. command' = [command EXCEPT ![c] = x] /\ command[c].pc = "anchor"
    BY <1>6, <2>1, <2>2, Zenon DEF Accept
  <2>4. x.pc = "wait" /\ x.id = command[c].id /\ x.draft = command[c].draft
    BY <1>1, <2>2 DEF CommandState
  <2>5. Serves(x)
    BY <2>3, <2>4 DEF Served, Serves
  <2>6. QED
    BY <1>1, <2>3, <2>5, OneServed
<1>7. ASSUME NEW h \in DOMAIN handler, NEW linked \in BOOLEAN, Answer(h, linked)
      PROVE  Served'
  <2>1. \A c \in Command : command'[c] \in {Idle, command[c]}
    BY <1>7 DEF Answer
  <2>2. \A c \in Command : Serves(command'[c])
    BY <2>1, IdleServes, Zenon DEF Served
  <2>3. QED
    BY <2>2 DEF Served, Serves
<1>8. ASSUME NEW c \in Command, Bot(c)
      PROVE  Served'
  BY <1>3, <1>5, <1>6, <1>8 DEF Bot, AnalyzeFails, Refuse, GiveUp
<1>9. ASSUME NEW h \in DOMAIN handler, Backend(h)
      PROVE  Served'
  BY <1>2, <1>7, <1>9 DEF Backend, NonceRead, Broadcast, Receipt, Fail
<1>10. QED
  BY <1>2, <1>4, <1>8, <1>9 DEF Next, Drip, Mine, Others, AnybodyPosts, AnybodyAnchors, vars

\* Whatever a handler does after it accepted, what was asked of it and by whom stays.
LEMMA AskedStays ==
    ASSUME Inv, NEW h \in DOMAIN handler, Backend(h)
    PROVE  /\ DOMAIN handler' = DOMAIN handler
           /\ \A g \in DOMAIN handler : /\ handler'[g].by = handler[g].by
                                        /\ handler'[g].proposalId = handler[g].proposalId
                                        /\ handler'[g].draft = handler[g].draft
<1>1. PICK n : n = Len(pool) + 1
  OBVIOUS
<1>2. n \in Nat /\ handler[h] \in HandlerState
  BY <1>1, Types DEF Inv
<1>3. ASSUME NEW x, handler' = [handler EXCEPT ![h] = x], x \in HandlerState,
             x.by = handler[h].by, x.proposalId = handler[h].proposalId,
             x.draft = handler[h].draft
      PROVE  /\ DOMAIN handler' = DOMAIN handler
             /\ \A g \in DOMAIN handler : /\ handler'[g].by = handler[g].by
                                          /\ handler'[g].proposalId = handler[g].proposalId
                                          /\ handler'[g].draft = handler[g].draft
  BY <1>3, HandlerChange DEF Inv
<1>4. CASE NonceRead(h)
  <2>1. PICK x : x = [handler[h] EXCEPT !.pc = "broadcast", !.nonce = n]
    OBVIOUS
  <2>2. handler' = [handler EXCEPT ![h] = x]
    BY <1>1, <1>4, <2>1, Zenon DEF NonceRead
  <2>3. /\ x \in HandlerState /\ x.by = handler[h].by
        /\ x.proposalId = handler[h].proposalId /\ x.draft = handler[h].draft
    BY <1>2, <2>1 DEF HandlerState
  <2>4. QED
    BY <1>3, <2>2, <2>3
<1>5. CASE Broadcast(h)
  <2>1. PICK x : x = [handler[h] EXCEPT !.pc = "receipt", !.tx = n]
    OBVIOUS
  <2>2. handler' = [handler EXCEPT ![h] = x]
    BY <1>1, <1>5, <2>1, Zenon DEF Broadcast
  <2>3. /\ x \in HandlerState /\ x.by = handler[h].by
        /\ x.proposalId = handler[h].proposalId /\ x.draft = handler[h].draft
    BY <1>2, <2>1 DEF HandlerState
  <2>4. QED
    BY <1>3, <2>2, <2>3
<1>6. CASE Receipt(h) \/ Fail(h)
  <2>1. PICK x : x = [handler[h] EXCEPT !.pc = "answered"]
    OBVIOUS
  <2>2. handler' = [handler EXCEPT ![h] = x]
    BY <1>6, <2>1, Zenon DEF Receipt, Fail, Answer
  <2>3. /\ x \in HandlerState /\ x.by = handler[h].by
        /\ x.proposalId = handler[h].proposalId /\ x.draft = handler[h].draft
    BY <1>2, <2>1 DEF HandlerState
  <2>4. QED
    BY <1>3, <2>2, <2>3
<1>7. QED
  BY <1>4, <1>5, <1>6 DEF Backend

LEMMA RequestsStay ==
    ASSUME Inv, NEW h \in DOMAIN handler, Backend(h)
    PROVE  Requests' = Requests
  BY AskedStays DEF Requests

\* What a sequence is with one more element.
LEMMA OneMore ==
    ASSUME NEW R, NEW Q \in Seq(R), NEW x \in R
    PROVE  Append(Q, x) = [i \in 1 .. Len(Q) + 1 |-> IF i \in 1 .. Len(Q) THEN Q[i] ELSE x]
<1>1. PICK A : A = Append(Q, x)
  OBVIOUS
<1>2. /\ A \in Seq(R) /\ Len(A) = Len(Q) + 1 /\ Len(Q) \in Nat
      /\ A[Len(Q) + 1] = x
      /\ \A i \in 1 .. Len(Q) : A[i] = Q[i]
  BY <1>1
<1>3. A = [i \in 1 .. Len(A) |-> A[i]]
  BY <1>2
<1>4. \A i \in 1 .. Len(A) : A[i] = IF i \in 1 .. Len(Q) THEN Q[i] ELSE x
  BY <1>2
<1>5. QED
  BY <1>1, <1>2, <1>3, <1>4

LEMMA TakeRequests ==
    ASSUME Inv, NEW by \in {"bot", "other"}, NEW proposalId \in Nat, NEW draft \in Draft,
           Take(by, proposalId, draft)
    PROVE  /\ DOMAIN handler' = DOMAIN handler \cup {Len(handler) + 1}
           /\ handler'[Len(handler) + 1].by = by
           /\ \A g \in DOMAIN handler : handler'[g] = handler[g]
           /\ Requests' = Append(Requests,
                [content |-> [proposalId |-> proposalId, draft |-> draft], by |-> by])
<1>1. PICK new : new = [pc |-> "prepare", by |-> by, proposalId |-> proposalId,
                        draft |-> draft, nonce |-> 0, tx |-> 0]
  OBVIOUS
<1>2. handler' = Append(handler, new)
  BY <1>1 DEF Take
<1>3. new \in HandlerState /\ handler \in Seq(HandlerState)
  BY <1>1, Types DEF Inv, HandlerState
<1>4. /\ DOMAIN handler' = DOMAIN handler \cup {Len(handler) + 1}
      /\ DOMAIN handler = 1 .. Len(handler) /\ Len(handler) \in Nat
      /\ handler'[Len(handler) + 1] = new
      /\ \A g \in DOMAIN handler : handler'[g] = handler[g]
  BY <1>2, <1>3
<1>5. PICK asked : asked = [content |-> [proposalId |-> proposalId, draft |-> draft], by |-> by]
  OBVIOUS
<1>6. PICK R : R = {[content |-> [proposalId |-> y.proposalId, draft |-> y.draft], by |-> y.by] :
                      y \in HandlerState} \cup {asked}
  OBVIOUS
<1>7. Requests \in Seq(R) /\ Len(Requests) = Len(handler) /\ DOMAIN Requests = DOMAIN handler
  BY <1>3, <1>6 DEF Requests
<1>8. Append(Requests, asked) =
        [h \in 1 .. Len(handler) + 1 |-> IF h \in DOMAIN handler THEN Requests[h] ELSE asked]
  <2>1. asked \in R
    BY <1>6
  <2>2. Append(Requests, asked) =
          [i \in 1 .. Len(Requests) + 1 |->
             IF i \in 1 .. Len(Requests) THEN Requests[i] ELSE asked]
    BY <1>7, <2>1, OneMore
  <2>3. QED
    BY <1>4, <1>7, <2>2
<1>9. /\ DOMAIN handler' = 1 .. Len(handler) + 1
      /\ \A h \in DOMAIN handler' :
           [content |-> [proposalId |-> handler'[h].proposalId, draft |-> handler'[h].draft],
            by |-> handler'[h].by] = IF h \in DOMAIN handler THEN Requests[h] ELSE asked
  BY <1>1, <1>4, <1>5 DEF Requests
<1>10. Requests' = Append(Requests, asked)
  BY <1>8, <1>9 DEF Requests
<1>11. QED
  BY <1>1, <1>4, <1>5, <1>10

\* Entries of the log stay entries, and one more is one more.
LEMMA TakeEntries ==
    ASSUME Inv, NEW new \in Report, reports' = Append(reports, new)
    PROVE  Entries' = Append(Entries,
             [content |-> [proposalId |-> new.proposalId, draft |-> new.draft],
              reporter |-> new.reporter])
<1>1. PICK entry : entry = [content |-> [proposalId |-> new.proposalId, draft |-> new.draft],
                            reporter |-> new.reporter]
  OBVIOUS
<1>2. reports \in Seq(Report) /\ Len(reports) \in Nat /\ DOMAIN reports = 1 .. Len(reports)
  BY Types DEF Inv
<1>3. /\ DOMAIN reports' = 1 .. Len(reports) + 1
      /\ reports'[Len(reports) + 1] = new
      /\ \A k \in DOMAIN reports : reports'[k] = reports[k]
  BY <1>2
<1>4. PICK R : R = {[content |-> [proposalId |-> y.proposalId, draft |-> y.draft],
                     reporter |-> y.reporter] : y \in Report}
  OBVIOUS
<1>5. entry \in R /\ Entries \in Seq(R) /\ Len(Entries) = Len(reports)
  <2>1. entry \in R
    BY <1>1, <1>4
  <2>2. \A k \in 1 .. Len(reports) : reports[k] \in Report
    BY <1>2
  <2>3. \A k \in 1 .. Len(reports) :
          [content |-> [proposalId |-> reports[k].proposalId, draft |-> reports[k].draft],
           reporter |-> reports[k].reporter] \in R
    BY <1>4, <2>2
  <2>4. QED
    BY <1>2, <2>1, <2>3 DEF Entries
<1>6. Append(Entries, entry) =
        [k \in 1 .. Len(reports) + 1 |-> IF k \in DOMAIN reports THEN Entries[k] ELSE entry]
  <2>1. Append(Entries, entry) =
          [i \in 1 .. Len(Entries) + 1 |->
             IF i \in 1 .. Len(Entries) THEN Entries[i] ELSE entry]
    BY <1>5, OneMore
  <2>2. QED
    BY <1>2, <1>5, <2>1
<1>7. \A k \in DOMAIN reports' :
        [content |-> [proposalId |-> reports'[k].proposalId, draft |-> reports'[k].draft],
         reporter |-> reports'[k].reporter] = IF k \in DOMAIN reports THEN Entries[k] ELSE entry
  BY <1>1, <1>2, <1>3 DEF Entries
<1>8. QED
  BY <1>1, <1>3, <1>6, <1>7 DEF Entries

\* Who waits for a handler is the bot, and it was the bot that asked.
Waiting ==
    \A c \in Command :
        command[c].pc = "wait" =>
            command[c].request \in DOMAIN handler /\ handler[command[c].request].by = "bot"

LEMMA WaitingKept ==
    ASSUME Inv, Waiting, [Next]_vars
    PROVE  Waiting'
<1>1. command \in [Command -> CommandState]
  BY DEF Inv, TypeOK
<1>2. ASSUME \A c \in Command : command'[c].pc = "wait" => command'[c] = command[c],
             \A g \in DOMAIN handler : g \in DOMAIN handler' /\ handler'[g].by = handler[g].by
      PROVE  Waiting'
  BY <1>2 DEF Waiting
<1>3. ASSUME NEW c \in Command, NEW x, command' = [command EXCEPT ![c] = x], x.pc # "wait"
      PROVE  \A d \in Command : command'[d].pc = "wait" => command'[d] = command[d]
  BY <1>1, <1>3
<1>4. ASSUME NEW c \in Command, NEW id \in RequestId, Toxica(c, id)
      PROVE  Waiting'
  <2>1. PICK x : x = [command[c] EXCEPT !.pc = "analyze", !.id = id]
    OBVIOUS
  <2>2. command' = [command EXCEPT ![c] = x] /\ UNCHANGED handler
    BY <1>4, <2>1, Zenon DEF Toxica
  <2>3. x.pc # "wait"
    BY <1>1, <2>1 DEF CommandState
  <2>4. QED
    BY <1>2, <1>3, <2>2, <2>3
<1>5. ASSUME NEW c \in Command, Analyzed(c)
      PROVE  Waiting'
  <2>1. PICK draft :
               command' = [command EXCEPT ![c].pc = "anchor", ![c].draft = draft]
    BY <1>5, Zenon DEF Analyzed
  <2>2. PICK x : x = [command[c] EXCEPT !.pc = "anchor", !.draft = draft]
    OBVIOUS
  <2>3. command' = [command EXCEPT ![c] = x]
    BY <2>1, <2>2, Zenon
  <2>4. x.pc # "wait" /\ UNCHANGED handler
    BY <1>1, <1>5, <2>2 DEF CommandState, Analyzed
  <2>5. QED
    BY <1>2, <1>3, <2>3, <2>4
<1>6. ASSUME NEW c \in Command, Reply(c), UNCHANGED handler
      PROVE  Waiting'
  <2>1. Idle.pc # "wait"
    BY DEF Idle
  <2>2. QED
    BY <1>2, <1>3, <1>6, <2>1 DEF Reply
<1>7. ASSUME NEW c \in Command, Accept(c)
      PROVE  Waiting'
  <2>1. PICK request : request = Len(handler) + 1
    OBVIOUS
  <2>2. PICK x : x = [command[c] EXCEPT !.pc = "wait", !.request = request]
    OBVIOUS
  <2>3. command' = [command EXCEPT ![c] = x] /\ x.request = request
    <3>1. command' = [command EXCEPT ![c] = x]
      BY <1>7, <2>1, <2>2, Zenon DEF Accept
    <3>2. QED
      BY <1>1, <2>2, <3>1 DEF CommandState
  <2>4. PICK new : new = [pc |-> "prepare", by |-> "bot", proposalId |-> command[c].id,
                          draft |-> command[c].draft, nonce |-> 0, tx |-> 0]
    OBVIOUS
  <2>5. handler' = Append(handler, new) /\ new.by = "bot"
    BY <1>7, <2>4 DEF Accept, Take
  <2>6. /\ request \in DOMAIN handler' /\ handler'[request] = new
        /\ \A g \in DOMAIN handler : g \in DOMAIN handler' /\ handler'[g] = handler[g]
    BY <2>1, <2>5, Types DEF Inv
  <2>7. \A d \in Command : command'[d] = x \/ command'[d] = command[d]
    BY <1>1, <2>3
  <2>8. QED
    BY <2>3, <2>5, <2>6, <2>7 DEF Waiting
<1>8. ASSUME NEW h \in DOMAIN handler, Backend(h)
      PROVE  Waiting'
  <2>1. \A c \in Command : command'[c] \in {Idle, command[c]} /\ Idle.pc # "wait"
    BY <1>8 DEF Backend, NonceRead, Broadcast, Receipt, Fail, Answer, Idle
  <2>2. QED
    BY <1>2, <1>8, <2>1, AskedStays
<1>9. ASSUME NEW post \in OtherPost, AnybodyPosts(post)
      PROVE  Waiting'
  <2>1. \A g \in DOMAIN handler : g \in DOMAIN handler' /\ handler'[g] = handler[g]
    BY <1>9, OthersWrite, TakeRequests DEF AnybodyPosts
  <2>2. QED
    BY <1>2, <1>9, <2>1 DEF AnybodyPosts
<1>10. ASSUME UNCHANGED <<command, handler>>
       PROVE  Waiting'
  BY <1>2, <1>10
<1>11. ASSUME NEW c \in Command, Bot(c)
       PROVE  Waiting'
  BY <1>5, <1>6, <1>7, <1>11 DEF Bot, AnalyzeFails, Refuse, GiveUp
<1>12. QED
  BY <1>4, <1>8, <1>9, <1>10, <1>11 DEF Next, Drip, Mine, Others, AnybodyAnchors, vars

\* What is sent changes nothing that is already in blocks.
LEMMA SendingStays ==
    ASSUME Inv, NEW tx \in Tx, pool' = Append(pool, tx), UNCHANGED <<mined, shown>>
    PROVE  InLog' = InLog /\ Told' = Told
<1>1. \A i \in 1 .. mined : pool'[i] = pool[i]
  BY Types DEF Inv
<1>2. {j \in 1 .. mined' : IsAnchor(pool'[j])} = {j \in 1 .. mined : IsAnchor(pool[j])}
  BY <1>1
<1>3. InLog' = InLog
  BY <1>1, <1>2 DEF InLog, IsAnchor
<1>4. \A s \in shown : pool'[s.tx] = pool[s.tx]
  BY <1>1 DEF Inv, Linked
<1>5. Told' = Told
  BY <1>4 DEF Told
<1>6. QED
  BY <1>3, <1>5

\* A handler answers: a link is for a request of the bot that is in the log.
LEMMA AnswerLinks ==
    ASSUME Inv, Waiting, NEW h \in DOMAIN handler, Receipt(h) \/ Fail(h)
    PROVE  /\ Requests' = Requests
           /\ InLog' = InLog
           /\ Told' = Told \/ (/\ h \in InLog
                               /\ Requests[h].by = "bot"
                               /\ Told' = Told \cup {h})
<1>1. PICK linked \in BOOLEAN : /\ Answer(h, linked)
                                /\ linked => handler[h].pc = "receipt" /\ handler[h].tx <= mined
  BY DEF Receipt, Fail
<1>2. UNCHANGED <<pool, mined, reports>>
  BY DEF Receipt, Fail
<1>3. handler[h] \in HandlerState /\ h \in Nat \ {0}
  BY Types DEF Inv
<1>5. Requests' = Requests
  BY RequestsStay DEF Backend
<1>6. InLog' = InLog
  BY <1>2 DEF InLog, IsAnchor
<1>7. PICK link : link = [proposalId |-> handler[h].proposalId,
                          law |-> handler[h].draft.law, tx |-> handler[h].tx]
  OBVIOUS
<1>8. \/ shown' = shown
      \/ /\ linked
         /\ \E c \in Command : command[c].pc = "wait" /\ command[c].request = h
         /\ shown' = shown \cup {link}
  BY <1>1, <1>7 DEF Answer
<1>9. CASE shown' = shown
  BY <1>2, <1>5, <1>6, <1>9 DEF Told
<1>10. CASE /\ linked
            /\ \E c \in Command : command[c].pc = "wait" /\ command[c].request = h
            /\ shown' = shown \cup {link}
  <2>1. /\ handler[h].tx \in DOMAIN pool
        /\ pool[handler[h].tx].request = h
    BY <1>1, <1>10 DEF Inv, Awaited
  <2>2. handler[h].tx \in 1 .. mined /\ link.tx = handler[h].tx
    BY <1>1, <1>7, <1>10, <2>1, Types DEF Inv
  <2>3. h \in InLog
    BY <1>3, <2>1, <2>2 DEF InLog, IsAnchor
  <2>4. Told' = Told \cup {h}
    BY <1>2, <1>10, <2>1, <2>2 DEF Told
  <2>5. Requests[h].by = "bot"
    BY <1>10 DEF Waiting, Requests
  <2>6. QED
    BY <1>5, <1>6, <2>3, <2>4, <2>5
<1>11. QED
  BY <1>8, <1>9, <1>10

LEMMA StepKeepsPromise ==
    ASSUME Inv, Served, Waiting, [Next]_vars
    PROVE  [Anchored!Next]_(Anchored!vars)
<1>1. ASSUME UNCHANGED <<handler, pool, mined, reports, shown>>
      PROVE  UNCHANGED Anchored!vars
  BY <1>1 DEF Anchored!vars, Requests, Entries, InLog, IsAnchor, Told
<1>2. ASSUME UNCHANGED <<pool, mined, reports, shown>>
      PROVE  Entries' = Entries /\ InLog' = InLog /\ Told' = Told
  BY <1>2 DEF Entries, InLog, IsAnchor, Told
<1>3. ASSUME NEW c \in Command, Accept(c)
      PROVE  Anchored!Next
  <2>1. PICK content : content = [proposalId |-> command[c].id, draft |-> command[c].draft]
    OBVIOUS
  <2>2. /\ command[c].pc = "anchor" /\ command[c].id >= 0 /\ command[c].draft.text
        /\ Take("bot", command[c].id, command[c].draft)
        /\ UNCHANGED <<pool, mined, reports, shown>>
    BY <1>3 DEF Accept
  <2>3. /\ command[c].id \in RequestId
        /\ command[c].draft = [law |-> DataFor(command[c].id),
                               text |-> command[c].draft.text, approved |-> FALSE]
    BY <2>2 DEF Served, Serves
  <2>4. command[c].draft.text = TRUE /\ command[c].draft \in Draft
    BY <2>2, Types DEF Inv, CommandState, Draft
  <2>5. command[c].id \in RequestId \cap Nat
    <3>1. command[c].id \in Int
      BY <2>3, AccountabilityAssumption, Zenon DEF AccountabilityAssumption
    <3>2. QED
      BY <2>2, <2>3, <3>1
  <2>6. content \in Publishable
    BY <2>1, <2>3, <2>4, <2>5 DEF Publishable, DraftOn
  <2>7. Requests' = Append(Requests, [content |-> content, by |-> "bot"])
    BY <2>1, <2>2, <2>4, <2>5, TakeRequests
  <2>8. QED
    BY <1>2, <2>2, <2>6, <2>7 DEF Anchored!Next, Anchored!Request
<1>4. ASSUME NEW post \in OtherPost, AnybodyPosts(post)
      PROVE  Anchored!Next
  <2>1. PICK content : content = [proposalId |-> post.proposalId, draft |-> DraftOn(post.law)]
    OBVIOUS
  <2>2. content \in Writable
    BY <2>1 DEF Writable
  <2>3. Requests' = Append(Requests, [content |-> content, by |-> "other"])
    BY <1>4, <2>1, OthersWrite, TakeRequests DEF AnybodyPosts
  <2>4. QED
    BY <1>2, <1>4, <2>2, <2>3 DEF Anchored!Next, Anchored!Request, AnybodyPosts
<1>5. ASSUME NEW post \in OtherPost, AnybodyAnchors(post)
      PROVE  Anchored!Next
  <2>1. PICK content : content = [proposalId |-> post.proposalId, draft |-> DraftOn(post.law)]
    OBVIOUS
  <2>2. content \in Writable
    BY <2>1 DEF Writable
  <2>3. PICK new : new = [proposalId |-> post.proposalId, draft |-> DraftOn(post.law),
                          reporter |-> "other", tx |-> 0]
    OBVIOUS
  <2>4. reports' = Append(reports, new) /\ UNCHANGED <<handler, pool, mined, shown>>
    BY <1>5, <2>3 DEF AnybodyAnchors, AnchorCall
  <2>5. /\ new \in Report /\ new.reporter = "other"
        /\ content = [proposalId |-> new.proposalId, draft |-> new.draft]
    BY <2>1, <2>3, OthersWrite DEF Report
  <2>6. Entries' = Append(Entries, [content |-> content, reporter |-> "other"])
    BY <2>4, <2>5, TakeEntries
  <2>7. Requests' = Requests /\ InLog' = InLog /\ Told' = Told
    BY <2>4 DEF Requests, InLog, IsAnchor, Told
  <2>8. QED
    BY <2>2, <2>6, <2>7 DEF Anchored!Next, Anchored!Write
<1>6. ASSUME NEW h \in DOMAIN handler, NonceRead(h)
      PROVE  UNCHANGED Anchored!vars
  <2>1. Requests' = Requests
    BY <1>6, RequestsStay DEF Backend
  <2>2. QED
    BY <1>2, <1>6, <2>1 DEF NonceRead, Anchored!vars
<1>7. ASSUME NEW h \in DOMAIN handler, Broadcast(h)
      PROVE  UNCHANGED Anchored!vars
  <2>1. PICK tx : tx = [proposalId |-> handler[h].proposalId,
                        draft |-> handler[h].draft, request |-> h]
    OBVIOUS
  <2>2. pool' = Append(pool, tx) /\ UNCHANGED <<mined, reports, shown>>
    BY <1>7, <2>1 DEF Broadcast
  <2>3. tx \in Tx
    <3>1. handler[h] \in HandlerState /\ h \in Nat
      BY Types DEF Inv
    <3>2. QED
      BY <2>1, <3>1 DEF Tx, HandlerState
  <2>4. InLog' = InLog /\ Told' = Told
    BY <2>2, <2>3, SendingStays
  <2>5. Requests' = Requests
    BY <1>7, RequestsStay DEF Backend
  <2>6. QED
    BY <2>2, <2>4, <2>5 DEF Anchored!vars, Entries
<1>8. ASSUME NEW h \in DOMAIN handler, Receipt(h) \/ Fail(h)
      PROVE  [Anchored!Next]_(Anchored!vars)
  <2>1. Entries' = Entries
    BY <1>8 DEF Receipt, Fail, Entries
  <2>2. h \in DOMAIN Requests
    BY DEF Requests
  <2>3. QED
    BY <1>8, <2>1, <2>2, AnswerLinks DEF Anchored!Next, Anchored!Link, Anchored!vars
<1>9. CASE Drip
  <2>1. PICK tx : tx = [proposalId |-> 0, draft |-> NoDraft, request |-> 0]
    OBVIOUS
  <2>2. pool' = Append(pool, tx) /\ UNCHANGED <<handler, mined, reports, shown>>
    BY <1>9, <2>1 DEF Drip
  <2>3. tx \in Tx
    BY <2>1, Drafts DEF Tx
  <2>4. InLog' = InLog /\ Told' = Told
    BY <2>2, <2>3, SendingStays
  <2>5. QED
    BY <2>2, <2>4 DEF Anchored!vars, Requests, Entries
<1>10. CASE Mine
  <2>1. /\ mined < Len(pool) /\ mined' = mined + 1
        /\ UNCHANGED <<handler, pool, shown>>
    BY <1>10 DEF Mine
  <2>2. PICK tx : tx = pool[mined + 1]
    OBVIOUS
  <2>3. mined \in Nat /\ mined + 1 \in DOMAIN pool /\ tx \in Tx
    BY <2>1, <2>2, Types DEF Inv
  <2>4. 1 .. mined' = (1 .. mined) \cup {mined + 1}
    BY <2>1, <2>3
  <2>5. Requests' = Requests /\ Told' = Told
    BY <2>1 DEF Requests, Told
  <2>6. CASE IsAnchor(tx)
    <3>1. PICK r : r = tx.request
      OBVIOUS
    <3>2. /\ r \in DOMAIN handler /\ handler[r].tx = mined + 1
          /\ tx.proposalId = handler[r].proposalId /\ tx.draft = handler[r].draft
      BY <2>2, <2>3, <2>6, <3>1 DEF Inv, SentOnce
    <3>3. r \notin InLog
      <4>1. ASSUME NEW j \in 1 .. mined, IsAnchor(pool[j]), pool[j].request = r
            PROVE  FALSE
        <5>1. handler[r].tx = j
          BY <4>1, Types DEF Inv, SentOnce
        <5>2. QED
          BY <2>3, <3>2, <5>1
      <4>2. QED
        BY <4>1 DEF InLog
    <3>4. InLog' = InLog \cup {r}
      BY <2>1, <2>2, <2>4, <2>6, <3>1 DEF InLog, IsAnchor
    <3>5. PICK new : new = [proposalId |-> tx.proposalId, draft |-> tx.draft,
                            reporter |-> "relayer", tx |-> mined + 1]
      OBVIOUS
    <3>6. reports' = Append(reports, new)
      BY <1>10, <2>2, <2>6, <3>5 DEF Mine, AnchorCall
    <3>7. /\ new \in Report /\ new.reporter = "relayer"
          /\ new.proposalId = handler[r].proposalId /\ new.draft = handler[r].draft
      BY <2>3, <3>2, <3>5 DEF Tx, Report
    <3>8. Requests[r].content = [proposalId |-> new.proposalId, draft |-> new.draft]
      BY <3>2, <3>7 DEF Requests
    <3>9. Entries' = Append(Entries, [content |-> Requests[r].content, reporter |-> "relayer"])
      BY <3>6, <3>7, <3>8, TakeEntries
    <3>10. r \in DOMAIN Requests
      BY <3>2 DEF Requests
    <3>11. QED
      BY <2>5, <3>3, <3>4, <3>9, <3>10 DEF Anchored!Next, Anchored!Anchor
  <2>7. CASE ~IsAnchor(tx)
    <3>1. InLog' = InLog
      BY <2>1, <2>2, <2>4, <2>7 DEF InLog, IsAnchor
    <3>2. reports' = reports
      BY <1>10, <2>2, <2>7 DEF Mine
    <3>3. QED
      BY <2>5, <3>1, <3>2 DEF Anchored!vars, Entries
  <2>8. QED
    BY <2>6, <2>7
<1>11. ASSUME NEW c \in Command, NEW id \in RequestId, Toxica(c, id)
       PROVE  UNCHANGED Anchored!vars
  BY <1>1, <1>11 DEF Toxica
<1>12. ASSUME NEW c \in Command, Bot(c)
       PROVE  [Anchored!Next]_(Anchored!vars)
  BY <1>1, <1>3, <1>12 DEF Bot, Analyzed, AnalyzeFails, Refuse, GiveUp
<1>13. ASSUME NEW h \in DOMAIN handler, Backend(h)
       PROVE  [Anchored!Next]_(Anchored!vars)
  BY <1>6, <1>7, <1>8, <1>13 DEF Backend
<1>14. ASSUME UNCHANGED vars
       PROVE  UNCHANGED Anchored!vars
  BY <1>1, <1>14 DEF vars
<1>15. QED
  BY <1>4, <1>5, <1>9, <1>10, <1>11, <1>12, <1>13, <1>14 DEF Next, Others

\* Bot, Hermes, handler, relayer and contract together keep the promise of Anchoring,
\* whoever else posts to the handler or writes to the log: what the log has from the
\* relayer was asked for, each request at most once, under its own number and with the
\* post written for it, and links are for requests of the bot that are in the log.
THEOREM ToxicaKeepsItsPromise == Spec => ImplementsAnchoring
<1>1. Init => Anchored!Init
  BY DEF Init, Anchored!Init, Requests, Entries, InLog, Told
<1>2. Init => Served
  BY IdleServes DEF Init, Served
<1>3. Init => Waiting
  BY DEF Init, Waiting, Idle
<1>4. Inv /\ Served /\ [Next]_vars => Served'
  BY ServedKept
<1>5. Inv /\ Waiting /\ [Next]_vars => Waiting'
  BY WaitingKept
<1>6. Inv /\ Served /\ Waiting /\ [Next]_vars => [Anchored!Next]_(Anchored!vars)
  BY StepKeepsPromise
<1>7. QED
  BY <1>1, <1>2, <1>3, <1>4, <1>5, <1>6, InvHolds, PTL
     DEF Spec, ImplementsAnchoring, Anchored!Spec

================================================================================
