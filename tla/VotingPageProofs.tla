---------------------------- MODULE VotingPageProofs ----------------------------
(******************************************************************************)
(* Theorems about VotingPage, for every value of its constants: any browsers  *)
(* and tabs, any number of the relayer's transactions, any outsiders.         *)
(*                                                                            *)
(* A page remembers the place of its transaction in the relayer's account;    *)
(* what it says when that place is in a block is right because whatever is in *)
(* a block has used its nullifier, by itself or before it (Settled).          *)
(*                                                                            *)
(* The last part holds the theorems about Pages, the other pages of the site. *)
(******************************************************************************)
EXTENDS VotingPage, FiniteSetTheorems, FunctionTheorems, TLAPS

Relayed == [choice : Contract!Choice, nullifier : Nullifier]

\* A page that votes or has voted holds a nullifier.
Held ==
    \A t \in Tab : tab[t].state \notin {"idle", "error"} => tab[t].nullifier \in Nullifier

\* A page that waits for a receipt has sent its own nullifier.
Sent ==
    \A t \in Tab :
        tab[t].state = "receipt" =>
            /\ tab[t].tx \in DOMAIN relayed
            /\ relayed[tab[t].tx].nullifier = tab[t].nullifier

\* What is in a block has been counted, or was refused because it had been.
Settled == \A i \in 1 .. mined : relayed[i].nullifier \in nullifierUsed[PageProposal]

\* Every vote in the log has used its nullifier, and no two votes the same one.
CastOnce ==
    /\ \A v \in votesCast : v.nullifier \in nullifierUsed[v.id]
    /\ \A v, w \in votesCast : v.id = w.id /\ v.nullifier = w.nullifier => v = w

Inv ==
    /\ TypeOK
    /\ Held
    /\ Sent
    /\ Settled
    /\ CastOnce
    /\ PageToldTheTruth

--------------------------------------------------------------------------------
(* The records.                                                               *)

LEMMA Choices == Contract!Choice = {0, 1, 2} /\ Contract!Abstain = 2
  BY DEF Contract!Choice, Contract!Yes, Contract!No, Contract!Abstain

LEMMA NoHashIsNone == NoHash \notin Nullifier
  BY VotingPageAssumption DEF Nullifier

LEMMA FreshPage ==
    ASSUME NEW state \in {"idle", "error"}
    PROVE  /\ Fresh \in PageData /\ Fresh.state = "idle"
           /\ [Fresh EXCEPT !.state = state] \in PageData
           /\ [Fresh EXCEPT !.state = state].state = state
  BY Choices DEF Fresh, PageData, PageState

LEMMA Types ==
    ASSUME TypeOK
    PROVE  /\ secret \in [Browser -> Secret \cup {NoHash}]
           /\ tab \in [Tab -> PageData]
           /\ relayed \in Seq(Relayed)
           /\ DOMAIN relayed = 1 .. Len(relayed) /\ Len(relayed) \in Nat
           /\ mined \in Nat /\ mined <= Len(relayed)
           /\ nullifierUsed \in [ProposalId -> SUBSET Nullifier]
           /\ tally \in [ProposalId -> Counts]
           /\ votesCast \subseteq [id : ProposalId, nullifier : Nullifier,
                                   choice : Contract!Choice]
  BY DEF TypeOK, Relayed

--------------------------------------------------------------------------------
(* The page.                                                                  *)

\* A step of one page, which may send a transaction and does not touch the chain.
LEMMA PageKeeps ==
    ASSUME Inv, NEW t \in Tab, NEW x \in PageData, tab' = [tab EXCEPT ![t] = x],
           secret' \in [Browser -> Secret \cup {NoHash}],
           relayed' \in Seq(Relayed), Len(relayed) <= Len(relayed'),
           \A i \in DOMAIN relayed : relayed'[i] = relayed[i],
           UNCHANGED <<mined, contractVars>>,
           x.state \notin {"idle", "error"} => x.nullifier \in Nullifier,
           x.state = "receipt" =>
               x.tx \in DOMAIN relayed' /\ relayed'[x.tx].nullifier = x.nullifier,
           x.state \in {"done", "dup"} => x.nullifier \in nullifierUsed[PageProposal]
    PROVE  Inv'
<1>1. /\ tab' \in [Tab -> PageData]
      /\ tab'[t] = x
      /\ \A u \in Tab : u # t => tab'[u] = tab[u]
  BY Types DEF Inv
<1>2. /\ DOMAIN relayed' = 1 .. Len(relayed') /\ Len(relayed') \in Nat
      /\ DOMAIN relayed \subseteq DOMAIN relayed'
      /\ \A i \in 1 .. mined : i \in DOMAIN relayed
  BY Types DEF Inv
<1>3. UNCHANGED <<mined, nullifierUsed, tally, votesCast>>
  BY DEF contractVars
<1>4. TypeOK'
  <2>1. mined' \in 0 .. Len(relayed')
    BY <1>2, <1>3, Types DEF Inv
  <2>2. QED
    BY <1>1, <1>3, <2>1, Types DEF Inv, TypeOK, Relayed
<1>5. Held'
  BY <1>1 DEF Inv, Held
<1>6. Sent'
  <2>1. ASSUME NEW u \in Tab, u # t, tab'[u].state = "receipt"
        PROVE  /\ tab[u].tx \in DOMAIN relayed'
               /\ relayed'[tab[u].tx].nullifier = tab[u].nullifier
    BY <1>1, <1>2, <2>1 DEF Inv, Sent
  <2>2. QED
    BY <1>1, <2>1 DEF Sent
<1>7. Settled'
  BY <1>2, <1>3 DEF Inv, Settled
<1>8. CastOnce'
  BY <1>3 DEF Inv, CastOnce
<1>9. PageToldTheTruth'
  BY <1>1, <1>3 DEF Inv, PageToldTheTruth
<1>10. QED
  BY <1>4, <1>5, <1>6, <1>7, <1>8, <1>9 DEF Inv

\* A step after which the page holds nothing.
LEMMA EndKeeps ==
    ASSUME Inv, NEW t \in Tab, NEW x \in PageData, x.state \in {"idle", "error"},
           tab' = [tab EXCEPT ![t] = x], UNCHANGED <<secret, relayed, mined, contractVars>>
    PROVE  Inv'
<1>1. relayed' = relayed /\ secret' = secret /\ UNCHANGED <<mined, contractVars>>
  OBVIOUS
<1>2. /\ x.state \notin {"receipt", "done", "dup"}
      /\ Len(relayed) <= Len(relayed)
  BY Types DEF Inv
<1>3. QED
  BY <1>1, <1>2, PageKeeps, Types DEF Inv

LEMMA ClickKeeps ==
    ASSUME Inv, NEW t \in Tab, NEW choice \in Contract!Choice, Click(t, choice)
    PROVE  Inv'
<1>1. PICK s \in Secret :
             /\ secret' = [secret EXCEPT ![BrowserOf[t]] = s]
             /\ tab' = [tab EXCEPT
                  ![t].state = "prepare",
                  ![t].choice = choice,
                  ![t].nullifier = ComputeNullifier(s, PageProposal)]
  BY Zenon DEF Click
<1>2. PICK n : n = ComputeNullifier(s, PageProposal)
  OBVIOUS
<1>3. PICK x : x = [tab[t] EXCEPT !.state = "prepare", !.choice = choice, !.nullifier = n]
  OBVIOUS
<1>4. tab' = [tab EXCEPT ![t] = x]
  BY <1>1, <1>2, <1>3, Zenon
<1>5. UNCHANGED <<relayed, mined, contractVars>>
  BY DEF Click
<1>6. n \in Nullifier
  BY <1>2, VotingPageAssumption DEF Nullifier, ComputeNullifier
<1>7. x \in PageData /\ x.state = "prepare" /\ x.nullifier = n
  <2>1. tab[t] \in PageData
    BY Types DEF Inv
  <2>2. QED
    BY <1>3, <1>6, <2>1 DEF PageData, PageState
<1>8. secret' \in [Browser -> Secret \cup {NoHash}]
  BY <1>1, Types DEF Inv
<1>9. relayed' = relayed /\ Len(relayed) <= Len(relayed') /\ relayed' \in Seq(Relayed)
  BY <1>5, Types DEF Inv
<1>10. QED
  BY <1>4, <1>5, <1>6, <1>7, <1>8, <1>9, PageKeeps

\* Where the call would be refused, the nullifier has been used.
LEMMA RefusedMeansUsed ==
    ASSUME NEW choice \in Contract!Choice, NEW n \in Nullifier,
           ~Contract!MayCast(PageProposal, choice, n)
    PROVE  n \in nullifierUsed[PageProposal]
  BY Choices, NoHashIsNone DEF Contract!MayCast

LEMMA PrepareKeeps ==
    ASSUME Inv, NEW t \in Tab, Prepare(t)
    PROVE  Inv'
<1>1. PICK passes \in BOOLEAN :
             passes = Contract!MayCast(PageProposal, tab[t].choice, tab[t].nullifier)
  BY DEF Contract!MayCast
<1>2. PICK state : state = IF passes THEN "broadcast" ELSE "dup"
  OBVIOUS
<1>3. PICK nonce : nonce = IF passes THEN Len(relayed) + 1 ELSE 0
  OBVIOUS
<1>4. PICK x : x = [tab[t] EXCEPT !.state = state, !.nonce = nonce]
  OBVIOUS
<1>5. tab' = [tab EXCEPT ![t] = x]
  BY <1>1, <1>2, <1>3, <1>4, Zenon DEF Prepare
<1>6. tab[t].state = "prepare" /\ UNCHANGED <<secret, relayed, mined, contractVars>>
  BY DEF Prepare
<1>7. tab[t] \in PageData
  BY Types DEF Inv
<1>8. tab[t].nullifier \in Nullifier /\ tab[t].choice \in Contract!Choice
  BY <1>6, <1>7 DEF Inv, Held, PageData
<1>9. nonce \in Nat
  BY <1>3, Types DEF Inv
<1>10. /\ x \in PageData
       /\ x.state = state
       /\ x.nullifier = tab[t].nullifier
  BY <1>2, <1>4, <1>7, <1>9 DEF PageData, PageState
<1>11. x.state \in {"done", "dup"} => x.nullifier \in nullifierUsed[PageProposal]
  BY <1>1, <1>2, <1>8, <1>10, RefusedMeansUsed
<1>12. /\ x.state # "receipt"
       /\ secret' \in [Browser -> Secret \cup {NoHash}]
       /\ relayed' = relayed /\ Len(relayed) <= Len(relayed') /\ relayed' \in Seq(Relayed)
  BY <1>2, <1>6, <1>10, Types DEF Inv
<1>13. QED
  BY <1>5, <1>6, <1>8, <1>10, <1>11, <1>12, PageKeeps

LEMMA BroadcastKeeps ==
    ASSUME Inv, NEW t \in Tab, Broadcast(t)
    PROVE  Inv'
<1>1. PICK n : n = Len(relayed) + 1
  OBVIOUS
<1>2. PICK sent : sent = [choice |-> tab[t].choice, nullifier |-> tab[t].nullifier]
  OBVIOUS
<1>3. PICK x : x = [tab[t] EXCEPT !.state = "receipt", !.tx = n, !.nonce = 0]
  OBVIOUS
<1>4. PICK y : y = [Fresh EXCEPT !.state = "error"]
  OBVIOUS
<1>5. tab' = [tab EXCEPT ![t] = x] \/ tab' = [tab EXCEPT ![t] = y]
  BY <1>1, <1>3, <1>4, Zenon DEF Broadcast, VoteEnds
<1>6. /\ tab[t].state = "broadcast"
      /\ relayed' = Append(relayed, sent)
      /\ UNCHANGED <<secret, mined, contractVars>>
  BY <1>2 DEF Broadcast
<1>7. tab[t] \in PageData /\ tab[t].nullifier \in Nullifier /\ n \in Nat
  BY <1>1, <1>6, Types DEF Inv, Held
<1>8. sent \in Relayed /\ sent.nullifier = tab[t].nullifier
  BY <1>2, <1>7 DEF Relayed, PageData
<1>9. /\ relayed' \in Seq(Relayed) /\ Len(relayed) <= Len(relayed')
      /\ \A i \in DOMAIN relayed : relayed'[i] = relayed[i]
      /\ n \in DOMAIN relayed' /\ relayed'[n] = sent
  BY <1>1, <1>6, <1>8, Types DEF Inv
<1>10. secret' \in [Browser -> Secret \cup {NoHash}] /\ UNCHANGED <<mined, contractVars>>
  BY <1>6, Types DEF Inv
<1>11. CASE tab' = [tab EXCEPT ![t] = x]
  <2>1. /\ x \in PageData
        /\ x.state = "receipt" /\ x.tx = n
        /\ x.nullifier = tab[t].nullifier
    BY <1>3, <1>7 DEF PageData, PageState
  <2>2. /\ x.nullifier \in Nullifier
        /\ x.tx \in DOMAIN relayed' /\ relayed'[x.tx].nullifier = x.nullifier
        /\ x.state \notin {"done", "dup"}
    BY <1>7, <1>8, <1>9, <2>1
  <2>3. QED
    BY <1>9, <1>10, <1>11, <2>1, <2>2, PageKeeps
<1>12. CASE tab' = [tab EXCEPT ![t] = y]
  <2>1. y \in PageData /\ y.state = "error"
    BY <1>4, FreshPage
  <2>2. y.state \notin {"receipt", "done", "dup"}
    BY <2>1
  <2>3. QED
    BY <1>9, <1>10, <1>12, <2>1, <2>2, PageKeeps
<1>13. QED
  BY <1>5, <1>11, <1>12

LEMMA ReceiptKeeps ==
    ASSUME Inv, NEW t \in Tab, Receipt(t)
    PROVE  Inv'
<1>1. PICK x : x = [tab[t] EXCEPT !.state = "done"]
  OBVIOUS
<1>2. tab' = [tab EXCEPT ![t] = x]
  BY <1>1, Zenon DEF Receipt
<1>3. /\ tab[t].state = "receipt" /\ tab[t].tx <= mined
      /\ UNCHANGED <<secret, relayed, mined, contractVars>>
  BY DEF Receipt
<1>4. tab[t] \in PageData
  BY Types DEF Inv
<1>5. /\ x \in PageData
      /\ x.state = "done"
      /\ x.nullifier = tab[t].nullifier
  BY <1>1, <1>4 DEF PageData, PageState
<1>6. x.nullifier \in Nullifier
  BY <1>3, <1>5 DEF Inv, Held
<1>7. x.nullifier \in nullifierUsed[PageProposal]
  <2>1. tab[t].tx \in DOMAIN relayed /\ relayed[tab[t].tx].nullifier = tab[t].nullifier
    BY <1>3 DEF Inv, Sent
  <2>2. tab[t].tx \in 1 .. mined
    BY <1>3, <2>1, Types DEF Inv
  <2>3. QED
    BY <1>5, <2>1, <2>2 DEF Inv, Settled
<1>8. /\ x.state # "receipt"
      /\ secret' \in [Browser -> Secret \cup {NoHash}]
      /\ relayed' = relayed /\ Len(relayed) <= Len(relayed') /\ relayed' \in Seq(Relayed)
  BY <1>3, <1>5, Types DEF Inv
<1>9. QED
  BY <1>2, <1>3, <1>5, <1>6, <1>7, <1>8, PageKeeps

\* The steps with which a page ends up empty-handed.
LEMMA EndsKeep ==
    ASSUME Inv, NEW t \in Tab, NonceTaken(t) \/ VoteFails(t) \/ Reload(t)
    PROVE  Inv'
<1>1. PICK y : y = [Fresh EXCEPT !.state = "error"]
  OBVIOUS
<1>2. y \in PageData /\ y.state = "error" /\ Fresh \in PageData /\ Fresh.state = "idle"
  BY <1>1, FreshPage
<1>3. tab' = [tab EXCEPT ![t] = y] \/ tab' = [tab EXCEPT ![t] = Fresh]
  BY <1>1, Zenon DEF NonceTaken, VoteFails, Reload, VoteEnds
<1>4. UNCHANGED <<secret, relayed, mined, contractVars>>
  BY DEF NonceTaken, VoteFails, Reload
<1>5. QED
  BY <1>2, <1>3, <1>4, EndKeeps

--------------------------------------------------------------------------------
(* The contract.                                                              *)

\* A vote that goes through: its nullifier was free and is the only one used.
LEMMA CastEffect ==
    ASSUME Inv, NEW id \in ProposalId, NEW choice \in 0 .. 3, NEW n \in Nullifier \cup {NoHash},
           Contract!CastAnonymous(id, choice, n)
    PROVE  /\ choice \in Contract!Choice
           /\ n \in Nullifier
           /\ n \notin nullifierUsed[id]
           /\ nullifierUsed' \in [ProposalId -> SUBSET Nullifier]
           /\ nullifierUsed'[id] = nullifierUsed[id] \cup {n}
           /\ \A p \in ProposalId : nullifierUsed[p] \subseteq nullifierUsed'[p]
           /\ tally' \in [ProposalId -> Counts]
           /\ votesCast' = votesCast \cup {[id |-> id, nullifier |-> n, choice |-> choice]}
<1>1. /\ choice <= Contract!Abstain
      /\ n # NoHash
      /\ n \notin nullifierUsed[id]
      /\ nullifierUsed' = [nullifierUsed EXCEPT ![id] = nullifierUsed[id] \cup {n}]
      /\ tally' = [tally EXCEPT ![id] = [tally[id] EXCEPT ![choice] = tally[id][choice] + 1]]
      /\ votesCast' = votesCast \cup {[id |-> id, nullifier |-> n, choice |-> choice]}
  BY Zenon DEF Contract!CastAnonymous, Contract!MayCast
<1>2. choice \in Contract!Choice /\ n \in Nullifier
  BY <1>1, Choices
<1>3. tally' \in [ProposalId -> Counts]
  <2>1. tally \in [ProposalId -> Counts]
    BY Types DEF Inv
  <2>2. [tally[id] EXCEPT ![choice] = tally[id][choice] + 1] \in Counts
    BY <1>2, <2>1 DEF Counts
  <2>3. QED
    BY <1>1, <2>1, <2>2
<1>4. nullifierUsed \in [ProposalId -> SUBSET Nullifier]
  BY Types DEF Inv
<1>5. QED
  BY <1>1, <1>2, <1>3, <1>4

\* A vote that goes through, and a block that settles nothing but it.
LEMMA CastKeeps ==
    ASSUME Inv, NEW id \in ProposalId, NEW choice \in 0 .. 3, NEW n \in Nullifier \cup {NoHash},
           Contract!CastAnonymous(id, choice, n), UNCHANGED <<secret, tab, relayed>>,
           mined' \in 0 .. Len(relayed),
           \A i \in 1 .. mined' :
               i \in 1 .. mined \/ (id = PageProposal /\ relayed[i].nullifier = n)
    PROVE  Inv'
<1>1. PICK v : v = [id |-> id, nullifier |-> n, choice |-> choice]
  OBVIOUS
<1>2. /\ choice \in Contract!Choice
      /\ n \in Nullifier
      /\ n \notin nullifierUsed[id]
      /\ nullifierUsed' \in [ProposalId -> SUBSET Nullifier]
      /\ nullifierUsed'[id] = nullifierUsed[id] \cup {n}
      /\ \A p \in ProposalId : nullifierUsed[p] \subseteq nullifierUsed'[p]
      /\ tally' \in [ProposalId -> Counts]
      /\ votesCast' = votesCast \cup {v}
  BY <1>1, CastEffect
<1>3. v.id = id /\ v.nullifier = n
  BY <1>1
<1>4. v \in [id : ProposalId, nullifier : Nullifier, choice : Contract!Choice]
  BY <1>1, <1>2
<1>5. TypeOK'
  BY <1>2, <1>4 DEF Inv, TypeOK
<1>6. Held' /\ Sent'
  BY DEF Inv, Held, Sent
<1>7. Settled'
  <2>1. ASSUME NEW i \in 1 .. mined'
        PROVE  relayed[i].nullifier \in nullifierUsed'[PageProposal]
    <3>1. CASE i \in 1 .. mined
      BY <3>1, <1>2, VotingPageAssumption DEF Inv, Settled
    <3>2. CASE id = PageProposal /\ relayed[i].nullifier = n
      BY <3>2, <1>2
    <3>3. QED
      BY <3>1, <3>2
  <2>2. QED
    BY <2>1 DEF Settled
<1>8. CastOnce'
  <2>1. \A w \in votesCast : w.id \in ProposalId /\ w.nullifier \in nullifierUsed[w.id]
    BY Types DEF Inv, CastOnce
  <2>2. \A w \in votesCast' : w.nullifier \in nullifierUsed'[w.id]
    BY <1>2, <1>3, <2>1
  <2>3. \A w \in votesCast : ~(w.id = v.id /\ w.nullifier = v.nullifier)
    BY <1>2, <1>3, <2>1
  <2>4. \A w, u \in votesCast' : w.id = u.id /\ w.nullifier = u.nullifier => w = u
    BY <1>2, <2>3 DEF Inv, CastOnce
  <2>5. QED
    BY <2>2, <2>4 DEF CastOnce
<1>9. PageToldTheTruth'
  BY <1>2, VotingPageAssumption DEF Inv, PageToldTheTruth
<1>10. QED
  BY <1>5, <1>6, <1>7, <1>8, <1>9 DEF Inv

LEMMA MineKeeps ==
    ASSUME Inv, Mine
    PROVE  Inv'
<1>1. PICK tx : tx = relayed[mined + 1]
  OBVIOUS
<1>2. /\ mined < Len(relayed) /\ mined' = mined + 1
      /\ UNCHANGED <<secret, tab, relayed>>
  BY DEF Mine
<1>3. /\ mined \in Nat /\ Len(relayed) \in Nat
      /\ relayed \in Seq(Relayed) /\ tx \in Relayed
  BY <1>1, <1>2, Types DEF Inv
<1>4. tx.choice \in Contract!Choice /\ tx.nullifier \in Nullifier /\ tx.choice \in 0 .. 3
  BY <1>3, Choices DEF Relayed
<1>5. /\ mined' \in 0 .. Len(relayed)
      /\ \A i \in 1 .. mined' : i \in 1 .. mined \/ relayed[i].nullifier = tx.nullifier
  BY <1>1, <1>2, <1>3
<1>6. CASE Contract!MayCast(PageProposal, tx.choice, tx.nullifier)
  <2>1. Contract!CastAnonymous(PageProposal, tx.choice, tx.nullifier)
    BY <1>1, <1>6 DEF Mine
  <2>2. QED
    BY <1>2, <1>4, <1>5, <2>1, CastKeeps, VotingPageAssumption
<1>7. CASE ~Contract!MayCast(PageProposal, tx.choice, tx.nullifier)
  <2>1. UNCHANGED <<nullifierUsed, tally, votesCast>>
    BY <1>1, <1>7 DEF Mine, contractVars
  <2>2. tx.nullifier \in nullifierUsed[PageProposal]
    BY <1>4, <1>7, RefusedMeansUsed
  <2>3. Settled'
    BY <1>2, <1>5, <2>1, <2>2 DEF Inv, Settled
  <2>4. QED
    BY <1>2, <1>5, <2>1, <2>3
       DEF Inv, TypeOK, Held, Sent, CastOnce, PageToldTheTruth
<1>8. QED
  BY <1>6, <1>7

LEMMA DirectKeeps ==
    ASSUME Inv, NEW id \in ProposalId, NEW choice \in 0 .. 3,
           NEW n \in Outsider \cup {NoHash}, CastDirectly(id, choice, n)
    PROVE  Inv'
<1>1. /\ Contract!CastAnonymous(id, choice, n)
      /\ UNCHANGED <<secret, tab, relayed, mined>>
  BY DEF CastDirectly
<1>2. n \in Nullifier \cup {NoHash}
  BY DEF Nullifier
<1>3. mined' \in 0 .. Len(relayed) /\ \A i \in 1 .. mined' : i \in 1 .. mined
  BY <1>1, Types DEF Inv
<1>4. QED
  BY <1>1, <1>2, <1>3, CastKeeps

--------------------------------------------------------------------------------
(* The invariant.                                                             *)

LEMMA InvHolds == Spec => []Inv
<1>1. Init => Inv
  <2>1. SUFFICES ASSUME Init
                 PROVE  Inv
    OBVIOUS
  <2>2. /\ secret = [b \in Browser |-> NoHash] /\ tab = [t \in Tab |-> Fresh]
        /\ relayed = <<>> /\ mined = 0
        /\ nullifierUsed = [id \in ProposalId |-> {}]
        /\ tally = [id \in ProposalId |-> [c \in Contract!Choice |-> 0]]
        /\ votesCast = {}
    BY <2>1 DEF Init, Contract!Init
  <2>3. TypeOK
    BY <2>2, FreshPage DEF TypeOK, Counts
  <2>4. \A t \in Tab : tab[t].state = "idle"
    BY <2>2, FreshPage
  <2>5. QED
    BY <2>2, <2>3, <2>4 DEF Inv, Held, Sent, Settled, CastOnce, PageToldTheTruth
<1>2. Inv /\ [Next]_vars => Inv'
  <2>1. SUFFICES ASSUME Inv, [Next]_vars
                 PROVE  Inv'
    OBVIOUS
  <2>2. ASSUME NEW t \in Tab, NEW choice \in Contract!Choice, Click(t, choice)
        PROVE  Inv'
    BY <2>1, <2>2, ClickKeeps
  <2>3. ASSUME NEW t \in Tab, Prepare(t)
        PROVE  Inv'
    BY <2>1, <2>3, PrepareKeeps
  <2>4. ASSUME NEW t \in Tab, Broadcast(t)
        PROVE  Inv'
    BY <2>1, <2>4, BroadcastKeeps
  <2>5. ASSUME NEW t \in Tab, Receipt(t)
        PROVE  Inv'
    BY <2>1, <2>5, ReceiptKeeps
  <2>6. ASSUME NEW t \in Tab, NonceTaken(t) \/ VoteFails(t) \/ Reload(t)
        PROVE  Inv'
    BY <2>1, <2>6, EndsKeep
  <2>7. CASE Mine
    BY <2>1, <2>7, MineKeeps
  <2>8. ASSUME NEW id \in ProposalId, NEW choice \in 0 .. 3,
               NEW n \in Outsider \cup {NoHash}, CastDirectly(id, choice, n)
        PROVE  Inv'
    BY <2>1, <2>8, DirectKeeps
  <2>9. CASE UNCHANGED vars
    BY <2>1, <2>9 DEF vars, contractVars, Inv, TypeOK, Held, Sent, Settled, CastOnce,
                      PageToldTheTruth
  <2>10. QED
    BY <2>1, <2>2, <2>3, <2>4, <2>5, <2>6, <2>7, <2>8, <2>9 DEF Next
<1>3. QED
  BY <1>1, <1>2, PTL DEF Spec

\* Every variable has its type: no choice beyond the three and no empty nullifier
\* ever reaches a count.
THEOREM TypeCorrect == Spec => []TypeOK
<1>1. Inv => TypeOK
  BY DEF Inv
<1>2. QED
  BY <1>1, InvHolds, PTL

\* A page that reports the vote, or a vote before it, is right: the nullifier of
\* its identity is used on the chain.
THEOREM PagesTellTheTruth == Spec => []PageToldTheTruth
<1>1. Inv => PageToldTheTruth
  BY DEF Inv
<1>2. QED
  BY <1>1, InvHolds, PTL

--------------------------------------------------------------------------------
(* Anonymous voting implements Election.                                      *)

\* A vote that goes through is the first of its nullifier, or on another proposal.
LEMMA CastElects ==
    ASSUME Inv, NEW id \in ProposalId, NEW choice \in 0 .. 3, NEW n \in Nullifier \cup {NoHash},
           Contract!CastAnonymous(id, choice, n)
    PROVE  [Elected!Next]_(Elected!vars)
<1>1. PICK v : v = [id |-> id, nullifier |-> n, choice |-> choice]
  OBVIOUS
<1>2. /\ choice \in Contract!Choice
      /\ n \in Nullifier
      /\ n \notin nullifierUsed[id]
      /\ votesCast' = votesCast \cup {v}
  BY <1>1, CastEffect
<1>3. v.id = id /\ v.nullifier = n /\ v.choice = choice
  BY <1>1
<1>4. CASE id # PageProposal
  <2>1. \A m \in Nullifier : CastBy(m)' = CastBy(m)
    BY <1>2, <1>3, <1>4 DEF CastBy
  <2>2. BallotOf' = BallotOf
    BY <2>1 DEF BallotOf
  <2>3. QED
    BY <2>2 DEF Elected!vars
<1>5. CASE id = PageProposal
  <2>1. CastBy(n) = {} /\ CastBy(n)' = {v}
    BY <1>2, <1>3, <1>5 DEF CastBy, Inv, CastOnce
  <2>2. \A m \in Nullifier : m # n => CastBy(m)' = CastBy(m)
    BY <1>2, <1>3 DEF CastBy
  <2>3. BallotOf[n] = -1
    BY <1>2, <2>1 DEF BallotOf, ChoiceIn
  <2>4. BallotOf' = [BallotOf EXCEPT ![n] = choice]
    <3>1. ASSUME NEW m \in Nullifier
          PROVE  BallotOf'[m] = IF m = n THEN choice ELSE BallotOf[m]
      <4>1. CASE m = n
        BY <4>1, <1>3, <2>1 DEF BallotOf, ChoiceIn
      <4>2. CASE m # n
        BY <4>2, <2>2 DEF BallotOf
      <4>3. QED
        BY <4>1, <4>2
    <3>2. /\ BallotOf = [m \in Nullifier |-> BallotOf[m]]
          /\ BallotOf' = [m \in Nullifier |-> BallotOf'[m]]
      BY DEF BallotOf
    <3>3. QED
      BY <3>1, <3>2
  <2>5. Elected!Cast(n, choice)
    BY <2>3, <2>4 DEF Elected!Cast
  <2>6. QED
    BY <1>2, <2>5 DEF Elected!Next
<1>6. QED
  BY <1>4, <1>5

\* The votes in the contract's log form one election: whoever sends them, a
\* nullifier casts one ballot on the page's proposal and never changes it.
THEOREM PageImplementsElection == Spec => ImplementsElection
<1>1. Init => Elected!Init
  <2>1. SUFFICES ASSUME Init
                 PROVE  Elected!Init
    OBVIOUS
  <2>2. votesCast = {}
    BY <2>1 DEF Init, Contract!Init
  <2>3. BallotOf = [n \in Nullifier |-> -1]
    BY <2>2 DEF BallotOf, CastBy, ChoiceIn
  <2>4. QED
    BY <2>3 DEF Elected!Init
<1>2. Inv /\ [Next]_vars => [Elected!Next]_(Elected!vars)
  <2>1. SUFFICES ASSUME Inv, [Next]_vars
                 PROVE  [Elected!Next]_(Elected!vars)
    OBVIOUS
  <2>2. ASSUME UNCHANGED contractVars
        PROVE  UNCHANGED Elected!vars
    BY <2>2 DEF contractVars, Elected!vars, BallotOf, CastBy
  <2>3. ASSUME NEW t \in Tab,
               \/ \E choice \in Contract!Choice : Click(t, choice)
               \/ Prepare(t) \/ Broadcast(t) \/ NonceTaken(t) \/ Receipt(t) \/ VoteFails(t)
               \/ Reload(t)
        PROVE  UNCHANGED contractVars
    BY <2>3, Zenon DEF Click, Prepare, Broadcast, NonceTaken, Receipt, VoteFails, Reload
  <2>4. CASE Mine
    <3>1. PICK tx : tx = relayed[mined + 1]
      OBVIOUS
    <3>2. CASE Contract!MayCast(PageProposal, tx.choice, tx.nullifier)
      <4>1. Contract!CastAnonymous(PageProposal, tx.choice, tx.nullifier)
        BY <2>4, <3>1, <3>2 DEF Mine
      <4>2. relayed \in Seq(Relayed) /\ mined + 1 \in 1 .. Len(relayed)
        BY <2>1, <2>4, Types DEF Inv, Mine
      <4>3. tx \in Relayed
        BY <3>1, <4>2
      <4>4. tx.choice \in 0 .. 3 /\ tx.nullifier \in Nullifier
        BY <4>3, Choices DEF Relayed
      <4>5. QED
        BY <2>1, <4>1, <4>4, CastElects, VotingPageAssumption
    <3>3. CASE ~Contract!MayCast(PageProposal, tx.choice, tx.nullifier)
      <4>1. UNCHANGED contractVars
        BY <2>4, <3>1, <3>3 DEF Mine
      <4>2. QED
        BY <2>2, <4>1
    <3>4. QED
      BY <3>2, <3>3
  <2>5. ASSUME NEW id \in ProposalId, NEW choice \in 0 .. 3,
               NEW n \in Outsider \cup {NoHash}, CastDirectly(id, choice, n)
        PROVE  [Elected!Next]_(Elected!vars)
    <3>1. Contract!CastAnonymous(id, choice, n) /\ n \in Nullifier \cup {NoHash}
      BY <2>5 DEF CastDirectly, Nullifier
    <3>2. QED
      BY <2>1, <3>1, CastElects
  <2>6. QED
    BY <2>1, <2>2, <2>3, <2>4, <2>5 DEF Next, vars
<1>3. QED
  BY <1>1, <1>2, InvHolds, PTL DEF Spec, ImplementsElection, Elected!Spec

--------------------------------------------------------------------------------
(* The other pages of the site.  Pages is about one tab on /hermes, /sistema, *)
(* /toxica and /votacion, for every value of its bounds; the contract is the  *)
(* one above.                                                                 *)
(*                                                                            *)
(* The console keeps its questions and answers in turn because a message is   *)
(* added only when none is awaited or as the awaited one, so the length of    *)
(* the list alone says which question is open (Dialogue).  A published report *)
(* stays the approved one because the analysis that could replace it takes    *)
(* the publication back when it starts, and not when it ends (Attended).      *)

CONSTANTS MaxReads, MaxMessages, MaxAnalyses, MaxCouncils, MaxRestarts

VARIABLES
    page, councils, restarts,
    messages, loading, asked, online, proposals,
    status, statusReads, err,
    report, analyzing, published, failure, analyses, approved,
    shownTally, tallyReads, tallyFailed

Site == INSTANCE Pages

\* The console: questions have even places, a question under way is the last message.
Dialogue ==
    /\ messages \in Seq(Site!Message)
    /\ Len(messages) \in 1 .. MaxMessages + 1
    /\ asked \in Site!Question
    /\ loading \in BOOLEAN
    /\ online \in {"unknown", "yes", "no"}
    /\ proposals \in {"unknown", "listed", "failed"}
    /\ \A i \in DOMAIN messages :
         messages[i].of = i \div 2 /\ (messages[i].role = "user" <=> i % 2 = 0)
    /\ loading <=> Len(messages) % 2 = 0
    /\ loading <=> asked.at # "idle"
    /\ loading => asked.of = Len(messages) \div 2 /\ Len(messages) <= MaxMessages

\* The contract the tally is read from.
Counted ==
    /\ nullifierUsed \in [Site!ProposalId -> SUBSET Nullifier]
    /\ tally \in [Site!ProposalId -> Site!Tally]
    /\ votesCast \subseteq Site!Ballot

\* The polled values: what is shown or on its way is one of the values there are.
Polled ==
    /\ page \in Site!Page
    /\ councils \in 0 .. MaxCouncils /\ restarts \in 0 .. MaxRestarts
    /\ Counted
    /\ status \in Site!Maybe(0 .. MaxCouncils)
    /\ statusReads \in Seq(0 .. MaxCouncils) /\ Len(statusReads) <= MaxReads
    /\ err \in BOOLEAN
    /\ shownTally \in Site!Maybe(Site!Tally)
    /\ tallyReads \in Seq(Site!Tally) /\ Len(tallyReads) <= MaxReads
    /\ tallyFailed = FALSE

\* /toxica: while an analysis runs there is neither a report nor a publication.
Attended ==
    /\ report \in Site!Report
    /\ analyzing \in {"no", "valid", "refused"}
    /\ {published, failure} \subseteq BOOLEAN
    /\ analyses \in 0 .. MaxAnalyses /\ approved \in 0 .. MaxAnalyses
    /\ analyzing # "no" => report = Site!NoReport /\ ~published
    /\ Site!PublishedWasApproved

SiteInv == Dialogue /\ Polled /\ Attended

--------------------------------------------------------------------------------

\* The numbers the console gives to its questions.
LEMMA EvenNumbers ==
    ASSUME NEW n \in Nat
    PROVE  Cardinality({i \in 1 .. n : i % 2 = 0}) = n \div 2
<1>1. PICK half : half = n \div 2
  OBVIOUS
<1>2. half \in Nat /\ 2 * half <= n /\ n < 2 * half + 2
  BY <1>1
<1>3. PICK double : double = [k \in 1 .. half |-> 2 * k]
  OBVIOUS
<1>4. double \in [1 .. half -> {i \in 1 .. n : i % 2 = 0}]
  BY <1>2, <1>3
<1>5. \A j, k \in 1 .. half : double[j] = double[k] => j = k
  BY <1>2, <1>3
<1>6. ASSUME NEW i \in {j \in 1 .. n : j % 2 = 0}
      PROVE  \E k \in 1 .. half : double[k] = i
  <2>1. PICK k : k = i \div 2
    OBVIOUS
  <2>2. k \in 1 .. half /\ 2 * k = i
    BY <1>2, <2>1
  <2>3. QED
    BY <1>3, <2>2
<1>7. double \in Bijection(1 .. half, {i \in 1 .. n : i % 2 = 0})
  BY <1>4, <1>5, <1>6, Fun_IsBij
<1>8. QED
  BY <1>1, <1>2, <1>7, FS_CountingElements DEF ExistsBijection

\* Cardinality as Pages reads it.
LEMMA SameCardinality ==
    ASSUME NEW S
    PROVE  Site!Cardinality(S) = Cardinality(S)
  BY DEF Site!Cardinality, Cardinality

LEMMA NextNumber ==
    ASSUME Dialogue
    PROVE  Site!NextQuestion = Len(messages) \div 2 + 1
<1>1. DOMAIN messages = 1 .. Len(messages) /\ Len(messages) \in Nat
  BY DEF Dialogue
<1>2. {i \in DOMAIN messages : messages[i].role = "user"}
        = {i \in 1 .. Len(messages) : i % 2 = 0}
  BY <1>1 DEF Dialogue
<1>3. QED
  <2>1. Cardinality({i \in 1 .. Len(messages) : i % 2 = 0}) = Len(messages) \div 2
    BY <1>1, EvenNumbers
  <2>2. QED
    BY <1>2, <2>1, SameCardinality DEF Site!NextQuestion

LEMMA Parity ==
    ASSUME NEW n \in Nat
    PROVE  (n + 1) % 2 = 0 <=> ~(n % 2 = 0)
  OBVIOUS

LEMMA Appended ==
    ASSUME NEW R, NEW s \in Seq(R), NEW m \in R
    PROVE  /\ Append(s, m) \in Seq(R)
           /\ Len(Append(s, m)) = Len(s) + 1
           /\ DOMAIN Append(s, m) = DOMAIN s \cup {Len(s) + 1}
           /\ Append(s, m)[Len(s) + 1] = m
           /\ \A i \in DOMAIN s : Append(s, m)[i] = s[i]
  OBVIOUS

\* One more message, and what the console then waits for.
LEMMA MessageKeeps ==
    ASSUME Site!PagesAssumption, Dialogue, NEW message \in Site!Message,
           messages' = Append(messages, message), UNCHANGED <<online, proposals>>,
           asked' \in Site!Question, loading' \in BOOLEAN,
           message.of = (Len(messages) + 1) \div 2,
           message.role = "user" <=> ~loading,
           loading' = ~loading, loading' <=> asked'.at # "idle",
           loading' => asked'.of = message.of /\ Len(messages) < MaxMessages
    PROVE  Dialogue'
<1>1. /\ messages \in Seq(Site!Message)
      /\ Len(messages) \in Nat /\ MaxMessages \in Nat
      /\ Len(messages) \in 1 .. MaxMessages + 1
      /\ loading <=> Len(messages) % 2 = 0
      /\ loading => Len(messages) <= MaxMessages
      /\ loading \in BOOLEAN
  BY DEF Dialogue, Site!PagesAssumption
<1>2. /\ messages' \in Seq(Site!Message)
      /\ Len(messages') = Len(messages) + 1
      /\ DOMAIN messages' = DOMAIN messages \cup {Len(messages) + 1}
      /\ messages'[Len(messages) + 1] = message
      /\ \A i \in DOMAIN messages : messages'[i] = messages[i]
  <2>1. PICK R : R = Site!Message
    OBVIOUS
  <2>2. messages \in Seq(R) /\ message \in R
    BY <1>1, <2>1
  <2>3. /\ Append(messages, message) \in Seq(R)
        /\ Len(Append(messages, message)) = Len(messages) + 1
        /\ DOMAIN Append(messages, message) = DOMAIN messages \cup {Len(messages) + 1}
        /\ Append(messages, message)[Len(messages) + 1] = message
        /\ \A i \in DOMAIN messages : Append(messages, message)[i] = messages[i]
    BY <2>2, Appended
  <2>4. QED
    BY <2>1, <2>3
<1>3. (Len(messages) + 1) % 2 = 0 <=> ~(Len(messages) % 2 = 0)
  BY <1>1, Parity
<1>4. Len(messages') \in 1 .. MaxMessages + 1
  <2>1. CASE loading
    BY <1>1, <1>2, <2>1
  <2>2. CASE ~loading
    <3>1. loading'
      BY <2>2, Zenon
    <3>2. Len(messages) < MaxMessages
      BY <3>1, Zenon
    <3>3. QED
      BY <1>1, <1>2, <3>2
  <2>3. QED
    BY <2>1, <2>2, Zenon
<1>5. \A i \in DOMAIN messages' :
         messages'[i].of = i \div 2 /\ (messages'[i].role = "user" <=> i % 2 = 0)
  <2>1. \A i \in DOMAIN messages :
           messages[i].of = i \div 2 /\ (messages[i].role = "user" <=> i % 2 = 0)
    BY DEF Dialogue
  <2>2. message.role = "user" <=> (Len(messages) + 1) % 2 = 0
    BY <1>1, <1>3
  <2>3. ASSUME NEW i \in DOMAIN messages'
        PROVE  messages'[i].of = i \div 2 /\ (messages'[i].role = "user" <=> i % 2 = 0)
    <3>1. CASE i \in DOMAIN messages
      BY <1>2, <2>1, <3>1, Zenon
    <3>2. CASE i = Len(messages) + 1
      BY <1>2, <2>2, <3>2, Zenon
    <3>3. QED
      BY <1>2, <3>1, <3>2
  <2>4. QED
    BY <2>3
<1>6. loading' <=> Len(messages') % 2 = 0
  <2>1. loading' <=> ~(Len(messages) % 2 = 0)
    BY <1>1, Zenon
  <2>2. QED
    BY <1>2, <1>3, <2>1, Zenon
<1>7. loading' => asked'.of = Len(messages') \div 2 /\ Len(messages') <= MaxMessages
  <2>1. SUFFICES ASSUME loading'
                 PROVE  asked'.of = Len(messages') \div 2 /\ Len(messages') <= MaxMessages
    OBVIOUS
  <2>2. asked'.of = message.of /\ Len(messages) < MaxMessages
    BY <2>1, Zenon
  <2>3. asked'.of = Len(messages') \div 2
    <3>1. asked'.of = (Len(messages) + 1) \div 2
      BY <2>2, Zenon
    <3>2. QED
      BY <1>2, <3>1, Zenon
  <2>4. Len(messages') <= MaxMessages
    <3>1. Len(messages) < MaxMessages /\ Len(messages') = Len(messages) + 1
      BY <1>2, <2>2, Zenon
    <3>2. Len(messages) \in Nat /\ MaxMessages \in Nat
      BY <1>1, Zenon
    <3>3. \A n, m \in Nat : n < m => n + 1 <= m
      OBVIOUS
    <3>4. QED
      BY <3>1, <3>2, <3>3, Zenon
  <2>5. QED
    BY <2>3, <2>4
<1>8. QED
  BY <1>2, <1>4, <1>5, <1>6, <1>7 DEF Dialogue

LEMMA Removed ==
    ASSUME NEW S, NEW s \in Seq(S), NEW i \in DOMAIN s
    PROVE  /\ Site!Status!RemoveAt(s, i) \in Seq(S)
           /\ Site!Live!RemoveAt(s, i) \in Seq(S)
           /\ Len(Site!Status!RemoveAt(s, i)) <= Len(s)
           /\ Len(Site!Live!RemoveAt(s, i)) <= Len(s)
  BY DEF Site!Status!RemoveAt, Site!Live!RemoveAt

LEMMA DialogueFresh ==
    ASSUME Site!PagesAssumption, Site!ConsoleFresh
    PROVE  Dialogue
<1>1. MaxMessages \in Nat
  BY DEF Site!PagesAssumption
<1>2. messages = <<[role |-> "system", of |-> 0]>> /\ loading = FALSE
      /\ asked = [of |-> 0, kind |-> "none", at |-> "idle"]
      /\ online = "unknown" /\ proposals = "unknown"
  BY DEF Site!ConsoleFresh, Site!Greeting, Site!NotAsked
<1>3. messages \in Seq(Site!Message)
  BY <1>2 DEF Site!Message, Site!Role
<1>4. Len(messages) = 1 /\ DOMAIN messages = {1} /\ messages[1] = [role |-> "system", of |-> 0]
  BY <1>2
<1>5. asked \in Site!Question
  BY <1>2 DEF Site!Question
<1>6. 1 \div 2 = 0 /\ 1 % 2 = 1
  OBVIOUS
<1>7. \A i \in DOMAIN messages :
         messages[i].of = i \div 2 /\ (messages[i].role = "user" <=> i % 2 = 0)
  BY <1>4, <1>6
<1>8. Len(messages) \in 1 .. MaxMessages + 1 /\ (loading <=> Len(messages) % 2 = 0)
      /\ (loading <=> asked.at # "idle")
  BY <1>1, <1>2, <1>4, <1>6
<1>9. QED
  BY <1>2, <1>3, <1>5, <1>7, <1>8 DEF Dialogue

LEMMA ConsoleRestarts ==
    ASSUME Site!PagesAssumption
    PROVE  Site!ConsoleFresh' => Dialogue'
<1>1. Site!ConsoleFresh => Dialogue
  BY DialogueFresh
<1>2. QED
  BY <1>1, PTL

\* The actions that change the console, and all others.
LEMMA ConsoleActions ==
    ASSUME [Site!Next]_(Site!vars)
    PROVE  \/ \E p \in Site!Page : Site!Go(p)
           \/ Site!HealthAnswered \/ Site!ProposalsAnswered
           \/ \E kind \in Site!Kind, by \in Site!By : Site!Send(kind, by)
           \/ Site!HermesWorks
           \/ \E role \in {"hermes", "council", "error"} : Site!Answer(role)
           \/ UNCHANGED Site!consoleVars
  BY Zenon DEF Site!Next, Site!vars, Site!OtherCouncil, Site!RestartHermes, Site!OtherVote,
         Site!LoadStatus, Site!StatusArrives, Site!StatusFails, Site!StatusRest, Site!Refresh,
         Site!TallyArrives, Site!TallyFails, Site!TallyRest, Site!Analyze, Site!ShowAnswer,
         Site!AnalysisFails, Site!Approve, Site!Discard, Site!ToxicaRest

LEMMA DialogueKept ==
    ASSUME Site!PagesAssumption, Dialogue, [Site!Next]_(Site!vars)
    PROVE  Dialogue'
<1>1. ASSUME NEW p \in Site!Page, Site!Go(p)
      PROVE  Dialogue'
  BY <1>1, ConsoleRestarts DEF Site!Go, Site!ConsoleFresh
<1>2. CASE Site!HealthAnswered
  BY <1>2 DEF Site!HealthAnswered, Dialogue
<1>3. CASE Site!ProposalsAnswered
  BY <1>3 DEF Site!ProposalsAnswered, Dialogue
<1>4. ASSUME NEW kind \in Site!Kind, NEW by \in Site!By, Site!Send(kind, by)
      PROVE  Dialogue'
  <2>1. PICK message : message = [role |-> "user", of |-> Site!NextQuestion]
    OBVIOUS
  <2>2. /\ ~loading /\ Len(messages) < MaxMessages /\ loading' = TRUE
        /\ messages' = Append(messages, message)
        /\ asked' = [of |-> message.of, kind |-> kind, at |-> "sent"]
        /\ UNCHANGED <<online, proposals>>
    BY <1>4, <2>1 DEF Site!Send
  <2>3. Len(messages) \in Nat /\ Len(messages) % 2 = 1
    <3>1. messages \in Seq(Site!Message) /\ (loading <=> Len(messages) % 2 = 0)
      BY DEF Dialogue
    <3>2. ~(Len(messages) % 2 = 0)
      BY <2>2, <3>1, Zenon
    <3>3. QED
      BY <3>1, <3>2
  <2>4. Site!NextQuestion = (Len(messages) + 1) \div 2 /\ Site!NextQuestion \in Nat
    BY <2>3, NextNumber
  <2>5. message \in Site!Message /\ message.of = (Len(messages) + 1) \div 2
        /\ message.role = "user"
    BY <2>1, <2>4 DEF Site!Message, Site!Role
  <2>6. asked' \in Site!Question /\ asked'.at # "idle" /\ asked'.of = message.of
    BY <2>2, <2>5 DEF Site!Question
  <2>7. QED
    BY <2>2, <2>5, <2>6, MessageKeeps
<1>5. CASE Site!HermesWorks
  <2>1. asked.at = "sent" /\ asked' = [asked EXCEPT !.at = "worked"]
        /\ UNCHANGED <<messages, loading, online, proposals>>
    BY <1>5 DEF Site!HermesWorks
  <2>2. asked' \in Site!Question /\ asked'.at # "idle" /\ asked'.of = asked.of
    BY <2>1 DEF Dialogue, Site!Question
  <2>3. QED
    BY <2>1, <2>2 DEF Dialogue
<1>6. ASSUME NEW role \in {"hermes", "council", "error"}, Site!Answer(role)
      PROVE  Dialogue'
  <2>1. PICK message : message = [role |-> role, of |-> asked.of]
    OBVIOUS
  <2>2. /\ asked.at # "idle" /\ loading' = FALSE
        /\ messages' = Append(messages, message)
        /\ asked' = [of |-> 0, kind |-> "none", at |-> "idle"]
        /\ UNCHANGED <<online, proposals>>
    BY <1>6, <2>1 DEF Site!Answer, Site!NotAsked
  <2>3. loading /\ Len(messages) \in Nat /\ Len(messages) % 2 = 0
        /\ asked.of = Len(messages) \div 2
    <3>1. messages \in Seq(Site!Message) /\ (loading <=> Len(messages) % 2 = 0)
          /\ (loading <=> asked.at # "idle")
          /\ (loading => asked.of = Len(messages) \div 2)
      BY DEF Dialogue
    <3>2. loading
      BY <2>2, <3>1, Zenon
    <3>3. Len(messages) \in Nat
      BY <3>1
    <3>4. QED
      BY <3>1, <3>2, <3>3, Zenon
  <2>4. asked.of \in Nat /\ asked.of = (Len(messages) + 1) \div 2
    BY <2>3
  <2>5. message \in Site!Message /\ message.of = (Len(messages) + 1) \div 2
        /\ message.role # "user"
    BY <2>1, <2>4 DEF Site!Message, Site!Role
  <2>6. asked' \in Site!Question /\ asked'.at = "idle"
    BY <2>2 DEF Site!Question
  <2>7. QED
    BY <2>2, <2>3, <2>5, <2>6, MessageKeeps
<1>7. CASE UNCHANGED Site!consoleVars
  BY <1>7 DEF Site!consoleVars, Dialogue
<1>8. QED
  BY <1>1, <1>2, <1>3, <1>4, <1>5, <1>6, <1>7, ConsoleActions

LEMMA VoteCounted ==
    ASSUME Site!PagesAssumption, Counted, NEW c \in 0 .. 3, NEW n \in Nullifier \cup {NoHash},
           Site!Contract!CastAnonymous(1, c, n)
    PROVE  Counted'
<1>1. c \in Site!Contract!Choice /\ n \in Nullifier /\ 1 \in Site!ProposalId
  BY DEF Site!Contract!CastAnonymous, Site!Contract!MayCast, Site!Contract!Choice,
         Site!Contract!Yes, Site!Contract!No, Site!Contract!Abstain, Site!ProposalId
<1>2. nullifierUsed' \in [Site!ProposalId -> SUBSET Nullifier]
  BY <1>1 DEF Counted, Site!Contract!CastAnonymous
<1>3. tally' \in [Site!ProposalId -> Site!Tally]
  BY <1>1 DEF Counted, Site!Tally, Site!Contract!CastAnonymous
<1>4. [id |-> 1, nullifier |-> n, choice |-> c] \in Site!Ballot
  BY <1>1 DEF Site!Ballot
<1>5. votesCast' \subseteq Site!Ballot
  BY <1>4 DEF Counted, Site!Contract!CastAnonymous
<1>6. QED
  BY <1>2, <1>3, <1>5 DEF Counted

\* Reads under way, one more or one less.
LEMMA PollKept ==
    ASSUME NEW S, NEW v \in S, MaxReads \in Nat
    PROVE  /\ status \in Site!Maybe(S) /\ statusReads \in Seq(S) /\ Len(statusReads) <= MaxReads
                /\ (Site!Status!Load(v) \/ \E i \in DOMAIN statusReads :
                       Site!Status!Arrive(i) \/ Site!Status!Fail(i, TRUE))
              => status' \in Site!Maybe(S) /\ statusReads' \in Seq(S)
                /\ Len(statusReads') <= MaxReads
           /\ shownTally \in Site!Maybe(S) /\ tallyReads \in Seq(S)
                /\ Len(tallyReads) <= MaxReads
                /\ (Site!Live!Load(v) \/ \E i \in DOMAIN tallyReads :
                       Site!Live!Arrive(i) \/ Site!Live!Fail(i, FALSE))
              => shownTally' \in Site!Maybe(S) /\ tallyReads' \in Seq(S)
                /\ Len(tallyReads') <= MaxReads
<1>1. ASSUME status \in Site!Maybe(S), statusReads \in Seq(S), Len(statusReads) <= MaxReads,
             Site!Status!Load(v) \/ \E i \in DOMAIN statusReads :
                       Site!Status!Arrive(i) \/ Site!Status!Fail(i, TRUE)
      PROVE  status' \in Site!Maybe(S) /\ statusReads' \in Seq(S)
                /\ Len(statusReads') <= MaxReads
  <2>1. CASE Site!Status!Load(v)
    BY <1>1, <2>1 DEF Site!Status!Load
  <2>2. ASSUME NEW i \in DOMAIN statusReads, Site!Status!Arrive(i)
        PROVE  status' \in Site!Maybe(S) /\ statusReads' \in Seq(S)
                /\ Len(statusReads') <= MaxReads
    BY <1>1, <2>2, Removed DEF Site!Status!Arrive, Site!Maybe
  <2>3. ASSUME NEW i \in DOMAIN statusReads, Site!Status!Fail(i, TRUE)
        PROVE  status' \in Site!Maybe(S) /\ statusReads' \in Seq(S)
                /\ Len(statusReads') <= MaxReads
    BY <1>1, <2>3, Removed DEF Site!Status!Fail
  <2>4. QED
    BY <1>1, <2>1, <2>2, <2>3
<1>2. ASSUME shownTally \in Site!Maybe(S), tallyReads \in Seq(S), Len(tallyReads) <= MaxReads,
             Site!Live!Load(v) \/ \E i \in DOMAIN tallyReads :
                       Site!Live!Arrive(i) \/ Site!Live!Fail(i, FALSE)
      PROVE  shownTally' \in Site!Maybe(S) /\ tallyReads' \in Seq(S)
                /\ Len(tallyReads') <= MaxReads
  <2>1. CASE Site!Live!Load(v)
    BY <1>2, <2>1 DEF Site!Live!Load
  <2>2. ASSUME NEW i \in DOMAIN tallyReads, Site!Live!Arrive(i)
        PROVE  shownTally' \in Site!Maybe(S) /\ tallyReads' \in Seq(S)
                /\ Len(tallyReads') <= MaxReads
    BY <1>2, <2>2, Removed DEF Site!Live!Arrive, Site!Maybe
  <2>3. ASSUME NEW i \in DOMAIN tallyReads, Site!Live!Fail(i, FALSE)
        PROVE  shownTally' \in Site!Maybe(S) /\ tallyReads' \in Seq(S)
                /\ Len(tallyReads') <= MaxReads
    BY <1>2, <2>3, Removed DEF Site!Live!Fail
  <2>4. QED
    BY <1>2, <2>1, <2>2, <2>3
<1>3. QED
  BY <1>1, <1>2

\* The actions that change a polled value, a poll or the page shown, and all others.
LEMMA PolledActions ==
    ASSUME [Site!Next]_(Site!vars)
    PROVE  \/ \E p \in Site!Page : Site!Go(p)
           \/ Site!OtherCouncil \/ Site!RestartHermes \/ Site!HermesWorks
           \/ \E c \in 0 .. 3, n \in Nullifier \cup {NoHash} : Site!OtherVote(c, n)
           \/ Site!LoadStatus \/ Site!StatusArrives \/ Site!StatusFails
           \/ Site!Refresh \/ Site!TallyArrives \/ Site!TallyFails
           \/ UNCHANGED <<page, Site!serviceVars, Site!statusVars, Site!tallyVars>>
  BY Zenon DEF Site!Next, Site!vars, Site!serviceVars, Site!contractVars, Site!HealthAnswered,
         Site!ProposalsAnswered, Site!Send, Site!Answer, Site!Rest, Site!Analyze,
         Site!ShowAnswer, Site!AnalysisFails, Site!Approve, Site!Discard, Site!ToxicaRest

LEMMA PolledKept ==
    ASSUME Site!PagesAssumption, Polled, [Site!Next]_(Site!vars)
    PROVE  Polled'
<1> USE DEF Site!serviceVars, Site!contractVars, Site!statusVars, Site!tallyVars
<1>1. MaxReads \in Nat /\ MaxCouncils \in Nat /\ MaxRestarts \in Nat
  BY DEF Site!PagesAssumption
<1>2. ASSUME NEW p \in Site!Page, Site!Go(p)
      PROVE  Polled'
  <2>1. /\ page' = p /\ UNCHANGED Site!serviceVars
        /\ status' = <<>> /\ statusReads' = <<>> /\ err' = FALSE
        /\ shownTally' = <<>> /\ tallyReads' = <<>> /\ tallyFailed' = FALSE
    BY <1>2 DEF Site!Go, Site!Status!Unmount, Site!Live!Unmount
  <2>2. QED
    <3>1. /\ councils' \in 0 .. MaxCouncils /\ restarts' \in 0 .. MaxRestarts
          /\ Counted'
      BY <2>1, Zenon DEF Polled, Counted
    <3>2. <<>> \in Site!Maybe(0 .. MaxCouncils) /\ <<>> \in Site!Maybe(Site!Tally)
      BY DEF Site!Maybe
    <3>3. /\ <<>> \in Seq(0 .. MaxCouncils) /\ <<>> \in Seq(Site!Tally)
          /\ Len(<<>>) <= MaxReads
      BY <1>1
    <3>4. QED
      BY <1>2, <2>1, <3>1, <3>2, <3>3, Zenon DEF Polled
<1>3. CASE Site!OtherCouncil
  BY <1>1, <1>3 DEF Site!OtherCouncil, Polled, Counted
<1>4. CASE Site!RestartHermes
  BY <1>1, <1>4 DEF Site!RestartHermes, Polled, Counted
<1>5. CASE Site!HermesWorks
  <2>1. councils' \in 0 .. MaxCouncils
    BY <1>1, <1>5 DEF Site!HermesWorks, Polled
  <2>2. QED
    BY <1>5, <2>1 DEF Site!HermesWorks, Polled, Counted
<1>6. ASSUME NEW c \in 0 .. 3, NEW n \in Nullifier \cup {NoHash}, Site!OtherVote(c, n)
      PROVE  Polled'
  <2>1. Counted'
    BY <1>6, VoteCounted DEF Site!OtherVote, Polled
  <2>2. QED
    BY <1>6, <2>1 DEF Site!OtherVote, Polled
<1>7. CASE Site!LoadStatus \/ Site!StatusArrives \/ Site!StatusFails
  <2>1. /\ UNCHANGED Site!StatusRest
        /\ Site!Status!Load(councils) \/ \E i \in DOMAIN statusReads :
              Site!Status!Arrive(i) \/ Site!Status!Fail(i, TRUE)
    BY <1>7 DEF Site!LoadStatus, Site!StatusArrives, Site!StatusFails
  <2>2. status' \in Site!Maybe(0 .. MaxCouncils) /\ statusReads' \in Seq(0 .. MaxCouncils)
        /\ Len(statusReads') <= MaxReads
    BY <1>1, <2>1, PollKept DEF Polled
  <2>3. err' \in BOOLEAN
    BY <2>1 DEF Polled, Site!Status!Load, Site!Status!Arrive, Site!Status!Fail
  <2>4. QED
    BY <2>1, <2>2, <2>3 DEF Polled, Counted, Site!StatusRest
<1>8. CASE Site!Refresh \/ Site!TallyArrives \/ Site!TallyFails
  <2>1. /\ UNCHANGED Site!TallyRest
        /\ Site!Live!Load(tally[1]) \/ \E i \in DOMAIN tallyReads :
              Site!Live!Arrive(i) \/ Site!Live!Fail(i, FALSE)
    BY <1>8 DEF Site!Refresh, Site!TallyArrives, Site!TallyFails
  <2>2. tally[1] \in Site!Tally
    BY DEF Polled, Counted, Site!ProposalId
  <2>3. shownTally' \in Site!Maybe(Site!Tally) /\ tallyReads' \in Seq(Site!Tally)
        /\ Len(tallyReads') <= MaxReads
    BY <1>1, <2>1, <2>2, PollKept DEF Polled
  <2>4. tallyFailed' = FALSE
    BY <2>1 DEF Polled, Site!Live!Load, Site!Live!Arrive, Site!Live!Fail
  <2>5. QED
    BY <2>1, <2>3, <2>4 DEF Polled, Counted, Site!TallyRest
<1>9. CASE UNCHANGED <<page, Site!serviceVars, Site!statusVars, Site!tallyVars>>
  BY <1>9 DEF Polled, Counted
<1>10. QED
  BY <1>2, <1>3, <1>4, <1>5, <1>6, <1>7, <1>8, <1>9, PolledActions

LEMMA AttendedActions ==
    ASSUME [Site!Next]_(Site!vars)
    PROVE  \/ \E p \in Site!Page : Site!Go(p)
           \/ \E form \in Site!Form : Site!Analyze(form)
           \/ Site!ShowAnswer \/ Site!AnalysisFails \/ Site!Approve \/ Site!Discard
           \/ UNCHANGED Site!toxicaVars
  BY Zenon DEF Site!Next, Site!vars, Site!OtherCouncil, Site!RestartHermes, Site!OtherVote,
         Site!HealthAnswered, Site!ProposalsAnswered, Site!Send, Site!HermesWorks,
         Site!Answer, Site!Rest, Site!LoadStatus, Site!StatusArrives, Site!StatusFails,
         Site!StatusRest, Site!Refresh, Site!TallyArrives, Site!TallyFails, Site!TallyRest

\* Nothing is displayed: a type of report.
LEMMA NoReportIsOne ==
    ASSUME Site!PagesAssumption
    PROVE  /\ Site!NoReport \in Site!Report
           /\ MaxAnalyses \in Nat /\ 0 \in 0 .. MaxAnalyses
<1>1. MaxAnalyses \in Nat
  BY DEF Site!PagesAssumption
<1>2. QED
  BY <1>1 DEF Site!NoReport, Site!Report

LEMMA AttendedKept ==
    ASSUME Site!PagesAssumption, Attended, [Site!Next]_(Site!vars)
    PROVE  Attended'
<1> USE DEF Site!PublishedWasApproved
<1>1. MaxAnalyses \in Nat
  BY DEF Site!PagesAssumption
<1>2. ASSUME NEW p \in Site!Page, Site!Go(p)
      PROVE  Attended'
  <2>1. /\ report' = Site!NoReport /\ analyzing' = "no" /\ published' = FALSE
        /\ failure' = FALSE /\ analyses' = 0 /\ approved' = 0
    BY <1>2 DEF Site!Go
  <2>2. QED
    BY <2>1, NoReportIsOne, Zenon DEF Attended
<1>3. ASSUME NEW form \in Site!Form, Site!Analyze(form)
      PROVE  Attended'
  <2>1. /\ report' = Site!NoReport /\ analyzing' \in {"valid", "refused"}
        /\ published' = FALSE /\ failure' = FALSE /\ approved' = approved
    BY <1>3 DEF Site!Analyze, Site!Form
  <2>2. analyses' \in 0 .. MaxAnalyses
    BY <1>1, <1>3 DEF Site!Analyze, Attended
  <2>3. QED
    BY <2>1, <2>2, NoReportIsOne, Zenon DEF Attended
<1>4. CASE Site!ShowAnswer
  BY <1>1, <1>4 DEF Site!ShowAnswer, Site!NoReport, Attended, Site!Report
<1>5. CASE Site!AnalysisFails
  BY <1>1, <1>5 DEF Site!AnalysisFails, Attended
<1>6. CASE Site!Approve
  BY <1>1, <1>6 DEF Site!Approve, Attended, Site!Report
<1>7. CASE Site!Discard
  BY <1>1, <1>7, NoReportIsOne DEF Site!Discard, Attended
<1>8. CASE UNCHANGED Site!toxicaVars
  BY <1>8 DEF Site!toxicaVars, Attended
<1>9. QED
  BY <1>2, <1>3, <1>4, <1>5, <1>6, <1>7, <1>8, AttendedActions

LEMMA SiteInvHolds ==
    ASSUME Site!PagesAssumption
    PROVE  Site!Spec => []SiteInv
<1>1. Site!Init => SiteInv
  <2>1. SUFFICES ASSUME Site!Init PROVE SiteInv
    OBVIOUS
  <2>2. Dialogue
    BY <2>1, DialogueFresh DEF Site!Init
  <2>3. Counted
    BY <2>1 DEF Site!Init, Site!Contract!Init, Site!Tally, Counted
  <2>4. Polled
    <3>1. MaxReads \in Nat /\ 0 \in 0 .. MaxCouncils /\ 0 \in 0 .. MaxRestarts
      BY DEF Site!PagesAssumption
    <3>2. page \in Site!Page /\ councils = 0 /\ restarts = 0
      BY <2>1 DEF Site!Init, Site!Page
    <3>3. /\ status = <<>> /\ statusReads = <<>> /\ err = FALSE
          /\ shownTally = <<>> /\ tallyReads = <<>> /\ tallyFailed = FALSE
      BY <2>1 DEF Site!Init, Site!Status!Fresh, Site!Live!Fresh
    <3>4. <<>> \in Site!Maybe(0 .. MaxCouncils) /\ <<>> \in Site!Maybe(Site!Tally)
      BY DEF Site!Maybe
    <3>5. <<>> \in Seq(0 .. MaxCouncils) /\ <<>> \in Seq(Site!Tally) /\ Len(<<>>) <= MaxReads
      BY <3>1
    <3>6. QED
      BY <2>3, <3>1, <3>2, <3>3, <3>4, <3>5, Zenon DEF Polled
  <2>5. Attended
    <3>1. /\ report = Site!NoReport /\ analyzing = "no" /\ published = FALSE
          /\ failure = FALSE /\ analyses = 0 /\ approved = 0
      BY <2>1 DEF Site!Init, Site!ToxicaFresh
    <3>2. QED
      BY <3>1, NoReportIsOne, Zenon DEF Attended, Site!PublishedWasApproved
  <2>6. QED
    BY <2>2, <2>4, <2>5 DEF SiteInv
<1>2. SiteInv /\ [Site!Next]_(Site!vars) => SiteInv'
  BY DialogueKept, PolledKept, AttendedKept DEF SiteInv
<1>3. QED
  BY <1>1, <1>2, PTL DEF Site!Spec

\* Every variable of Pages has its type, reads under way and numbers within bounds.
THEOREM SiteTypeCorrect ==
    ASSUME Site!PagesAssumption
    PROVE  Site!Spec => []Site!TypeOK
<1>1. SiteInv => Site!TypeOK
  <2>1. SUFFICES ASSUME SiteInv PROVE Site!TypeOK
    OBVIOUS
  <2>2. Dialogue /\ Polled /\ Attended
    BY <2>1 DEF SiteInv
  <2>3. messages \in Seq(Site!Message) /\ Len(messages) <= MaxMessages + 1
    BY <2>2 DEF Dialogue, Site!PagesAssumption
  <2>4. analyzing \in {"no"} \cup Site!Form
    BY <2>2 DEF Attended, Site!Form
  <2>5. QED
    BY <2>2, <2>3, <2>4, Zenon DEF Dialogue, Polled, Counted, Attended, Site!TypeOK
<1>2. QED
  BY <1>1, SiteInvHolds, PTL

\* The console of /hermes is a dialogue: every answer stands below its question, and
\* the page says it waits exactly while the last question is open, although the
\* buttons of the proposals stay enabled meanwhile.
THEOREM ConsoleAnswersInTurn ==
    ASSUME Site!PagesAssumption
    PROVE  Site!Spec => []Site!QuestionsAnsweredInTurn
<1>1. SiteInv => Site!QuestionsAnsweredInTurn
  BY DEF SiteInv, Dialogue, Site!QuestionsAnsweredInTurn
<1>2. QED
  BY <1>1, SiteInvHolds, PTL

\* What /toxica shows as approved and published is the report the visitor approved,
\* whatever analyses were asked for, answered or refused before and after.
THEOREM PublishedReportWasApproved ==
    ASSUME Site!PagesAssumption
    PROVE  Site!Spec => []Site!PublishedWasApproved
<1>1. SiteInv => Site!PublishedWasApproved
  BY DEF SiteInv, Attended
<1>2. QED
  BY <1>1, SiteInvHolds, PTL

================================================================================
