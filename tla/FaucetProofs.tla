------------------------------ MODULE FaucetProofs ------------------------------
(******************************************************************************)
(* Theorems about Faucet, for every value of its constants: what the limits   *)
(* promise about a day's budget and about an address's share, and what an     *)
(* answer "sent" stands for.                                                  *)
(*                                                                            *)
(* The budget is no invariant by itself: a drip reserved before midnight may  *)
(* be sent after it, when spent has been reset, so that every day's drips are *)
(* bounded together with the reservations still pending for that day.  The    *)
(* limit of an address rests on its list: whatever is reserved for it today   *)
(* and still inside the window is in the list, in order of time.              *)
(*                                                                            *)
(* Both limits and the meaning of "sent" together are the promise of Fund,    *)
(* which the last part shows Faucet to keep.                                  *)
(******************************************************************************)
EXTENDS Faucet, FiniteSetTheorems, TLAPS

\* TypeOK without ipHits, whose content the budget does not depend on.
Typed ==
    /\ now \in 0 .. MaxTime
    /\ day \in Nat \cup {-1}
    /\ spent \in 0 .. DailyBudget
    /\ process \in 0 .. MaxRestarts
    /\ pc \in [Request -> Step]
    /\ job \in [Request -> Job]
    /\ sent \in SUBSET Request
    /\ pool \in Seq(RelayerTx)
    /\ mined \in 0 .. Len(pool)
    /\ gas \in [Wallet -> Nat]

\* A handler that has asked for a wallet holds it and its address.
Holding ==
    \A r \in Request : pc[r] # "idle" => job[r].to \in Wallet /\ job[r].ip \in Ip

\* Nothing is dated after the day the limits were last looked at, and nothing was
\* sent by a later process.
Ordered ==
    /\ day <= DayOf(now)
    /\ \A r \in Request : pc[r] \in {"prepare", "broadcast"} => DayOf(job[r].at) <= day
    /\ \A i \in DOMAIN pool :
         /\ pool[i].process <= process
         /\ pool[i].to \in Wallet /\ pool[i].process = process => DayOf(pool[i].at) <= day

Reserved(d) == Cardinality(Drips(d, process)) + Cardinality(Pending(d))

\* What this process has reserved on any day, sent or not, fits the budget.
DaysWithin == \A d \in Nat : Drip * Reserved(d) <= DailyBudget

\* So does what earlier processes have sent.
ProcessesWithin ==
    \A d, p \in Nat : Drip * Cardinality(Drips(d, p)) <= DailyBudget

\* A handler that awaits a receipt knows its transaction, and one that has
\* answered "sent" is done.
Awaiting ==
    /\ \A r \in Request : pc[r] = "receipt" =>
         job[r].tx \in DOMAIN pool /\ pool[job[r].tx].to = job[r].to
    /\ \A r \in sent : pc[r] = "idle"

Inv ==
    /\ Typed
    /\ Holding
    /\ Ordered
    /\ ReservedBeforeSent
    /\ DaysWithin
    /\ ProcessesWithin
    /\ Awaiting
    /\ SentMeansMined

--------------------------------------------------------------------------------
(* Days and counts. *)

\* Division by a positive number keeps the order.
LEMMA DivisionKeepsOrder ==
    ASSUME NEW s \in Nat, NEW t \in Nat, NEW n \in Nat \ {0}, s <= t
    PROVE  s \div n \in Nat /\ t \div n \in Nat /\ s \div n <= t \div n
  OBVIOUS

\* Later times lie on the same or on later days.
LEMMA DaysAreOrdered ==
    /\ \A t \in Nat : DayOf(t) \in Nat
    /\ \A s, t \in Nat : s <= t => DayOf(s) <= DayOf(t)
  BY FaucetAssumption, DivisionKeepsOrder, SMTT(30) DEF DayOf

\* The sets that are counted are finite.
LEMMA CountsAreFinite ==
    ASSUME Typed
    PROVE  /\ \A d, p : IsFiniteSet(Drips(d, p)) /\ Cardinality(Drips(d, p)) \in Nat
           /\ \A d : IsFiniteSet(Pending(d)) /\ Cardinality(Pending(d)) \in Nat
<1>1. IsFiniteSet(DOMAIN pool)
  BY FS_Interval DEF Typed
<1>2. ASSUME NEW d, NEW p PROVE IsFiniteSet(Drips(d, p)) /\ Cardinality(Drips(d, p)) \in Nat
  BY <1>1, FS_Subset, FS_CardinalityType DEF Drips
<1>3. ASSUME NEW d PROVE IsFiniteSet(Pending(d)) /\ Cardinality(Pending(d)) \in Nat
  BY FaucetAssumption, FS_Subset, FS_CardinalityType DEF Pending
<1>4. QED
  BY <1>2, <1>3

\* What is in a sequence after something has been appended.
LEMMA Appended ==
    ASSUME NEW S, NEW seq \in Seq(S), NEW e \in S
    PROVE  /\ Append(seq, e) \in Seq(S)
           /\ DOMAIN Append(seq, e) = DOMAIN seq \cup {Len(seq) + 1}
           /\ Len(seq) + 1 \notin DOMAIN seq
           /\ Append(seq, e)[Len(seq) + 1] = e
           /\ \A i \in DOMAIN seq : Append(seq, e)[i] = seq[i]
  OBVIOUS

\* Multiplication on the naturals.
LEMMA Multiples ==
    ASSUME NEW n \in Nat, NEW a \in Nat
    PROVE  n * 0 = 0 /\ n * a \in Nat /\ n * (a + 1) = n * a + n
  OBVIOUS

LEMMA MultiplesKeepOrder ==
    ASSUME NEW n \in Nat, NEW a \in Nat, NEW b \in Nat, a <= b
    PROVE  n * a <= n * b
  OBVIOUS

LEMMA DripsAddUp ==
    /\ Drip \in Nat \ {0}
    /\ Drip * 0 = 0
    /\ \A a \in Nat : Drip * a \in Nat /\ Drip * (a + 1) = Drip * a + Drip
    /\ \A a, b \in Nat : a <= b => Drip * a <= Drip * b
<1>1. Drip \in Nat \ {0}
  <2>1. Drip \in {Drip, Threshold, MaxPerIp, IpWindow, DayLength}
    OBVIOUS
  <2>2. QED
    BY <2>1, FaucetAssumption, Zenon
<1>2. Drip \in Nat
  BY <1>1
<1>3. Drip * 0 = 0 /\ \A a \in Nat : Drip * a \in Nat /\ Drip * (a + 1) = Drip * a + Drip
  BY <1>2, Multiples, Zenon
<1>4. \A a, b \in Nat : a <= b => Drip * a <= Drip * b
  BY <1>2, MultiplesKeepOrder, Zenon
<1>5. QED
  BY <1>1, <1>3, <1>4, Zenon

--------------------------------------------------------------------------------
(* The parts of the invariant that count. *)

Counted == ReservedBeforeSent /\ DaysWithin /\ ProcessesWithin

\* Before the first day and after the last one looked at there is nothing.
LEMMA NothingOutside ==
    ASSUME Typed, Ordered, NEW d \in Nat \cup {-1}, d = -1 \/ day < d
    PROVE  Drips(d, process) = {} /\ Pending(d) = {}
<1>1. \A r \in Request : job[r].at \in Nat
  BY FaucetAssumption DEF Typed, Job
<1>2. \A i \in DOMAIN pool : pool[i].at \in Nat
  <2>1. \A i \in DOMAIN pool : pool[i] \in RelayerTx
    BY DEF Typed
  <2>2. QED
    BY <2>1, FaucetAssumption DEF RelayerTx
<1>3. Pending(d) = {}
  <2>1. SUFFICES ASSUME NEW r \in Pending(d) PROVE FALSE
    OBVIOUS
  <2>2. /\ r \in Request
        /\ pc[r] \in {"prepare", "broadcast"}
        /\ DayOf(job[r].at) = d
    BY DEF Pending
  <2>3. d \in Nat /\ d <= day
    BY <1>1, <2>2, DaysAreOrdered DEF Ordered
  <2>4. QED
    BY <2>3 DEF Typed
<1>4. Drips(d, process) = {}
  <2>1. SUFFICES ASSUME NEW i \in Drips(d, process) PROVE FALSE
    OBVIOUS
  <2>2. /\ i \in DOMAIN pool
        /\ pool[i].to \in Wallet /\ pool[i].process = process
        /\ DayOf(pool[i].at) = d
    BY DEF Drips
  <2>3. d \in Nat /\ d <= day
    BY <1>2, <2>2, DaysAreOrdered DEF Ordered
  <2>4. QED
    BY <2>3 DEF Typed
<1>5. QED
  BY <1>3, <1>4

\* What rollDay leaves in spent covers what is reserved on the day it rolls to.
LEMMA RolledCovers ==
    ASSUME Inv
    PROVE  /\ DayOf(now) \in Nat
           /\ Reserved(DayOf(now)) \in Nat
           /\ RolledSpent \in 0 .. DailyBudget
           /\ Drip * Reserved(DayOf(now)) <= RolledSpent
<1>1. DayOf(now) \in Nat /\ day <= DayOf(now)
  BY FaucetAssumption, DaysAreOrdered DEF Inv, Typed, Ordered
<1>2. Reserved(DayOf(now)) \in Nat
  BY CountsAreFinite DEF Inv, Reserved
<1>3. RolledSpent \in 0 .. DailyBudget
  BY FaucetAssumption DEF Inv, Typed, RolledSpent
<1>4. CASE day = DayOf(now)
  BY <1>1, <1>2, <1>3, <1>4 DEF Inv, ReservedBeforeSent, Reserved, RolledSpent
<1>5. CASE day # DayOf(now)
  <2>1. day < DayOf(now)
    BY <1>1, <1>5 DEF Inv, Typed
  <2>2. Reserved(DayOf(now)) = 0
    BY <1>1, <2>1, NothingOutside, FS_EmptySet DEF Inv, Reserved
  <2>3. QED
    BY <1>1, <1>2, <1>3, <1>5, <2>2, DripsAddUp DEF RolledSpent
<1>6. QED
  BY <1>1, <1>2, <1>3, <1>4, <1>5

\* Steps that send and reserve nothing keep what is counted: reservations may be
\* dropped, and spent keeps them.
LEMMA NothingReserved ==
    ASSUME Inv, process' = process, day' = day, spent' = spent,
           \A d, p : Drips(d, p)' = Drips(d, p),
           \A d : Pending(d)' \subseteq Pending(d)
    PROVE  Counted'
<1>1. ASSUME NEW d
      PROVE  /\ Cardinality(Drips(d, process))' = Cardinality(Drips(d, process))
             /\ Cardinality(Pending(d))' \in Nat
             /\ Cardinality(Pending(d))' <= Cardinality(Pending(d))
             /\ Reserved(d) \in Nat
             /\ Reserved(d)' \in Nat
             /\ Reserved(d)' <= Reserved(d)
  <2>1. /\ IsFiniteSet(Pending(d))
        /\ Cardinality(Pending(d)) \in Nat
        /\ Cardinality(Drips(d, process)) \in Nat
    BY CountsAreFinite DEF Inv
  <2>2. Pending(d)' \in SUBSET Pending(d)
    OBVIOUS
  <2>3. IsFiniteSet(Pending(d)') /\ Cardinality(Pending(d)') <= Cardinality(Pending(d))
    BY <2>1, <2>2, FS_Subset
  <2>4. Cardinality(Pending(d)') \in Nat
    BY <2>3, FS_CardinalityType
  <2>5. Cardinality(Drips(d, process)') = Cardinality(Drips(d, process))
    OBVIOUS
  <2>6. QED
    BY <2>1, <2>3, <2>4, <2>5 DEF Reserved
<1>2. ReservedBeforeSent'
  <2>1. Drip * Reserved(day) <= spent
    BY DEF Inv, ReservedBeforeSent, Reserved
  <2>2. Drip * Reserved(day)' <= Drip * Reserved(day)
    BY <1>1, DripsAddUp
  <2>3. /\ Drip * Reserved(day) \in Nat
        /\ Drip * Reserved(day)' \in Nat
    BY <1>1, DripsAddUp
  <2>4. Drip * Reserved(day)' <= spent'
    BY <2>1, <2>2, <2>3 DEF Inv, Typed
  <2>5. QED
    BY <2>4 DEF ReservedBeforeSent, Reserved
<1>3. DaysWithin'
  BY <1>1, DripsAddUp, FaucetAssumption DEF Inv, DaysWithin
<1>4. ProcessesWithin'
  BY DEF Inv, ProcessesWithin
<1>5. QED
  BY <1>2, <1>3, <1>4 DEF Counted

--------------------------------------------------------------------------------
(* Types, arguments and dates. *)

\* What a handler holds, and the null job, are jobs.
LEMMA Jobs ==
    ASSUME Typed
    PROVE  /\ NoJob \in Job
           /\ \A r \in Request : job[r] \in Job
           /\ {MaxTime, MaxRestarts, MaxTxs, DailyBudget} \subseteq Nat
<1>1. 0 \in 0 .. MaxTime
  BY FaucetAssumption
<1>2. QED
  BY <1>1, FaucetAssumption DEF Typed, Job, NoJob, NoTx

LEMMA TypedNext ==
    ASSUME Inv, Next
    PROVE  Typed'
<1> USE Jobs DEF Inv
<1>1. ASSUME NEW r \in Request, NEW w \in Wallet, NEW ip \in Ip, Post(r, w, ip) PROVE Typed'
  <2>1. [NoJob EXCEPT !.to = w, !.ip = ip] \in Job
    BY FaucetAssumption DEF Job, NoJob, NoTx
  <2>2. QED
    BY <1>1, <2>1 DEF Post, Goto, Typed, Step, chainVars, limitVars
<1>2. ASSUME NEW r \in Request, BalanceRead(r) PROVE Typed'
  <2>1. gas[job[r].to] \in Nat
    BY <1>2 DEF BalanceRead, Typed, Holding
  <2>2. [job[r] EXCEPT !.bal = gas[job[r].to]] \in Job
    BY <2>1 DEF Job
  <2>3. QED
    BY <1>2, <2>2 DEF BalanceRead, Goto, Typed, Step, chainVars, limitVars
<1>3. ASSUME NEW r \in Request, Skip(r) \/ NonceTaken(r) \/ Fail(r) PROVE Typed'
  BY <1>3 DEF Skip, NonceTaken, Fail, ReplyOther, Goto, Typed, Step, chainVars, limitVars
<1>4. ASSUME NEW r \in Request, Refuse(r) PROVE Typed'
  BY <1>4, RolledCovers DEF Refuse, ReplyOther, Goto, Typed, Step, chainVars
<1>5. ASSUME NEW r \in Request, Reserve(r) PROVE Typed'
  <2>1. [job[r] EXCEPT !.at = now, !.bal = 0] \in Job
    BY DEF Job, Typed
  <2>2. job' \in [Request -> Job]
    BY <1>5, <2>1 DEF Reserve, Typed
  <2>3. RolledSpent + Drip \in 0 .. DailyBudget
    <3>1. RolledSpent \in Nat /\ RolledSpent + Drip <= DailyBudget
      BY <1>5, RolledCovers DEF Reserve, Allowed
    <3>2. Drip \in Nat
      BY DripsAddUp
    <3>3. QED
      BY <3>1, <3>2
  <2>4. QED
    BY <1>5, <2>2, <2>3, RolledCovers DEF Reserve, Goto, Typed, Step, chainVars
<1>6. ASSUME NEW r \in Request, NonceRead(r) PROVE Typed'
  <2>1. [job[r] EXCEPT !.nonce = Len(pool) + 1] \in Job
    <3>1. job[r] \in Job /\ Len(pool) + 1 \in Nat
      BY DEF Typed
    <3>2. QED
      BY <3>1 DEF Job
  <2>2. QED
    BY <1>6, <2>1 DEF NonceRead, Goto, Typed, Step, chainVars, limitVars
<1>7. ASSUME NEW r \in Request, Broadcast(r) PROVE Typed'
  <2>1. [to |-> job[r].to, ip |-> job[r].ip, at |-> job[r].at, process |-> process] \in RelayerTx
    BY <1>7 DEF Broadcast, Typed, Holding, Job, RelayerTx
  <2>2. [job[r] EXCEPT !.tx = Len(pool) + 1, !.nonce = 0, !.at = 0] \in Job
    <3>1. job[r] \in Job /\ Len(pool) + 1 \in Nat /\ 0 \in 0 .. MaxTime
      BY DEF Typed
    <3>2. QED
      BY <3>1 DEF Job
  <2>3. job' \in [Request -> Job]
    BY <1>7, <2>2 DEF Broadcast, Typed
  <2>4. pool' \in Seq(RelayerTx) /\ Len(pool') = Len(pool) + 1
    BY <1>7, <2>1 DEF Broadcast, Typed
  <2>5. QED
    BY <1>7, <2>3, <2>4 DEF Broadcast, Goto, Typed, Step, limitVars
<1>8. ASSUME NEW r \in Request, Receipt(r) PROVE Typed'
  BY <1>8 DEF Receipt, ReplySent, Goto, Typed, Step, chainVars, limitVars
<1>9. ASSUME Tick PROVE Typed'
  BY <1>9 DEF Tick, Typed, chainVars, limitVars
<1>10. ASSUME Mine PROVE Typed'
  <2>1. gas' \in [Wallet -> Nat]
    <3>1. Drip \in Nat
      BY DripsAddUp
    <3>2. QED
      <4>1. \A w \in Wallet : [gas EXCEPT ![w] = @ + Drip] \in [Wallet -> Nat]
        BY <3>1 DEF Typed
      <4>2. QED
        BY <1>10, <4>1 DEF Mine, Typed
  <2>2. mined' \in 0 .. Len(pool')
    BY <1>10 DEF Mine, Typed
  <2>3. QED
    BY <1>10, <2>1, <2>2 DEF Mine, Typed, limitVars
<1>11. ASSUME NEW w \in Wallet, Spend(w) PROVE Typed'
  <2>1. gas' \in [Wallet -> Nat]
    BY <1>11 DEF Spend, Typed
  <2>2. QED
    BY <1>11, <2>1 DEF Spend, Typed, limitVars
<1>12. ASSUME AnchorReport PROVE Typed'
  <2>1. Anchor \in RelayerTx
    BY DEF Anchor, RelayerTx
  <2>2. pool' \in Seq(RelayerTx) /\ Len(pool') = Len(pool) + 1
    BY <1>12, <2>1 DEF AnchorReport, Typed
  <2>3. QED
    BY <1>12, <2>2 DEF AnchorReport, Typed, limitVars
<1>13. ASSUME Restart PROVE Typed'
  BY <1>13 DEF Restart, Typed, Step, chainVars
<1>14. QED
  BY <1>1, <1>2, <1>3, <1>4, <1>5, <1>6, <1>7, <1>8, <1>9, <1>10, <1>11, <1>12, <1>13
     DEF Next, Handle

LEMMA HoldingNext ==
    ASSUME Inv, Next
    PROVE  Holding'
<1> USE DEF Inv
<1>1. ASSUME NEW r \in Request, NEW w \in Wallet, NEW ip \in Ip, Post(r, w, ip) PROVE Holding'
  BY <1>1 DEF Post, Goto, Typed, Holding, NoJob
<1>2. ASSUME NEW r \in Request,
             BalanceRead(r) \/ Reserve(r) \/ NonceRead(r) \/ Broadcast(r)
      PROVE  Holding'
  <2>1. /\ pc[r] # "idle"
        /\ job'[r].to = job[r].to /\ job'[r].ip = job[r].ip
        /\ \A q \in Request \ {r} : pc'[q] = pc[q] /\ job'[q] = job[q]
    <3>1. job[r] \in Job
      BY Jobs
    <3>2. CASE BalanceRead(r)
      BY <3>1, <3>2 DEF BalanceRead, Goto, Typed, Job
    <3>3. CASE Reserve(r)
      BY <3>1, <3>3 DEF Reserve, Goto, Typed, Job
    <3>4. CASE NonceRead(r)
      BY <3>1, <3>4 DEF NonceRead, Goto, Typed, Job
    <3>5. CASE Broadcast(r)
      BY <3>1, <3>5 DEF Broadcast, Goto, Typed, Job
    <3>6. QED
      BY <1>2, <3>2, <3>3, <3>4, <3>5
  <2>2. QED
    BY <2>1 DEF Holding
<1>3. ASSUME NEW r \in Request,
             Skip(r) \/ Refuse(r) \/ NonceTaken(r) \/ Receipt(r) \/ Fail(r)
      PROVE  Holding'
  BY <1>3 DEF Skip, Refuse, NonceTaken, Receipt, Fail, ReplyOther, ReplySent, Goto, Typed, Holding
<1>4. CASE Tick \/ Mine \/ (\E w \in Wallet : Spend(w)) \/ AnchorReport
  BY <1>4 DEF Tick, Mine, Spend, AnchorReport, Holding
<1>5. CASE Restart
  BY <1>5 DEF Restart, Holding
<1>6. QED
  BY <1>1, <1>2, <1>3, <1>4, <1>5 DEF Next, Handle

LEMMA OrderedNext ==
    ASSUME Inv, Next
    PROVE  Ordered'
<1> USE DEF Inv
<1>1. /\ now \in Nat /\ DayOf(now) \in Nat /\ day <= DayOf(now)
      /\ process \in Nat /\ day \in Int
  BY FaucetAssumption, DaysAreOrdered, SMTT(30) DEF Typed, Ordered
<1>2. \A i \in DOMAIN pool : pool[i] \in RelayerTx
  BY DEF Typed
\* Steps that reserve and send nothing and leave the day alone.
<1>3. ASSUME UNCHANGED <<now, day, process, pool>>,
             \A q \in Request : pc'[q] \in {"prepare", "broadcast"} =>
                 pc[q] \in {"prepare", "broadcast"} /\ job'[q].at = job[q].at
      PROVE  Ordered'
  BY <1>3 DEF Ordered
<1>4. ASSUME NEW r \in Request, NEW w \in Wallet, NEW ip \in Ip, Post(r, w, ip) PROVE Ordered'
  BY <1>3, <1>4 DEF Post, Goto, Typed, chainVars, limitVars
<1>5. ASSUME NEW r \in Request,
             Skip(r) \/ NonceTaken(r) \/ Fail(r) \/ Receipt(r)
      PROVE  Ordered'
  BY <1>3, <1>5 DEF Skip, NonceTaken, Fail, Receipt, ReplyOther, ReplySent, Goto, Typed,
                    chainVars, limitVars
<1>6. ASSUME NEW r \in Request, BalanceRead(r) PROVE Ordered'
  BY <1>3, <1>6 DEF BalanceRead, Goto, Typed, chainVars, limitVars
<1>7. ASSUME NEW r \in Request, NonceRead(r) PROVE Ordered'
  <2>1. job'[r].at = job[r].at
    BY <1>7, Jobs DEF NonceRead, Typed, Job
  <2>2. QED
    BY <1>3, <1>7, <2>1 DEF NonceRead, Goto, Typed, chainVars, limitVars
\* Rolling the day.
<1>8. ASSUME day' = DayOf(now), UNCHANGED <<now, process, pool>>,
             \A q \in Request : pc'[q] \in {"prepare", "broadcast"} =>
                 \/ pc[q] \in {"prepare", "broadcast"} /\ job'[q].at = job[q].at
                 \/ job'[q].at = now
      PROVE  Ordered'
  <2>1. \A q \in Request : pc'[q] \in {"prepare", "broadcast"} => DayOf(job'[q].at) <= day'
    <3>1. SUFFICES ASSUME NEW q \in Request, pc'[q] \in {"prepare", "broadcast"}
                   PROVE  DayOf(job'[q].at) <= day'
      OBVIOUS
    <3>2. CASE job'[q].at = now
      BY <1>1, <1>8, <3>2
    <3>3. CASE pc[q] \in {"prepare", "broadcast"} /\ job'[q].at = job[q].at
      <4>1. job[q].at \in Nat /\ DayOf(job[q].at) \in Nat
        BY Jobs, FaucetAssumption, DaysAreOrdered DEF Job
      <4>2. QED
        BY <1>1, <1>8, <3>3, <4>1 DEF Ordered
    <3>4. QED
      BY <1>8, <3>1, <3>2, <3>3
  <2>2. ASSUME NEW i \in DOMAIN pool, pool[i].to \in Wallet, pool[i].process = process
        PROVE  DayOf(pool[i].at) <= day'
    <3>1. DayOf(pool[i].at) \in Nat /\ DayOf(pool[i].at) <= day
      BY <1>2, <2>2, FaucetAssumption, DaysAreOrdered DEF Ordered, RelayerTx
    <3>2. QED
      BY <1>1, <1>8, <3>1
  <2>3. QED
    BY <1>1, <1>8, <2>1, <2>2 DEF Ordered
<1>9. ASSUME NEW r \in Request, Refuse(r) PROVE Ordered'
  BY <1>8, <1>9 DEF Refuse, ReplyOther, Goto, Typed, chainVars
<1>10. ASSUME NEW r \in Request, Reserve(r) PROVE Ordered'
  <2>1. job'[r].at = now
    BY <1>10, Jobs DEF Reserve, Typed, Job
  <2>2. QED
    BY <1>8, <1>10, <2>1 DEF Reserve, Goto, Typed, chainVars
\* Sending.
<1>11. ASSUME NEW tx \in RelayerTx, pool' = Append(pool, tx), UNCHANGED <<now, day, process>>,
              tx.process <= process, tx.to \in Wallet => DayOf(tx.at) <= day,
              \A q \in Request : pc'[q] \in {"prepare", "broadcast"} =>
                 pc[q] \in {"prepare", "broadcast"} /\ job'[q].at = job[q].at
       PROVE  Ordered'
  <2>1. /\ DOMAIN pool' = DOMAIN pool \cup {Len(pool) + 1}
        /\ pool'[Len(pool) + 1] = tx
        /\ \A j \in DOMAIN pool : pool'[j] = pool[j]
    <3>1. pool \in Seq(RelayerTx)
      BY DEF Typed
    <3>2. QED
      BY <1>11, <3>1, Appended
  <2>2. QED
    BY <1>11, <2>1 DEF Ordered
<1>12. ASSUME NEW r \in Request, Broadcast(r) PROVE Ordered'
  <2> DEFINE tx == [to |-> job[r].to, ip |-> job[r].ip, at |-> job[r].at, process |-> process]
  <2>1. tx \in RelayerTx
    BY <1>12, Jobs DEF Broadcast, Typed, Holding, Job, RelayerTx
  <2>2. DayOf(tx.at) <= day
    BY <1>12 DEF Broadcast, Ordered
  <2>3. tx.process <= process
    BY <1>1
  <2>4. QED
    BY <1>11, <1>12, <2>1, <2>2, <2>3 DEF Broadcast, Goto, Typed, limitVars
<1>13. ASSUME AnchorReport PROVE Ordered'
  <2>1. Anchor \in RelayerTx /\ Anchor.to \notin Wallet /\ Anchor.process <= process
    BY <1>1, FaucetAssumption DEF Anchor, RelayerTx
  <2>2. QED
    BY <1>11, <1>13, <2>1 DEF AnchorReport, limitVars
\* The surroundings.
<1>14. ASSUME Tick PROVE Ordered'
  <2>1. DayOf(now') \in Nat /\ DayOf(now) <= DayOf(now')
    BY <1>1, <1>14, DaysAreOrdered DEF Tick
  <2>2. day <= DayOf(now')
    BY <1>1, <2>1
  <2>3. QED
    BY <1>14, <2>2 DEF Tick, Ordered, limitVars, chainVars
<1>15. ASSUME Mine \/ \E w \in Wallet : Spend(w) PROVE Ordered'
  BY <1>3, <1>15 DEF Mine, Spend, limitVars
<1>16. ASSUME Restart PROVE Ordered'
  <2>1. ASSUME NEW i \in DOMAIN pool PROVE pool[i].process <= process /\ pool[i].process \in Nat
    BY <1>2, FaucetAssumption DEF Ordered, RelayerTx
  <2>2. ASSUME NEW i \in DOMAIN pool PROVE pool[i].process <= process' /\ pool[i].process # process'
    BY <1>1, <1>16, <2>1 DEF Restart
  <2>3. day' <= DayOf(now')
    BY <1>1, <1>16 DEF Restart
  <2>4. QED
    BY <1>16, <2>2, <2>3 DEF Restart, Ordered, chainVars
<1>17. QED
  BY <1>4, <1>5, <1>6, <1>7, <1>9, <1>10, <1>12, <1>13, <1>14, <1>15, <1>16 DEF Next, Handle

--------------------------------------------------------------------------------
(* The counts at every step. *)

\* Sending: a reservation becomes a drip of the same day.
LEMMA BroadcastCounted ==
    ASSUME Inv, NEW r \in Request, Broadcast(r)
    PROVE  Counted'
<1> USE DEF Inv
<1> DEFINE n == Len(pool) + 1
           tx == [to |-> job[r].to, ip |-> job[r].ip, at |-> job[r].at, process |-> process]
<1>0. PICK e : e = DayOf(job[r].at)
  OBVIOUS
<1>1. /\ pool' = Append(pool, tx)
      /\ job[r].to \in Wallet
      /\ pc[r] = "broadcast"
      /\ UNCHANGED <<day, spent, process>>
  BY DEF Broadcast, Holding, limitVars
<1>2. /\ DOMAIN pool' = DOMAIN pool \cup {n}
      /\ n \notin DOMAIN pool
      /\ pool'[n] = tx
      /\ \A j \in DOMAIN pool : pool'[j] = pool[j]
  <2>1. pool \in Seq(RelayerTx) /\ tx \in RelayerTx
    BY <1>1, Jobs DEF Typed, Holding, Job, RelayerTx
  <2>2. QED
    BY <1>1, <2>1, Appended
<1>3. ASSUME NEW d, NEW p
      PROVE  Drips(d, p)' = IF d = e /\ p = process THEN Drips(d, p) \cup {n} ELSE Drips(d, p)
  BY <1>0, <1>1, <1>2 DEF Drips
<1>4. ASSUME NEW d
      PROVE  Pending(d)' = IF d = e THEN Pending(d) \ {r} ELSE Pending(d)
  <2>1. /\ pc'[r] = "receipt"
        /\ \A q \in Request \ {r} : pc'[q] = pc[q] /\ job'[q] = job[q]
    BY DEF Broadcast, Goto, Typed
  <2>2. QED
    BY <1>0, <1>1, <2>1 DEF Pending
<1>5. n \notin Drips(e, process) /\ r \in Pending(e)
  BY <1>0, <1>1, <1>2 DEF Drips, Pending
<1>6. \A d, p : /\ IsFiniteSet(Drips(d, p)) /\ Cardinality(Drips(d, p)) \in Nat
                /\ IsFiniteSet(Pending(d)) /\ Cardinality(Pending(d)) \in Nat
  BY CountsAreFinite
<1>7. /\ Cardinality(Drips(e, process) \cup {n}) = Cardinality(Drips(e, process)) + 1
      /\ Cardinality(Pending(e) \ {r}) = Cardinality(Pending(e)) - 1
  BY <1>5, <1>6, FS_AddElement, FS_RemoveElement
<1>8. ASSUME NEW d PROVE Reserved(d)' = Reserved(d)
  <2>1. Drips(d, process)' = IF d = e THEN Drips(d, process) \cup {n} ELSE Drips(d, process)
    BY <1>1, <1>3
  <2>2. CASE d = e
    <3>1. /\ Cardinality(Drips(d, process)') = Cardinality(Drips(d, process)) + 1
          /\ Cardinality(Pending(d)') = Cardinality(Pending(d)) - 1
      BY <1>4, <1>7, <2>1, <2>2
    <3>2. QED
      BY <1>6, <3>1 DEF Reserved
  <2>3. CASE d # e
    <3>1. Drips(d, process)' = Drips(d, process) /\ Pending(d)' = Pending(d)
      BY <1>4, <2>1, <2>3
    <3>2. QED
      BY <3>1 DEF Reserved
  <2>4. QED
    BY <2>2, <2>3
<1>9. ReservedBeforeSent'
  <2>1. Drip * Reserved(day) <= spent
    BY DEF ReservedBeforeSent, Reserved
  <2>2. Reserved(day)' = Reserved(day)
    BY <1>1, <1>8
  <2>3. QED
    BY <1>1, <2>1, <2>2 DEF ReservedBeforeSent, Reserved
<1>10. DaysWithin'
  BY <1>8 DEF DaysWithin
<1>11. ProcessesWithin'
  <2>1. SUFFICES ASSUME NEW d \in Nat, NEW p \in Nat
                 PROVE  Drip * Cardinality(Drips(d, p))' <= DailyBudget
    BY DEF ProcessesWithin
  <2>2. CASE d = e /\ p = process
    <3>1. Cardinality(Drips(d, p))' = Cardinality(Drips(d, process)) + 1
      BY <1>3, <1>7, <2>2
    <3>2. Cardinality(Pending(d)) >= 1
      <4>1. Cardinality(Pending(d) \ {r}) \in Nat
        BY <1>6, FS_RemoveElement, FS_CardinalityType
      <4>2. QED
        BY <1>6, <1>7, <2>2, <4>1
    <3>3. /\ Reserved(d) \in Nat /\ Cardinality(Drips(d, p))' \in Nat
          /\ Cardinality(Drips(d, p))' <= Reserved(d)
      BY <1>6, <3>1, <3>2 DEF Reserved
    <3>4. /\ Drip * Cardinality(Drips(d, p))' <= Drip * Reserved(d)
          /\ Drip * Cardinality(Drips(d, p))' \in Nat
          /\ Drip * Reserved(d) \in Nat
          /\ Drip * Reserved(d) <= DailyBudget
      BY <3>3, DripsAddUp DEF DaysWithin
    <3>5. QED
      BY <3>4, FaucetAssumption
  <2>3. CASE ~(d = e /\ p = process)
    BY <1>3, <2>3 DEF ProcessesWithin
  <2>4. QED
    BY <2>2, <2>3
<1>12. QED
  BY <1>9, <1>10, <1>11 DEF Counted

\* Reserving: one more reservation for today, and spent grows by as much.
LEMMA ReserveCounted ==
    ASSUME Inv, NEW r \in Request, Reserve(r)
    PROVE  Counted'
<1>0. PICK today : today = DayOf(now)
  OBVIOUS
<1>1. /\ pc[r] = "decide"
      /\ RolledSpent + Drip <= DailyBudget
      /\ day' = today /\ spent' = RolledSpent + Drip
      /\ UNCHANGED <<process, pool>>
  BY <1>0 DEF Reserve, Allowed, chainVars
<1>2. ASSUME NEW d, NEW p PROVE Drips(d, p)' = Drips(d, p)
  BY <1>1 DEF Drips
<1>3. ASSUME NEW d
      PROVE  Pending(d)' = IF d = today THEN Pending(d) \cup {r} ELSE Pending(d)
  <2>1. /\ pc'[r] = "prepare" /\ job'[r].at = now
        /\ \A q \in Request \ {r} : pc'[q] = pc[q] /\ job'[q] = job[q]
    BY Jobs DEF Inv, Reserve, Goto, Typed, Job
  <2>2. QED
    BY <1>0, <1>1, <2>1 DEF Pending
<1>4. r \notin Pending(today)
  BY <1>1 DEF Pending
<1>5. \A d, p : /\ IsFiniteSet(Drips(d, p)) /\ Cardinality(Drips(d, p)) \in Nat
                /\ IsFiniteSet(Pending(d)) /\ Cardinality(Pending(d)) \in Nat
  BY CountsAreFinite DEF Inv
<1>6. Cardinality(Pending(today) \cup {r}) = Cardinality(Pending(today)) + 1
  BY <1>4, <1>5, FS_AddElement
<1>7. Reserved(today)' = Reserved(today) + 1
  <2>1. /\ Cardinality(Drips(today, process)') = Cardinality(Drips(today, process))
        /\ Cardinality(Pending(today)') = Cardinality(Pending(today)) + 1
    BY <1>1, <1>2, <1>3, <1>6
  <2>2. QED
    BY <1>5, <2>1 DEF Reserved
<1>8. ASSUME NEW d, d # today PROVE Reserved(d)' = Reserved(d)
  <2>1. Drips(d, process)' = Drips(d, process) /\ Pending(d)' = Pending(d)
    BY <1>1, <1>2, <1>3, <1>8
  <2>2. QED
    BY <2>1 DEF Reserved
<1>9. Drip * (Reserved(today) + 1) <= RolledSpent + Drip
  <2>1. Reserved(today) \in Nat /\ Drip * Reserved(today) <= RolledSpent /\ RolledSpent \in Nat
    BY <1>0, RolledCovers
  <2>2. /\ Drip * (Reserved(today) + 1) = Drip * Reserved(today) + Drip
        /\ Drip * Reserved(today) \in Nat /\ Drip \in Nat
    BY <2>1, DripsAddUp
  <2>3. QED
    BY <2>1, <2>2
<1>10. ReservedBeforeSent'
  <2>1. Reserved(day)' = Reserved(today) + 1
    BY <1>1, <1>7
  <2>2. Drip * Reserved(day)' <= spent'
    BY <1>1, <1>9, <2>1
  <2>3. QED
    BY <2>2 DEF ReservedBeforeSent, Reserved
<1>11. DaysWithin'
  <2>1. SUFFICES ASSUME NEW d \in Nat PROVE Drip * Reserved(d)' <= DailyBudget
    BY DEF DaysWithin
  <2>2. CASE d = today
    <3>1. Reserved(d)' = Reserved(today) + 1
      BY <1>7, <2>2
    <3>2. /\ Reserved(today) \in Nat /\ RolledSpent \in Nat /\ Drip \in Nat
          /\ DailyBudget \in Nat /\ Drip * (Reserved(today) + 1) \in Nat
      BY <1>0, RolledCovers, DripsAddUp, FaucetAssumption
    <3>3. QED
      BY <1>1, <1>9, <3>1, <3>2
  <2>3. CASE d # today
    BY <1>8, <2>3 DEF Inv, DaysWithin
  <2>4. QED
    BY <2>2, <2>3
<1>12. ProcessesWithin'
  BY <1>2 DEF Inv, ProcessesWithin
<1>13. QED
  BY <1>10, <1>11, <1>12 DEF Counted

LEMMA CountedNext ==
    ASSUME Inv, Next
    PROVE  Counted'
<1> USE DEF Inv
\* Steps that neither reserve nor send a drip nor roll the day.
<1>1. ASSUME UNCHANGED <<limitVars, process, pool>>,
             \A q \in Request : pc'[q] \in {"prepare", "broadcast"} =>
                 pc[q] \in {"prepare", "broadcast"} /\ job'[q].at = job[q].at
      PROVE  Counted'
  <2>1. \A d, p : Drips(d, p)' = Drips(d, p)
    BY <1>1 DEF Drips
  <2>2. \A d : Pending(d)' \subseteq Pending(d)
    BY <1>1 DEF Pending
  <2>3. QED
    BY <1>1, <2>1, <2>2, NothingReserved DEF limitVars
<1>2. ASSUME NEW r \in Request, NEW w \in Wallet, NEW ip \in Ip, Post(r, w, ip) PROVE Counted'
  BY <1>1, <1>2 DEF Post, Goto, Typed, chainVars
<1>3. ASSUME NEW r \in Request, BalanceRead(r) PROVE Counted'
  BY <1>1, <1>3 DEF BalanceRead, Goto, Typed, chainVars
<1>4. ASSUME NEW r \in Request, Skip(r) \/ NonceTaken(r) \/ Fail(r) \/ Receipt(r) PROVE Counted'
  BY <1>1, <1>4 DEF Skip, NonceTaken, Fail, Receipt, ReplyOther, ReplySent, Goto, Typed, chainVars
<1>5. ASSUME NEW r \in Request, NonceRead(r) PROVE Counted'
  <2>1. job'[r].at = job[r].at
    BY <1>5, Jobs DEF NonceRead, Typed, Job
  <2>2. QED
    BY <1>1, <1>5, <2>1 DEF NonceRead, Goto, Typed, chainVars
<1>6. ASSUME NEW r \in Request, Refuse(r) PROVE Counted'
  <2>0. PICK today : today = DayOf(now)
    OBVIOUS
  <2>1. /\ day' = today /\ spent' = RolledSpent
        /\ UNCHANGED <<process, pool>>
        /\ pc' = [pc EXCEPT ![r] = "idle"]
        /\ job' = [job EXCEPT ![r] = NoJob]
    BY <1>6, <2>0 DEF Refuse, ReplyOther, Goto, chainVars
  <2>2. ASSUME NEW d, NEW p PROVE Drips(d, p)' = Drips(d, p)
    BY <2>1 DEF Drips
  <2>3. ASSUME NEW d PROVE Pending(d)' = Pending(d)
    BY <1>6, <2>1 DEF Refuse, Pending, Typed
  <2>4. ASSUME NEW d PROVE Reserved(d)' = Reserved(d)
    <3>1. Drips(d, process)' = Drips(d, process)
      BY <2>1, <2>2
    <3>2. QED
      BY <2>3, <3>1 DEF Reserved
  <2>5. ReservedBeforeSent'
    <3>1. Drip * Reserved(day)' <= spent'
      BY <2>0, <2>1, <2>4, RolledCovers
    <3>2. QED
      BY <3>1 DEF ReservedBeforeSent, Reserved
  <2>6. QED
    BY <2>2, <2>4, <2>5 DEF Counted, DaysWithin, ProcessesWithin
<1>7. ASSUME NEW r \in Request, Reserve(r) PROVE Counted'
  BY <1>7, ReserveCounted
<1>8. ASSUME NEW r \in Request, Broadcast(r) PROVE Counted'
  BY <1>8, BroadcastCounted
<1>9. CASE Tick \/ Mine \/ \E w \in Wallet : Spend(w)
  BY <1>1, <1>9 DEF Tick, Mine, Spend, chainVars
\* An anchoring transaction is no drip.
<1>10. ASSUME AnchorReport PROVE Counted'
  <2>1. pool \in Seq(RelayerTx) /\ Anchor \in RelayerTx /\ Anchor.to \notin Wallet
    BY FaucetAssumption DEF Typed, Anchor, RelayerTx
  <2>2. /\ pool' = Append(pool, Anchor)
        /\ UNCHANGED <<limitVars, process, pc, job>>
    BY <1>10 DEF AnchorReport
  <2>3. /\ DOMAIN pool' = DOMAIN pool \cup {Len(pool) + 1}
        /\ pool'[Len(pool) + 1] = Anchor
        /\ \A j \in DOMAIN pool : pool'[j] = pool[j]
    BY <2>1, <2>2, Appended
  <2>4. \A d, p : Drips(d, p)' = Drips(d, p)
    BY <2>1, <2>3 DEF Drips
  <2>5. \A d : Pending(d)' \subseteq Pending(d)
    BY <2>2 DEF Pending
  <2>6. QED
    BY <2>2, <2>4, <2>5, NothingReserved DEF limitVars
\* A new process has reserved nothing yet.
<1>11. ASSUME Restart PROVE Counted'
  <2>1. /\ process' = process + 1 /\ pool' = pool /\ spent' = 0
        /\ \A r \in Request : pc'[r] = "idle"
    BY <1>11 DEF Restart, chainVars
  <2>2. ASSUME NEW d, NEW p PROVE Drips(d, p)' = Drips(d, p)
    BY <2>1 DEF Drips
  <2>3. ASSUME NEW d PROVE Pending(d)' = {}
    BY <2>1 DEF Pending
  <2>4. ASSUME NEW d PROVE Drips(d, process)' = {}
    <3>1. \A i \in DOMAIN pool : pool[i].process <= process /\ pool[i].process \in Nat
      <4>1. \A i \in DOMAIN pool : pool[i] \in RelayerTx
        BY DEF Typed
      <4>2. QED
        BY <4>1, FaucetAssumption DEF Ordered, RelayerTx
    <3>2. \A i \in DOMAIN pool : pool[i].process # process + 1
      BY <3>1 DEF Typed
    <3>3. QED
      BY <2>1, <3>2 DEF Drips
  <2>5. ASSUME NEW d PROVE Reserved(d)' = 0
    BY <2>3, <2>4, FS_EmptySet DEF Reserved
  <2>6. ReservedBeforeSent'
    <3>1. Drip * Reserved(day)' <= spent'
      BY <2>1, <2>5, DripsAddUp
    <3>2. QED
      BY <3>1 DEF ReservedBeforeSent, Reserved
  <2>7. DaysWithin'
    BY <2>5, DripsAddUp, FaucetAssumption DEF DaysWithin
  <2>8. QED
    BY <2>2, <2>6, <2>7 DEF Counted, ProcessesWithin
<1>12. QED
  BY <1>2, <1>3, <1>4, <1>5, <1>6, <1>7, <1>8, <1>9, <1>10, <1>11 DEF Next, Handle

--------------------------------------------------------------------------------
(* What an answer stands for. *)

LEMMA AnswersNext ==
    ASSUME Inv, Next
    PROVE  Awaiting' /\ SentMeansMined'
<1> USE DEF Inv
\* Steps of one handler that send nothing, and do not end in "sent".
<1>1. ASSUME NEW r \in Request, r \notin sent', sent' \subseteq sent, UNCHANGED <<pool, mined>>,
             pc'[r] # "receipt",
             \A q \in Request \ {r} : pc'[q] = pc[q] /\ job'[q] = job[q]
      PROVE  Awaiting' /\ SentMeansMined'
  BY <1>1, SMTT(30) DEF Awaiting, SentMeansMined, Typed
<1>2. ASSUME NEW r \in Request, NEW w \in Wallet, NEW ip \in Ip, Post(r, w, ip)
      PROVE  Awaiting' /\ SentMeansMined'
  BY <1>1, <1>2 DEF Post, Goto, Typed, chainVars
<1>3. ASSUME NEW r \in Request,
             Skip(r) \/ Refuse(r) \/ NonceTaken(r) \/ Fail(r)
      PROVE  Awaiting' /\ SentMeansMined'
  <2>1. r \notin sent
    BY <1>3 DEF Skip, Refuse, NonceTaken, Fail, Awaiting
  <2>2. QED
    BY <1>1, <1>3, <2>1 DEF Skip, Refuse, NonceTaken, Fail, ReplyOther, Goto, Typed, chainVars
<1>4. ASSUME NEW r \in Request, BalanceRead(r) \/ Reserve(r) \/ NonceRead(r)
      PROVE  Awaiting' /\ SentMeansMined'
  <2>1. r \notin sent
    BY <1>4 DEF BalanceRead, Reserve, NonceRead, Awaiting
  <2>2. QED
    BY <1>1, <1>4, <2>1 DEF BalanceRead, Reserve, NonceRead, Goto, Typed, chainVars
<1>5. ASSUME NEW r \in Request, Receipt(r) PROVE Awaiting' /\ SentMeansMined'
  <2>1. /\ job[r].tx \in 1 .. mined
        /\ pool[job[r].tx].to = job[r].to
    BY <1>5 DEF Receipt, Awaiting, Typed
  <2>2. /\ sent' = sent \cup {r}
        /\ UNCHANGED <<job, pool, mined>>
        /\ pc' = [pc EXCEPT ![r] = "idle"]
    BY <1>5 DEF Receipt, ReplySent, Goto, chainVars
  <2>3. QED
    BY <2>1, <2>2 DEF Awaiting, SentMeansMined, Typed
<1>6. ASSUME NEW r \in Request, Broadcast(r) PROVE Awaiting' /\ SentMeansMined'
  <2>0. job[r] \in Job /\ pool \in Seq(RelayerTx) /\ pc[r] = "broadcast"
    BY <1>6, Jobs DEF Broadcast, Typed
  <2> DEFINE tx == [to |-> job[r].to, ip |-> job[r].ip, at |-> job[r].at, process |-> process]
  <2>1. tx \in RelayerTx
    BY <2>0 DEF Typed, Holding, Job, RelayerTx
  <2>2. /\ pool' = Append(pool, tx)
        /\ UNCHANGED <<sent, mined>>
    BY <1>6 DEF Broadcast
  <2>3. /\ DOMAIN pool' = DOMAIN pool \cup {Len(pool) + 1}
        /\ pool'[Len(pool) + 1] = tx
        /\ \A j \in DOMAIN pool : pool'[j] = pool[j]
    BY <2>0, <2>1, <2>2, Appended
  <2>4. /\ job'[r].tx = Len(pool) + 1 /\ job'[r].to = job[r].to
        /\ pc'[r] = "receipt"
        /\ \A q \in Request \ {r} : pc'[q] = pc[q] /\ job'[q] = job[q]
    BY <1>6, <2>0 DEF Broadcast, Goto, Typed, Job
  <2>5. Awaiting'
    <3>1. ASSUME NEW q \in Request, pc'[q] = "receipt"
          PROVE  job'[q].tx \in DOMAIN pool' /\ pool'[job'[q].tx].to = job'[q].to
      <4>1. CASE q = r
        BY <2>3, <2>4, <4>1
      <4>2. CASE q # r
        BY <2>3, <2>4, <3>1, <4>2 DEF Awaiting
      <4>3. QED
        BY <4>1, <4>2
    <3>2. \A q \in sent' : pc'[q] = "idle"
      BY <2>0, <2>2, <2>4 DEF Awaiting, Typed
    <3>3. QED
      BY <3>1, <3>2 DEF Awaiting
  <2>6. SentMeansMined'
    <3>1. r \notin sent
      BY <2>0 DEF Awaiting
    <3>2. \A j \in 1 .. mined : j \in DOMAIN pool
      BY <2>0 DEF Typed
    <3>3. QED
      BY <2>2, <2>3, <2>4, <3>1, <3>2 DEF SentMeansMined, Typed
  <2>7. QED
    BY <2>5, <2>6
<1>7. ASSUME AnchorReport PROVE Awaiting' /\ SentMeansMined'
  <2>1. pool \in Seq(RelayerTx) /\ Anchor \in RelayerTx
    BY FaucetAssumption DEF Typed, Anchor, RelayerTx
  <2>2. /\ DOMAIN pool' = DOMAIN pool \cup {Len(pool) + 1}
        /\ \A j \in DOMAIN pool : pool'[j] = pool[j]
    BY <1>7, <2>1, Appended DEF AnchorReport
  <2>3. \A j \in 1 .. mined : j \in DOMAIN pool
    BY <2>1 DEF Typed
  <2>4. QED
    BY <1>7, <2>2, <2>3 DEF AnchorReport, Awaiting, SentMeansMined
<1>8. ASSUME Mine PROVE Awaiting' /\ SentMeansMined'
  <2>1. 1 .. mined \subseteq 1 .. mined'
    BY <1>8 DEF Mine, Typed
  <2>2. QED
    BY <1>8, <2>1 DEF Mine, Awaiting, SentMeansMined
<1>9. CASE Tick \/ \E w \in Wallet : Spend(w)
  BY <1>9 DEF Tick, Spend, chainVars, Awaiting, SentMeansMined
<1>10. CASE Restart
  BY <1>10 DEF Restart, Awaiting, SentMeansMined
<1>11. QED
  BY <1>2, <1>3, <1>4, <1>5, <1>6, <1>7, <1>8, <1>9, <1>10 DEF Next, Handle

--------------------------------------------------------------------------------
(* The theorems about the budget and the answers. *)

LEMMA InvInit == Init => Inv
<1> SUFFICES ASSUME Init PROVE Inv
  OBVIOUS
<1>1. Typed
  <2>1. NoJob \in Job
    BY FaucetAssumption DEF Job, NoJob, NoTx
  <2>2. pool \in Seq(RelayerTx) /\ mined \in 0 .. Len(pool)
    BY DEF Init
  <2>3. QED
    BY <2>1, <2>2, FaucetAssumption DEF Init, Typed, Step
<1>2. \A d, p : Drips(d, p) = {} /\ Pending(d) = {}
  BY DEF Init, Drips, Pending
<1>3. \A d, p : Cardinality(Drips(d, p)) = 0 /\ Cardinality(Pending(d)) = 0
  BY <1>2, FS_EmptySet
<1>4. ReservedBeforeSent /\ DaysWithin /\ ProcessesWithin
  BY <1>3, DripsAddUp, FaucetAssumption DEF Init, ReservedBeforeSent, DaysWithin, ProcessesWithin,
     Reserved
<1>5. Ordered
  <2>1. day <= DayOf(now)
    BY DaysAreOrdered DEF Init
  <2>2. QED
    BY <2>1 DEF Init, Ordered
<1>6. Holding /\ Awaiting /\ SentMeansMined
  BY DEF Init, Holding, Awaiting, SentMeansMined
<1>7. QED
  BY <1>1, <1>4, <1>5, <1>6 DEF Inv

LEMMA InvStep == Inv /\ [Next]_vars => Inv'
<1> SUFFICES ASSUME Inv, [Next]_vars PROVE Inv'
  OBVIOUS
<1>1. CASE Next
  BY <1>1, TypedNext, HoldingNext, OrderedNext, CountedNext, AnswersNext DEF Inv, Counted
<1>2. CASE UNCHANGED vars
  <2>1. UNCHANGED <<now, day, spent, process, pc, job, sent, pool, mined, gas>>
    BY <1>2 DEF vars
  <2>2. /\ Typed' /\ Holding' /\ Ordered' /\ Awaiting' /\ SentMeansMined'
    BY <2>1 DEF Inv, Typed, Holding, Ordered, Awaiting, SentMeansMined
  <2>3. /\ \A d, p : Drips(d, p)' = Drips(d, p)
        /\ \A d : Pending(d)' \subseteq Pending(d)
    BY <2>1 DEF Drips, Pending
  <2>4. Counted'
    BY <2>1, <2>3, NothingReserved
  <2>5. QED
    BY <2>2, <2>4 DEF Inv, Counted
<1>3. QED
  BY <1>1, <1>2

LEMMA InvAlways == Spec => []Inv
<1>1. QED
  BY InvInit, InvStep, PTL DEF Spec

\* The daily budget: whatever requests, failures, midnights and restarts come
\* between, the drips one process reserves on one day fit DAILY_BUDGET.
THEOREM DailyBudgetHolds == Spec => []WithinDailyBudget
<1>1. Inv => WithinDailyBudget
  <2>1. SUFFICES ASSUME Inv, NEW d \in 0 .. DayOf(MaxTime), NEW p \in 0 .. MaxRestarts
                 PROVE  Drip * Cardinality(Drips(d, p)) <= DailyBudget
    BY DEF WithinDailyBudget
  <2>2. d \in Nat /\ p \in Nat
    BY FaucetAssumption, DaysAreOrdered
  <2>3. QED
    BY <2>1, <2>2 DEF Inv, ProcessesWithin
<1>2. QED
  BY <1>1, InvAlways, PTL

\* Fail-closed: spent covers what was sent today and what is about to be.
THEOREM SpentCoversTheDay == Spec => []ReservedBeforeSent
<1>1. Inv => ReservedBeforeSent
  BY DEF Inv
<1>2. QED
  BY <1>1, InvAlways, PTL

\* An answer "sent" stands for a transaction of this wallet in a block.
THEOREM SentIsMined == Spec => []SentMeansMined
<1>1. Inv => SentMeansMined
  BY DEF Inv
<1>2. QED
  BY <1>1, InvAlways, PTL

--------------------------------------------------------------------------------
(* Lists in order of time. *)

\* The reservations after time lo, the last k entries, and a list in order of time.
Above(s, lo) == {n \in DOMAIN s : s[n] > lo}
LastOf(s, k) == SubSeq(s, Len(s) - k + 1, Len(s))
Sorted(s) == \A m, n \in DOMAIN s : m <= n => s[m] <= s[n]

\* A set of positions that goes on to the last one is known by its size.
LEMMA UpperSet ==
    ASSUME NEW len \in Nat, NEW K \in SUBSET (1 .. len), \A m \in K : m .. len \subseteq K
    PROVE  /\ Cardinality(K) \in 0 .. len
           /\ K = (len - Cardinality(K) + 1) .. len
<1>0. ASSUME NEW a \in Int, NEW b \in Int
      PROVE  /\ IsFiniteSet(a .. b)
             /\ Cardinality(a .. b) = IF a > b THEN 0 ELSE b - a + 1
  BY FS_Interval, Zenon
<1>1. IsFiniteSet(1 .. len) /\ Cardinality(1 .. len) = len
  BY <1>0
<1>2. PICK c : c = Cardinality(K)
  OBVIOUS
<1>3. IsFiniteSet(K) /\ c \in Nat /\ c <= len
  <2>1. K \in SUBSET (1 .. len)
    OBVIOUS
  <2>2. IsFiniteSet(K) /\ Cardinality(K) <= Cardinality(1 .. len)
    BY <1>1, <2>1, FS_Subset, Zenon
  <2>3. Cardinality(K) \in Nat
    BY <2>2, FS_CardinalityType, Zenon
  <2>4. QED
    BY <1>1, <1>2, <2>2, <2>3
<1>4. PICK I : I = (len - c + 1) .. len
  OBVIOUS
<1>5. ASSUME NEW m \in K PROVE m \in I
  <2>1. m \in Int /\ m \in 1 .. len /\ m .. len \in SUBSET K
    OBVIOUS
  <2>2. Cardinality(m .. len) = len - m + 1
    BY <2>1, FS_Interval
  <2>3. Cardinality(m .. len) <= c
    BY <1>2, <1>3, <2>1, FS_Subset
  <2>4. QED
    BY <1>3, <1>4, <2>1, <2>2, <2>3
<1>6. IsFiniteSet(I) /\ Cardinality(I) = c
  <2>1. len \in Int /\ \E first \in Int : first = len - c + 1
    BY <1>3
  <2>2. PICK first \in Int : first = len - c + 1
    BY <2>1
  <2>3. /\ IsFiniteSet(first .. len)
        /\ Cardinality(first .. len) = IF first > len THEN 0 ELSE len - first + 1
    BY <1>0, <2>1, <2>2
  <2>4. QED
    BY <1>3, <1>4, <2>2, <2>3
<1>7. I = K
  <2>1. K \in SUBSET I /\ Cardinality(I) = Cardinality(K)
    BY <1>2, <1>5, <1>6
  <2>2. QED
    BY <1>6, <2>1, FS_Subset
<1>8. QED
  BY <1>2, <1>3, <1>4, <1>7

\* In a sorted list what lies after a time is the end of the list.
LEMMA AboveIsTheEnd ==
    ASSUME NEW s \in Seq(Nat), Sorted(s), NEW lo \in Int
    PROVE  /\ Cardinality(Above(s, lo)) \in 0 .. Len(s)
           /\ Above(s, lo) = (Len(s) - Cardinality(Above(s, lo)) + 1) .. Len(s)
<1>1. Above(s, lo) \in SUBSET (1 .. Len(s))
  BY DEF Above
<1>2. ASSUME NEW m \in Above(s, lo) PROVE m .. Len(s) \subseteq Above(s, lo)
  <2>1. /\ m \in 1 .. Len(s) /\ s[m] > lo /\ s[m] \in Nat
        /\ DOMAIN s = 1 .. Len(s)
    BY DEF Above
  <2>2. SUFFICES ASSUME NEW n \in m .. Len(s) PROVE n \in DOMAIN s /\ s[n] > lo
    BY DEF Above
  <2>3. n \in DOMAIN s /\ s[n] \in Nat /\ m <= n
    BY <2>1
  <2>4. QED
    BY <2>1, <2>3 DEF Sorted
<1>3. PICK K : K = Above(s, lo)
  OBVIOUS
<1>4. K \in SUBSET (1 .. Len(s)) /\ \A m \in K : m .. Len(s) \subseteq K
  BY <1>1, <1>2, <1>3
<1>5. Cardinality(K) \in 0 .. Len(s) /\ K = (Len(s) - Cardinality(K) + 1) .. Len(s)
  <2>1. PICK len \in Nat : len = Len(s)
    OBVIOUS
  <2>2. Cardinality(K) \in 0 .. len /\ K = (len - Cardinality(K) + 1) .. len
    BY <1>4, <2>1, UpperSet
  <2>3. QED
    BY <2>1, <2>2
<1>6. QED
  BY <1>3, <1>5

\* The entries of a sequence from the one after off to the last.
LEMMA SubSequence ==
    ASSUME NEW S, NEW s \in Seq(S), NEW off \in Nat, off <= Len(s)
    PROVE  /\ SubSeq(s, off + 1, Len(s)) \in Seq(S)
           /\ Len(SubSeq(s, off + 1, Len(s))) = Len(s) - off
           /\ \A n \in 1 .. Len(s) - off : SubSeq(s, off + 1, Len(s))[n] = s[off + n]
  OBVIOUS

\* A sequence belongs to every set its entries are in.
LEMMA EntriesOf ==
    ASSUME NEW S, NEW T, NEW s \in Seq(S)
    PROVE  /\ \A n \in DOMAIN s : s[n] \in S
           /\ (\A n \in DOMAIN s : s[n] \in T) => s \in Seq(T)
  OBVIOUS

\* Keeping what lies after a time is what filter does: the entries after it are
\* there, the others are not, and later times count the same entries as before.
LEMMA KeepingTheEnd ==
    ASSUME NEW s \in Seq(Nat), Sorted(s), NEW lo \in Int, NEW r,
           r = LastOf(s, Cardinality(Above(s, lo)))
    PROVE  /\ r \in Seq(Nat)
           /\ Len(r) = Cardinality(Above(s, lo))
           /\ Sorted(r)
           /\ \A n \in DOMAIN r : r[n] > lo /\ \E m \in DOMAIN s : r[n] = s[m]
           /\ \A u \in Int : u >= lo =>
                /\ Cardinality(Above(r, u)) = Cardinality(Above(s, u))
                /\ Cardinality(Above(s, u)) <= Len(r)
<1> DEFINE k == Cardinality(Above(s, lo))
           off == Len(s) - k
<1>1. k \in Nat /\ k <= Len(s) /\ off \in Nat /\ Above(s, lo) = (off + 1) .. Len(s)
  <2>1. k \in 0 .. Len(s) /\ Above(s, lo) = (Len(s) - k + 1) .. Len(s)
    BY AboveIsTheEnd
  <2>2. QED
    BY <2>1
<1>2. /\ r \in Seq(Nat)
      /\ Len(r) = k
      /\ DOMAIN r = 1 .. k
      /\ \A n \in 1 .. k : off + n \in DOMAIN s /\ r[n] = s[off + n]
  <2>1. r = SubSeq(s, off + 1, Len(s)) /\ Len(s) - off = k
    <3>1. r = SubSeq(s, Len(s) - k + 1, Len(s))
      BY DEF LastOf
    <3> HIDE DEF k
    <3>2. QED
      BY <1>1, <3>1, SMTT(30)
  <2>2. off \in Nat /\ Len(s) \in Nat /\ off <= Len(s) /\ DOMAIN s = 1 .. Len(s)
    BY <1>1
  <2> HIDE DEF k, off
  <2>3. Len(r) = Len(s) - off /\ r \in Seq(Nat)
    BY <2>1, <2>2, SubSequence
  <2>4. \A n \in 1 .. Len(s) - off : r[n] = s[off + n]
    BY <2>1, <2>2, SubSequence
  <2>5. Len(r) = k /\ DOMAIN r = 1 .. k /\ Len(s) - off = k
    BY <2>1, <2>3
  <2>6. \A n \in 1 .. Len(s) - off : off + n \in DOMAIN s
    BY <2>2
  <2>7. QED
    BY <2>3, <2>4, <2>5, <2>6
<1> HIDE DEF k
<1>3. \A n \in 1 .. k : r[n] > lo
  <2>1. \A n \in 1 .. k : off + n \in Above(s, lo)
    BY <1>1
  <2>2. QED
    BY <1>2, <2>1 DEF Above
<1>4. Sorted(r)
  <2>1. SUFFICES ASSUME NEW m \in 1 .. k, NEW n \in 1 .. k, m <= n PROVE s[off + m] <= s[off + n]
    BY <1>2 DEF Sorted
  <2>2. off + m <= off + n
    BY <1>1, <2>1
  <2>3. QED
    BY <1>2, <2>2 DEF Sorted
<1>5. ASSUME NEW u \in Int, u >= lo
      PROVE  Cardinality(Above(r, u)) = Cardinality(Above(s, u)) /\ Cardinality(Above(s, u)) <= k
  <2> DEFINE c == Cardinality(Above(s, u))
  <2>1. c \in 0 .. Len(s) /\ Above(s, u) = (Len(s) - c + 1) .. Len(s)
    BY AboveIsTheEnd
  <2>2. Above(s, u) \in SUBSET Above(s, lo)
    BY <1>5 DEF Above
  <2>3. IsFiniteSet(Above(s, lo))
    BY <1>1, FS_Interval
  <2>4. c <= k
    BY <2>2, <2>3, FS_Subset DEF k
  <2> HIDE DEF c
  <2>5. Above(r, u) = (k - c + 1) .. k
    <3>1. ASSUME NEW n \in 1 .. k PROVE r[n] > u <=> n >= k - c + 1
      <4>1. r[n] > u <=> off + n \in Above(s, u)
        BY <1>2 DEF Above
      <4>2. QED
        BY <1>1, <2>1, <4>1
    <3>2. Above(r, u) = {n \in 1 .. k : n >= k - c + 1}
      BY <1>2, <3>1 DEF Above
    <3>3. k \in Nat /\ c \in Nat /\ c <= k
      BY <1>1, <2>1, <2>4
    <3>4. {n \in 1 .. k : n >= k - c + 1} = (k - c + 1) .. k
      BY <3>3
    <3>5. QED
      BY <3>2, <3>4
  <2>6. Cardinality((k - c + 1) .. k) = c
    <3>1. k - c + 1 \in Int /\ k \in Int
      BY <1>1, <2>1
    <3>2. QED
      BY <1>1, <2>1, <3>1, FS_Interval
  <2>7. Cardinality(Above(r, u)) = c /\ c <= k
    BY <2>4, <2>5, <2>6
  <2>8. QED
    BY <2>7 DEF c
<1>6. QED
  BY <1>2, <1>3, <1>4, <1>5 DEF k

\* Appending the present time.
LEMMA AppendingTheLatest ==
    ASSUME NEW s \in Seq(Nat), Sorted(s), NEW t \in Nat, \A n \in DOMAIN s : s[n] <= t
    PROVE  /\ Append(s, t) \in Seq(Nat)
           /\ Sorted(Append(s, t))
           /\ \A n \in DOMAIN Append(s, t) : Append(s, t)[n] <= t
           /\ \A u \in Int : Cardinality(Above(Append(s, t), u)) =
                Cardinality(Above(s, u)) + (IF t > u THEN 1 ELSE 0)
<1>1. /\ Append(s, t) \in Seq(Nat)
      /\ DOMAIN Append(s, t) = DOMAIN s \cup {Len(s) + 1}
      /\ Len(s) + 1 \notin DOMAIN s
      /\ Append(s, t)[Len(s) + 1] = t
      /\ \A i \in DOMAIN s : Append(s, t)[i] = s[i]
  BY Appended
<1>2. DOMAIN s = 1 .. Len(s) /\ Len(s) \in Nat /\ \A i \in DOMAIN s : s[i] \in Nat
  OBVIOUS
<1>3. Sorted(Append(s, t))
  BY <1>1, <1>2 DEF Sorted
<1>4. ASSUME NEW u \in Int
      PROVE  Cardinality(Above(Append(s, t), u)) =
                Cardinality(Above(s, u)) + (IF t > u THEN 1 ELSE 0)
  <2>1. Above(Append(s, t), u) = IF t > u THEN Above(s, u) \cup {Len(s) + 1} ELSE Above(s, u)
    BY <1>1, <1>2 DEF Above
  <2>2. IsFiniteSet(Above(s, u)) /\ Cardinality(Above(s, u)) \in Nat
    <3>1. Above(s, u) \in SUBSET (1 .. Len(s))
      BY <1>2 DEF Above
    <3>2. QED
      <4>1. IsFiniteSet(1 .. Len(s))
        BY <1>2, FS_Interval
      <4>2. IsFiniteSet(Above(s, u))
        BY <3>1, <4>1, FS_Subset
      <4>3. QED
        BY <4>2, FS_CardinalityType
  <2>3. Cardinality(Above(s, u) \cup {Len(s) + 1}) = Cardinality(Above(s, u)) + 1
    BY <1>1, <2>2, FS_AddElement DEF Above
  <2>4. QED
    BY <2>1, <2>2, <2>3
<1>5. QED
  BY <1>1, <1>2, <1>3, <1>4

--------------------------------------------------------------------------------
(* The limit of an address: its invariant and the steps. *)

\* What this process has reserved for an address at one of the times T.
CountOf(ip, T) == Cardinality(DripsOf(ip, process, T)) + Cardinality(PendingOf(ip, T))

\* The times of day d after lo.
After(d, lo) == {t \in Nat : DayOf(t) = d /\ t > lo}

\* The list of an address is in order of time and ends no later than now.
Listed ==
    /\ ipHits \in [Ip -> Seq(0 .. MaxTime)]
    /\ \A ip \in Ip : Sorted(ipHits[ip]) /\ \A n \in DOMAIN ipHits[ip] : ipHits[ip][n] <= now

\* It holds whatever has been reserved for the address on the present day and is
\* still inside the window.
Remembered ==
    \A ip \in Ip, lo \in Int : lo >= now - IpWindow =>
        CountOf(ip, After(day, lo)) <= Cardinality(Above(ipHits[ip], lo))

\* What this process has reserved inside a window, sent or not, is within the limit,
AddressesWithin ==
    \A ip \in Ip, d \in Nat, t \in Nat : CountOf(ip, Window(d, t)) <= MaxPerIp

\* and so is what earlier ones have sent.
EarlierWithin ==
    \A ip \in Ip, p \in Nat, d \in Nat, t \in Nat :
        Cardinality(DripsOf(ip, p, Window(d, t))) <= MaxPerIp

AddressInv == Listed /\ Remembered /\ AddressesWithin /\ EarlierWithin

\* The numbers of the limit.
LEMMA LimitNumbers ==
    /\ MaxPerIp \in Nat \ {0} /\ IpWindow \in Nat \ {0}
    /\ MaxTime \in Nat
<1>1. {MaxPerIp, IpWindow} \subseteq {Drip, Threshold, MaxPerIp, IpWindow, DayLength}
  OBVIOUS
<1>2. {MaxPerIp, IpWindow} \subseteq Nat \ {0}
  BY <1>1, FaucetAssumption, Zenon
<1>3. QED
  BY <1>2, FaucetAssumption

\* What is counted of one address is part of what is counted of a day.
LEMMA AddressCountsAreFinite ==
    ASSUME Typed
    PROVE  /\ \A ip, p, T : /\ IsFiniteSet(DripsOf(ip, p, T))
                            /\ Cardinality(DripsOf(ip, p, T)) \in Nat
           /\ \A ip, T : /\ IsFiniteSet(PendingOf(ip, T))
                         /\ Cardinality(PendingOf(ip, T)) \in Nat
           /\ \A ip, T : CountOf(ip, T) \in Nat
<1>1. IsFiniteSet(DOMAIN pool)
  BY FS_Interval DEF Typed
<1>2. ASSUME NEW ip, NEW p, NEW T
      PROVE  IsFiniteSet(DripsOf(ip, p, T)) /\ Cardinality(DripsOf(ip, p, T)) \in Nat
  BY <1>1, FS_Subset, FS_CardinalityType DEF DripsOf
<1>3. ASSUME NEW ip, NEW T
      PROVE  IsFiniteSet(PendingOf(ip, T)) /\ Cardinality(PendingOf(ip, T)) \in Nat
  BY FaucetAssumption, FS_Subset, FS_CardinalityType DEF PendingOf
<1>4. \A ip, T : CountOf(ip, T) \in Nat
  BY <1>2, <1>3 DEF CountOf
<1>5. QED
  BY <1>2, <1>3, <1>4

\* Fewer times, fewer reservations.
LEMMA FewerTimes ==
    ASSUME Typed, NEW ip, NEW T, NEW U, T \subseteq U
    PROVE  CountOf(ip, T) <= CountOf(ip, U)
<1>1. DripsOf(ip, process, T) \in SUBSET DripsOf(ip, process, U)
  BY DEF DripsOf
<1>2. PendingOf(ip, T) \in SUBSET PendingOf(ip, U)
  BY DEF PendingOf
<1>3. /\ Cardinality(DripsOf(ip, process, T)) <= Cardinality(DripsOf(ip, process, U))
      /\ Cardinality(PendingOf(ip, T)) <= Cardinality(PendingOf(ip, U))
  BY <1>1, <1>2, AddressCountsAreFinite, FS_Subset
<1>4. QED
  BY <1>3, AddressCountsAreFinite DEF CountOf

\* On a day nobody has looked at yet nothing is reserved for any address.
LEMMA NobodyYet ==
    ASSUME Typed, Ordered, NEW d \in Nat, day < d, NEW ip, NEW lo
    PROVE  CountOf(ip, After(d, lo)) = 0
<1>1. Drips(d, process) = {} /\ Pending(d) = {}
  BY NothingOutside
<1>2. DripsOf(ip, process, After(d, lo)) = {} /\ PendingOf(ip, After(d, lo)) = {}
  BY <1>1 DEF DripsOf, Drips, PendingOf, Pending, After
<1>3. QED
  BY <1>2, FS_EmptySet DEF CountOf

\* The lists rollDay leaves hold what is reserved on the day it rolls to.
LEMMA RolledLists ==
    ASSUME Inv, AddressInv
    PROVE  /\ RolledHits \in [Ip -> Seq(0 .. MaxTime)]
           /\ \A ip \in Ip : /\ Sorted(RolledHits[ip])
                             /\ \A n \in DOMAIN RolledHits[ip] : RolledHits[ip][n] <= now
           /\ \A ip \in Ip, lo \in Int : lo >= now - IpWindow =>
                CountOf(ip, After(DayOf(now), lo)) <= Cardinality(Above(RolledHits[ip], lo))
<1>1. CASE day = DayOf(now)
  BY <1>1 DEF AddressInv, Listed, Remembered, RolledHits
<1>2. CASE day # DayOf(now)
  <2>1. DayOf(now) \in Nat /\ day < DayOf(now)
    BY <1>2, RolledCovers DEF Inv, Typed, Ordered
  <2>2. RolledHits = [i \in Ip |-> <<>>]
    BY <1>2 DEF RolledHits
  <2>3. ASSUME NEW ip \in Ip, NEW lo \in Int
        PROVE  CountOf(ip, After(DayOf(now), lo)) <= Cardinality(Above(RolledHits[ip], lo))
    <3>1. Above(RolledHits[ip], lo) = {}
      BY <2>2 DEF Above
    <3>2. Cardinality(Above(RolledHits[ip], lo)) = 0
      BY <3>1, FS_EmptySet
    <3>3. CountOf(ip, After(DayOf(now), lo)) = 0
      BY <2>1, NobodyYet DEF Inv
    <3>4. QED
      BY <3>2, <3>3
  <2>4. QED
    BY <2>2, <2>3 DEF Sorted
<1>3. QED
  BY <1>1, <1>2

\* What checkFaucetLimit keeps of an address's list.
LEMMA RecentIsTheWindow ==
    ASSUME Inv, AddressInv, NEW ip \in Ip
    PROVE  /\ Recent(ip) \in Seq(0 .. MaxTime)
           /\ Sorted(Recent(ip))
           /\ \A n \in DOMAIN Recent(ip) :
                Recent(ip)[n] <= now /\ now - Recent(ip)[n] < IpWindow
           /\ \A lo \in Int : lo >= now - IpWindow =>
                /\ CountOf(ip, After(DayOf(now), lo)) <= Cardinality(Above(Recent(ip), lo))
                /\ CountOf(ip, After(DayOf(now), lo)) <= Len(Recent(ip))
<1> DEFINE hits == RolledHits[ip]
           from == now - IpWindow
<1>1. /\ hits \in Seq(0 .. MaxTime)
      /\ Sorted(hits)
      /\ \A n \in DOMAIN hits : hits[n] <= now
      /\ \A lo \in Int : lo >= from =>
           CountOf(ip, After(DayOf(now), lo)) <= Cardinality(Above(hits, lo))
  BY RolledLists
<1>2. now \in Nat /\ from \in Int /\ IpWindow \in Nat /\ MaxTime \in Nat
  BY LimitNumbers DEF Inv, Typed
<1>3. hits \in Seq(Nat) /\ \A n \in DOMAIN hits : hits[n] \in Nat /\ hits[n] \in 0 .. MaxTime
  <2>1. \A n \in DOMAIN hits : hits[n] \in 0 .. MaxTime
    BY <1>1, EntriesOf
  <2>2. \A n \in DOMAIN hits : hits[n] \in Nat
    BY <2>1
  <2>3. QED
    BY <1>1, <2>1, <2>2, EntriesOf
<1>4. Recent(ip) = LastOf(hits, Cardinality(Above(hits, from)))
  <2>1. {n \in DOMAIN hits : now - hits[n] < IpWindow} = Above(hits, from)
    BY <1>2, <1>3 DEF Above
  <2>2. QED
    BY <2>1 DEF Recent, LastOf
<1> HIDE DEF hits, from
<1>5. /\ Recent(ip) \in Seq(Nat)
      /\ Len(Recent(ip)) = Cardinality(Above(hits, from))
      /\ Sorted(Recent(ip))
      /\ \A n \in DOMAIN Recent(ip) :
           Recent(ip)[n] > from /\ \E m \in DOMAIN hits : Recent(ip)[n] = hits[m]
      /\ \A u \in Int : u >= from =>
           /\ Cardinality(Above(Recent(ip), u)) = Cardinality(Above(hits, u))
           /\ Cardinality(Above(hits, u)) <= Len(Recent(ip))
  BY <1>1, <1>2, <1>3, <1>4, KeepingTheEnd
<1>6. \A n \in DOMAIN Recent(ip) :
        /\ Recent(ip)[n] \in 0 .. MaxTime
        /\ Recent(ip)[n] <= now /\ now - Recent(ip)[n] < IpWindow
  <2>1. SUFFICES ASSUME NEW n \in DOMAIN Recent(ip)
                 PROVE  /\ Recent(ip)[n] \in 0 .. MaxTime
                        /\ Recent(ip)[n] <= now /\ now - Recent(ip)[n] < IpWindow
    OBVIOUS
  <2>2. PICK m \in DOMAIN hits : Recent(ip)[n] = hits[m]
    BY <1>5
  <2>3. hits[m] \in 0 .. MaxTime /\ hits[m] <= now /\ Recent(ip)[n] > from
    BY <1>1, <1>3, <1>5
  <2>4. QED
    BY <1>2, <2>2, <2>3 DEF from
<1>7. Recent(ip) \in Seq(0 .. MaxTime)
  BY <1>5, <1>6, EntriesOf
<1>8. ASSUME NEW lo \in Int, lo >= from
      PROVE  /\ CountOf(ip, After(DayOf(now), lo)) <= Cardinality(Above(Recent(ip), lo))
             /\ CountOf(ip, After(DayOf(now), lo)) <= Len(Recent(ip))
  <2>1. CountOf(ip, After(DayOf(now), lo)) \in Nat
    BY AddressCountsAreFinite DEF Inv
  <2>2. Cardinality(Above(hits, lo)) \in Nat
    <3>1. Cardinality(Above(hits, lo)) \in 0 .. Len(hits)
      BY <1>1, <1>3, AboveIsTheEnd
    <3>2. QED
      BY <3>1
  <2>3. QED
    BY <1>1, <1>5, <1>8, <2>1, <2>2
<1>9. QED
  BY <1>5, <1>6, <1>7, <1>8 DEF from

\* Dropping reservations lowers a count.
LEMMA CountsFall ==
    ASSUME Typed, process' = process, NEW ip, NEW T,
           \A p : DripsOf(ip, p, T)' = DripsOf(ip, p, T),
           PendingOf(ip, T)' \subseteq PendingOf(ip, T)
    PROVE  CountOf(ip, T)' <= CountOf(ip, T) /\ CountOf(ip, T)' \in Nat
<1>1. /\ IsFiniteSet(PendingOf(ip, T))
      /\ Cardinality(PendingOf(ip, T)) \in Nat
      /\ Cardinality(DripsOf(ip, process, T)) \in Nat
  BY AddressCountsAreFinite
<1>2. PendingOf(ip, T)' \in SUBSET PendingOf(ip, T)
  OBVIOUS
<1>3. /\ IsFiniteSet(PendingOf(ip, T)')
      /\ Cardinality(PendingOf(ip, T)') <= Cardinality(PendingOf(ip, T))
  BY <1>1, <1>2, FS_Subset
<1>4. Cardinality(PendingOf(ip, T)') \in Nat
  BY <1>3, FS_CardinalityType
<1>5. Cardinality(DripsOf(ip, process, T)') = Cardinality(DripsOf(ip, process, T))
  OBVIOUS
<1>6. QED
  BY <1>1, <1>3, <1>4, <1>5 DEF CountOf

\* Steps that neither reserve nor send a drip; the day may be rolled.
LEMMA NothingAdded ==
    ASSUME Inv, AddressInv, process' = process, now' \in Nat, now <= now',
           \A ip, p, T : DripsOf(ip, p, T)' = DripsOf(ip, p, T),
           \A ip, T : PendingOf(ip, T)' \subseteq PendingOf(ip, T),
           \/ day' = day /\ ipHits' = ipHits
           \/ day' = DayOf(now) /\ ipHits' = RolledHits
    PROVE  AddressInv'
<1> USE DEF Inv, AddressInv
<1>1. now \in Nat /\ IpWindow \in Nat /\ MaxTime \in Nat
  BY LimitNumbers DEF Typed
<1>2. ASSUME NEW ip, NEW T PROVE CountOf(ip, T)' <= CountOf(ip, T) /\ CountOf(ip, T)' \in Nat
  BY <1>2, CountsFall
<1>3. PICK today, lists :
        /\ day' = today /\ ipHits' = lists
        /\ lists \in [Ip -> Seq(0 .. MaxTime)]
        /\ \A ip \in Ip : Sorted(lists[ip]) /\ \A n \in DOMAIN lists[ip] : lists[ip][n] <= now
        /\ \A ip \in Ip, lo \in Int : lo >= now - IpWindow =>
             CountOf(ip, After(today, lo)) <= Cardinality(Above(lists[ip], lo))
  <2>1. CASE day' = day /\ ipHits' = ipHits
    BY <2>1 DEF Listed, Remembered
  <2>2. CASE day' = DayOf(now) /\ ipHits' = RolledHits
    BY <2>2, RolledLists
  <2>3. QED
    BY <2>1, <2>2
<1>4. Listed'
  <2>1. ASSUME NEW ip \in Ip, NEW n \in DOMAIN lists[ip] PROVE lists[ip][n] <= now'
    <3>1. lists[ip][n] \in 0 .. MaxTime /\ lists[ip][n] <= now
      BY <1>3, EntriesOf
    <3>2. QED
      BY <1>1, <3>1
  <2>2. QED
    BY <1>3, <2>1 DEF Listed
<1>5. Remembered'
  <2>1. SUFFICES ASSUME NEW ip \in Ip, NEW lo \in Int, lo >= now' - IpWindow
                 PROVE  CountOf(ip, After(day, lo))' <= Cardinality(Above(lists[ip], lo))
    BY <1>3 DEF Remembered
  <2>2. lo >= now - IpWindow
    <3>1. PICK later \in Nat : later = now'
      OBVIOUS
    <3>2. now <= later /\ lo >= later - IpWindow
      BY <2>1, <3>1
    <3>3. QED
      BY <1>1, <3>2
  <2>3. PICK T : T = After(today, lo)
    OBVIOUS
  <2>4. CountOf(ip, T) <= Cardinality(Above(lists[ip], lo)) /\ CountOf(ip, T) \in Nat
    BY <1>3, <2>2, <2>3, AddressCountsAreFinite
  <2>5. Cardinality(Above(lists[ip], lo)) \in Nat
    <3>1. lists[ip] \in Seq(0 .. MaxTime) /\ Sorted(lists[ip])
      BY <1>3
    <3>2. \A n \in DOMAIN lists[ip] : lists[ip][n] \in Nat
      <4>1. \A n \in DOMAIN lists[ip] : lists[ip][n] \in 0 .. MaxTime
        BY <3>1, EntriesOf
      <4>2. QED
        BY <4>1
    <3>3. lists[ip] \in Seq(Nat)
      BY <3>1, <3>2, EntriesOf
    <3>4. Cardinality(Above(lists[ip], lo)) \in 0 .. Len(lists[ip])
      BY <3>1, <3>3, AboveIsTheEnd
    <3>5. QED
      BY <3>4
  <2>6. CountOf(ip, T)' <= Cardinality(Above(lists[ip], lo))
    BY <1>2, <2>4, <2>5
  <2>7. QED
    BY <1>3, <2>3, <2>6
<1>6. AddressesWithin'
  <2>1. SUFFICES ASSUME NEW ip \in Ip, NEW d \in Nat, NEW t \in Nat
                 PROVE  CountOf(ip, Window(d, t))' <= MaxPerIp
    BY DEF AddressesWithin
  <2>2. PICK T : T = Window(d, t)
    OBVIOUS
  <2>3. CountOf(ip, T) <= MaxPerIp /\ CountOf(ip, T) \in Nat
    BY <2>2, AddressCountsAreFinite DEF AddressesWithin
  <2>4. CountOf(ip, T)' <= MaxPerIp
    BY <1>2, <2>3, LimitNumbers
  <2>5. QED
    BY <2>2, <2>4
<1>7. EarlierWithin'
  BY DEF EarlierWithin
<1>8. QED
  BY <1>4, <1>5, <1>6, <1>7

\* Sending: a reservation becomes a drip for the same address and of the same time.
LEMMA BroadcastKeepsAddresses ==
    ASSUME Inv, AddressInv, NEW r \in Request, Broadcast(r)
    PROVE  AddressInv'
<1> USE DEF Inv, AddressInv
<1> DEFINE n == Len(pool) + 1
           tx == [to |-> job[r].to, ip |-> job[r].ip, at |-> job[r].at, process |-> process]
<1>1. /\ pool' = Append(pool, tx)
      /\ job[r].to \in Wallet
      /\ pc[r] = "broadcast"
      /\ UNCHANGED <<now, day, ipHits, process>>
  BY DEF Broadcast, Holding, limitVars
<1>2. /\ DOMAIN pool' = DOMAIN pool \cup {n}
      /\ n \notin DOMAIN pool
      /\ pool'[n] = tx
      /\ \A j \in DOMAIN pool : pool'[j] = pool[j]
  <2>1. pool \in Seq(RelayerTx) /\ tx \in RelayerTx
    BY <1>1, Jobs DEF Typed, Holding, Job, RelayerTx
  <2>2. QED
    BY <1>1, <2>1, Appended
<1>3. PICK a, at : a = job[r].ip /\ at = job[r].at
  OBVIOUS
<1>4. ASSUME NEW ip, NEW p, NEW T
      PROVE  DripsOf(ip, p, T)' = IF ip = a /\ p = process /\ at \in T
                                  THEN DripsOf(ip, p, T) \cup {n} ELSE DripsOf(ip, p, T)
  BY <1>1, <1>2, <1>3 DEF DripsOf
<1>5. ASSUME NEW ip, NEW T
      PROVE  PendingOf(ip, T)' = IF ip = a /\ at \in T
                                 THEN PendingOf(ip, T) \ {r} ELSE PendingOf(ip, T)
  <2>1. /\ pc'[r] = "receipt"
        /\ \A q \in Request \ {r} : pc'[q] = pc[q] /\ job'[q] = job[q]
    BY DEF Broadcast, Goto, Typed
  <2>2. QED
    BY <1>1, <1>3, <2>1 DEF PendingOf
<1>6. ASSUME NEW T, at \in T
      PROVE  /\ Cardinality(DripsOf(a, process, T) \cup {n}) =
                  Cardinality(DripsOf(a, process, T)) + 1
             /\ Cardinality(PendingOf(a, T) \ {r}) = Cardinality(PendingOf(a, T)) - 1
             /\ Cardinality(PendingOf(a, T)) >= 1
  <2>1. n \notin DripsOf(a, process, T) /\ r \in PendingOf(a, T)
    BY <1>1, <1>2, <1>3, <1>6 DEF DripsOf, PendingOf
  <2>2. /\ Cardinality(DripsOf(a, process, T) \cup {n}) = Cardinality(DripsOf(a, process, T)) + 1
        /\ Cardinality(PendingOf(a, T) \ {r}) = Cardinality(PendingOf(a, T)) - 1
    BY <2>1, AddressCountsAreFinite, FS_AddElement, FS_RemoveElement
  <2>3. Cardinality(PendingOf(a, T) \ {r}) \in Nat
    BY AddressCountsAreFinite, FS_RemoveElement, FS_CardinalityType
  <2>4. Cardinality(PendingOf(a, T)) \in Nat
    BY AddressCountsAreFinite
  <2>5. QED
    BY <2>2, <2>3, <2>4
<1>7. ASSUME NEW ip, NEW T PROVE CountOf(ip, T)' = CountOf(ip, T)
  <2>1. DripsOf(ip, process, T)' = IF ip = a /\ at \in T
                                   THEN DripsOf(ip, process, T) \cup {n}
                                   ELSE DripsOf(ip, process, T)
    BY <1>1, <1>4
  <2>2. CASE ip = a /\ at \in T
    <3>1. /\ Cardinality(DripsOf(ip, process, T)') = Cardinality(DripsOf(ip, process, T)) + 1
          /\ Cardinality(PendingOf(ip, T)') = Cardinality(PendingOf(ip, T)) - 1
      BY <1>5, <1>6, <2>1, <2>2
    <3>2. QED
      BY <3>1, AddressCountsAreFinite DEF CountOf
  <2>3. CASE ~(ip = a /\ at \in T)
    <3>1. /\ DripsOf(ip, process, T)' = DripsOf(ip, process, T)
          /\ PendingOf(ip, T)' = PendingOf(ip, T)
      BY <1>5, <2>1, <2>3
    <3>2. QED
      BY <3>1 DEF CountOf
  <2>4. QED
    BY <2>2, <2>3
<1>8. Listed'
  BY <1>1 DEF Listed
<1>9. Remembered'
  <2>1. SUFFICES ASSUME NEW ip \in Ip, NEW lo \in Int, lo >= now - IpWindow
                 PROVE  CountOf(ip, After(day, lo))' <= Cardinality(Above(ipHits[ip], lo))
    BY <1>1 DEF Remembered
  <2>2. PICK T : T = After(day, lo)
    OBVIOUS
  <2>3. CountOf(ip, T)' <= Cardinality(Above(ipHits[ip], lo))
    BY <1>7, <2>1, <2>2 DEF Remembered
  <2>4. After(day, lo)' = T
    BY <1>1, <2>2 DEF After
  <2>5. QED
    BY <2>3, <2>4 DEF CountOf
<1>10. AddressesWithin'
  BY <1>7 DEF AddressesWithin
<1>11. EarlierWithin'
  <2>1. SUFFICES ASSUME NEW ip \in Ip, NEW p \in Nat, NEW d \in Nat, NEW t \in Nat
                 PROVE  Cardinality(DripsOf(ip, p, Window(d, t)))' <= MaxPerIp
    BY DEF EarlierWithin
  <2>2. PICK T : T = Window(d, t)
    OBVIOUS
  <2>3. CASE ip = a /\ p = process /\ at \in T
    <3>1. Cardinality(DripsOf(ip, p, T)') = Cardinality(DripsOf(ip, process, T)) + 1
      BY <1>4, <1>6, <2>3
    <3>2. Cardinality(PendingOf(ip, T)) >= 1
      BY <1>6, <2>3
    <3>3. CountOf(ip, T) <= MaxPerIp
      BY <2>2 DEF AddressesWithin
    <3>4. Cardinality(DripsOf(ip, p, T)') <= MaxPerIp
      BY <3>1, <3>2, <3>3, AddressCountsAreFinite, LimitNumbers DEF CountOf
    <3>5. QED
      BY <2>2, <3>4
  <2>4. CASE ~(ip = a /\ p = process /\ at \in T)
    <3>1. DripsOf(ip, p, T)' = DripsOf(ip, p, T)
      BY <1>4, <2>4
    <3>2. QED
      BY <2>2, <3>1 DEF EarlierWithin
  <2>5. QED
    BY <2>3, <2>4
<1>12. QED
  BY <1>8, <1>9, <1>10, <1>11

\* Reserving: the list of the address grows with what is reserved for it.
LEMMA ReserveKeepsAddresses ==
    ASSUME Inv, AddressInv, NEW r \in Request, Reserve(r)
    PROVE  AddressInv'
<1> USE DEF Inv, AddressInv
<1>0. PICK a, today, t0 : a = job[r].ip /\ today = DayOf(now) /\ t0 = now
  OBVIOUS
<1>1. /\ pc[r] = "decide"
      /\ a \in Ip
      /\ Len(Recent(a)) < MaxPerIp
      /\ day' = today
      /\ ipHits' = [RolledHits EXCEPT ![a] = Append(Recent(a), t0)]
      /\ UNCHANGED <<now, process, pool>>
  BY <1>0 DEF Reserve, Allowed, Holding, chainVars
<1>2. /\ t0 \in 0 .. MaxTime /\ t0 \in Nat /\ IpWindow \in Nat \ {0} /\ MaxPerIp \in Nat
      /\ MaxTime \in Nat /\ today \in Nat
  BY <1>0, LimitNumbers, RolledCovers DEF Typed
<1>3. ASSUME NEW ip, NEW p, NEW T PROVE DripsOf(ip, p, T)' = DripsOf(ip, p, T)
  BY <1>1 DEF DripsOf
<1>4. ASSUME NEW ip, NEW T
      PROVE  PendingOf(ip, T)' = IF ip = a /\ t0 \in T
                                 THEN PendingOf(ip, T) \cup {r} ELSE PendingOf(ip, T)
  <2>1. /\ pc'[r] = "prepare" /\ job'[r].at = t0 /\ job'[r].ip = a
        /\ \A q \in Request \ {r} : pc'[q] = pc[q] /\ job'[q] = job[q]
    BY <1>0, Jobs DEF Reserve, Goto, Typed, Job
  <2>2. QED
    BY <1>1, <2>1 DEF PendingOf
<1>5. ASSUME NEW ip, NEW T
      PROVE  /\ CountOf(ip, T) \in Nat
             /\ CountOf(ip, T)' = CountOf(ip, T) + (IF ip = a /\ t0 \in T THEN 1 ELSE 0)
  <2>1. /\ IsFiniteSet(PendingOf(ip, T))
        /\ Cardinality(PendingOf(ip, T)) \in Nat
        /\ Cardinality(DripsOf(ip, process, T)) \in Nat
    BY AddressCountsAreFinite
  <2>2. r \notin PendingOf(ip, T)
    BY <1>1 DEF PendingOf
  <2>3. Cardinality(PendingOf(ip, T) \cup {r}) = Cardinality(PendingOf(ip, T)) + 1
    BY <2>1, <2>2, FS_AddElement
  <2>4. Cardinality(DripsOf(ip, process, T))' = Cardinality(DripsOf(ip, process, T))
    BY <1>1, <1>3
  <2>5. Cardinality(PendingOf(ip, T))' =
          Cardinality(PendingOf(ip, T)) + (IF ip = a /\ t0 \in T THEN 1 ELSE 0)
    BY <1>4, <2>1, <2>3
  <2>6. QED
    BY <2>1, <2>4, <2>5 DEF CountOf
<1>6. /\ Recent(a) \in Seq(0 .. MaxTime) /\ Recent(a) \in Seq(Nat)
      /\ Sorted(Recent(a))
      /\ \A n \in DOMAIN Recent(a) : Recent(a)[n] <= t0
      /\ \A lo \in Int : lo >= t0 - IpWindow =>
           /\ CountOf(a, After(today, lo)) <= Cardinality(Above(Recent(a), lo))
           /\ CountOf(a, After(today, lo)) <= Len(Recent(a))
  <2>1. /\ Recent(a) \in Seq(0 .. MaxTime)
        /\ Sorted(Recent(a))
        /\ \A n \in DOMAIN Recent(a) : Recent(a)[n] <= t0
        /\ \A lo \in Int : lo >= t0 - IpWindow =>
             /\ CountOf(a, After(today, lo)) <= Cardinality(Above(Recent(a), lo))
             /\ CountOf(a, After(today, lo)) <= Len(Recent(a))
    BY <1>0, <1>1, RecentIsTheWindow
  <2>2. \A n \in DOMAIN Recent(a) : Recent(a)[n] \in 0 .. MaxTime
    BY <2>1, EntriesOf
  <2>3. \A n \in DOMAIN Recent(a) : Recent(a)[n] \in Nat
    BY <2>2
  <2>4. QED
    BY <2>1, <2>3, EntriesOf
<1>7. PICK longer : longer = Append(Recent(a), t0)
  OBVIOUS
<1>8. /\ longer \in Seq(0 .. MaxTime)
      /\ Sorted(longer)
      /\ \A n \in DOMAIN longer : longer[n] <= t0
      /\ \A lo \in Int : Cardinality(Above(longer, lo)) =
           Cardinality(Above(Recent(a), lo)) + (IF t0 > lo THEN 1 ELSE 0)
  <2>1. longer \in Seq(0 .. MaxTime)
    BY <1>2, <1>6, <1>7
  <2>2. QED
    BY <1>2, <1>6, <1>7, <2>1, AppendingTheLatest
<1>9. /\ ipHits' \in [Ip -> Seq(0 .. MaxTime)]
      /\ ipHits'[a] = longer
      /\ \A ip \in Ip \ {a} : ipHits'[ip] = RolledHits[ip]
      /\ \A ip \in Ip : Sorted(RolledHits[ip])
                        /\ \A n \in DOMAIN RolledHits[ip] : RolledHits[ip][n] <= t0
  BY <1>0, <1>1, <1>7, <1>8, RolledLists
<1>10. Listed'
  <2>1. now' = t0
    BY <1>0, <1>1
  <2>2. ASSUME NEW ip \in Ip
        PROVE  Sorted(ipHits'[ip]) /\ \A n \in DOMAIN ipHits'[ip] : ipHits'[ip][n] <= now'
    <3>1. CASE ip = a
      BY <1>8, <1>9, <2>1, <3>1
    <3>2. CASE ip # a
      BY <1>9, <2>1, <3>2
    <3>3. QED
      BY <3>1, <3>2
  <2>3. QED
    BY <1>9, <2>2 DEF Listed, Sorted
<1>11. Remembered'
  <2>1. SUFFICES ASSUME NEW ip \in Ip, NEW lo \in Int, lo >= t0 - IpWindow
                 PROVE  CountOf(ip, After(day, lo))' <= Cardinality(Above(ipHits'[ip], lo))
    BY <1>0, <1>1 DEF Remembered, Above
  <2>2. PICK T : T = After(today, lo)
    OBVIOUS
  <2>3. t0 \in T <=> t0 > lo
    BY <1>0, <1>2, <2>2 DEF After
  <2>4. CASE ip = a
    <3>1. /\ CountOf(a, T) <= Cardinality(Above(Recent(a), lo))
          /\ CountOf(a, T) \in Nat
          /\ CountOf(a, T)' = CountOf(a, T) + (IF t0 > lo THEN 1 ELSE 0)
      BY <1>5, <1>6, <2>1, <2>2, <2>3
    <3>2. /\ Cardinality(Above(Recent(a), lo)) \in Nat
          /\ Cardinality(Above(longer, lo)) =
               Cardinality(Above(Recent(a), lo)) + (IF t0 > lo THEN 1 ELSE 0)
      <4>1. Cardinality(Above(Recent(a), lo)) \in 0 .. Len(Recent(a))
        BY <1>6, AboveIsTheEnd
      <4>2. QED
        BY <1>8, <4>1
    <3>3. CountOf(ip, T)' <= Cardinality(Above(ipHits'[ip], lo))
      BY <1>9, <2>4, <3>1, <3>2
    <3>4. QED
      BY <1>1, <2>2, <3>3
  <2>5. CASE ip # a
    <3>1. CountOf(ip, T)' = CountOf(ip, T)
      BY <1>5, <2>5
    <3>2. CountOf(ip, T) <= Cardinality(Above(RolledHits[ip], lo))
      BY <1>0, <2>1, <2>2, RolledLists
    <3>3. CountOf(ip, T)' <= Cardinality(Above(ipHits'[ip], lo))
      BY <1>9, <2>5, <3>1, <3>2
    <3>4. QED
      BY <1>1, <2>2, <3>3
  <2>6. QED
    BY <2>4, <2>5
<1>12. AddressesWithin'
  <2>1. SUFFICES ASSUME NEW ip \in Ip, NEW d \in Nat, NEW t \in Nat
                 PROVE  CountOf(ip, Window(d, t))' <= MaxPerIp
    BY DEF AddressesWithin
  <2>2. PICK T : T = Window(d, t)
    OBVIOUS
  <2>3. CountOf(ip, T) <= MaxPerIp /\ CountOf(ip, T) \in Nat
    BY <1>5, <2>2 DEF AddressesWithin
  \* The window holds the present time: what is in it is in the list.
  <2>4. CASE ip = a /\ t0 \in T
    <3>1. d = today /\ t <= t0 /\ t0 <= t + IpWindow - 1
      BY <1>0, <1>2, <2>2, <2>4 DEF Window
    <3>2. t - 1 \in Int /\ t - 1 >= t0 - IpWindow
      BY <1>2, <3>1
    <3>3. T \subseteq After(today, t - 1)
      BY <1>2, <2>2, <3>1 DEF Window, After
    <3>4. CountOf(a, T) <= CountOf(a, After(today, t - 1))
      BY <3>3, FewerTimes
    <3>5. CountOf(a, After(today, t - 1)) <= Len(Recent(a))
      BY <1>6, <3>2
    <3>6. /\ Len(Recent(a)) \in Nat /\ CountOf(a, After(today, t - 1)) \in Nat
          /\ CountOf(a, T) \in Nat
      BY <1>5, <1>6
    <3>7. CountOf(a, T) + 1 <= MaxPerIp
      BY <1>1, <1>2, <3>4, <3>5, <3>6
    <3>8. QED
      BY <1>5, <2>2, <2>4, <3>7
  <2>5. CASE ~(ip = a /\ t0 \in T)
    <3>1. CountOf(ip, T)' = CountOf(ip, T)
      BY <1>5, <2>3, <2>5
    <3>2. QED
      BY <2>2, <2>3, <3>1
  <2>6. QED
    BY <2>4, <2>5
<1>13. EarlierWithin'
  BY <1>3 DEF EarlierWithin
<1>14. QED
  BY <1>10, <1>11, <1>12, <1>13

\* A new process has reserved nothing yet.
LEMMA RestartKeepsAddresses ==
    ASSUME Inv, AddressInv, Restart
    PROVE  AddressInv'
<1> USE DEF Inv, AddressInv
<1>1. /\ process' = process + 1 /\ pool' = pool /\ now' = now
      /\ ipHits' = [i \in Ip |-> <<>>]
      /\ \A r \in Request : pc'[r] = "idle"
  BY DEF Restart, chainVars
<1>2. ASSUME NEW ip, NEW p, NEW T PROVE DripsOf(ip, p, T)' = DripsOf(ip, p, T)
  BY <1>1 DEF DripsOf
<1>3. ASSUME NEW ip, NEW T PROVE CountOf(ip, T)' = 0
  <2>1. PendingOf(ip, T)' = {}
    BY <1>1 DEF PendingOf
  <2>2. \A i \in DOMAIN pool : pool[i].process # process + 1
    <3>1. \A i \in DOMAIN pool : pool[i] \in RelayerTx
      BY DEF Typed
    <3>2. \A i \in DOMAIN pool : pool[i].process <= process /\ pool[i].process \in Nat
      BY <3>1, FaucetAssumption DEF Ordered, RelayerTx
    <3>3. QED
      BY <3>2 DEF Typed
  <2>3. DripsOf(ip, process, T)' = {}
    BY <1>1, <2>2 DEF DripsOf
  <2>4. QED
    BY <2>1, <2>3, FS_EmptySet DEF CountOf
<1>4. Listed'
  BY <1>1 DEF Listed, Sorted
<1>5. Remembered'
  <2>1. SUFFICES ASSUME NEW ip \in Ip, NEW lo \in Int
                 PROVE  CountOf(ip, After(day, lo))' <= Cardinality(Above(ipHits'[ip], lo))
    BY DEF Remembered, Above
  <2>2. Above(ipHits'[ip], lo) = {}
    BY <1>1 DEF Above
  <2>3. PICK T : T = After(day', lo)
    OBVIOUS
  <2>4. CountOf(ip, T)' = 0 /\ Cardinality(Above(ipHits'[ip], lo)) = 0
    BY <1>3, <2>2, FS_EmptySet
  <2>5. QED
    BY <2>3, <2>4
<1>6. AddressesWithin'
  <2>1. SUFFICES ASSUME NEW ip \in Ip, NEW d \in Nat, NEW t \in Nat
                 PROVE  CountOf(ip, Window(d, t))' <= MaxPerIp
    BY DEF AddressesWithin
  <2>2. CountOf(ip, Window(d, t))' = 0
    BY <1>3
  <2>3. QED
    BY <2>2, LimitNumbers
<1>7. EarlierWithin'
  BY <1>2 DEF EarlierWithin
<1>8. QED
  BY <1>4, <1>5, <1>6, <1>7

LEMMA AddressNext ==
    ASSUME Inv, AddressInv, [Next]_vars
    PROVE  AddressInv'
<1> USE DEF Inv
<1>0. now \in Nat
  BY DEF Typed
\* Steps that neither reserve nor send a drip nor roll the day.
<1>1. ASSUME UNCHANGED <<day, ipHits, process>>, now' \in {now, now + 1},
             \A ip, p, T : DripsOf(ip, p, T)' = DripsOf(ip, p, T),
             \A q \in Request : pc'[q] \in {"prepare", "broadcast"} =>
                 /\ pc[q] \in {"prepare", "broadcast"}
                 /\ job'[q].at = job[q].at /\ job'[q].ip = job[q].ip
      PROVE  AddressInv'
  <2>1. \A ip, T : PendingOf(ip, T)' \subseteq PendingOf(ip, T)
    BY <1>1 DEF PendingOf
  <2>2. now' \in Nat /\ now <= now'
    BY <1>0, <1>1
  <2>3. QED
    BY <1>1, <2>1, <2>2, NothingAdded
<1>2. ASSUME pool' = pool PROVE \A ip, p, T : DripsOf(ip, p, T)' = DripsOf(ip, p, T)
  BY <1>2 DEF DripsOf
<1>3. ASSUME NEW r \in Request, NEW w \in Wallet, NEW ip \in Ip, Post(r, w, ip) PROVE AddressInv'
  BY <1>1, <1>2, <1>3 DEF Post, Goto, Typed, chainVars, limitVars
<1>4. ASSUME NEW r \in Request, BalanceRead(r) PROVE AddressInv'
  BY <1>1, <1>2, <1>4 DEF BalanceRead, Goto, Typed, chainVars, limitVars
<1>5. ASSUME NEW r \in Request, Skip(r) \/ NonceTaken(r) \/ Fail(r) \/ Receipt(r) PROVE AddressInv'
  BY <1>1, <1>2, <1>5 DEF Skip, NonceTaken, Fail, Receipt, ReplyOther, ReplySent, Goto, Typed,
                          chainVars, limitVars
<1>6. ASSUME NEW r \in Request, NonceRead(r) PROVE AddressInv'
  <2>1. job'[r].at = job[r].at /\ job'[r].ip = job[r].ip
    BY <1>6, Jobs DEF NonceRead, Typed, Job
  <2>2. QED
    BY <1>1, <1>2, <1>6, <2>1 DEF NonceRead, Goto, Typed, chainVars, limitVars
<1>7. ASSUME NEW r \in Request, Refuse(r) PROVE AddressInv'
  <2>1. /\ day' = DayOf(now) /\ ipHits' = RolledHits
        /\ UNCHANGED <<now, process, pool>>
        /\ pc' = [pc EXCEPT ![r] = "idle"]
        /\ job' = [job EXCEPT ![r] = NoJob]
    BY <1>7 DEF Refuse, ReplyOther, Goto, chainVars
  <2>2. \A ip, T : PendingOf(ip, T)' \subseteq PendingOf(ip, T)
    BY <2>1 DEF PendingOf, Typed
  <2>3. QED
    BY <1>0, <1>2, <2>1, <2>2, NothingAdded
<1>8. ASSUME NEW r \in Request, Reserve(r) PROVE AddressInv'
  BY <1>8, ReserveKeepsAddresses
<1>9. ASSUME NEW r \in Request, Broadcast(r) PROVE AddressInv'
  BY <1>9, BroadcastKeepsAddresses
<1>10. CASE Tick \/ Mine \/ \E w \in Wallet : Spend(w)
  BY <1>1, <1>2, <1>10 DEF Tick, Mine, Spend, chainVars, limitVars
\* An anchoring transaction is no drip.
<1>11. ASSUME AnchorReport PROVE AddressInv'
  <2>1. pool \in Seq(RelayerTx) /\ Anchor \in RelayerTx /\ Anchor.to \notin Wallet
    BY FaucetAssumption DEF Typed, Anchor, RelayerTx
  <2>2. /\ pool' = Append(pool, Anchor)
        /\ UNCHANGED <<now, limitVars, process, pc, job>>
    BY <1>11 DEF AnchorReport
  <2>3. /\ DOMAIN pool' = DOMAIN pool \cup {Len(pool) + 1}
        /\ pool'[Len(pool) + 1] = Anchor
        /\ \A j \in DOMAIN pool : pool'[j] = pool[j]
    BY <2>1, <2>2, Appended
  <2>4. \A ip, p, T : DripsOf(ip, p, T)' = DripsOf(ip, p, T)
    BY <2>1, <2>3 DEF DripsOf
  <2>5. QED
    BY <1>1, <2>2, <2>4 DEF limitVars
<1>12. CASE Restart
  BY <1>12, RestartKeepsAddresses
<1>13. CASE UNCHANGED vars
  BY <1>1, <1>2, <1>13 DEF vars
<1>14. QED
  BY <1>3, <1>4, <1>5, <1>6, <1>7, <1>8, <1>9, <1>10, <1>11, <1>12, <1>13 DEF Next, Handle

LEMMA AddressInit == Init => AddressInv
<1> SUFFICES ASSUME Init PROVE AddressInv
  OBVIOUS
<1>1. Listed
  BY DEF Init, Listed, Sorted
<1>2. ASSUME NEW ip, NEW p, NEW T PROVE DripsOf(ip, p, T) = {} /\ PendingOf(ip, T) = {}
  BY DEF Init, DripsOf, PendingOf
<1>3. ASSUME NEW ip, NEW p, NEW T
      PROVE  Cardinality(DripsOf(ip, p, T)) = 0 /\ CountOf(ip, T) = 0
  BY <1>2, FS_EmptySet DEF CountOf
<1>4. Remembered
  <2>1. SUFFICES ASSUME NEW ip \in Ip, NEW lo \in Int
                 PROVE  CountOf(ip, After(day, lo)) <= Cardinality(Above(ipHits[ip], lo))
    BY DEF Remembered
  <2>2. Above(ipHits[ip], lo) = {}
    BY DEF Init, Above
  <2>3. QED
    BY <1>3, <2>2, FS_EmptySet
<1>5. AddressesWithin /\ EarlierWithin
  BY <1>3, LimitNumbers DEF AddressesWithin, EarlierWithin
<1>6. QED
  BY <1>1, <1>4, <1>5 DEF AddressInv

LEMMA AddressAlways == Spec => [](Inv /\ AddressInv)
<1>1. QED
  BY InvInit, InvStep, AddressInit, AddressNext, PTL DEF Spec

--------------------------------------------------------------------------------
(* The theorems about types and addresses. *)

\* Every variable has its type, the lists of checkFaucetLimit included.
THEOREM TypeCorrect == Spec => []TypeOK
<1>1. Inv /\ AddressInv => TypeOK
  <2>1. SUFFICES ASSUME Inv, AddressInv PROVE day \in -1 .. DayOf(MaxTime)
    BY DEF Inv, AddressInv, Typed, Listed, TypeOK
  <2>2. /\ day \in Nat \cup {-1} /\ day <= DayOf(now)
        /\ now \in Nat /\ MaxTime \in Nat /\ now <= MaxTime
    <3>1. now \in 0 .. MaxTime /\ MaxTime \in Nat
      BY <2>1, LimitNumbers DEF Inv, Typed
    <3>2. day \in Nat \cup {-1} /\ day <= DayOf(now)
      BY <2>1 DEF Inv, Typed, Ordered
    <3>3. QED
      BY <3>1, <3>2
  <2>3. DayOf(now) \in Nat /\ DayOf(MaxTime) \in Nat /\ DayOf(now) <= DayOf(MaxTime)
    BY <2>2, DaysAreOrdered
  <2>4. QED
    BY <2>2, <2>3
<1>2. QED
  BY <1>1, AddressAlways, PTL

\* The limit of an address: whatever is sent late, fails or overlaps, one process
\* reserves at most MaxPerIp drips for it inside a window of a day.
THEOREM AddressLimitHolds == Spec => []WithinAddressLimit
<1>1. AddressInv => WithinAddressLimit
  <2>1. SUFFICES ASSUME AddressInv, NEW ip \in Ip, NEW p \in 0 .. MaxRestarts,
                        NEW d \in 0 .. DayOf(MaxTime), NEW t \in 0 .. MaxTime
                 PROVE  Cardinality(DripsOf(ip, p, Window(d, t))) <= MaxPerIp
    BY DEF WithinAddressLimit
  <2>2. p \in Nat /\ d \in Nat /\ t \in Nat
    BY FaucetAssumption, DaysAreOrdered
  <2>3. QED
    BY <2>1, <2>2 DEF AddressInv, EarlierWithin
<1>2. QED
  BY <1>1, AddressAlways, PTL

--------------------------------------------------------------------------------
(* The faucet implements Fund. *)

\* A handler that has not sent its drip awaits no transaction.
NotYet ==
    \A r \in Request :
        pc[r] \in {"balance", "decide", "prepare", "broadcast"} => job[r].tx = 0

LEMMA NotYetNext ==
    ASSUME Typed, NotYet, [Next]_vars
    PROVE  NotYet'
<1>1. \A r \in Request : job[r] \in Job
  BY Jobs
<1>2. ASSUME NEW r \in Request, NEW w \in Wallet, NEW ip \in Ip, Post(r, w, ip)
      PROVE  NotYet'
  BY <1>2 DEF Post, Goto, Typed, NotYet, NoJob, NoTx
<1>3. ASSUME NEW r \in Request, BalanceRead(r) \/ Reserve(r) \/ NonceRead(r)
      PROVE  NotYet'
  <2>1. /\ pc[r] \in {"balance", "decide", "prepare"}
        /\ job'[r].tx = job[r].tx
        /\ \A q \in Request \ {r} : pc'[q] = pc[q] /\ job'[q] = job[q]
    <3>1. CASE BalanceRead(r)
      BY <1>1, <3>1 DEF BalanceRead, Goto, Typed, Job
    <3>2. CASE Reserve(r)
      BY <1>1, <3>2 DEF Reserve, Goto, Typed, Job
    <3>3. CASE NonceRead(r)
      BY <1>1, <3>3 DEF NonceRead, Goto, Typed, Job
    <3>4. QED
      BY <1>3, <3>1, <3>2, <3>3
  <2>2. QED
    BY <2>1 DEF NotYet
<1>4. ASSUME NEW r \in Request,
             Skip(r) \/ Refuse(r) \/ NonceTaken(r) \/ Receipt(r) \/ Fail(r)
      PROVE  NotYet'
  BY <1>4 DEF Skip, Refuse, NonceTaken, Receipt, Fail, ReplyOther, ReplySent, Goto, Typed, NotYet
<1>5. ASSUME NEW r \in Request, Broadcast(r) PROVE NotYet'
  <2>1. /\ pc'[r] = "receipt"
        /\ \A q \in Request \ {r} : pc'[q] = pc[q] /\ job'[q] = job[q]
    BY <1>5 DEF Broadcast, Goto, Typed
  <2>2. QED
    BY <2>1 DEF NotYet
<1>6. CASE Tick \/ Mine \/ (\E w \in Wallet : Spend(w)) \/ AnchorReport \/ UNCHANGED vars
  BY <1>6 DEF Tick, Mine, Spend, AnchorReport, NotYet, vars
<1>7. CASE Restart
  BY <1>7 DEF Restart, NotYet
<1>8. QED
  BY <1>2, <1>3, <1>4, <1>5, <1>6, <1>7 DEF Next, Handle

\* A drip is charged to an address.
Charged == \A i \in DOMAIN pool : pool[i].to \in Wallet => pool[i].ip \in Ip

LEMMA ChargedNext ==
    ASSUME Typed, Holding, Charged, [Next]_vars
    PROVE  Charged'
<1>1. pool \in Seq(RelayerTx)
  BY DEF Typed
<1>2. ASSUME NEW r \in Request, Broadcast(r) PROVE Charged'
  <2> DEFINE tx == [to |-> job[r].to, ip |-> job[r].ip, at |-> job[r].at, process |-> process]
  <2>1. job[r].to \in Wallet /\ job[r].ip \in Ip
    BY <1>2 DEF Broadcast, Holding
  <2>2. tx \in RelayerTx
    BY <2>1 DEF Typed, Job, RelayerTx
  <2>3. pool' = Append(pool, tx)
    BY <1>2 DEF Broadcast
  <2>4. /\ DOMAIN pool' = DOMAIN pool \cup {Len(pool) + 1}
        /\ pool'[Len(pool) + 1] = tx
        /\ \A j \in DOMAIN pool : pool'[j] = pool[j]
    BY <1>1, <2>2, <2>3, Appended
  <2>5. QED
    BY <2>1, <2>4 DEF Charged
<1>3. CASE AnchorReport
  <2>1. Anchor \in RelayerTx /\ Anchor.to \notin Wallet
    BY FaucetAssumption DEF Anchor, RelayerTx
  <2>2. /\ DOMAIN pool' = DOMAIN pool \cup {Len(pool) + 1}
        /\ pool'[Len(pool) + 1] = Anchor
        /\ \A j \in DOMAIN pool : pool'[j] = pool[j]
    BY <1>1, <1>3, <2>1, Appended DEF AnchorReport
  <2>3. QED
    BY <2>1, <2>2 DEF Charged
<1>4. CASE UNCHANGED pool
  BY <1>4 DEF Charged
<1>5. QED
  BY <1>2, <1>3, <1>4
     DEF Next, Handle, Post, BalanceRead, Skip, Refuse, Reserve, NonceRead, NonceTaken, Receipt,
         Fail, Tick, Mine, Spend, Restart, chainVars, vars

\* Cardinality as Fund reads it.
LEMMA SameCount ==
    ASSUME NEW S
    PROVE  Funded!Cardinality(S) = Cardinality(S)
  BY DEF Funded!Cardinality, Cardinality

\* What both limits say of the account is what Fund asks of the drips given.
LEMMA GivenWithinLimits == Inv /\ AddressInv /\ Charged => Funded!WithinLimits(Given)
<1> SUFFICES ASSUME Inv, AddressInv, Charged PROVE Funded!WithinLimits(Given)
  OBVIOUS
<1>1. pool \in Seq(RelayerTx)
  BY DEF Inv, Typed
<1>2. \A m \in DOMAIN Given : m \in DOMAIN pool /\ pool[m].to \in Wallet /\ Given[m] = pool[m]
  BY DEF Given
<1>3. \A m \in DOMAIN pool : pool[m].to \in Wallet => m \in DOMAIN Given
  BY DEF Given
<1>4. ASSUME NEW n \in DOMAIN Given
      PROVE  /\ Drip * Cardinality({m \in DOMAIN Given : Funded!SameDay(Given[m], Given[n])})
                  <= DailyBudget
             /\ Cardinality({m \in {k \in DOMAIN Given : Funded!SameDay(Given[k], Given[n])} :
                               /\ Given[m].ip = Given[n].ip
                               /\ Given[m].at \in Given[n].at .. Given[n].at + IpWindow - 1})
                  <= MaxPerIp
  <2> DEFINE p == pool[n].process
             d == DayOf(pool[n].at)
             t == pool[n].at
             ip == pool[n].ip
  <2>1. /\ pool[n] \in RelayerTx
        /\ Given[n] = pool[n]
    BY <1>1, <1>2
  <2>2. p \in Nat /\ t \in Nat /\ d \in Nat
    BY <2>1, FaucetAssumption, DaysAreOrdered DEF RelayerTx
  <2>3. {m \in DOMAIN Given : Funded!SameDay(Given[m], Given[n])} = Drips(d, p)
    BY <1>2, <1>3, <2>1 DEF Drips, Funded!SameDay, DayOf
  <2>4. Drip * Cardinality(Drips(d, p)) <= DailyBudget
    BY <2>2 DEF Inv, ProcessesWithin
  <2>5. {m \in {k \in DOMAIN Given : Funded!SameDay(Given[k], Given[n])} :
           Given[m].ip = Given[n].ip /\ Given[m].at \in Given[n].at .. Given[n].at + IpWindow - 1}
          = DripsOf(ip, p, Window(d, t))
    BY <1>2, <1>3, <2>1, <2>3 DEF Drips, DripsOf, Window
  <2>6. ip \in Ip
    BY <1>2 DEF Charged
  <2>7. Cardinality(DripsOf(ip, p, Window(d, t))) <= MaxPerIp
    BY <2>2, <2>6 DEF AddressInv, EarlierWithin
  <2>8. QED
    BY <2>3, <2>4, <2>5, <2>7
<1>5. QED
  BY <1>4, SameCount DEF Funded!WithinLimits

\* Sending a drip is giving it.
LEMMA BroadcastGives ==
    ASSUME Inv, NotYet, Funded!WithinLimits(Given'), NEW r \in Request, Broadcast(r)
    PROVE  Funded!Give(r, Len(pool) + 1, job[r].at)
<1> DEFINE n == Len(pool) + 1
           tx == [to |-> job[r].to, ip |-> job[r].ip, at |-> job[r].at, process |-> process]
<1>1. /\ pool \in Seq(RelayerTx) /\ Len(pool) \in Nat
      /\ job \in [Request -> Job] /\ mined \in 0 .. Len(pool)
      /\ job[r].to \in Wallet /\ job[r].tx = 0
  BY DEF Inv, Typed, Holding, NotYet, Broadcast
<1>2. tx \in RelayerTx
  BY DEF Inv, Typed, Holding, Broadcast, Job, RelayerTx
<1>3. /\ DOMAIN pool' = DOMAIN pool \cup {n}
      /\ n \notin DOMAIN pool
      /\ pool'[n] = tx
      /\ \A j \in DOMAIN pool : pool'[j] = pool[j]
  BY <1>1, <1>2, Appended DEF Broadcast
<1>4. /\ \A q \in Request \ {r} : job'[q] = job[q]
      /\ job'[r].to = job[r].to /\ job'[r].ip = job[r].ip /\ job'[r].tx = n
  BY <1>1 DEF Broadcast, Job
<1>5. DOMAIN Given' = DOMAIN Given \cup {n} /\ n \notin DOMAIN Given
  BY <1>1, <1>3 DEF Given
<1>6. Given' = [m \in DOMAIN Given \cup {n} |-> IF m = n THEN tx ELSE Given[m]]
  BY <1>3, <1>5 DEF Given
<1>7. Asked' = [Asked EXCEPT ![r].got = n]
  BY <1>4 DEF Asked
<1>8. {i \in DOMAIN Given : i <= mined}' = {i \in DOMAIN Given : i <= mined}
  <2>1. ~(n <= mined) /\ mined' = mined
    BY <1>1 DEF Broadcast
  <2>2. QED
    BY <1>5, <2>1
<1>9. /\ Asked[r].to = job[r].to /\ Asked[r].ip = job[r].ip /\ Asked[r].got = job[r].tx
      /\ sent' = sent /\ process' = process
  BY DEF Asked, Broadcast
<1>10. QED
  BY <1>1, <1>5, <1>6, <1>7, <1>8, <1>9 DEF Funded!Give

\* The steps of the chain and of the account's other user.
LEMMA ChainKeepsFund ==
    ASSUME Inv, Mine \/ AnchorReport
    PROVE  (\E n \in DOMAIN Given : Funded!Settle(n)) \/ UNCHANGED Funded!vars
<1>1. pool \in Seq(RelayerTx) /\ mined \in 0 .. Len(pool) /\ Len(pool) \in Nat
  BY DEF Inv, Typed
<1>2. CASE AnchorReport
  <2>1. Anchor \in RelayerTx /\ Anchor.to \notin Wallet
    BY FaucetAssumption DEF Anchor, RelayerTx
  <2>2. /\ DOMAIN pool' = DOMAIN pool \cup {Len(pool) + 1}
        /\ pool'[Len(pool) + 1] = Anchor
        /\ \A j \in DOMAIN pool : pool'[j] = pool[j]
    BY <1>1, <1>2, <2>1, Appended DEF AnchorReport
  <2>3. DOMAIN Given' = DOMAIN Given
    BY <2>1, <2>2 DEF Given
  <2>4. Given' = Given
    BY <2>2, <2>3 DEF Given
  <2>5. QED
    BY <1>2, <2>4 DEF AnchorReport, Funded!vars, Asked
<1>3. CASE Mine
  <2>1. UNCHANGED <<Given, Asked, sent, process>> /\ mined' = mined + 1
    BY <1>3 DEF Mine, Given, Asked
  <2>2. CASE mined + 1 \in DOMAIN Given
    <3>1. {i \in DOMAIN Given : i <= mined}'
            = {i \in DOMAIN Given : i <= mined} \cup {mined + 1}
      <4>1. \A i \in DOMAIN Given : i \in Nat
        BY <1>1 DEF Given
      <4>2. QED
        BY <1>1, <2>1, <2>2, <4>1
    <3>2. QED
      BY <1>3, <2>1, <2>2, <3>1 DEF Funded!Settle
  <2>3. CASE mined + 1 \notin DOMAIN Given
    <3>1. {i \in DOMAIN Given : i <= mined}' = {i \in DOMAIN Given : i <= mined}
      <4>1. \A i \in DOMAIN Given : i \in Nat
        BY <1>1 DEF Given
      <4>2. QED
        BY <1>1, <2>1, <2>3, <4>1
    <3>2. QED
      BY <2>1, <3>1 DEF Funded!vars
  <2>4. QED
    BY <2>2, <2>3
<1>4. QED
  BY <1>2, <1>3

\* Every step of handlers, limits, chain and clock is a step of Fund, or none.
LEMMA StepKeepsFund ==
    ASSUME Inv, NotYet, Funded!WithinLimits(Given'), [Next]_vars
    PROVE  [Funded!Next]_(Funded!vars)
<1>1. /\ job \in [Request -> Job] /\ pc \in [Request -> Step]
      /\ pool \in Seq(RelayerTx) /\ mined \in 0 .. Len(pool)
      /\ process \in 0 .. MaxRestarts /\ sent \in SUBSET Request
  BY DEF Inv, Typed
<1>2. ASSUME UNCHANGED <<pool, mined>>
      PROVE  UNCHANGED <<Given, {i \in DOMAIN Given : i <= mined}>>
  BY <1>2 DEF Given
<1>3. ASSUME UNCHANGED <<process, pool, mined, sent>>,
             \A q \in Request : /\ job'[q].to = job[q].to /\ job'[q].ip = job[q].ip
                                /\ job'[q].tx = job[q].tx
      PROVE  UNCHANGED Funded!vars
  BY <1>2, <1>3 DEF Asked, Funded!vars
<1>4. ASSUME NEW r \in Request, NEW w \in Wallet, NEW ip \in Ip, Post(r, w, ip)
      PROVE  Funded!Next
  <2>1. Asked' = [Asked EXCEPT ![r] = [to |-> w, ip |-> ip, got |-> 0]]
    BY <1>1, <1>4 DEF Post, Asked, NoJob, NoTx
  <2>2. Funded!Ask(r, w, ip)
    BY <1>2, <1>4, <2>1 DEF Post, chainVars, Funded!Ask
  <2>3. QED
    BY <2>2 DEF Funded!Next
<1>5. ASSUME NEW r \in Request, BalanceRead(r) \/ Reserve(r) \/ NonceRead(r)
      PROVE  UNCHANGED Funded!vars
  <2>1. UNCHANGED <<process, pool, mined, sent>>
    BY <1>5 DEF BalanceRead, Reserve, NonceRead, chainVars
  <2>2. ASSUME NEW q \in Request
        PROVE  job'[q].to = job[q].to /\ job'[q].ip = job[q].ip /\ job'[q].tx = job[q].tx
    <3>1. CASE BalanceRead(r)
      BY <1>1, <3>1 DEF BalanceRead, Job
    <3>2. CASE Reserve(r)
      BY <1>1, <3>2 DEF Reserve, Job
    <3>3. CASE NonceRead(r)
      BY <1>1, <3>3 DEF NonceRead, Job
    <3>4. QED
      BY <1>5, <3>1, <3>2, <3>3
  <2>3. QED
    BY <1>3, <2>1, <2>2
<1>6. ASSUME NEW r \in Request, Skip(r) \/ Refuse(r) \/ NonceTaken(r) \/ Fail(r)
      PROVE  Funded!Next
  <2>1. /\ job' = [job EXCEPT ![r] = NoJob] /\ UNCHANGED <<process, pool, mined, sent>>
        /\ pc[r] # "idle"
    BY <1>6 DEF Skip, Refuse, NonceTaken, Fail, ReplyOther, chainVars
  <2>2. sent' = sent \ {r}
    BY <2>1 DEF Inv, Awaiting
  <2>3. Asked' = [q \in Request |-> IF q \in {r} THEN Funded!NoAsk ELSE Asked[q]]
    BY <1>1, <2>1 DEF Asked, NoJob, NoTx, Funded!NoAsk
  <2>4. Funded!Drop({r})
    BY <1>2, <2>1, <2>2, <2>3 DEF Funded!Drop
  <2>5. QED
    BY <2>4 DEF Funded!Next
<1>7. ASSUME NEW r \in Request, Broadcast(r) PROVE Funded!Next
  <2>1. Len(pool) + 1 \in 1 .. MaxTxs /\ job[r].at \in 0 .. MaxTime
    <3>1. Len(pool) < MaxTxs
      BY <1>7 DEF Broadcast
    <3>2. MaxTxs \in Nat /\ Len(pool) \in Nat
      BY <1>1, Jobs DEF Inv
    <3>3. job[r].at \in 0 .. MaxTime
      BY <1>1 DEF Job
    <3>4. QED
      BY <3>1, <3>2, <3>3
  <2>2. QED
    BY <1>1, <1>7, <2>1, BroadcastGives DEF Funded!Next
<1>8. ASSUME NEW r \in Request, Receipt(r) PROVE Funded!Next
  <2>1. job[r].tx \in DOMAIN Given /\ job[r].tx <= mined
    BY <1>8 DEF Receipt, Inv, Awaiting, Holding, Given
  <2>2. UNCHANGED <<process, pool, mined, job>> /\ sent' = sent \cup {r}
    BY <1>8 DEF Receipt, ReplySent, chainVars
  <2>3. UNCHANGED Asked /\ Asked[r].got = job[r].tx
    BY <2>2 DEF Asked
  <2>4. Funded!Tell(r)
    BY <1>2, <2>1, <2>2, <2>3 DEF Funded!Tell
  <2>5. QED
    BY <2>4 DEF Funded!Next
<1>9. ASSUME Tick \/ (\E w \in Wallet : Spend(w)) \/ UNCHANGED vars
      PROVE  UNCHANGED Funded!vars
  BY <1>3, <1>9 DEF Tick, Spend, chainVars, vars
<1>10. ASSUME Mine \/ AnchorReport PROVE Funded!Next \/ UNCHANGED Funded!vars
  BY <1>10, ChainKeepsFund DEF Funded!Next
<1>11. ASSUME Restart PROVE Funded!Next
  <2>1. /\ job' = [q \in Request |-> NoJob] /\ sent' = {} /\ UNCHANGED <<pool, mined>>
        /\ process' = process + 1
    BY <1>11 DEF Restart, chainVars
  <2>2. Asked' = [q \in Request |-> Funded!NoAsk]
    BY <2>1 DEF Asked, NoJob, NoTx, Funded!NoAsk
  <2>3. Funded!Forget
    BY <1>2, <2>1, <2>2 DEF Funded!Forget
  <2>4. QED
    BY <2>3 DEF Funded!Next
<1>12. QED
  BY <1>4, <1>5, <1>6, <1>7, <1>8, <1>9, <1>10, <1>11 DEF Next, Handle

\* The faucet keeps its promise: a request gets one drip at most, at the wallet and for
\* the address it was made with, between two restarts no day and no window of an address
\* gets more than its share, nothing but a restart makes it forget, no drip is taken
\* back, and "sent" is said of one that is in a block.
THEOREM FaucetKeepsItsPromise == Spec => ImplementsFund
<1>1. Init => Funded!Init
  <2>1. SUFFICES ASSUME Init PROVE Funded!Init
    OBVIOUS
  <2>2. DOMAIN Given = {}
    BY <2>1 DEF Init, Given
  <2>3. Given = [n \in {} |-> Funded!NoAsk]
    BY <2>2 DEF Given
  <2>4. Asked = [r \in Request |-> Funded!NoAsk]
    BY <2>1 DEF Init, Asked, NoJob, NoTx, Funded!NoAsk
  <2>5. QED
    BY <2>1, <2>2, <2>3, <2>4 DEF Init, Funded!Init
<1>2. Init => NotYet /\ Charged
  BY DEF Init, NotYet, Charged
<1>3. Inv /\ NotYet /\ Charged /\ [Next]_vars => NotYet' /\ Charged'
  BY NotYetNext, ChargedNext DEF Inv
<1>4. (Inv /\ AddressInv /\ Charged)' => Funded!WithinLimits(Given)'
  BY GivenWithinLimits, PTL
<1>5. Inv /\ NotYet /\ (Inv /\ AddressInv /\ Charged)' /\ [Next]_vars
        => [Funded!Next]_(Funded!vars)
  BY <1>4, StepKeepsFund
<1>6. QED
  BY <1>1, <1>2, <1>3, <1>5, AddressAlways, PTL DEF Spec, ImplementsFund, Funded!Spec

================================================================================
