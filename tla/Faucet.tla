--------------------------------- MODULE Faucet ---------------------------------
(******************************************************************************)
(* The gas faucet of the backend (faucet.ts) and the relayer account it pays  *)
(* from (relayer.ts).                                                         *)
(*                                                                            *)
(* Each request to POST /faucet/drip runs the handler, which gives up control *)
(* at every await: while it waits for a balance, for the node to take its     *)
(* transaction, or for the receipt, other requests run and the chain moves.   *)
(* The limits live in the memory of the process and are lost when it          *)
(* restarts; transactions the node has taken are not.                         *)
(******************************************************************************)
EXTENDS Integers, Sequences, FiniteSets

CONSTANTS
    Request,       \* concurrent requests the process can be serving
    Wallet,        \* citizens' wallets
    Ip,            \* req.ip values
    Drip,          \* DRIP_AMOUNT
    Threshold,     \* DRIP_THRESHOLD
    DailyBudget,   \* cfg.dailyBudget
    MaxPerIp,      \* cfg.maxPerIp
    IpWindow,      \* cfg.ipWindowMs, in clock ticks
    DayLength,     \* clock ticks in a calendar day
    MaxTime,       \* bound on the clock
    MaxRestarts,   \* bound on restarts of the backend
    MaxTxs         \* bound on the relayer's transactions

ASSUME FaucetAssumption ==
    /\ {Drip, Threshold, MaxPerIp, IpWindow, DayLength} \subseteq Nat \ {0}
    /\ {DailyBudget, MaxTime, MaxRestarts, MaxTxs} \subseteq Nat
    /\ IsFiniteSet(Request)
    /\ {"none", "log"} \cap Wallet = {} /\ "none" \notin Ip

VARIABLES
    now,        \* Date.now()
    day,        \* state.day, -1 for the empty string of a new state
    spent,      \* state.spent
    ipHits,     \* state.ipHits: the reservation times of each address
    process,    \* which run of the backend this is
    pc,         \* where each request's handler is
    job,        \* what each handler holds: its arguments and what it has read
    sent,       \* the slots whose last handler answered 200 with a txHash
    pool,       \* the relayer's transactions, in nonce order
    mined,      \* how many of them are in a block
    gas         \* balance of each wallet

vars == <<now, day, spent, ipHits, process, pc, job, sent, pool, mined, gas>>

chainVars == <<pool, mined, gas>>
limitVars == <<day, spent, ipHits>>

Step == {"idle", "balance", "decide", "prepare", "broadcast", "receipt"}
NoTx == 0

DayOf(t) == t \div DayLength

\* to, ip: the arguments.  bal, nonce: what was read, before it is used.
\* at: when the drip was reserved.  tx: the transaction awaited.
NoJob == [to |-> "none", ip |-> "none", bal |-> 0, nonce |-> 0, at |-> 0, tx |-> NoTx]

Init ==
    /\ now = 0
    /\ day = -1
    /\ spent = 0
    /\ ipHits = [i \in Ip |-> <<>>]
    /\ process = 0
    /\ pc = [r \in Request |-> "idle"]
    /\ job = [r \in Request |-> NoJob]
    /\ sent = {}
    /\ pool = <<>>
    /\ mined = 0
    /\ gas = [w \in Wallet |-> 0]

--------------------------------------------------------------------------------
(* The limits. *)

\* rollDay, when a limit is next looked at: a new day forgets the last one.
RolledSpent == IF day = DayOf(now) THEN spent ELSE 0
RolledHits == IF day = DayOf(now) THEN ipHits ELSE [i \in Ip |-> <<>>]

\* The reservations of an address still inside its window.  Each is recorded with
\* the time at which it is made, so the list is in order of time and the filter
\* keeps the last ones.
Recent(ip) ==
    LET hits == RolledHits[ip]
        kept == {n \in DOMAIN hits : now - hits[n] < IpWindow}
    IN  SubSeq(hits, Len(hits) - Cardinality(kept) + 1, Len(hits))

\* Bug: the budget test forgets the drip about to be spent.
AllowedOffByOne(ip) ==
    /\ RolledSpent < DailyBudget
    /\ Len(Recent(ip)) < MaxPerIp

\* checkFaucetLimit
Allowed(ip) ==
    /\ RolledSpent + Drip <= DailyBudget
    /\ Len(Recent(ip)) < MaxPerIp

--------------------------------------------------------------------------------
(* The handler of POST /faucet/drip. *)

Goto(r, step) == pc' = [pc EXCEPT ![r] = step]

\* The handler answers that the drip was sent.
ReplySent(r) ==
    /\ Goto(r, "idle")
    /\ sent' = sent \cup {r}
    /\ UNCHANGED job

\* The handler answers anything else: skipped, 429 or 500.
ReplyOther(r) ==
    /\ Goto(r, "idle")
    /\ job' = [job EXCEPT ![r] = NoJob]
    /\ UNCHANGED sent

\* A request with a valid address arrives; the handler asks for its balance.
Post(r, w, ip) ==
    /\ pc[r] = "idle"
    /\ Goto(r, "balance")
    /\ job' = [job EXCEPT ![r] = [NoJob EXCEPT !.to = w, !.ip = ip]]
    /\ sent' = sent \ {r}
    /\ UNCHANGED <<now, limitVars, process, chainVars>>

\* The node answers getBalance; the handler has not resumed yet.
BalanceRead(r) ==
    /\ pc[r] = "balance"
    /\ Goto(r, "decide")
    /\ job' = [job EXCEPT ![r].bal = gas[job[r].to]]
    /\ UNCHANGED <<now, limitVars, process, sent, chainVars>>

\* The handler resumes on a wallet that had gas: nothing is reserved.
Skip(r) ==
    /\ pc[r] = "decide"
    /\ job[r].bal >= Threshold
    /\ ReplyOther(r)
    /\ UNCHANGED <<now, limitVars, process, chainVars>>

\* The limits say no (having rolled the day on the way): 429.
Refuse(r) ==
    /\ pc[r] = "decide"
    /\ job[r].bal < Threshold
    /\ ~Allowed(job[r].ip)
    /\ day' = DayOf(now)
    /\ spent' = RolledSpent
    /\ ipHits' = RolledHits
    /\ ReplyOther(r)
    /\ UNCHANGED <<now, process, chainVars>>

\* The limits say yes: check and record run without an await between them, and
\* before the transaction is sent.
Reserve(r) ==
    LET ip == job[r].ip
    IN  /\ pc[r] = "decide"
        /\ job[r].bal < Threshold
        /\ Allowed(ip)
        /\ day' = DayOf(now)
        /\ spent' = RolledSpent + Drip
        /\ ipHits' = [RolledHits EXCEPT ![ip] = Append(Recent(ip), now)]
        /\ Goto(r, "prepare")
        /\ job' = [job EXCEPT ![r].at = now, ![r].bal = 0]
        /\ UNCHANGED <<now, process, sent, chainVars>>

\* sendTransaction first asks the node for the relayer's pending nonce.
NonceRead(r) ==
    /\ pc[r] = "prepare"
    /\ Goto(r, "broadcast")
    /\ job' = [job EXCEPT ![r].nonce = Len(pool) + 1]
    /\ UNCHANGED <<now, limitVars, process, sent, chainVars>>

\* The node takes the transaction if its nonce is still the next one.
Broadcast(r) ==
    /\ pc[r] = "broadcast"
    /\ Len(pool) < MaxTxs
    /\ job[r].nonce = Len(pool) + 1
    /\ pool' = Append(pool, [to |-> job[r].to, ip |-> job[r].ip, at |-> job[r].at,
                             process |-> process])
    /\ Goto(r, "receipt")
    /\ job' = [job EXCEPT ![r].tx = Len(pool) + 1, ![r].nonce = 0, ![r].at = 0]
    /\ UNCHANGED <<now, limitVars, process, sent, mined, gas>>

\* Another transaction of the relayer took the nonce: the node refuses, 500.
\* What was reserved stays spent.
NonceTaken(r) ==
    /\ pc[r] = "broadcast"
    /\ job[r].nonce # Len(pool) + 1
    /\ ReplyOther(r)
    /\ UNCHANGED <<now, limitVars, process, chainVars>>

\* Bug: the handler answers once the node has the transaction.
ReceiptNotAwaited(r) ==
    /\ pc[r] = "receipt"
    /\ ReplySent(r)
    /\ UNCHANGED <<now, limitVars, process, chainVars>>

\* The receipt arrives: 200.
Receipt(r) ==
    /\ pc[r] = "receipt"
    /\ job[r].tx <= mined
    /\ ReplySent(r)
    /\ UNCHANGED <<now, limitVars, process, chainVars>>

\* Bug: the wait for the receipt has no timeout.
FailWithoutTimeout(r) ==
    /\ pc[r] \in {"balance", "prepare", "broadcast"}
    /\ ReplyOther(r)
    /\ UNCHANGED <<now, limitVars, process, chainVars>>

\* Bug: a handler whose wait for the receipt ends sends its drip once more.
FailAndResend(r) ==
    /\ pc[r] \in {"balance", "prepare", "broadcast", "receipt"}
    /\ IF pc[r] = "receipt"
       THEN Goto(r, "prepare") /\ job' = [job EXCEPT ![r].at = now] /\ UNCHANGED sent
       ELSE ReplyOther(r)
    /\ UNCHANGED <<now, limitVars, process, chainVars>>

\* Any awaited call can fail or, for the receipt, time out after 90 s: the catch
\* answers 500, whatever has been reserved or sent.
Fail(r) ==
    /\ pc[r] \in {"balance", "prepare", "broadcast", "receipt"}
    /\ ReplyOther(r)
    /\ UNCHANGED <<now, limitVars, process, chainVars>>

--------------------------------------------------------------------------------
(* The surroundings: clock, chain, the relayer's other user, restarts. *)

Tick ==
    /\ now < MaxTime
    /\ now' = now + 1
    /\ UNCHANGED <<limitVars, process, pc, job, sent, chainVars>>

\* The next transaction of the relayer gets into a block.
Mine ==
    /\ mined < Len(pool)
    /\ mined' = mined + 1
    /\ gas' = IF pool[mined + 1].to \in Wallet
              THEN [gas EXCEPT ![pool[mined + 1].to] = @ + Drip]
              ELSE gas
    /\ UNCHANGED <<now, limitVars, process, pc, job, sent, pool>>

\* A wallet pays for a transaction of its own.
Spend(w) ==
    /\ gas[w] > 0
    /\ gas' = [gas EXCEPT ![w] = @ - 1]
    /\ UNCHANGED <<now, limitVars, process, pc, job, sent, pool, mined>>

Anchor == [to |-> "log", ip |-> "none", at |-> 0, process |-> 0]

\* The accountability route sends from the same account.
AnchorReport ==
    /\ Len(pool) < MaxTxs
    /\ pool' = Append(pool, Anchor)
    /\ UNCHANGED <<now, limitVars, process, pc, job, sent, mined, gas>>

\* The backend restarts: limits and handlers are gone.
Restart ==
    /\ process < MaxRestarts
    /\ process' = process + 1
    /\ day' = -1
    /\ spent' = 0
    /\ ipHits' = [i \in Ip |-> <<>>]
    /\ pc' = [r \in Request |-> "idle"]
    /\ job' = [r \in Request |-> NoJob]
    /\ sent' = {}
    /\ UNCHANGED <<now, chainVars>>

Handle(r) ==
    \/ BalanceRead(r) \/ Skip(r) \/ Refuse(r) \/ Reserve(r)
    \/ NonceRead(r) \/ Broadcast(r) \/ NonceTaken(r) \/ Receipt(r) \/ Fail(r)

Next ==
    \/ \E r \in Request, w \in Wallet, ip \in Ip : Post(r, w, ip)
    \/ \E r \in Request : Handle(r)
    \/ Tick
    \/ Mine
    \/ \E w \in Wallet : Spend(w)
    \/ AnchorReport
    \/ Restart

\* Every await of a handler settles (viem bounds each call, and the receipt wait
\* by 90 s) and the event loop then resumes it.  Nothing is assumed of the chain.
Fairness == \A r \in Request : WF_vars(Handle(r))

Spec == Init /\ [][Next]_vars /\ Fairness

--------------------------------------------------------------------------------
(* Properties. *)

Job == [to : Wallet \cup {"none"}, ip : Ip \cup {"none"}, bal : Nat,
        nonce : Nat, at : 0 .. MaxTime, tx : Nat]

RelayerTx == [to : Wallet \cup {"log"}, ip : Ip \cup {"none"}, at : 0 .. MaxTime,
              process : 0 .. MaxRestarts]

\* Every variable has its type.
TypeOK ==
    /\ now \in 0 .. MaxTime
    /\ day \in -1 .. DayOf(MaxTime)
    /\ spent \in 0 .. DailyBudget
    /\ ipHits \in [Ip -> Seq(0 .. MaxTime)]
    /\ process \in 0 .. MaxRestarts
    /\ pc \in [Request -> Step]
    /\ job \in [Request -> Job]
    /\ sent \subseteq Request
    /\ pool \in Seq(RelayerTx)
    /\ mined \in 0 .. Len(pool)
    /\ gas \in [Wallet -> Nat]

\* The drips the node has taken that process p reserved on day d.
Drips(d, p) ==
    {i \in DOMAIN pool :
        pool[i].to \in Wallet /\ DayOf(pool[i].at) = d /\ pool[i].process = p}

\* The requests that have reserved a drip on day d and have not sent it.
Pending(d) ==
    {r \in Request : pc[r] \in {"prepare", "broadcast"} /\ DayOf(job[r].at) = d}

\* The defence against a drain, as far as it goes: whatever the interleaving of
\* requests, failures and midnights, the drips one process reserves on one day fit the
\* budget.  It says nothing of two processes: see DailyBudgetOfAll.
WithinDailyBudget ==
    \A d \in 0 .. DayOf(MaxTime), p \in 0 .. MaxRestarts :
        Drip * Cardinality(Drips(d, p)) <= DailyBudget

\* What the header of faucet.ts says ("presupuesto global diario", and a distributed
\* attacker "solo puede gastar el cupo del día"): the drips of a day fit the budget,
\* whichever process gave them.  False: the state is one object in memory.
DailyBudgetOfAll ==
    \A d \in 0 .. DayOf(MaxTime) :
        Drip * Cardinality(UNION {Drips(d, p) : p \in 0 .. MaxRestarts}) <= DailyBudget

\* The drips of process p that were reserved for an address at one of the times T,
\* and the reservations for it that are not sent yet.
DripsOf(ip, p, T) ==
    {i \in DOMAIN pool : /\ pool[i].to \in Wallet /\ pool[i].ip = ip
                         /\ pool[i].process = p /\ pool[i].at \in T}

PendingOf(ip, T) ==
    {r \in Request : /\ pc[r] \in {"prepare", "broadcast"}
                     /\ job[r].ip = ip /\ job[r].at \in T}

\* A window of the address limit, as far as it lies in one day: at midnight the
\* reservations of every address are forgotten.
Window(d, t) == {u \in t .. t + IpWindow - 1 : DayOf(u) = d}

\* The second defence: whatever is sent late, fails or overlaps, no address gets
\* more than MaxPerIp drips reserved by one process inside a window of one day.
WithinAddressLimit ==
    \A ip \in Ip, p \in 0 .. MaxRestarts, d \in 0 .. DayOf(MaxTime), t \in 0 .. MaxTime :
        Cardinality(DripsOf(ip, p, Window(d, t))) <= MaxPerIp

\* Fail-closed: what the state says was spent today covers every drip sent and
\* every one about to be sent.
ReservedBeforeSent ==
    Drip * (Cardinality(Drips(day, process)) + Cardinality(Pending(day))) <= spent

\* "Al responder, el gas ya es gastable": an answer that says sent stands for a
\* transaction to the wallet that asked, and that transaction is in a block.
SentMeansMined ==
    \A r \in sent :
        job[r].tx \in 1 .. mined /\ pool[job[r].tx].to = job[r].to

\* What Fund calls the drips given, by their place in the relayer's account, and what
\* each request asks for and got.
Given == [i \in {j \in DOMAIN pool : pool[j].to \in Wallet} |-> pool[i]]
Asked == [r \in Request |-> [to |-> job[r].to, ip |-> job[r].ip, got |-> job[r].tx]]

\* Handlers, limits and account keep the promise of Fund: however requests, failures,
\* midnights and restarts interleave, a request gets one drip at most, between two
\* restarts a day and an address get no more than their share, and "sent" is said of a
\* drip in a block.  Only a restart of the backend makes the faucet forget.
Funded == INSTANCE Fund WITH
    Number <- 1 .. MaxTxs, Time <- 0 .. MaxTime,
    life <- process, ask <- Asked, given <- Given, settled <- {i \in DOMAIN Given : i <= mined}, told <- sent
ImplementsFund == Funded!Spec

\* Every request is answered, even when the chain stops making blocks (or the
\* backend restarts and the caller sees its connection drop).
EveryRequestAnswered == \A r \in Request : pc[r] # "idle" ~> pc[r] = "idle"

\* What the header of faucet.ts says ("no re-fondea wallets que ya tienen gas"):
\* no wallet that has the threshold already is given another drip, so none can
\* ever hold more than one drip on top of less than the threshold.
NeverRefunded == \A w \in Wallet : gas[w] < Threshold + Drip

================================================================================
