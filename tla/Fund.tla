---------------------------------- MODULE Fund ----------------------------------
(******************************************************************************)
(* What a faucet with a memory it can lose promises: whoever asks gets one    *)
(* drip at most, at the wallet asked for; a day's budget and the share of an  *)
(* address are kept until the faucet forgets; who is told "sent" has the gas. *)
(* Any of it may take its time or not happen.                                 *)
(******************************************************************************)
EXTENDS Integers, FiniteSets

CONSTANTS Request, Wallet, Ip, Number, Time,
          Drip, DailyBudget, MaxPerIp, IpWindow, DayLength

VARIABLES
    life,      \* how often the faucet has forgotten what it gave
    ask,       \* what each request asks for and the number of the drip it got
    given,     \* the drips given, by number
    settled,   \* the numbers of those that can be spent
    told       \* the requests answered with "sent"

vars == <<life, ask, given, settled, told>>

NoAsk == [to |-> "none", ip |-> "none", got |-> 0]

Init ==
    /\ life = 0
    /\ ask = [r \in Request |-> NoAsk]
    /\ given = [n \in {} |-> NoAsk]
    /\ settled = {}
    /\ told = {}

SameDay(g, h) == g.process = h.process /\ g.at \div DayLength = h.at \div DayLength

\* The budget of a day and, inside every window of it, the share of each address, of
\* the drips given in one life.
WithinLimits(drips) ==
    \A n \in DOMAIN drips :
        LET today == {m \in DOMAIN drips : SameDay(drips[m], drips[n])}
            share == {m \in today :
                        /\ drips[m].ip = drips[n].ip
                        /\ drips[m].at \in drips[n].at .. drips[n].at + IpWindow - 1}
        IN  Drip * Cardinality(today) <= DailyBudget /\ Cardinality(share) <= MaxPerIp

Ask(r, w, ip) ==
    /\ ask' = [ask EXCEPT ![r] = [to |-> w, ip |-> ip, got |-> 0]]
    /\ told' = told \ {r}
    /\ UNCHANGED <<life, given, settled>>

Give(r, n, at) ==
    LET drip == [to |-> ask[r].to, ip |-> ask[r].ip, at |-> at, process |-> life]
    IN  /\ ask[r].to \in Wallet
        /\ ask[r].got = 0
        /\ n \notin DOMAIN given
        /\ given' = [m \in DOMAIN given \cup {n} |-> IF m = n THEN drip ELSE given[m]]
        /\ WithinLimits(given')
        /\ ask' = [ask EXCEPT ![r].got = n]
        /\ UNCHANGED <<life, settled, told>>

Settle(n) ==
    /\ n \in DOMAIN given
    /\ settled' = settled \cup {n}
    /\ UNCHANGED <<life, ask, given, told>>

Tell(r) ==
    /\ ask[r].got \in settled
    /\ told' = told \cup {r}
    /\ UNCHANGED <<life, ask, given, settled>>

\* Requests end without a drip, or without a word about it.
Drop(R) ==
    /\ ask' = [r \in Request |-> IF r \in R THEN NoAsk ELSE ask[r]]
    /\ told' = told \ R
    /\ UNCHANGED <<life, given, settled>>

\* The faucet loses its memory: every request is dropped and the limits begin anew.
Forget ==
    /\ life' = life + 1
    /\ ask' = [r \in Request |-> NoAsk]
    /\ told' = {}
    /\ UNCHANGED <<given, settled>>

Next ==
    \/ \E r \in Request, w \in Wallet, ip \in Ip : Ask(r, w, ip)
    \/ \E r \in Request, n \in Number, at \in Time : Give(r, n, at)
    \/ \E n \in DOMAIN given : Settle(n)
    \/ \E r \in Request : Tell(r)
    \/ \E R \in SUBSET Request : Drop(R)
    \/ Forget

Spec == Init /\ [][Next]_vars

================================================================================
