-------------------------------- MODULE Election --------------------------------
(******************************************************************************)
(* What the identity contracts and the voting contract promise together: a    *)
(* voter, as the registry identifies voters, casts at most one ballot and     *)
(* never changes it, and the one result that is ever certified counts exactly *)
(* the ballots cast, after which no ballot is cast.                           *)
(******************************************************************************)
EXTENDS Integers, FiniteSets

CONSTANTS Voter, Choice, NoBallot

VARIABLES
    ballotOf,   \* voter -> its choice, NoBallot before it has voted
    results     \* the certified results: none or one

vars == <<ballotOf, results>>

Votes(c) == Cardinality({v \in Voter : ballotOf[v] = c})

Init ==
    /\ ballotOf = [v \in Voter |-> NoBallot]
    /\ results = {}

Cast(v, c) ==
    /\ results = {}
    /\ ballotOf[v] = NoBallot
    /\ ballotOf' = [ballotOf EXCEPT ![v] = c]
    /\ UNCHANGED results

Certify ==
    /\ results = {}
    /\ results' = {[c \in Choice |-> Votes(c)]}
    /\ UNCHANGED ballotOf

Next == (\E v \in Voter, c \in Choice : Cast(v, c)) \/ Certify

Spec == Init /\ [][Next]_vars

================================================================================
