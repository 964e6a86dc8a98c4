---------------------------- MODULE MCAccountability ----------------------------
(* Instances of Accountability for TLC: two commands, the id of a law and a       *)
(* negative one; others write about one law under the number of another.        *)
EXTENDS Accountability

CONSTANTS c1, c2

MCCommand == {c1, c2}
MCRequestId == {-1, 2}
MCLaw == {1, 2}
MCOtherPost == {[proposalId |-> 2, law |-> 1]}

================================================================================
