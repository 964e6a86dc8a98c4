------------------------------ MODULE AnonymousVote ------------------------------
(******************************************************************************)
(* The contract AnonymousVote.sol: one vote per nullifier on each proposal,   *)
(* from any account.  That a nullifier belongs to a citizen is not checked    *)
(* (docs/security/known-limitations.md, L-17).                                *)
(******************************************************************************)
EXTENDS Integers

CONSTANTS
    ProposalId,   \* proposal ids callers name
    Nullifier,    \* non-zero nullifiers
    NoHash        \* bytes32(0)

VARIABLES
    nullifierUsed,   \* proposal -> the nullifiers whose flag is set
    tally,           \* _tally
    votesCast        \* AnonymousVoteCast events of the log

vars == <<nullifierUsed, tally, votesCast>>

Yes == 0
No == 1
Abstain == 2
Choice == {Yes, No, Abstain}

Init ==
    /\ nullifierUsed = [id \in ProposalId |-> {}]
    /\ tally = [id \in ProposalId |-> [c \in Choice |-> 0]]
    /\ votesCast = {}

\* Bug: the choice is not checked.
MayCastAnything(id, choice, nullifier) ==
    /\ nullifier # NoHash
    /\ nullifier \notin nullifierUsed[id]

\* Bug: the nullifier is not looked up.
MayCastAgain(id, choice, nullifier) ==
    /\ choice <= Abstain
    /\ nullifier # NoHash

\* The requires of castAnonymous.
MayCast(id, choice, nullifier) ==
    /\ choice <= Abstain
    /\ nullifier # NoHash
    /\ nullifier \notin nullifierUsed[id]

CastAnonymous(id, choice, nullifier) ==
    /\ MayCast(id, choice, nullifier)
    /\ nullifierUsed' = [nullifierUsed EXCEPT ![id] = @ \cup {nullifier}]
    /\ tally' = [tally EXCEPT ![id][choice] = @ + 1]
    /\ votesCast' = votesCast \cup {[id |-> id, nullifier |-> nullifier, choice |-> choice]}

================================================================================
