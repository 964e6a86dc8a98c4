---------------------------------- MODULE Vote ----------------------------------
(******************************************************************************)
(* The contract Vote.sol: a consultative vote on the one proposal its         *)
(* constructor creates (id 1), open from openAt to closeAt inclusive, closed  *)
(* by anyone afterwards.  Whether the caller is a citizen is asked of another *)
(* contract: CastVote takes the answer as its last parameter.                 *)
(******************************************************************************)
EXTENDS Integers

CONSTANTS
    Account,      \* addresses that call the contract
    ProposalId,   \* the proposal ids a caller may name; 1 is among them
    MaxTime       \* bound on block.timestamp

VARIABLES
    registry,         \* which ICitizenRegistry the constructor was given
    proposals,        \* _proposals: id 0 means the id names no proposal
    count,            \* _yesCount, _noCount and _abstainCount
    voted,            \* _voted
    proposalClosed,   \* ProposalClosed events of the log
    timestamp         \* block.timestamp of the block being built

vars == <<registry, proposals, count, voted, proposalClosed, timestamp>>

Choice == {"Yes", "No", "Abstain"}
Registry == {"IdentitySBT", "CitizenRegistry"}
Time == 0 .. MaxTime

Proposal == [id : ProposalId \cup {0}, openAt : Time, closeAt : Time, closed : BOOLEAN]

\* The constructor: registry is one of the two deployed, closeAt > openAt.
Init ==
    /\ registry \in Registry
    /\ \E openAt, closeAt \in Time :
         /\ closeAt > openAt
         /\ proposals = [id \in ProposalId |->
                IF id = 1
                THEN [id |-> 1, openAt |-> openAt, closeAt |-> closeAt, closed |-> FALSE]
                ELSE [id |-> 0, openAt |-> 0, closeAt |-> 0, closed |-> FALSE]]
    /\ count = [id \in ProposalId |-> [c \in Choice |-> 0]]
    /\ voted = [id \in ProposalId |-> [a \in Account |-> FALSE]]
    /\ proposalClosed = {}
    /\ timestamp = 0

\* Bug: the mark is set on the wrong side, so nobody is ever marked.
CastVoteUnmarked(caller, id, choice, isRegistered) ==
    LET p == proposals[id]
    IN  /\ p.id # 0
        /\ ~p.closed
        /\ p.openAt <= timestamp /\ timestamp <= p.closeAt
        /\ isRegistered
        /\ ~voted[id][caller]
        /\ count' = [count EXCEPT ![id][choice] = @ + 1]
        /\ UNCHANGED <<registry, proposals, voted, proposalClosed, timestamp>>

\* Bug: the ballot box stays open after the closing time and after close.
CastVoteAnyTime(caller, id, choice, isRegistered) ==
    LET p == proposals[id]
    IN  /\ p.id # 0
        /\ p.openAt <= timestamp
        /\ isRegistered
        /\ ~voted[id][caller]
        /\ voted' = [voted EXCEPT ![id][caller] = TRUE]
        /\ count' = [count EXCEPT ![id][choice] = @ + 1]
        /\ UNCHANGED <<registry, proposals, proposalClosed, timestamp>>

\* The requires of castVote, in their order.
MayCastVote(caller, id, isRegistered) ==
    LET p == proposals[id]
    IN  /\ p.id # 0
        /\ ~p.closed
        /\ timestamp >= p.openAt
        /\ timestamp <= p.closeAt
        /\ isRegistered
        /\ ~voted[id][caller]

\* castVote(proposalId, choice).
CastVote(caller, id, choice, isRegistered) ==
    /\ MayCastVote(caller, id, isRegistered)
    /\ voted' = [voted EXCEPT ![id][caller] = TRUE]
    /\ count' = [count EXCEPT ![id][choice] = @ + 1]
    /\ UNCHANGED <<registry, proposals, proposalClosed, timestamp>>

\* Bug: closing emits the result and forgets to set the flag, at closeAt already.
CloseEarly(id) ==
    /\ proposals[id].id # 0
    /\ ~proposals[id].closed
    /\ timestamp >= proposals[id].closeAt
    /\ proposalClosed' = proposalClosed \cup {[id |-> id, tally |-> count[id]]}
    /\ UNCHANGED <<registry, proposals, count, voted, timestamp>>

\* close(id): anyone, once, strictly after closeAt.
Close(id) ==
    LET p == proposals[id]
    IN  /\ p.id # 0
        /\ ~p.closed
        /\ timestamp > p.closeAt
        /\ proposals' = [proposals EXCEPT ![id].closed = TRUE]
        /\ proposalClosed' = proposalClosed \cup {[id |-> id, tally |-> count[id]]}
        /\ UNCHANGED <<registry, count, voted, timestamp>>

\* The next block: block.timestamp advances (by more when this step repeats).
NextBlock ==
    /\ timestamp < MaxTime
    /\ timestamp' = timestamp + 1
    /\ UNCHANGED <<registry, proposals, count, voted, proposalClosed>>

================================================================================
