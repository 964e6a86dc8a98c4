------------------------------ MODULE MCVotingPage ------------------------------
(* Instances of VotingPage for TLC: two tabs of one browser, and an outsider. *)
EXTENDS VotingPage, TLC

CONSTANTS b1, t1, t2, s1, n1

MCBrowser == {b1}
MCTab == {t1, t2}
MCBrowserOf == [t \in MCTab |-> b1]
MCSecret == {s1}
MCOutsider == {n1}
MCProposalId == {1, 2}

\* The two tabs are interchangeable.
MCSymmetry == Permutations(MCTab)

================================================================================
