----------------------------- MODULE MCProposalPage -----------------------------
(* Instance of ProposalPage for TLC. *)
EXTENDS ProposalPage, TLC

CONSTANTS ana, d1, d2, f1, f2

MCAccount == {ana}
MCDni == {d1, d2}
MCFace == {f1, f2}

\* The commitments are interchangeable.
Symmetry == Permutations(MCDni) \cup Permutations(MCFace)

================================================================================
