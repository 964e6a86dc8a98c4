------------------------------ MODULE MCCivicChain ------------------------------
(* Instance of CivicChain for TLC. *)
EXTENDS CivicChain, TLC

CONSTANTS eoa, wallet, d1, d2, f1, f2

MCAccount == {eoa, wallet}
MCContract == {wallet}
MCDni == {d1, d2}
MCFace == {f1, f2}

\* The commitments are interchangeable.
Symmetry == Permutations(MCDni) \cup Permutations(MCFace)

================================================================================
