----------------------------- MODULE MCRegistration -----------------------------
(* Instances of Registration for TLC. *)
EXTENDS Registration, TLC

CONSTANTS b1, b2, w1, w2, o1, d1, d2, f1, f2

MCBrowser == {b1, b2}
MCWallet == {w1, w2}
MCOutsider == {o1}
MCDni == {d1, d2}
MCFace == {f1, f2}

\* Only equal embeddings are at the threshold, as with the mock selfie.
MCSimilar == {<<f, f>> : f \in MCFace}

MCSymmetry ==
    Permutations(MCBrowser) \cup Permutations(MCWallet)
        \cup Permutations(MCDni) \cup Permutations(MCFace)

================================================================================
