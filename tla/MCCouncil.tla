-------------------------------- MODULE MCCouncil --------------------------------
(* An instance of Council for TLC: two advisors, two deliberations at once, a    *)
(* proposal at the boundary of 1.15, and one provider, which may be silent.      *)
EXTENDS Council

CONSTANTS a1, a2, s1, s2

MCAdvisor == {a1, a2}
MCSlot == {s1, s2}

MCSymmetry == Permutations(MCAdvisor) \cup Permutations(MCSlot)

MCVotes == ("law" :> [yes |-> 23, no |-> 20])
MCProviders == {"openrouter"}

================================================================================
