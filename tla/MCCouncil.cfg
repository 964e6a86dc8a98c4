SPECIFICATION Spec
SYMMETRY MCSymmetry
CONSTANTS
    a1 = a1
    a2 = a2
    s1 = s1
    s2 = s2
    Slot <- MCSlot
    Advisor <- MCAdvisor
    Votes <- MCVotes
    Configured <- MCProviders
    LogCap = 2
    MaxRuns = 3
INVARIANTS
    TypeOK
    RunsAccountFor
    LogKeepsLatest
    DriftBounded
