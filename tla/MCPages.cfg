SPECIFICATION Spec
CONSTANTS
    Nullifier = {n1, n2}
    NoHash = NoHash
    MaxReads = 3
    MaxMessages = 6
    MaxAnalyses = 3
    MaxCouncils = 2
    MaxRestarts = 1
INVARIANTS
    TypeOK
    QuestionsAnsweredInTurn
    PublishedWasApproved
PROPERTIES
    ShownCatchesUp
    WaitEnds
