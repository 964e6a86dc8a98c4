SPECIFICATION Spec
CONSTANTS
    ana = ana
    d1 = d1
    d2 = d2
    f1 = f1
    f2 = f2
    NoAccount = NoAccount
    NoHash = NoHash
    Account <- MCAccount
    Dni <- MCDni
    Face <- MCFace
    ProposalId = {1}
    MaxTokenId = 2
    MaxTime = 2
    PageId = 1
    MaxReads = 2
    MaxTxs = 1
SYMMETRY Symmetry
INVARIANTS
    TypeOK
    AnswersHold
PROPERTIES
    ShownNeverGoesBack
