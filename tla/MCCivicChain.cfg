SPECIFICATION Spec
CONSTANTS
    eoa = eoa
    wallet = wallet
    d1 = d1
    d2 = d2
    f1 = f1
    f2 = f2
    NoAccount = NoAccount
    NoHash = NoHash
    Account <- MCAccount
    Contract <- MCContract
    Dni <- MCDni
    Face <- MCFace
    ProposalId = {1, 2}
    MaxTokenId = 2
    MaxTime = 3
SYMMETRY Symmetry
INVARIANTS
    TypeOK
    HoldersAgree
    CommitmentsBoundOnce
    OneBallotPerPerson
    TallyCountsVoters
    ResultIsFinal
    LogTellsHolders
PROPERTIES
    Soulbound
    ImplementsElection
