SPECIFICATION Spec
CONSTANTS
    MaxEvents = 3
    MaxDeploys = 2
    MaxSide = 2
INVARIANTS
    TypeOK
    FilesDescribeOneDeployment
    AbiNotOlder
    InscribedWhereVotesLook
CHECK_DEADLOCK FALSE
