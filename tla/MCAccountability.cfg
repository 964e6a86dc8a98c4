SPECIFICATION Spec
CONSTANTS
    c1 = c1
    c2 = c2
    Command <- MCCommand
    RequestId <- MCRequestId
    Law <- MCLaw
    FirstLaw = 1
    OtherPost <- MCOtherPost
    MaxOthers = 1
    MaxRequests = 2
    MaxTxs = 2
INVARIANTS
    LinkMeansAnchored
    AnchoredOnce
PROPERTIES
    EveryCommandAnswered
    ImplementsAnchoring
