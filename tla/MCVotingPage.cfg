SPECIFICATION Spec
SYMMETRY MCSymmetry
CONSTANTS
    b1 = b1
    t1 = t1
    t2 = t2
    s1 = s1
    n1 = n1
    Browser <- MCBrowser
    Tab <- MCTab
    BrowserOf <- MCBrowserOf
    Secret <- MCSecret
    Outsider <- MCOutsider
    ProposalId <- MCProposalId
    PageProposal = 1
    NoHash = NoHash
    MaxTxs = 3
INVARIANTS
    TypeOK
    PageToldTheTruth
PROPERTIES
    ImplementsElection
