SPECIFICATION Spec
SYMMETRY MCSymmetry
CONSTANTS
    b1 = b1
    b2 = b2
    w1 = w1
    w2 = w2
    o1 = o1
    d1 = d1
    d2 = d2
    f1 = f1
    f2 = f2
    Browser <- MCBrowser
    Wallet <- MCWallet
    Outsider <- MCOutsider
    Dni <- MCDni
    Face <- MCFace
    Similar <- MCSimilar
    NoAccount = NoAccount
    NoHash = NoHash
    Local = FALSE
    MaxTokenId = 2
    MaxTxs = 2
    MaxMints = 1
    MaxFaces = 1
INVARIANTS
    TypeOK
    OneCedulaPerDocument
    ShownCedulaIsOwn
    CitizensAreDistinct
