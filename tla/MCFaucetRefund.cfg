SPECIFICATION Spec
CONSTANTS
    r1 = r1
    r2 = r2
    w1 = w1
    i1 = i1
    i2 = i2
    Request <- MCRequest
    Wallet <- MCWallet
    Ip <- MCIp
    Drip = 2
    Threshold = 1
    DailyBudget = 5
    MaxPerIp = 1
    IpWindow = 2
    DayLength = 2
    MaxTime = 1
    MaxRestarts = 0
    MaxTxs = 2
INVARIANTS
    NeverRefunded
