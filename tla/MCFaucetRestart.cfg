SPECIFICATION Spec
CONSTANTS
    r1 = r1
    r2 = r2
    w1 = w1
    i1 = i1
    i2 = i2
    Request <- MCRequest
    Wallet <- MCWallet
    Ip = {i1}
    Drip = 2
    Threshold = 1
    DailyBudget = 5
    MaxPerIp = 3
    IpWindow = 1
    DayLength = 1
    MaxTime = 1
    MaxRestarts = 1
    MaxTxs = 3
INVARIANTS
    DailyBudgetOfAll
