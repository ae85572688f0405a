CONSTANTS
    u1 = u1
    a1 = a1
    w1 = w1
    w2 = w2
    f1 = f1
    Users <- OneUser
    Addresses <- OneAddress
    Withdrawals <- TwoWithdrawals
    Faucets <- OneFaucet
    Amounts <- SomeAmounts
    Opening = 2
    None = None
    MaxLosses = 1
SPECIFICATION FairSpec
INVARIANTS
    MoneyAccounted
    PaidAsRecorded
PROPERTY EveryPayoutSettles
