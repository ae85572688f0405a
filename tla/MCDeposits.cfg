CONSTANTS
    u1 = u1
    u2 = u2
    t1 = t1
    t2 = t2
    Users <- TwoUsers
    Transfers <- TwoTransfers
    Confirmations = 2
    StartBlock = 0
    None = None
    MaxHeight = 3
    MaxSweeps = 2
    MaxStops = 1
SPECIFICATION FairSpec
INVARIANTS
    NoDepositMissed
    CreditedMoneyArrived
    SweptMoneyMoved
PROPERTY EveryDepositCredited
