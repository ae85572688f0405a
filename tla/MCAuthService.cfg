CONSTANTS
    e1 = e1
    r1 = r1
    r2 = r2
    Emails <- OneEmail
    Requests <- TwoRequests
    RefreshTTL = 0
    AccessTTL = 0
    None = None
    MaxTime = 1
    MaxSessions = 4
    MaxFailures = 1
SPECIFICATION FairSpec
INVARIANTS
    TypeOK
    RefreshSpendsToken
PROPERTIES
    LoggedOutUntilLogin
    WalletArrives
CHECK_DEADLOCK FALSE
