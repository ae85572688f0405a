CONSTANTS
    p1 = p1
    p2 = p2
    p3 = p3
    r1 = r1
    r2 = r2
    Players <- TwoPlayers
    SeatCount = 2
    SmallBlind = 1
    BuyIns <- OneBuyIn
    Opening = 4
    MaxRake = 1
    Requests <- OneRequest
    Rejoining = TRUE
    Nobody = Nobody
    MaxHands = 2
    MaxRequests = 8
    MaxOverlap = 8
    MaxFailures = 0
SPECIFICATION Spec
CHECK_DEADLOCK FALSE
PROPERTY JoinDebitsBuyIn
