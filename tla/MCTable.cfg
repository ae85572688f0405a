CONSTANTS
    p1 = p1
    p2 = p2
    p3 = p3
    r1 = r1
    r2 = r2
    Players <- ThreePlayers
    SeatCount = 3
    SmallBlind = 1
    BuyIns <- OneBuyIn
    Opening = 4
    MaxRake = 1
    Requests <- TwoRequests
    Rejoining = FALSE
    Nobody = Nobody
    MaxHands = 2
    MaxRequests = 6
    MaxOverlap = 4
    MaxFailures = 1
SPECIFICATION Spec
CHECK_DEADLOCK FALSE
SYMMETRY SymmetricThree
INVARIANTS
    MoneyConserved
    TableFitsHand
    SeatsConsistent
