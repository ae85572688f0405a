CONSTANTS
    N = 2
    SmallBlind = 1
    MaxRaisesPerStreet = 1
    DeckSize = 52
    RakePercent = 10
    RakeCap = 2
    NoFlopNoDrop = TRUE
    r1 = r1
    r2 = r2
    p1 = p1
    p2 = p2
    p3 = p3
    Players <- ThreePlayers
    Deals <- AllDeals
    NotYet = NotYet
    Requests <- TwoRequests
    StartStacks <- Stacks
    NoHand = NoHand
    MaxRequests = 6
    MaxOverlap = 4
SPECIFICATION EngineSpec
INVARIANTS
    RowKeepsLimit
    SavedActionIsLogged
    RankByTheRules
    WinnersByTheRules
PROPERTY AtomicUseCases
SYMMETRY EngineSymmetry
CHECK_DEADLOCK FALSE
