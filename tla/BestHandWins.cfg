CONSTANTS
    p1 = p1
    p2 = p2
    p3 = p3
    Players <- ThreePlayers
    Deals <- AllDeals
    NotYet = NotYet
SPECIFICATION ShowdownSpec
INVARIANT BestHandWins
CHECK_DEADLOCK FALSE
SYMMETRY PlayerSymmetry
