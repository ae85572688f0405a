CONSTANTS
    N = 3
    SmallBlind = 1
    MaxRaisesPerStreet = 2
    DeckSize = 52
    RakePercent = 40
    RakeCap = 4
    NoFlopNoDrop = TRUE
    StartStacks <- Stacks
    NoHand = NoHand
SPECIFICATION FairSpec
INVARIANTS
    HandIsSound
    HandEndedAddsUp
    ChipConservation
    StreetsCloseEven
    LivePlayersShareEveryPot
PROPERTIES
    OnlyTheActorPays
    HandEnds
CHECK_DEADLOCK FALSE
