CONSTANTS
    a = a
    b = b
    Clients <- TwoClients
    Seated <- TwoClients
    Settings <- ThreeSettings
    AllowLegacy = TRUE
    Capacity = 1
    MaxUpdates = 2
SPECIFICATION FairLiveSpec
INVARIANT LiveTypeOK
PROPERTIES
    NeverGoesBack
    ClientsCatchUp
    GoneAreForgotten
CHECK_DEADLOCK FALSE
