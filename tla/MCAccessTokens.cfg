CONSTANTS
    c1 = c1
    c2 = c2
    Calls <- TwoCalls
    KeyIDs <- OwnOrSameID
    MaxKeys = 2
    AllowLegacy = TRUE
    TokenTTL = 2
    CacheAge = 0
    FetchTime = 1
    Never = Never
    MaxClock = 3
    MaxFetchFailures = 1
SPECIFICATION TokensSpec
INVARIANTS
    ServedCallsAreAuthentic
    GoodTokensAreServed
SYMMETRY Symmetric
CHECK_DEADLOCK FALSE
