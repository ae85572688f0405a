CONSTANTS
    MaxStarted = 1
    MaxActed = 2
    MaxEnded = 2
    MaxFailures = 2
SPECIFICATION FairSpec
INVARIANTS
    CommittedIsStored
    LastEventIsKept
PROPERTY EveryEventIngested
CHECK_DEADLOCK FALSE
