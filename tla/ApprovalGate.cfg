SPECIFICATION FairSpec
CONSTANTS
    MaxRequests = 3
    MaxFaults = 1
    MaxStops = 2
    HistoryCap = 2
    BoardCap = 2
    Modes = {"auto", "always", "never"}
    RestoreIsCut = FALSE
INVARIANTS
    DecidedOnce
    ApprovalsAreKept
PROPERTIES
    EveryWaitEnds
CHECK_DEADLOCK FALSE
