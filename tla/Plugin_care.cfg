CONSTANTS
    Loads = 1
    Maintained = {1}
    LastPort = 1
    Attempts = 1
    AllowLegacy = FALSE
    Handlers = {"u1"}
    MaxBatches = 1
    MinPoints = 1
    MaxPoints = 2
    InitialPages = 1
    Target = 4
    Durations = {1, 4, 8}
    Expired = 2
    MaxWritten = 3
    MaxFaults = 1
SPECIFICATION FairSpec
INVARIANTS
    CompactionGoesOn
    OneRetentionSweep
    NothingLeftBehind
PROPERTIES
    CatchesUp
