CONSTANTS
    Loads = 3
    Maintained = {}
    LastPort = 2
    Attempts = 2
    AllowLegacy = TRUE
    Handlers = {}
    MaxBatches = 1
    MinPoints = 1
    MaxPoints = 2
    InitialPages = 1
    Target = 4
    Durations = {1, 4, 8}
    Expired = 0
    MaxWritten = 0
    MaxFaults = 0
SPECIFICATION FairSpec
INVARIANTS
    OneOpenStore
    NothingLeftBehind
PROPERTIES
    UnloadEnds
