CONSTANTS
    v1 = v1
    v2 = v2
    Absent = Absent
    Corrupt = Corrupt
    Series <- OneSeries
    Values <- OneValue
    Horizon = 3
    BlockSpan = 3
    MaxBlockPoints = 2
    MaxBatch = 1
    Limits = {2}
    MaxChunkNo = 1
    CanReopen = TRUE
    CanDamage = TRUE
SPECIFICATION Spec
INVARIANTS
    CompactionKeepsSamples
    RetentionExact
    MaintenanceMakesProgress
