CONSTANTS
    k1 = k1
    k2 = k2
    Null = Null
    Keys <- TwoKeys
    Times <- SomeTimes
    Bucket = 2
    Span = 4
    Batches <- SomeBatches
    Cutoffs <- SomeCutoffs
    HourAgo = 4
    MaxId = 3
    MaxCalls = 4
    MaxQueue = 1
SPECIFICATION FairSpec
INVARIANTS
    SamplesKeepTheirSeries
    CacheFollowsTable
    
    
PROPERTIES
    CloseReturns
