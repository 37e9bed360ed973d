CONSTANTS
    v1 = v1
    v2 = v2
    Absent = Absent
    Corrupt = Corrupt
    Series <- OneSeries
    Values <- TwoValues
    Horizon = 2
    BlockSpan = 3
    MaxBlockPoints = 2
    MaxBatch = 1
    Limits = {1, 2}
    MaxChunkNo = 3
    CanReopen = TRUE
    CanDamage = FALSE
SPECIFICATION Spec
SYMMETRY ValueSymmetry
INVARIANTS
    TypeOK
    BlocksDisjoint
    BlocksWellFormed
    ChangesAreNew
PROPERTIES
    Implements
