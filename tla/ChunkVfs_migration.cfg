CONSTANTS
    PerChunk = 2
    MaxCached = 1
    MaxPages = 3
    MaxVersion = 3
    MaxFaults = 2
    Zero = Zero
    Null = Null
SPECIFICATION Spec
INVARIANT
    MigrationTakesOver
