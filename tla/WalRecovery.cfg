CONSTANTS
    b1 = b1
    b2 = b2
    b3 = b3
    Garbled = Garbled
    NoTail = NoTail
    Truncate = Truncate
    Batches <- ThreeBatches
    Tears = {"fragment"}
    Interruptions = {"abandon", "unload", "crash", "ingest", "read"}
    MaxFaults = 3
SPECIFICATION FairSpec
INVARIANTS
    LogIsCommitted
    SessionsDoNotOverlap
PROPERTIES
    NothingForgotten
    TeardownEnds
