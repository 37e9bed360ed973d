CONSTANTS
    b1 = b1
    b2 = b2
    b3 = b3
    Garbled = Garbled
    NoTail = NoTail
    Truncate = Truncate
    Batches <- TwoBatches
    Tears = {"fragment"}
    Interruptions = {"unload"}
    MaxFaults = 3
SPECIFICATION Spec
PROPERTY
    OnlyCoveredIsTruncated
