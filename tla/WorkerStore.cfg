CONSTANTS
    f1 = f1
    f2 = f2
    m1 = m1
    m2 = m2
    Open = Open
    Close = Close
    None = None
    Foreground <- TwoForeground
    Maintenance <- TwoMaintenance
SPECIFICATION FairSpec
INVARIANTS
    RunsOnOpenStore
    OnlyMaintenanceIsOvertaken
PROPERTIES
    Implements
    OpenAndCloseReturn
    EveryCallIsAnswered
CHECK_DEADLOCK FALSE
