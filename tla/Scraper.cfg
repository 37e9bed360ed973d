CONSTANTS
    Selves = {"vault"}
    Targets = {"node"}
    Null = Null
    MaxRedirects = 1
    MaxStarts = 2
    MaxTime = 1
SPECIFICATION FairScraperSpec
INVARIANTS
    OneScrapePerTarget
    StatusTellsTheTruth
PROPERTIES
    KeepsScraping
