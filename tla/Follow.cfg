SPECIFICATION FairSpec
CONSTANTS
    MaxLog = 2
    MaxEvents = 2
    Page = 1
    Count = 1
    Retries = 1
    MaxBreaks = 1
    Faults = {"lost", "trim", "fenced"}
INVARIANTS
    NextSeqOnly
    TokensOnce
    ResolvedMeansOver
PROPERTIES
    FollowerResolves
CHECK_DEADLOCK FALSE
