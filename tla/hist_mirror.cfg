SPECIFICATION Spec
CONSTANTS
    Cap = 1
    Period = 2
    Retention = 2
    MaxPoints = 2
    Outages = FALSE
    StoreFails = TRUE
    MaxTime = 4
    MaxCount = 1
    MaxNoise = 1
    MaxRuns = 2
INVARIANTS
    TypeOK
    DiskMirrorsMemory
    EveryCountCharted
CHECK_DEADLOCK FALSE
