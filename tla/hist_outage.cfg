SPECIFICATION Spec
CONSTANTS
    Cap = 2
    Period = 2
    Retention = 20
    MaxPoints = 4
    Outages = TRUE
    StoreFails = FALSE
    MaxTime = 4
    MaxCount = 2
    MaxNoise = 0
    MaxRuns = 1
INVARIANTS
    EveryCountCharted
CHECK_DEADLOCK FALSE
