SPECIFICATION Spec
CONSTANTS
    Source = "gpsd"
    Home <- HomeAt
    Reports <- Moving
    Threshold = 3
    MinBeacon = 2
    MoveBy = 0
    Freshness = 2
    WriteTimeout = 1
    Legacy = 2
    StoreFails = FALSE
    Outages = TRUE
    MaxTime = 5
    MaxReports = 3
    MaxHeard = 0
    MaxRuns = 1
INVARIANTS
    MoveSpaced
CHECK_DEADLOCK FALSE
