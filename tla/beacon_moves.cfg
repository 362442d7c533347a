SPECIFICATION Spec
CONSTANTS
    Source = "gpsd"
    Home <- HomeAt
    Reports <- Moving
    Threshold = 3
    MinBeacon = 2
    MoveBy = 0
    Freshness = 2
    WriteTimeout = 0
    Legacy = 2
    StoreFails = TRUE
    Outages = FALSE
    MaxTime = 3
    MaxReports = 2
    MaxHeard = 1
    MaxRuns = 2
INVARIANTS
    TypeOK
    FreshBeacons
    MovedSinceLast
    NumbersNeverReused
    EveryPacketReported
CHECK_DEADLOCK FALSE
