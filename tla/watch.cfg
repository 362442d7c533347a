SPECIFICATION Spec
CONSTANTS
    Clients = {"x", "y"}
    Stations = {"a", "b", "c"}
    MaxWatched = 2
    StoreFails = FALSE
    MaxRequests = 6
    MaxRuns = 3
INVARIANTS
    TypeOK
    TableMatchesList
PROPERTIES
    RestartRestoresTabs
CHECK_DEADLOCK FALSE
