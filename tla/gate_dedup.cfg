SPECIFICATION Spec
CONSTANTS
    Keys = {"a", "b"}
    MaxAge = 4
    Cap = 2
    Packets <- TwoStations
    TTL = 2
    WriteTimeout = 1
    GatingModes = {TRUE}
    Skews <- NoSkew
    LoadFails = FALSE
    SaveFails = FALSE
    MaxTime = 4
    MaxSends = 3
    MaxRuns = 1
    MaxSessions = 1
INVARIANTS
    NoDuplicateGated
PROPERTIES
    DuplicateWasGated
CHECK_DEADLOCK FALSE
