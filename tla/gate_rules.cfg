SPECIFICATION Spec
CONSTANTS
    Keys = {"a"}
    MaxAge = 0
    Cap = 2
    Packets <- RulePackets
    TTL = 2
    WriteTimeout = 1
    GatingModes = {TRUE, FALSE}
    Skews <- NoSkew
    LoadFails = TRUE
    SaveFails = TRUE
    MaxTime = 1
    MaxSends = 2
    MaxRuns = 2
    MaxSessions = 2
INVARIANTS
    TypeOK
    DropsAddUp
    EveryPacketAccounted
CHECK_DEADLOCK FALSE
