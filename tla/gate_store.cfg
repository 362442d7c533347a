SPECIFICATION Spec
CONSTANTS
    Keys = {"a"}
    MaxAge = 0
    Cap = 1
    Packets <- OnePacket
    TTL = 1
    WriteTimeout = 1
    GatingModes = {TRUE}
    Skews <- SomeSkew
    LoadFails = FALSE
    SaveFails = FALSE
    MaxTime = 3
    MaxSends = 3
    MaxRuns = 2
    MaxSessions = 2
INVARIANTS
    OnlyFreshGated
    ChannelConserves
    PublishedAddsUp
    CrashLosesOneInterval
PROPERTIES
    ImplementsCheckpoint
CHECK_DEADLOCK FALSE
