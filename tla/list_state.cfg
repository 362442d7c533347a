SPECIFICATION Spec
CONSTANTS
    Frames <- AllFrames
    Keys <- SomeKeys
    Keep <- SomeKeep
    SatKeep = 1
    PacketKeep = 1
    MaxRows = 1
    MaxTime = 3
    MaxFrames = 3
    MaxTicks = 2
    MaxRuns = 2
    MaxFaults = 1
INVARIANTS
    TypeOK
    RowsMirrored
    CrashLosesOneTick
    SatLogMirrored
PROPERTIES
    StopLosesNothing
    ImplementsCheckpoint
    HitsSurvive
CHECK_DEADLOCK FALSE
