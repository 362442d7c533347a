SPECIFICATION Spec
CONSTANTS
    Tasks = {"listener", "aprsis", "sse"}
    MinBackoff = 1
    MaxBackoff = 3
    MaxFails = 3
INVARIANTS
    TypeOK
    BackoffFollowsFailures
PROPERTIES
    ShutdownCompletes
    NoSilentTaskLoss
    TasksRecover
CHECK_DEADLOCK FALSE
