SPECIFICATION Spec
CONSTANTS
    Unreadable = Unreadable
    NoConfig = NoConfig
    Files <- SomeFiles
INVARIANTS
    TypeOK
    WritesVerified
    RunsAsConfigured
PROPERTIES
    RepairedServes
