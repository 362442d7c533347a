SPECIFICATION ConversionSpec
CONSTANTS
    Values <- SomeValues
    Angles <- SomeAngles
    Packets <- SomePackets
    None = None
    MaxValues = 2
INVARIANTS
    ReportDecodes
    PositionDecodes
    RowKeepsPacket
CHECK_DEADLOCK FALSE
