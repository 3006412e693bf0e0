SPECIFICATION FairSpec
CONSTANTS
    Depth = 2
    MaxPackets = 3
INVARIANTS
    NotClosedUnderReader
    NothingLeftBehind
PROPERTIES
    IsMediaLine
    RecorderFreed
    TeardownEnds
CHECK_DEADLOCK FALSE
