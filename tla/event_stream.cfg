SPECIFICATION FairSpec
CONSTANTS
    Conns = {c1, c2}
    NoConn = NoConn
    Capacity = 2
    Room = 0
    MaxEvents = 4
    MaxLosses = 1
INVARIANTS
    EndAwaitsReader
    NeverOlderThanLink
PROPERTIES
    IsFeed
    CatchesUp
CHECK_DEADLOCK FALSE
