SPECIFICATION EntrySpec
CONSTANTS
    Requests = {r1, r2}
    Others = {o1}
    Default = Default
    Threshold = 3
    MaxWire = 2
    MaxTurns = 2
    MaxRefused = 3
SYMMETRY RequestSymmetry
INVARIANTS
    CounterUnbroken
    OriginTakenOnce
PROPERTIES
    
    AloneIsCredited
CHECK_DEADLOCK FALSE
