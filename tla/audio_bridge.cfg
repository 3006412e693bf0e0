SPECIFICATION FairSpec
CONSTANTS
    Backlog = 2
    MaxFrames = 4
    MaxPushes = 3
INVARIANTS
    NoLostWakeUp
    LossesAreCounted
PROPERTIES
    AreMediaLines
    VoiceMoves
CHECK_DEADLOCK FALSE
