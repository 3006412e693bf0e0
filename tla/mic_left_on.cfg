SPECIFICATION Spec
CONSTANTS
    visitor = visitor
    monitor = monitor
    first = first
    second = second
    None = None
    Incoming <- MCIncoming
    Outgoing <- MCOutgoing
    Toggles <- MCToggles
    AutoStart = TRUE
    MaxGestures = 1
INVARIANTS
    MicReleased
CHECK_DEADLOCK FALSE
