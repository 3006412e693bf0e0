SPECIFICATION Spec
CONSTANTS
    visitor = visitor
    monitor = monitor
    first = first
    second = second
    None = None
    Incoming <- MCIncoming
    Outgoing <- MCOutgoing
    Toggles <- MCToggle
    AutoStart = TRUE
    MaxGestures = 1
INVARIANTS
    TypeOK
    OnePeer
    OfferPerGesture
    SessionClosed
CHECK_DEADLOCK FALSE
