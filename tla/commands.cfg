SPECIFICATION Spec
CONSTANTS
    p1 = p1
    p2 = p2
    ring = ring
    monitor = monitor
    ours = ours
    shared = shared
    unknown = unknown
    area = area
    None = None
    Requests = {r1, r2}
    Panels <- MCPanels
    Incoming <- MCIncoming
    Outgoing <- MCOutgoing
    Home <- MCHome
    Targets <- MCTargets
    Owned <- MCOwned
SYMMETRY RequestSymmetry
INVARIANTS
    OnlyWhatWasMeant
    NeverOverclaims
CHECK_DEADLOCK FALSE
