SPECIFICATION FairSpec
CONSTANTS
    Calls = {i1, o1}
    Inbound = {i1}
    Outbound = {o1}
    Requests = {r1, r2}
    NoCall = NoCall
    Prompt = TRUE
INVARIANTS
    NoResurrection
    VisitorKept
    InvitingInFlight
PROPERTIES
    LeavesOnlyWhenOver
    EveryRequestReturns
    StreamingIsShown
