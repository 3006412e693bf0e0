SPECIFICATION FairSpec
CONSTANTS
    Clients = {k1, k2}
    First = k1
    NoClient = NoClient
    Requests = {r1, r2}
INVARIANTS
    TypeOK
    OneStack
    CommandMeetsNoRebuild
    MicIsWhatIsShown
    NothingLeftUp
PROPERTIES
    KeepsTrying
