SPECIFICATION Spec
CONSTANTS
    Clients = {k1, k2}
    First = k1
    NoClient = NoClient
    Requests = {r1}
INVARIANT NeverOpenBehindOwner
