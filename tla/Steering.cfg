SPECIFICATION RouterSpec
CONSTANTS
    Requests = {r1, r2}
    Reporters = {p1}
    MaxSteers = 2
    MayCancel = TRUE
INVARIANTS
    TypeOK
    SocketStable
    EpochAgrees
    RouterAttached
PROPERTIES
    ReplyReachesRequest
    ImplementsSharedSocket
