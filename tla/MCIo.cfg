SPECIFICATION IoSpec
CONSTANTS
    Nothing = Nothing
    Threads = {"p1", "c1", "c2"}
    Side <- MCSide
    Calls <- MCCalls
    Capacity = 1
    Sizes = {1}
    MaxPushed = 2
    Nobody = "nobody"
    Requests = {"r1", "r2"}
    Slots = {1, 2}
    SqEntries = 2
    NoRequest = NoRequest
    CancelKey = 99
    Sockets = {"s1", "s2", "s3"}
    HostFds = {11, 12}
    UringLimit = 2
    Threshold = 1
    MaxOps = 1
    NoRing = 0
INVARIANTS
    NoLostWakeup
    NoEventMissed
    TokenMatchesRequest
    RegisteredExact
    ClocksExact
CHECK_DEADLOCK FALSE
