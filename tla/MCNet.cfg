SPECIFICATION NetSpec
CONSTANTS
    Callers = {"a", "b", "c"}
    Programs <- StreamPrograms
    Cap = 2
    DCallers = {"a", "b"}
    DPrograms <- DgramPrograms
    QueueSize = 1
INVARIANTS
    SocketSleepersServed
    ReadinessShown
    ConnectionsExact
    NoDatagramLost
    CallsExact
CHECK_DEADLOCK FALSE
