CONSTANTS
    t1 = t1
    t2 = t2
    p = p
    Threads = {t1, t2}
    Process = p
    NumStd = 2
    NumRt = 1
    Unblockable <- KillOnly
    Fatal <- AllFatal
    HandlerMask <- BlockingHandlers
    NoDefer = {}
    Masks <- SomeMasks
    InitialMask <- OneBlocks
    Actions <- SomeActions
    Programs <- MasksAndWaits
    StackDepth = 2
    MaxSent = 2

SPECIFICATION FairSpec

INVARIANTS
    MasksExact

PROPERTIES
    OneHandlerPerEntry
    KillTerminates
    UnblockedHandled

CHECK_DEADLOCK FALSE
