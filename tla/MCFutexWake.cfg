CONSTANTS
    t1 = t1 t2 = t2 t3 = t3
    w1 = w1 w2 = w2 w3 = w3
    a1 = a1 a2 = a2 b1 = b1
    Threads = {t1, t2, t3}
    Waiters = {w1, w2, w3}
    Owner <- MCOwner
    Addrs = {a1}
    Vals = {0, 1}
    Bits = {b1}
    Buckets = {0}
    Hash <- MCHash
    Calls <- WaitWakeCalls
    NoThread = NoThread NoWaiter = NoWaiter NoCall = NoCall
SPECIFICATION FairSpec
INVARIANTS NoMissedWake
PROPERTIES WokenReturns
