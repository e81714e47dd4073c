CONSTANTS
    t1 = t1 t2 = t2 t3 = t3
    w1 = w1 w2 = w2 w3 = w3
    a1 = a1 a2 = a2 b1 = b1
    Threads = {t1, t2, t3}
    Waiters = {w1, w2, w3}
    Owner <- MCOwner2
    Addrs = {a1, a2}
    Vals = {0}
    Bits = {b1}
    Buckets = {0, 1}
    Hash <- MCHash
    Calls <- RequeueCalls
    NoThread = NoThread NoWaiter = NoWaiter NoCall = NoCall
SPECIFICATION FairSpec
INVARIANTS NoSleeperLost StaleItemsWoken
PROPERTIES WakersFinish
