------------------------------ MODULE MCFutex ------------------------------
(* Instances of Futex for TLC: who may call what, on which words.          *)
EXTENDS Futex, TLC

CONSTANTS t1, t2, t3, w1, w2, w3, a1, a2, b1

MCHash == [a \in Addrs |-> IF a = a1 THEN 0 ELSE 1]
MCOwner == (w1 :> t1) @@ (w2 :> t2) @@ (w3 :> t3)
MCOwner2 == (w1 :> t1) @@ (w2 :> t1) @@ (w3 :> t3)
WakeAll == Cardinality(Waiters) + 1

Wait(a, v, bs) == [op |-> "wait", key |-> a, val |-> v, bitset |-> bs]
Wake(a, v, n, bs) == [op |-> "wake", key |-> a, val |-> v, n |-> n, bitset |-> bs]
Requeue(a, n, m, new) == [op |-> "requeue", key |-> a, n |-> n, m |-> m, new |-> new]

\* Waits and wake-ups on one word: wakers change it and wake everyone.
WaitWake ==
    {Wait(a1, v, Bits) : v \in Vals} \cup {Wake(a1, v, WakeAll, Bits) : v \in Vals}
WaitWakeCalls ==
    (t1 :> WaitWake) @@ (t2 :> {Wait(a1, 0, Bits), Wake(a1, 1, WakeAll, Bits)})
        @@ (t3 :> {Wake(a1, v, WakeAll, Bits) : v \in Vals})

\* One thread waits, over and over; one wakes a waiter of a2 and requeues another from
\* a2 to a1; the third waits once and requeues from a1 to a2, the other way.
RequeueCalls ==
    (t1 :> {Wait(a1, 0, Bits)})
        @@ (t2 :> {Requeue(a2, 1, 1, a1)})
        @@ (t3 :> {Wait(a1, 0, Bits), Requeue(a1, 0, 1, a2)})
=============================================================================
