------------------------------ MODULE IoProofs ------------------------------
(***************************************************************************)
(* Proofs about the channel behind pipes and Unix sockets, that no wakeup  *)
(* of a reader or writer is lost; about io_uring-callback, that every      *)
(* completion finds the token of its request; and about the UDP socket,    *)
(* that the one receive buffer loses no datagram.                          *)
(***************************************************************************)
EXTENDS Channel, IoUring, Datagram, TLAPS
USE ZenonT(40)

(***************************************************************************)
(* The channel.                                                            *)
(***************************************************************************)
\* A thread in the loop of a call has something to transfer; a thread has a waiter when it
\* comes to enqueue itself and none outside of calls; and one that uses the ring buffer holds
\* its endpoint's lock.
Looping == {"lock", "transfer", "empty", "reset", "enqueue", "wait", "poll"}
LoopInv ==
    \A t \in Threads :
        /\ pc[t] \in Looping => size[t] > 0
        /\ pc[t] = "user" => ~waiting[t]
        /\ pc[t] \in {"reset", "enqueue", "wait", "poll"} => waiting[t]
        /\ pc[t] \in {"transfer", "empty"} => lock[Side[t]] = t
        /\ pc[t] = "drain" => Len(toNotify[t]) > 0

\* A waiter that has been enqueued and not woken since can be woken: its waker is in the
\* queue, or somebody has taken it out to wake it.
Armed(t) == pc[t] \in {"lock", "transfer", "empty", "wait", "poll"} /\ waiting[t] /\ ~woken[t]
Reachable(t) == t \in wakers[Side[t]] \/ \E u \in Threads : Taken(u, t)

\* What changed since the thread looked at it: it reads the flags of shutdown with the lock,
\* then the ring buffer, then the other flags.
Missed(t) ==
    \/ pc[t] \in {"transfer", "empty", "wait", "poll"} /\ Refused(Side[t])
    \/ pc[t] \in {"empty", "wait", "poll"} /\ Room(Side[t]) > 0
    \/ pc[t] \in {"wait", "poll"} /\ (shut["producer"] \/ nonblocking[Side[t]])

WakeInv == \A t \in Threads : Armed(t) => Reachable(t) /\ (Missed(t) => AboutToBeWoken(t))

ChanInv == TypeOK /\ LoopInv /\ WakeInv

-----------------------------------------------------------------------------
\* Ends and queues, spelled out.
LEMMA Basics ==
    /\ \A t \in Threads : Side[t] \in Ends /\ Peer(Side[t]) \in Ends /\ t # Nobody
    /\ \A e, f \in Ends : e # f => f = Peer(e)
    /\ \A q \in Queues : Len(q) > 0 => q[1] \in Ends
    /\ \A q \in Queues : Len(q) = 2 => q[2] \in Ends /\ <<q[2]>> \in Queues
    /\ \A q \in Queues : Len(q) \in {0, 1, 2}
  BY ChannelAssumption, SMT DEF Ends, Peer, Queues

LEMMA InvImplies == ChanInv => NoLostWakeup
<1> SUFFICES ASSUME ChanInv, NEW t \in Threads, Asleep(t), Ready(t)
             PROVE  AboutToBeWoken(t)
  BY DEF NoLostWakeup
<1>1. pc[t] \in {"wait", "poll"} /\ ~woken[t]
  BY DEF Asleep
<1>2. waiting[t]
  BY <1>1 DEF ChanInv, LoopInv
<1>3. Armed(t) /\ Missed(t)
  BY <1>1, <1>2 DEF Armed, Missed, Ready
<1>4. QED
  BY <1>3 DEF ChanInv, WakeInv

LEMMA InitInv == Init => ChanInv
<1> SUFFICES ASSUME Init PROVE ChanInv
  OBVIOUS
<1>1. TypeOK
  BY ChannelAssumption, SMT DEF Init, TypeOK, Ends, Labels, Queues
<1>2. LoopInv
  BY Zenon DEF Init, LoopInv, Looping
<1>3. WakeInv
  BY DEF Init, WakeInv, Armed
<1>4. QED
  BY <1>1, <1>2, <1>3 DEF ChanInv

-----------------------------------------------------------------------------
(* What a step of a leaves alone *)

\* The other threads, and their wakers, are where they were.
OthersStay(a) ==
    /\ \A t \in Threads \ {a} :
          /\ pc'[t] = pc[t] /\ woken'[t] = woken[t] /\ waiting'[t] = waiting[t]
          /\ size'[t] = size[t] /\ toNotify'[t] = toNotify[t]
    /\ \A t \in Threads \ {a}, u \in Threads : t \in toWake'[u] <=> t \in toWake[u]
    /\ \A t \in Threads \ {a}, e \in Ends : t \in wakers'[e] <=> t \in wakers[e]

\* A step of a thread that wakes nobody leaves the others reachable, and those that were about
\* to be woken still are.
LEMMA StayReachable ==
    ASSUME NEW a \in Threads, OthersStay(a), pc[a] \notin {"drain", "mark", "write"},
           NEW t \in Threads \ {a}
    PROVE  /\ Reachable(t) => Reachable(t)'
           /\ AboutToBeWoken(t) => AboutToBeWoken(t)'
<1>1. Side[t] \in Ends
  BY Basics
<1>2. \A u \in Threads : Taken(u, t) => Taken(u, t)'
  BY DEF OthersStay, Taken
<1>3. \A u \in Threads, e \in Ends : Notifying(u, e) => Notifying(u, e)'
  BY DEF OthersStay, Notifying
<1>4. t \in wakers[Side[t]] => t \in wakers'[Side[t]]
  BY <1>1 DEF OthersStay
<1>5. Reachable(t) => Reachable(t)'
  BY <1>2, <1>4 DEF Reachable
<1>6. AboutToBeWoken(t) => AboutToBeWoken(t)'
  BY <1>1, <1>2, <1>3, <1>4 DEF AboutToBeWoken
<1>7. QED
  BY <1>5, <1>6

\* So does the thread itself, if it leaves the wakers alone.
LEMMA StayReachableItself ==
    ASSUME NEW a \in Threads, OthersStay(a), pc[a] \notin {"drain", "mark", "write"},
           UNCHANGED <<wakers, toWake>>
    PROVE  /\ Reachable(a) => Reachable(a)'
           /\ AboutToBeWoken(a) => AboutToBeWoken(a)'
<1>1. \A u \in Threads : Taken(u, a) => Taken(u, a)'
  BY DEF Taken, OthersStay
<1>2. \A u \in Threads : Notifying(u, Side[a]) => Notifying(u, Side[a])'
  BY DEF Notifying, OthersStay
<1>3. QED
  BY <1>1, <1>2 DEF Reachable, AboutToBeWoken

\* WakeInv after a step of a that wakes nobody and leaves the others what they have seen: it
\* is enough to look at a.
LEMMA QuietStep ==
    ASSUME ChanInv, NEW a \in Threads, OthersStay(a), pc[a] \notin {"drain", "mark", "write"},
           \A t \in Threads \ {a} : Armed(t) /\ Missed(t)' => Missed(t) \/ Notifying(a, Side[t])',
           Armed(a)' => Reachable(a)' /\ (Missed(a)' => AboutToBeWoken(a)')
    PROVE  WakeInv'
<1> SUFFICES ASSUME NEW t \in Threads, Armed(t)'
             PROVE  Reachable(t)' /\ (Missed(t)' => AboutToBeWoken(t)')
  BY DEF WakeInv
<1>1. CASE t = a
  BY <1>1
<1>2. CASE t # a
  <2>1. Armed(t)
    BY <1>2 DEF Armed, OthersStay
  <2>2. Reachable(t) /\ (Missed(t) => AboutToBeWoken(t))
    BY <2>1 DEF ChanInv, WakeInv
  <2>3. Reachable(t)' /\ (AboutToBeWoken(t) => AboutToBeWoken(t)')
    BY <1>2, <2>2, StayReachable
  <2>4. Notifying(a, Side[t])' => AboutToBeWoken(t)'
    BY <2>3 DEF AboutToBeWoken, Reachable
  <2>5. QED
    BY <1>2, <2>1, <2>2, <2>3, <2>4
<1>3. QED
  BY <1>1, <1>2

\* The same for a step that does not touch the channel itself.
LEMMA LocalStep ==
    ASSUME ChanInv, NEW a \in Threads, OthersStay(a), pc[a] \notin {"drain", "mark", "write"},
           UNCHANGED <<len, shut, nonblocking>>,
           Armed(a)' => Reachable(a)' /\ (Missed(a)' => AboutToBeWoken(a)')
    PROVE  WakeInv'
<1>1. ASSUME NEW t \in Threads \ {a}, Missed(t)'
      PROVE  Missed(t)
  BY <1>1 DEF OthersStay, Missed, Refused, Room
<1>2. QED
  BY <1>1, QuietStep

\* The thread that returns drops its waiter.
LEMMA ReturnStays ==
    ASSUME TypeOK, NEW a \in Threads, Return(a), \A t \in Threads \ {a} : toNotify'[t] = toNotify[t]
    PROVE  /\ OthersStay(a)
           /\ pc' \in [Threads -> Labels] /\ pc'[a] = "user"
           /\ size' \in [Threads -> Nat] /\ waiting' \in [Threads -> BOOLEAN] /\ ~waiting'[a]
           /\ wakers' \in [Ends -> SUBSET Threads] /\ woken' \in [Threads -> BOOLEAN]
           /\ toWake' \in [Threads -> SUBSET Threads]
<1>1. /\ pc' = [pc EXCEPT ![a] = "user"] /\ size' = [size EXCEPT ![a] = 0]
      /\ waiting' = [waiting EXCEPT ![a] = FALSE] /\ woken' = [woken EXCEPT ![a] = FALSE]
      /\ wakers' = [e \in Ends |-> wakers[e] \ {a}]
      /\ toWake' = [u \in Threads |-> toWake[u] \ {a}]
  BY DEF Return, Leave, Goto
<1>2. OthersStay(a)
  BY <1>1 DEF OthersStay, TypeOK
<1>3. /\ pc' \in [Threads -> Labels] /\ pc'[a] = "user"
      /\ size' \in [Threads -> Nat]
      /\ wakers' \in [Ends -> SUBSET Threads] /\ toWake' \in [Threads -> SUBSET Threads]
  BY <1>1 DEF TypeOK, Labels
<1>4. waiting' \in [Threads -> BOOLEAN] /\ ~waiting'[a] /\ woken' \in [Threads -> BOOLEAN]
  BY <1>1 DEF TypeOK
<1>5. QED
  BY <1>2, <1>3, <1>4

-----------------------------------------------------------------------------
(* The steps *)

LEMMA CallStep ==
    ASSUME ChanInv, NEW a \in Threads, Call(a)
    PROVE  ChanInv'
<1>1. /\ pc[a] = "user" /\ pc' = [pc EXCEPT ![a] = "lock"]
      /\ UNCHANGED <<len, pushed, shut, nonblocking, lock, wakers, woken, event, waiting, toNotify,
                     toWake, toWrite>>
  BY DEF Call, Goto, chanVars
<1>2. PICK n \in Nat \ {0} : size' = [size EXCEPT ![a] = n]
  BY ChannelAssumption, Zenon DEF Call
<1>3. TypeOK'
  BY <1>1, <1>2 DEF ChanInv, TypeOK, Labels
<1>4. LoopInv'
  BY <1>1, <1>2, SMT DEF ChanInv, TypeOK, LoopInv, Looping
<1>5. OthersStay(a)
  BY <1>1, <1>2 DEF OthersStay, ChanInv, TypeOK
<1>6. ~waiting'[a]
  BY <1>1 DEF ChanInv, LoopInv
<1>7. WakeInv'
  BY <1>1, <1>5, <1>6, LocalStep DEF Armed
<1>8. QED
  BY <1>3, <1>4, <1>7 DEF ChanInv

LEMMA LockStep ==
    ASSUME ChanInv, NEW a \in Threads, LockAndCheck(a)
    PROVE  ChanInv'
<1>1. /\ pc[a] = "lock" /\ lock[Side[a]] = Nobody
      /\ UNCHANGED <<len, pushed, shut, nonblocking, event, toNotify, toWrite>>
  BY DEF LockAndCheck, chanVars
<1>2. Side[a] \in Ends /\ \A t \in Threads : t # Nobody
  BY Basics
<1>3. CASE Refused(Side[a])
  <2>1. Return(a) /\ UNCHANGED lock
    BY <1>3 DEF LockAndCheck
  <2>2. /\ OthersStay(a)
        /\ pc' \in [Threads -> Labels] /\ pc'[a] = "user"
        /\ size' \in [Threads -> Nat] /\ waiting' \in [Threads -> BOOLEAN] /\ ~waiting'[a]
        /\ wakers' \in [Ends -> SUBSET Threads] /\ woken' \in [Threads -> BOOLEAN]
        /\ toWake' \in [Threads -> SUBSET Threads]
    BY <1>1, <2>1, ReturnStays DEF ChanInv
  <2>3. TypeOK'
    BY <1>1, <2>1, <2>2 DEF ChanInv, TypeOK
  <2>4. LoopInv'
    BY <1>1, <2>1, <2>2 DEF ChanInv, LoopInv, OthersStay, Looping
  <2>5. WakeInv'
    BY <1>1, <2>2, LocalStep DEF Armed
  <2>6. QED
    BY <2>3, <2>4, <2>5 DEF ChanInv
<1>4. CASE ~Refused(Side[a])
  <2>1. /\ lock' = [lock EXCEPT ![Side[a]] = a] /\ pc' = [pc EXCEPT ![a] = "transfer"]
        /\ UNCHANGED <<wakers, woken, size, waiting, toWake>>
    BY <1>4 DEF LockAndCheck, Goto
  <2>2. TypeOK'
    BY <1>1, <2>1, Zenon DEF ChanInv, TypeOK, Labels
  <2>3. OthersStay(a) /\ pc'[a] = "transfer"
    BY <1>1, <2>1 DEF OthersStay, ChanInv, TypeOK
  <2>4. LoopInv'
    BY <1>1, <1>2, <2>1, <2>3, SMT DEF ChanInv, TypeOK, LoopInv, OthersStay, Looping
  <2>5. Armed(a)' => Reachable(a)'
    <3>1. Armed(a)' => Armed(a)
      BY <1>1, <2>1 DEF Armed
    <3>2. QED
      BY <1>1, <2>1, <2>3, <3>1, StayReachableItself DEF ChanInv, WakeInv
  <2>6. ~Missed(a)'
    BY <1>1, <1>4, <2>3 DEF Missed, Refused
  <2>7. WakeInv'
    BY <1>1, <2>3, <2>5, <2>6, LocalStep
  <2>8. QED
    BY <2>2, <2>4, <2>7 DEF ChanInv
<1>5. QED
  BY <1>3, <1>4

\* A transfer at one end makes room at the other, whose threads it is about to wake; the other
\* threads of its own end do not use the ring buffer meanwhile.
LEMMA TransferStep ==
    ASSUME ChanInv, NEW a \in Threads, Transfer(a)
    PROVE  ChanInv'
<1> DEFINE n == Min2(size[a], Room(Side[a]))
<1>1. /\ pc[a] = "transfer"
      /\ UNCHANGED <<shut, nonblocking, wakers, woken, event, size, waiting, toWake, toWrite>>
  BY DEF Transfer
<1>2. /\ Side[a] \in Ends /\ Peer(Side[a]) \in Ends /\ lock[Side[a]] = a
      /\ size[a] \in Nat /\ size[a] > 0 /\ len \in Nat /\ len <= Capacity /\ Capacity \in Nat
  BY <1>1, Basics, ChannelAssumption, SMT DEF ChanInv, TypeOK, LoopInv, Looping
<1>3. Room(Side[a]) \in Nat /\ n \in Nat /\ n <= Room(Side[a]) /\ (n = 0 => Room(Side[a]) = 0)
  BY <1>2, SMT DEF Room, Min2
<1>4. CASE n > 0
  <2>1. /\ IF Side[a] = "producer" THEN len' = len + n /\ pushed' = pushed + n
                                   ELSE len' = len - n /\ UNCHANGED pushed
        /\ lock' = [lock EXCEPT ![Side[a]] = Nobody] /\ pc' = [pc EXCEPT ![a] = "drain"]
        /\ toNotify' = [toNotify EXCEPT ![a] = <<Peer(Side[a])>>]
    BY <1>4 DEF Transfer, Goto, Unlock
  <2> HIDE DEF n
  <2>2. len' \in 0 .. Capacity /\ pushed' \in Nat
    BY <1>2, <1>3, <2>1, SMT DEF Room, ChanInv, TypeOK
  <2>3. <<Peer(Side[a])>> \in Queues
    BY <1>2, SMT DEF Queues
  <2>4. TypeOK'
    BY <1>1, <2>1, <2>2, <2>3, Zenon DEF ChanInv, TypeOK, Labels
  <2>5. OthersStay(a) /\ pc'[a] = "drain" /\ toNotify'[a] = <<Peer(Side[a])>>
    BY <1>1, <2>1 DEF OthersStay, ChanInv, TypeOK
  <2>6. \A t \in Threads \ {a} : pc[t] \in {"transfer", "empty"} => Side[t] # Side[a]
    BY <1>2 DEF ChanInv, LoopInv
  <2>7. LoopInv'
    <3>1. \A t \in Threads \ {a} : pc[t] \in {"transfer", "empty"} => lock'[Side[t]] = t
      BY <1>2, <2>1, <2>6, Basics DEF ChanInv, LoopInv, TypeOK
    <3>2. Len(toNotify'[a]) > 0
      BY <2>5, SMT
    <3>3. QED
      BY <1>1, <2>5, <3>1, <3>2 DEF ChanInv, LoopInv, OthersStay, Looping
  <2>8. ASSUME NEW t \in Threads \ {a}, Missed(t)'
        PROVE  Missed(t) \/ Notifying(a, Side[t])'
    <3>1. CASE Side[t] = Side[a]
      <4>1. Room(Side[t])' > 0 => Room(Side[t]) > 0
        BY <1>2, <1>3, <2>1, <3>1, SMT DEF Room
      <4>2. QED
        BY <1>1, <2>5, <2>8, <4>1 DEF Missed, OthersStay, Refused
    <3>2. CASE Side[t] # Side[a]
      BY <2>5, <3>2, Basics, SMT DEF Notifying
    <3>3. QED
      BY <3>1, <3>2
  <2>9. WakeInv'
    BY <1>1, <2>5, <2>8, QuietStep DEF Armed
  <2>10. QED
    BY <2>4, <2>7, <2>9 DEF ChanInv
<1>5. CASE ~(n > 0)
  <2>1. pc' = [pc EXCEPT ![a] = "empty"] /\ UNCHANGED <<len, pushed, lock, toNotify>>
    BY <1>5 DEF Transfer, Goto
  <2>2. Room(Side[a]) = 0
    BY <1>3, <1>5, SMT
  <2> HIDE DEF n
  <2>3. TypeOK'
    BY <1>1, <2>1 DEF ChanInv, TypeOK, Labels
  <2>4. OthersStay(a) /\ pc'[a] = "empty"
    BY <1>1, <2>1 DEF OthersStay, ChanInv, TypeOK
  <2>5. LoopInv'
    BY <1>1, <2>1, <2>4 DEF ChanInv, LoopInv, OthersStay, Looping
  <2>6. Armed(a)' => Armed(a)
    BY <1>1, <2>1 DEF Armed
  <2>7. Missed(a)' => Missed(a)
    BY <1>1, <2>1, <2>2, <2>4, SMT DEF Missed, Refused, Room
  <2>8. (Reachable(a) => Reachable(a)') /\ (AboutToBeWoken(a) => AboutToBeWoken(a)')
    BY <1>1, <2>1, <2>4, StayReachableItself
  <2>9. WakeInv'
    BY <1>1, <2>1, <2>4, <2>6, <2>7, <2>8, LocalStep DEF ChanInv, WakeInv
  <2>10. QED
    BY <2>3, <2>5, <2>9 DEF ChanInv
<1>6. QED
  BY <1>4, <1>5

LEMMA NothingStep ==
    ASSUME ChanInv, NEW a \in Threads, NothingDone(a)
    PROVE  ChanInv'
<1>1. /\ pc[a] = "empty" /\ lock' = [lock EXCEPT ![Side[a]] = Nobody]
      /\ UNCHANGED <<len, pushed, shut, nonblocking, event, toNotify, toWrite>>
  BY DEF NothingDone, chanVars, Unlock
<1>2. Side[a] \in Ends /\ lock[Side[a]] = a
  BY <1>1, Basics DEF ChanInv, LoopInv
<1>3. /\ lock' \in [Ends -> Threads \cup {Nobody}]
      /\ \A t \in Threads \ {a} : pc[t] \in {"transfer", "empty"} => lock'[Side[t]] = t
  BY <1>1, <1>2, Basics DEF ChanInv, LoopInv, TypeOK
<1> DEFINE ends == nonblocking[Side[a]] \/ (Side[a] = "consumer" /\ shut["producer"])
<1>4. CASE ends
  <2>1. Return(a)
    BY <1>4 DEF NothingDone
  <2>2. /\ OthersStay(a)
        /\ pc' \in [Threads -> Labels] /\ pc'[a] = "user"
        /\ size' \in [Threads -> Nat] /\ waiting' \in [Threads -> BOOLEAN] /\ ~waiting'[a]
        /\ wakers' \in [Ends -> SUBSET Threads] /\ woken' \in [Threads -> BOOLEAN]
        /\ toWake' \in [Threads -> SUBSET Threads]
    BY <1>1, <2>1, ReturnStays DEF ChanInv
  <2>3. TypeOK'
    BY <1>1, <1>3, <2>2 DEF ChanInv, TypeOK
  <2>4. LoopInv'
    BY <1>1, <1>3, <2>2 DEF ChanInv, LoopInv, OthersStay, Looping
  <2>5. WakeInv'
    BY <1>1, <2>2, LocalStep DEF Armed
  <2>6. QED
    BY <2>3, <2>4, <2>5 DEF ChanInv
<1>5. CASE ~ends
  <2>1. /\ pc' = [pc EXCEPT ![a] = IF waiting[a] THEN "wait" ELSE "reset"]
        /\ waiting' = [waiting EXCEPT ![a] = TRUE]
        /\ UNCHANGED <<wakers, woken, size, toWake>>
    BY <1>5 DEF NothingDone, Goto
  <2>2. pc'[a] \in {"wait", "reset"} /\ (pc'[a] = "wait" => waiting[a]) /\ waiting'[a]
    BY <2>1 DEF ChanInv, TypeOK
  <2>3. TypeOK'
    <3>1. pc' \in [Threads -> Labels]
      BY <2>1 DEF ChanInv, TypeOK, Labels
    <3>2. waiting' \in [Threads -> BOOLEAN]
      BY <2>1 DEF ChanInv, TypeOK
    <3>3. QED
      BY <1>1, <1>3, <2>1, <3>1, <3>2 DEF ChanInv, TypeOK
  <2>4. OthersStay(a)
    BY <1>1, <2>1 DEF OthersStay, ChanInv, TypeOK
  <2>5. LoopInv'
    BY <1>1, <1>3, <2>1, <2>2, <2>4, SMT DEF ChanInv, LoopInv, OthersStay, Looping
  <2>6. Armed(a)' => Armed(a)
    BY <1>1, <2>1, <2>2 DEF Armed
  <2>7. pc'[a] = "wait" /\ Missed(a)' => Missed(a)
    BY <1>1, <1>2, <1>5, <2>2 DEF Missed, Refused, Room, Ends
  <2>8. (Reachable(a) => Reachable(a)') /\ (AboutToBeWoken(a) => AboutToBeWoken(a)')
    BY <1>1, <2>1, <2>4, StayReachableItself
  <2>9. Armed(a)' => pc'[a] = "wait"
    BY <2>2 DEF Armed
  <2>10. WakeInv'
    BY <1>1, <2>4, <2>6, <2>7, <2>8, <2>9, LocalStep DEF ChanInv, WakeInv
  <2>11. QED
    BY <2>3, <2>5, <2>10 DEF ChanInv
<1>6. QED
  BY <1>4, <1>5

LEMMA ResetStep ==
    ASSUME ChanInv, NEW a \in Threads, Reset(a)
    PROVE  ChanInv'
<1>1. /\ pc[a] = "reset" /\ pc' = [pc EXCEPT ![a] = "enqueue"] /\ woken' = [woken EXCEPT ![a] = FALSE]
      /\ UNCHANGED <<len, pushed, shut, nonblocking, lock, wakers, event, size, waiting, toNotify,
                     toWake, toWrite>>
  BY DEF Reset, Goto, chanVars
<1>2. TypeOK'
  <2>1. woken' \in [Threads -> BOOLEAN]
    BY <1>1 DEF ChanInv, TypeOK
  <2>2. QED
    BY <1>1, <2>1 DEF ChanInv, TypeOK, Labels
<1>3. OthersStay(a) /\ pc'[a] = "enqueue"
  BY <1>1 DEF OthersStay, ChanInv, TypeOK
<1>4. LoopInv'
  BY <1>1, <1>3 DEF ChanInv, LoopInv, OthersStay, Looping
<1>5. WakeInv'
  BY <1>1, <1>3, LocalStep DEF Armed
<1>6. QED
  BY <1>2, <1>4, <1>5 DEF ChanInv

LEMMA EnqueueStep ==
    ASSUME ChanInv, NEW a \in Threads, Enqueue(a)
    PROVE  ChanInv'
<1>1. /\ pc[a] = "enqueue" /\ pc' = [pc EXCEPT ![a] = "lock"]
      /\ wakers' = [wakers EXCEPT ![Side[a]] = @ \cup {a}]
      /\ UNCHANGED <<len, pushed, shut, nonblocking, lock, woken, event, size, waiting, toNotify,
                     toWake, toWrite>>
  BY DEF Enqueue, Goto, chanVars
<1>2. Side[a] \in Ends
  BY Basics
<1>3. TypeOK'
  BY <1>1, <1>2 DEF ChanInv, TypeOK, Labels
<1>4. OthersStay(a) /\ pc'[a] = "lock" /\ a \in wakers'[Side[a]]
  BY <1>1, <1>2 DEF OthersStay, ChanInv, TypeOK
<1>5. LoopInv'
  BY <1>1, <1>4 DEF ChanInv, LoopInv, OthersStay, Looping
<1>6. Reachable(a)' /\ ~Missed(a)'
  BY <1>4 DEF Reachable, Missed
<1>7. WakeInv'
  BY <1>1, <1>4, <1>6, LocalStep
<1>8. QED
  BY <1>3, <1>5, <1>7 DEF ChanInv

LEMMA WaitStep ==
    ASSUME ChanInv, NEW a \in Threads, Wait(a)
    PROVE  ChanInv'
<1>1. /\ pc[a] = "wait" /\ pc' = [pc EXCEPT ![a] = IF woken[a] THEN "reset" ELSE "poll"]
      /\ UNCHANGED <<len, pushed, shut, nonblocking, lock, wakers, woken, event, size, waiting,
                     toNotify, toWake, toWrite>>
  BY DEF Wait, Goto, chanVars
<1>2. TypeOK'
  BY <1>1 DEF ChanInv, TypeOK, Labels
<1>3. OthersStay(a) /\ pc'[a] \in {"reset", "poll"}
  BY <1>1 DEF OthersStay, ChanInv, TypeOK
<1>4. LoopInv'
  BY <1>1, <1>3 DEF ChanInv, LoopInv, OthersStay, Looping
<1>5. (Armed(a)' => Armed(a)) /\ (Missed(a)' => Missed(a))
  BY <1>1, <1>3 DEF Armed, Missed, Refused, Room
<1>6. WakeInv'
  BY <1>1, <1>3, <1>5, StayReachableItself, LocalStep DEF ChanInv, WakeInv
<1>7. QED
  BY <1>2, <1>4, <1>6 DEF ChanInv

LEMMA PollStep ==
    ASSUME ChanInv, NEW a \in Threads, Poll(a)
    PROVE  ChanInv'
<1>1. /\ pc[a] = "poll" /\ pc' = [pc EXCEPT ![a] = "wait"] /\ event' = [event EXCEPT ![a] = FALSE]
      /\ UNCHANGED <<len, pushed, shut, nonblocking, lock, wakers, woken, size, waiting, toNotify,
                     toWake, toWrite>>
  BY DEF Poll, Goto, chanVars
<1>2. TypeOK'
  <2>1. event' \in [Threads -> BOOLEAN]
    BY <1>1 DEF ChanInv, TypeOK
  <2>2. QED
    BY <1>1, <2>1 DEF ChanInv, TypeOK, Labels
<1>3. OthersStay(a) /\ pc'[a] = "wait"
  BY <1>1 DEF OthersStay, ChanInv, TypeOK
<1>4. LoopInv'
  BY <1>1, <1>3 DEF ChanInv, LoopInv, OthersStay, Looping
<1>5. (Armed(a)' => Armed(a)) /\ (Missed(a)' => Missed(a))
  BY <1>1, <1>3 DEF Armed, Missed, Refused, Room
<1>6. WakeInv'
  BY <1>1, <1>3, <1>5, StayReachableItself, LocalStep DEF ChanInv, WakeInv
<1>7. QED
  BY <1>2, <1>4, <1>6 DEF ChanInv

LEMMA InterruptedStep ==
    ASSUME ChanInv, NEW a \in Threads, Interrupted(a)
    PROVE  ChanInv'
<1>1. /\ pc[a] = "poll" /\ Return(a)
      /\ UNCHANGED <<len, pushed, shut, nonblocking, lock, event, toNotify, toWrite>>
  BY DEF Interrupted, chanVars
<1>2. /\ OthersStay(a)
      /\ pc' \in [Threads -> Labels] /\ pc'[a] = "user"
      /\ size' \in [Threads -> Nat] /\ waiting' \in [Threads -> BOOLEAN] /\ ~waiting'[a]
      /\ wakers' \in [Ends -> SUBSET Threads] /\ woken' \in [Threads -> BOOLEAN]
      /\ toWake' \in [Threads -> SUBSET Threads]
  BY <1>1, ReturnStays DEF ChanInv
<1>3. TypeOK'
  BY <1>1, <1>2 DEF ChanInv, TypeOK
<1>4. LoopInv'
  BY <1>1, <1>2, Zenon DEF ChanInv, LoopInv, OthersStay, Looping
<1>5. WakeInv'
  BY <1>1, <1>2, LocalStep DEF Armed
<1>6. QED
  BY <1>3, <1>4, <1>5 DEF ChanInv

\* Whoever was in the queue is now taken out of it to be woken.
LEMMA DrainStep ==
    ASSUME ChanInv, NEW a \in Threads, Drain(a)
    PROVE  ChanInv'
<1> DEFINE e == toNotify[a][1]
<1>1. /\ pc[a] = "drain" /\ pc' = [pc EXCEPT ![a] = "mark"]
      /\ toWake' = [toWake EXCEPT ![a] = wakers[e]] /\ wakers' = [wakers EXCEPT ![e] = {}]
      /\ UNCHANGED <<len, pushed, shut, nonblocking, lock, woken, event, size, waiting, toNotify,
                     toWrite>>
  BY DEF Drain, Goto, chanVars
<1>2. e \in Ends
  BY <1>1, Basics DEF ChanInv, TypeOK, LoopInv
<1> HIDE DEF e
<1>3. /\ pc'[a] = "mark" /\ \A t \in Threads \ {a} : pc'[t] = pc[t]
      /\ toWake'[a] = wakers[e] /\ \A t \in Threads \ {a} : toWake'[t] = toWake[t]
      /\ \A f \in Ends \ {e} : wakers'[f] = wakers[f]
  BY <1>1, <1>2 DEF ChanInv, TypeOK
<1>4. TypeOK'
  BY <1>1, <1>2 DEF ChanInv, TypeOK, Labels
<1>5. LoopInv'
  BY <1>1, <1>3 DEF ChanInv, LoopInv, Looping
<1>6. ASSUME NEW t \in Threads, Armed(t)'
      PROVE  Reachable(t)' /\ (Missed(t)' => AboutToBeWoken(t)')
  <2>1. t # a /\ Armed(t) /\ (Missed(t)' => Missed(t)) /\ Side[t] \in Ends
    BY <1>1, <1>3, <1>6, Basics DEF Armed, Missed, Refused, Room
  <2>2. \A u \in Threads : Taken(u, t) => Taken(u, t)'
    BY <1>1, <1>3 DEF Taken
  <2>3. t \in wakers[e] => Taken(a, t)'
    BY <1>3 DEF Taken
  <2>4. Reachable(t)'
    BY <1>3, <2>1, <2>2, <2>3 DEF ChanInv, WakeInv, Reachable
  <2>5. \A u \in Threads : Side[t] # e /\ Notifying(u, Side[t]) => Notifying(u, Side[t])'
    BY <1>1, <1>3 DEF Notifying, e
  <2>6. AboutToBeWoken(t) => AboutToBeWoken(t)'
    BY <1>3, <2>1, <2>2, <2>3, <2>5 DEF AboutToBeWoken
  <2>7. QED
    BY <2>1, <2>4, <2>6 DEF ChanInv, WakeInv
<1>7. QED
  BY <1>4, <1>5, <1>6 DEF ChanInv, WakeInv

LEMMA MarkStep ==
    ASSUME ChanInv, NEW a \in Threads, Mark(a)
    PROVE  ChanInv'
<1>1. /\ pc[a] = "mark" /\ pc' = [pc EXCEPT ![a] = "write"]
      /\ woken' = [u \in Threads |-> woken[u] \/ u \in toWake[a]]
      /\ toWrite' = [toWrite EXCEPT ![a] = {u \in toWake[a] : ~woken[u]}]
      /\ toWake' = [toWake EXCEPT ![a] = {}]
      /\ UNCHANGED <<len, pushed, shut, nonblocking, lock, wakers, event, size, waiting, toNotify>>
  BY DEF Mark, Goto, chanVars, wake_cond
<1>2. /\ pc'[a] = "write" /\ \A t \in Threads \ {a} : pc'[t] = pc[t]
      /\ \A t \in Threads \ {a} : toWake'[t] = toWake[t]
  BY <1>1 DEF ChanInv, TypeOK
<1>3. TypeOK'
  <2>1. woken' \in [Threads -> BOOLEAN]
    BY <1>1
  <2>2. toWrite' \in [Threads -> SUBSET Threads] /\ toWake' \in [Threads -> SUBSET Threads]
    BY <1>1 DEF ChanInv, TypeOK
  <2>3. QED
    BY <1>1, <2>1, <2>2 DEF ChanInv, TypeOK, Labels
<1>4. LoopInv'
  BY <1>1, <1>2 DEF ChanInv, LoopInv, Looping
<1>5. ASSUME NEW t \in Threads, Armed(t)'
      PROVE  Reachable(t)' /\ (Missed(t)' => AboutToBeWoken(t)')
  <2>1. t # a /\ t \notin toWake[a] /\ ~woken[t]
    BY <1>1, <1>2, <1>5, Zenon DEF Armed
  <2>2. Armed(t) /\ (Missed(t)' => Missed(t))
    BY <1>1, <1>2, <1>5, <2>1 DEF Armed, Missed, Refused, Room
  <2>3. \A u \in Threads : Taken(u, t) => Taken(u, t)'
    BY <1>1, <1>2, <2>1 DEF Taken
  <2>4. \A u \in Threads : Notifying(u, Side[t]) => Notifying(u, Side[t])'
    BY <1>1, <1>2 DEF Notifying
  <2>5. QED
    BY <1>1, <2>2, <2>3, <2>4 DEF ChanInv, WakeInv, Reachable, AboutToBeWoken
<1>6. QED
  BY <1>3, <1>4, <1>5 DEF ChanInv, WakeInv

\* When the second queue is left it is the next to be emptied; otherwise the thread has none
\* to empty and returns.
LEMMA WriteStep ==
    ASSUME ChanInv, NEW a \in Threads, Write(a)
    PROVE  ChanInv'
<1>1. /\ pc[a] = "write" /\ event' = [u \in Threads |-> event[u] \/ u \in toWrite[a]]
      /\ toWrite' = [toWrite EXCEPT ![a] = {}]
      /\ UNCHANGED <<len, pushed, shut, nonblocking, lock>>
  BY DEF Write, chanVars
<1>2. event' \in [Threads -> BOOLEAN]
  BY <1>1
<1>3. toWrite' \in [Threads -> SUBSET Threads]
  BY <1>1 DEF ChanInv, TypeOK
<1>4. CASE Len(toNotify[a]) = 2
  <2>1. /\ toNotify' = [toNotify EXCEPT ![a] = <<toNotify[a][2]>>]
        /\ pc' = [pc EXCEPT ![a] = "drain"] /\ UNCHANGED <<wakers, woken, size, waiting, toWake>>
    BY <1>4 DEF Write, Goto
  <2>2. <<toNotify[a][2]>> \in Queues
    BY <1>4, Basics DEF ChanInv, TypeOK
  <2>3. TypeOK'
    BY <1>1, <1>2, <1>3, <2>1, <2>2 DEF ChanInv, TypeOK, Labels
  <2>4. /\ OthersStay(a) /\ pc'[a] = "drain"
        /\ toNotify'[a] = <<toNotify[a][2]>>
    BY <1>1, <2>1 DEF OthersStay, ChanInv, TypeOK
  <2>5. LoopInv'
    <3>1. Len(toNotify'[a]) > 0
      BY <2>4, SMT
    <3>2. QED
      BY <1>1, <2>1, <2>4, <3>1 DEF ChanInv, LoopInv, OthersStay, Looping
  <2>6. ASSUME NEW t \in Threads, Armed(t)'
        PROVE  Reachable(t)' /\ (Missed(t)' => AboutToBeWoken(t)')
    <3>1. t # a /\ Armed(t) /\ (Missed(t)' => Missed(t))
      BY <1>1, <2>1, <2>4, <2>6 DEF Armed, Missed, Refused, Room, OthersStay
    <3>2. \A u \in Threads : Taken(u, t) => Taken(u, t)'
      BY <1>1, <2>1, <2>4 DEF Taken, OthersStay
    <3>3. \A u \in Threads : Notifying(u, Side[t]) => Notifying(u, Side[t])'
      BY <1>1, <2>4, SMT DEF Notifying, OthersStay
    <3>4. QED
      BY <2>1, <3>1, <3>2, <3>3 DEF ChanInv, WakeInv, Reachable, AboutToBeWoken
  <2>7. QED
    BY <2>3, <2>5, <2>6 DEF ChanInv, WakeInv
<1>5. CASE Len(toNotify[a]) # 2
  <2>1. toNotify' = [toNotify EXCEPT ![a] = <<>>] /\ Return(a)
    BY <1>5 DEF Write
  <2>2. toNotify' \in [Threads -> Queues] /\ \A t \in Threads \ {a} : toNotify'[t] = toNotify[t]
    BY <2>1, SMT DEF ChanInv, TypeOK, Queues
  <2>3. /\ OthersStay(a)
        /\ pc' \in [Threads -> Labels] /\ pc'[a] = "user"
        /\ size' \in [Threads -> Nat] /\ waiting' \in [Threads -> BOOLEAN] /\ ~waiting'[a]
        /\ wakers' \in [Ends -> SUBSET Threads] /\ woken' \in [Threads -> BOOLEAN]
        /\ toWake' \in [Threads -> SUBSET Threads]
    BY <2>1, <2>2, ReturnStays DEF ChanInv
  <2>4. TypeOK'
    BY <1>1, <1>2, <1>3, <2>2, <2>3 DEF ChanInv, TypeOK
  <2>5. LoopInv'
    BY <1>1, <2>3 DEF ChanInv, LoopInv, OthersStay, Looping
  <2>6. ASSUME NEW t \in Threads, Armed(t)'
        PROVE  Reachable(t)' /\ (Missed(t)' => AboutToBeWoken(t)')
    <3>1. t # a /\ Armed(t) /\ (Missed(t)' => Missed(t)) /\ Side[t] \in Ends
      BY <1>1, <2>3, <2>6, Basics DEF Armed, Missed, Refused, Room, OthersStay
    <3>2. \A u \in Threads : Taken(u, t) => Taken(u, t)'
      BY <1>1, <2>3, <3>1, Zenon DEF Taken, OthersStay
    <3>3. \A u \in Threads : Notifying(u, Side[t]) => Notifying(u, Side[t])'
      BY <1>1, <1>5, <2>3 DEF Notifying, OthersStay
    <3>4. t \in wakers[Side[t]] => t \in wakers'[Side[t]]
      BY <2>3, <3>1 DEF OthersStay
    <3>5. QED
      BY <3>1, <3>2, <3>3, <3>4 DEF ChanInv, WakeInv, Reachable, AboutToBeWoken
  <2>7. QED
    BY <2>4, <2>5, <2>6 DEF ChanInv, WakeInv
<1>6. QED
  BY <1>4, <1>5

\* Both queues are going to be emptied.
LEMMA ShutdownStep ==
    ASSUME ChanInv, NEW a \in Threads, Shutdown(a)
    PROVE  ChanInv'
<1>1. /\ pc[a] = "user" /\ pc' = [pc EXCEPT ![a] = "drain"]
      /\ shut' = [shut EXCEPT ![Side[a]] = TRUE]
      /\ toNotify' = [toNotify EXCEPT ![a] = <<Peer(Side[a]), Side[a]>>]
      /\ UNCHANGED <<len, pushed, nonblocking, lock, wakers, woken, event, size, waiting, toWake,
                     toWrite>>
  BY DEF Shutdown, Goto, ShutdownQueues
<1>2. <<Peer(Side[a]), Side[a]>> \in Queues /\ Len(<<Peer(Side[a]), Side[a]>>) = 2
  BY Basics, SMT DEF Queues
<1>3. TypeOK'
  <2>1. shut' \in [Ends -> BOOLEAN]
    BY <1>1, Zenon DEF ChanInv, TypeOK
  <2>2. toNotify' \in [Threads -> Queues] /\ pc' \in [Threads -> Labels]
    BY <1>1, <1>2 DEF ChanInv, TypeOK, Labels
  <2>3. QED
    BY <1>1, <2>1, <2>2 DEF ChanInv, TypeOK
<1>4. /\ OthersStay(a) /\ pc'[a] = "drain" /\ toNotify'[a] = <<Peer(Side[a]), Side[a]>>
      /\ Len(toNotify'[a]) = 2
  BY <1>1, <1>2 DEF OthersStay, ChanInv, TypeOK
<1>5. LoopInv'
  BY <1>1, <1>4, SMT DEF ChanInv, LoopInv, OthersStay, Looping
<1>6. \A t \in Threads : Notifying(a, Side[t])'
  BY <1>4, Basics, SMT DEF Notifying
<1>7. WakeInv'
  BY <1>1, <1>4, <1>6, QuietStep DEF Armed
<1>8. QED
  BY <1>3, <1>5, <1>7 DEF ChanInv

LEMMA NonblockStep ==
    ASSUME ChanInv, NEW a \in Threads, NEW on \in BOOLEAN, set_nonblocking(a, on)
    PROVE  ChanInv'
<1>1. /\ pc[a] = "user" /\ pc' = [pc EXCEPT ![a] = IF on THEN "drain" ELSE "user"]
      /\ nonblocking' = [nonblocking EXCEPT ![Side[a]] = on]
      /\ toNotify' = [toNotify EXCEPT ![a] = IF on THEN <<Side[a]>> ELSE <<>>]
      /\ UNCHANGED <<len, pushed, shut, lock, wakers, woken, event, size, waiting, toWake, toWrite>>
  BY DEF set_nonblocking, Goto
<1>2. /\ <<Side[a]>> \in Queues /\ <<>> \in Queues /\ Len(<<Side[a]>>) = 1
      /\ Side[a] \in Ends
  BY Basics, SMT DEF Queues
<1>3. TypeOK'
  <2>1. nonblocking' \in [Ends -> BOOLEAN]
    BY <1>1, Zenon DEF ChanInv, TypeOK
  <2>2. toNotify' \in [Threads -> Queues] /\ pc' \in [Threads -> Labels]
    BY <1>1, <1>2 DEF ChanInv, TypeOK, Labels
  <2>3. QED
    BY <1>1, <2>1, <2>2 DEF ChanInv, TypeOK
<1>4. /\ OthersStay(a) /\ pc'[a] = IF on THEN "drain" ELSE "user"
      /\ toNotify'[a] = IF on THEN <<Side[a]>> ELSE <<>>
  BY <1>1 DEF OthersStay, ChanInv, TypeOK
<1>5. LoopInv'
  <2>1. pc'[a] = "drain" => Len(toNotify'[a]) > 0
    BY <1>2, <1>4, SMT
  <2>2. QED
    BY <1>1, <1>4, <2>1, SMT DEF ChanInv, LoopInv, OthersStay, Looping
<1>6. ASSUME NEW t \in Threads \ {a}, Missed(t)'
      PROVE  Missed(t) \/ Notifying(a, Side[t])'
  <2>1. (Side[t] # Side[a] \/ ~on) /\ nonblocking'[Side[t]] => nonblocking[Side[t]]
    BY <1>1, <1>2, Basics DEF ChanInv, TypeOK
  <2>2. Side[t] = Side[a] /\ on => Notifying(a, Side[t])'
    BY <1>4, SMT DEF Notifying
  <2>3. pc'[t] = pc[t]
    BY <1>4 DEF OthersStay
  <2>4. QED
    BY <1>1, <1>6, <2>1, <2>2, <2>3 DEF Missed, Refused, Room
<1>7. WakeInv'
  BY <1>1, <1>4, <1>6, QuietStep, SMT DEF Armed
<1>8. QED
  BY <1>3, <1>5, <1>7 DEF ChanInv

LEMMA NextInv ==
    ASSUME ChanInv, [Next]_vars
    PROVE  ChanInv'
<1>1. CASE UNCHANGED vars
  <2>1. TypeOK' /\ LoopInv'
    BY <1>1 DEF vars, chanVars, ChanInv, TypeOK, LoopInv, Looping
  <2>2. ASSUME NEW t \in Threads
        PROVE  /\ Armed(t)' <=> Armed(t)
               /\ Reachable(t)' <=> Reachable(t)
               /\ Missed(t)' <=> Missed(t)
               /\ AboutToBeWoken(t)' <=> AboutToBeWoken(t)
    BY <1>1 DEF vars, chanVars, Armed, Reachable, Missed, AboutToBeWoken, Taken, Notifying, Refused, Room
  <2>3. QED
    BY <2>1, <2>2 DEF ChanInv, WakeInv
<1>2. CASE Next
  <2>1. PICK t \in Threads :
          \/ Call(t) \/ Step(t) \/ Interrupted(t) \/ Shutdown(t)
          \/ \E on \in BOOLEAN : set_nonblocking(t, on)
    BY <1>2 DEF Next
  <2>2. CASE Step(t)
    BY <2>2, LockStep, TransferStep, NothingStep, ResetStep, EnqueueStep, WaitStep, PollStep,
       DrainStep, MarkStep, WriteStep DEF Step
  <2>3. QED
    BY <2>1, <2>2, CallStep, InterruptedStep, ShutdownStep, NonblockStep
<1>3. QED
  BY <1>1, <1>2

-----------------------------------------------------------------------------
\* A thread that sleeps on the channel and could go on is always about to be woken: some thread
\* has its waker in its hands, or is on its way to the queue the waker is in.  For every number
\* of threads on either end, every capacity and all transfer sizes.
THEOREM WakeupsKept == Spec => []NoLostWakeup
<1>1. ChanInv /\ [Next]_vars => ChanInv'
  BY NextInv
<1>2. QED
  BY InitInv, InvImplies, <1>1, PTL DEF Spec

(***************************************************************************)
(* The ring.                                                               *)
(***************************************************************************)
States == {"New", "Submitted", "Cancelling", "Processed", "Cancelled"}
Live == {"Submitted", "Cancelling"}
Entry == [op : {"request"}, key : Slots] \cup [op : {"cancel"}, key : Slots, for : Requests]

RingTypeOK ==
    /\ token_table \in [Slots -> Requests \cup {NoRequest}]
    /\ iostate \in [Requests -> States]
    /\ keyOf \in [Requests -> Slots \cup {NoRequest}]
    /\ sq \in Seq(Entry) /\ pushing \subseteq Entry
    /\ working \subseteq Slots
    /\ cq \in Seq([key : Slots \cup {CancelKey}, result : Results])
    /\ taken \in {NoRequest} \cup [req : Requests, result : Results]
    /\ called \in [Requests -> Nat]

InPushing(k) == OpEntry(k) \in pushing
InSq(k) == \E i \in 1 .. Len(sq) : sq[i] = OpEntry(k)
InCq(k) == \E i \in 1 .. Len(cq) : cq[i].key = k

\* The key of a request is in one place at a time, and once in a queue.
OnePlace ==
    /\ \A k \in Slots :
          /\ InPushing(k) => ~InSq(k) /\ k \notin working /\ ~InCq(k)
          /\ InSq(k) => k \notin working /\ ~InCq(k)
          /\ k \in working => ~InCq(k)
    /\ \A k \in Slots : \A i, j \in 1 .. Len(sq) : sq[i] = OpEntry(k) /\ sq[j] = OpEntry(k) => i = j
    /\ \A k \in Slots : \A i, j \in 1 .. Len(cq) : cq[i].key = k /\ cq[j].key = k => i = j

\* It is in some place exactly if the slot holds the token of a request that is under way.
TokenInv ==
    /\ \A k \in Slots :
          token_table[k] # NoRequest <=> InPushing(k) \/ InSq(k) \/ k \in working \/ InCq(k)
    /\ \A k \in Slots :
          token_table[k] # NoRequest => keyOf[token_table[k]] = k /\ iostate[token_table[k]] \in Live

\* The request whose completion is being delivered has left the table and not yet been called.
CallInv ==
    /\ \A r \in Requests : iostate[r] # "New" => keyOf[r] \in Slots
    /\ taken # NoRequest => iostate[taken.req] \in Live /\ \A k \in Slots : token_table[k] # taken.req
    /\ \A r \in Requests : called[r] = IF iostate[r] \in {"Processed", "Cancelled"} THEN 1 ELSE 0

RingInv == RingTypeOK /\ OnePlace /\ TokenInv /\ CallInv

LEMMA Entries ==
    /\ \A e \in Entry : e.op = "request" => e.key \in Slots /\ e = OpEntry(e.key)
    /\ \A e \in Entry : e.op # "request" => e.key \in Slots /\ \A k \in Slots : e # OpEntry(k)
    /\ \A k \in Slots : OpEntry(k) \in Entry /\ OpEntry(k).op = "request" /\ OpEntry(k).key = k
    /\ \A k \in Slots, r \in Requests : CancelEntry(k, r) \in Entry /\ CancelEntry(k, r).op # "request"
    /\ \A k, l \in Slots : OpEntry(k) = OpEntry(l) => k = l
  BY SMT DEF Entry, OpEntry, CancelEntry

LEMMA Appended ==
    ASSUME NEW S, NEW s \in Seq(S), NEW x \in S
    PROVE  /\ Append(s, x) \in Seq(S) /\ Len(Append(s, x)) = Len(s) + 1
           /\ \A i \in 1 .. Len(s) : Append(s, x)[i] = s[i]
           /\ Append(s, x)[Len(s) + 1] = x
  BY SMT

LEMMA Shortened ==
    ASSUME NEW S, NEW s \in Seq(S), s # <<>>
    PROVE  /\ Tail(s) \in Seq(S) /\ Len(Tail(s)) = Len(s) - 1 /\ Len(s) \in Nat \ {0}
           /\ \A i \in 1 .. Len(s) - 1 : Tail(s)[i] = s[i + 1]
           /\ Head(s) = s[1] /\ Head(s) \in S
  BY SMT

LEMMA Joined ==
    ASSUME NEW S, NEW s \in Seq(S), NEW x \in S
    PROVE  s \o <<x>> = Append(s, x) /\ s \o <<>> = s
  BY SMT

LEMMA RingInitInv == RingInit => RingInv
<1> SUFFICES ASSUME RingInit PROVE RingInv
  OBVIOUS
<1>1. RingTypeOK
  BY SMT DEF RingInit, RingTypeOK, States
<1>2. Len(sq) = 0 /\ Len(cq) = 0 /\ 1 .. 0 = {}
  BY SMT DEF RingInit
<1>3. OnePlace
  BY <1>2 DEF RingInit, OnePlace, InPushing, InSq, InCq
<1>4. TokenInv
  BY <1>2 DEF RingInit, TokenInv, InPushing, InSq, InCq
<1>5. CallInv
  BY DEF RingInit, CallInv
<1>6. QED
  BY <1>1, <1>3, <1>4, <1>5 DEF RingInv

LEMMA RingInvImplies == RingInv => TokenMatchesRequest
<1> SUFFICES ASSUME RingInv PROVE TokenMatchesRequest
  OBVIOUS
<1>1. ASSUME NEW k \in Slots
      PROVE  k \in InFlight <=> InPushing(k) \/ InSq(k) \/ k \in working \/ InCq(k)
  <2>1. k \in {e.key : e \in {f \in pushing : f.op = "request"}} <=> InPushing(k)
    <3>1. \A e \in pushing : e.op = "request" => e = OpEntry(e.key)
      BY Entries DEF RingInv, RingTypeOK
    <3>2. OpEntry(k).op = "request" /\ OpEntry(k).key = k
      BY Entries
    <3>3. QED
      BY <3>1, <3>2 DEF InPushing
  <2>2. \A i \in 1 .. Len(sq) : sq[i] \in Entry
    BY SMT DEF RingInv, RingTypeOK
  <2>3. k \in {sq[i].key : i \in {j \in 1..Len(sq) : sq[j].op = "request"}} <=> InSq(k)
    BY <2>2, Entries, SMT DEF InSq
  <2>4. k \in {cq[i].key : i \in {j \in 1..Len(cq) : cq[j].key # CancelKey}} <=> InCq(k)
    BY IoUringAssumption DEF InCq
  <2>5. QED
    BY <2>1, <2>3, <2>4 DEF InFlight
<1>2. QED
  BY <1>1, SMT DEF RingInv, TokenInv, CallInv, TokenMatchesRequest, Live

-----------------------------------------------------------------------------
(* The steps *)

LEMMA InsertStep ==
    ASSUME RingInv, NEW r \in Requests, InsertToken(r)
    PROVE  RingInv'
<1>1. PICK k \in Slots :
        /\ token_table[k] = NoRequest
        /\ token_table' = [token_table EXCEPT ![k] = r]
        /\ keyOf' = [keyOf EXCEPT ![r] = k]
        /\ pushing' = pushing \cup {OpEntry(k)}
  BY DEF InsertToken
<1>2. /\ iostate[r] = "New" /\ iostate' = [iostate EXCEPT ![r] = "Submitted"]
      /\ UNCHANGED <<sq, working, cq, taken, called>>
  BY DEF InsertToken
<1>3. RingTypeOK'
  BY <1>1, <1>2, Entries DEF RingInv, RingTypeOK, States
<1>4. ASSUME NEW l \in Slots
      PROVE  /\ InPushing(l)' <=> InPushing(l) \/ l = k
             /\ InSq(l)' <=> InSq(l)
             /\ InCq(l)' <=> InCq(l)
  BY <1>1, <1>2, Entries DEF InPushing, InSq, InCq
<1>5. ~InPushing(k) /\ ~InSq(k) /\ k \notin working /\ ~InCq(k)
  BY <1>1 DEF RingInv, TokenInv
<1>6. OnePlace'
  BY <1>2, <1>4, <1>5 DEF RingInv, OnePlace
<1>7. \A l \in Slots : token_table'[l] = IF l = k THEN r ELSE token_table[l]
  BY <1>1 DEF RingInv, RingTypeOK
<1>8. \A q \in Requests : /\ iostate'[q] = IF q = r THEN "Submitted" ELSE iostate[q]
                          /\ keyOf'[q] = IF q = r THEN k ELSE keyOf[q]
  BY <1>1, <1>2 DEF RingInv, RingTypeOK
<1>9. r # NoRequest
  BY IoUringAssumption
<1>10. \A l \in Slots : token_table[l] # r
  BY <1>2, <1>9 DEF RingInv, TokenInv, Live
<1>11. \A l \in Slots : token_table[l] = NoRequest \/ token_table[l] \in Requests
  BY DEF RingInv, RingTypeOK
<1>12. TokenInv'
  BY <1>2, <1>4, <1>5, <1>7, <1>8, <1>9, <1>10, <1>11, SMT DEF RingInv, TokenInv, Live
<1>13. CallInv'
  <2>1. taken # NoRequest => taken.req # r /\ taken.req \in Requests
    BY <1>2 DEF RingInv, RingTypeOK, CallInv, Live
  <2>2. QED
    BY <1>2, <1>7, <1>8, <2>1, SMT DEF RingInv, CallInv, Live
<1>14. QED
  BY <1>3, <1>6, <1>12, <1>13 DEF RingInv

\* A step that leaves the table alone keeps the rest of the invariant if it keeps every key in
\* some place.
LEMMA SamePlaces ==
    ASSUME RingInv, UNCHANGED <<token_table, keyOf, iostate, taken, called>>,
           \A k \in Slots : (InPushing(k) \/ InSq(k) \/ k \in working \/ InCq(k))' <=>
                              InPushing(k) \/ InSq(k) \/ k \in working \/ InCq(k)
    PROVE  TokenInv' /\ CallInv'
<1>1. TokenInv'
  BY DEF RingInv, TokenInv
<1>2. CallInv'
  BY DEF RingInv, CallInv
<1>3. QED
  BY <1>1, <1>2

\* A step that leaves the queues and the pushed operations alone moves no entry.
LEMMA SameQueues ==
    ASSUME RingInv, UNCHANGED <<sq, working, cq>>,
           \A k \in Slots : InPushing(k)' <=> InPushing(k)
    PROVE  /\ OnePlace'
           /\ \A k \in Slots : (InPushing(k) \/ InSq(k) \/ k \in working \/ InCq(k))' <=>
                                InPushing(k) \/ InSq(k) \/ k \in working \/ InCq(k)
<1>1. ASSUME NEW k \in Slots
      PROVE  /\ InPushing(k)' <=> InPushing(k)
             /\ InSq(k)' <=> InSq(k)
             /\ InCq(k)' <=> InCq(k)
             /\ k \in working' <=> k \in working
  BY DEF InSq, InCq, OpEntry
<1>2. \A k \in Slots :
         /\ InPushing(k)' => ~InSq(k)' /\ k \notin working' /\ ~InCq(k)'
         /\ InSq(k)' => k \notin working' /\ ~InCq(k)'
         /\ k \in working' => ~InCq(k)'
  BY <1>1 DEF RingInv, OnePlace
<1>3. \A k \in Slots : \A i, j \in 1 .. Len(sq') : sq'[i] = OpEntry(k) /\ sq'[j] = OpEntry(k) => i = j
  BY DEF RingInv, OnePlace
<1>4. \A k \in Slots : \A i, j \in 1 .. Len(cq') : cq'[i].key = k /\ cq'[j].key = k => i = j
  BY DEF RingInv, OnePlace
<1>5. OnePlace'
  BY <1>2, <1>3, <1>4 DEF OnePlace, OpEntry
<1>6. QED
  BY <1>1, <1>5

LEMMA PushStep ==
    ASSUME RingInv, NEW e \in pushing, Push(e)
    PROVE  RingInv'
<1>1. /\ sq' = Append(sq, e) /\ pushing' = pushing \ {e}
      /\ UNCHANGED <<token_table, iostate, keyOf, working, cq, taken, called>>
  BY DEF Push
<1>2. e \in Entry /\ sq \in Seq(Entry) /\ Len(sq) \in Nat
  BY SMT DEF RingInv, RingTypeOK
<1>3. /\ sq' \in Seq(Entry) /\ Len(sq') = Len(sq) + 1
      /\ \A i \in 1 .. Len(sq) : sq'[i] = sq[i]
      /\ sq'[Len(sq) + 1] = e
  BY <1>1, <1>2, Appended, SMT
<1>4. RingTypeOK'
  BY <1>1, <1>3 DEF RingInv, RingTypeOK
<1>5. ASSUME NEW k \in Slots
      PROVE  /\ InPushing(k)' <=> InPushing(k) /\ e # OpEntry(k)
             /\ InSq(k)' <=> InSq(k) \/ e = OpEntry(k)
             /\ InCq(k)' <=> InCq(k)
             /\ e = OpEntry(k) => InPushing(k)
  <2>1. InSq(k)' <=> InSq(k) \/ e = OpEntry(k)
    BY <1>2, <1>3, SMT DEF InSq, OpEntry
  <2>2. QED
    BY <1>1, <2>1 DEF InPushing, InCq, OpEntry
<1>6. OnePlace'
  <2>1. \A k \in Slots : \A i, j \in 1 .. Len(sq') : sq'[i] = OpEntry(k) /\ sq'[j] = OpEntry(k) => i = j
    <3> SUFFICES ASSUME NEW k \in Slots, NEW i \in 1 .. Len(sq'), NEW j \in 1 .. Len(sq'),
                        sq'[i] = OpEntry(k), sq'[j] = OpEntry(k), i # j
                 PROVE  FALSE
      OBVIOUS
    <3>1. i \in 1 .. Len(sq) \/ i = Len(sq) + 1
      BY <1>2, <1>3, SMT
    <3>2. j \in 1 .. Len(sq) \/ j = Len(sq) + 1
      BY <1>2, <1>3, SMT
    <3>3. e = OpEntry(k) => ~InSq(k)
      BY <1>5 DEF RingInv, OnePlace
    <3>4. QED
      BY <1>3, <3>1, <3>2, <3>3 DEF RingInv, OnePlace, InSq
  <2>2. QED
    BY <1>1, <1>5, <2>1, SMT DEF RingInv, OnePlace, OpEntry
<1>7. TokenInv' /\ CallInv'
  BY <1>1, <1>5, SamePlaces
<1>8. QED
  BY <1>4, <1>6, <1>7 DEF RingInv

LEMMA CancelStep ==
    ASSUME RingInv, NEW r \in Requests, transit_to_cancelling(r)
    PROVE  RingInv'
<1>1. /\ iostate[r] = "Submitted" /\ iostate' = [iostate EXCEPT ![r] = "Cancelling"]
      /\ pushing' = pushing \cup {CancelEntry(keyOf[r], r)}
      /\ UNCHANGED <<token_table, keyOf, sq, working, cq, taken, called>>
  BY DEF transit_to_cancelling
<1>2. CancelEntry(keyOf[r], r) \in Entry /\ \A k \in Slots : CancelEntry(keyOf[r], r) # OpEntry(k)
  BY <1>1, Entries, SMT DEF RingInv, CallInv
<1>3. RingTypeOK'
  BY <1>1, <1>2 DEF RingInv, RingTypeOK, States
<1>4. ASSUME NEW k \in Slots
      PROVE  /\ InPushing(k)' <=> InPushing(k)
             /\ InSq(k)' <=> InSq(k)
             /\ InCq(k)' <=> InCq(k)
  BY <1>1, <1>2 DEF InPushing, InSq, InCq, OpEntry
<1>5. OnePlace'
  BY <1>1, <1>4, SameQueues
<1>6. \A q \in Requests : /\ iostate'[q] = iostate[q] \/ (q = r /\ iostate'[q] = "Cancelling")
                          /\ q = r => iostate[q] = "Submitted"
  BY <1>1 DEF RingInv, RingTypeOK
<1>7. \A l \in Slots : token_table[l] = NoRequest \/ token_table[l] \in Requests
  BY DEF RingInv, RingTypeOK
<1>8. TokenInv'
  BY <1>1, <1>4, <1>6, <1>7 DEF RingInv, TokenInv, Live
<1>9. CallInv'
  <2>1. taken # NoRequest => taken.req \in Requests
    BY DEF RingInv, RingTypeOK
  <2>2. QED
    BY <1>1, <1>6, <2>1 DEF RingInv, CallInv, Live
<1>10. QED
  BY <1>3, <1>5, <1>8, <1>9 DEF RingInv

\* What the host does with a request moves its key; a cancellation moves the key of its target
\* to the completions if the host works on it.
LEMMA HostTakesStep ==
    ASSUME RingInv, HostTakes
    PROVE  RingInv'
<1> DEFINE e == Head(sq)
           C == [key : Slots \cup {CancelKey}, result : Results]
<1>1. /\ sq # <<>> /\ sq' = Tail(sq)
      /\ UNCHANGED <<token_table, iostate, keyOf, pushing, taken, called>>
  BY DEF HostTakes
<1>2. sq \in Seq(Entry) /\ cq \in Seq(C)
  BY DEF RingInv, RingTypeOK
<1>3. /\ sq' \in Seq(Entry) /\ Len(sq') = Len(sq) - 1 /\ Len(sq) \in Nat \ {0}
      /\ \A i \in 1 .. Len(sq) - 1 : sq'[i] = sq[i + 1]
      /\ e = sq[1] /\ e \in Entry
  BY <1>1, <1>2, Shortened
<1> HIDE DEF e
<1>4. ASSUME NEW k \in Slots
      PROVE  /\ InPushing(k)' <=> InPushing(k)
             /\ InSq(k)' <=> InSq(k) /\ e # OpEntry(k)
             /\ e = OpEntry(k) => InSq(k)
  <2>1. InPushing(k)' <=> InPushing(k)
    BY <1>1 DEF InPushing, OpEntry
  <2>2. e = OpEntry(k) => InSq(k)
    <3>1. 1 \in 1 .. Len(sq)
      BY <1>3, SMT
    <3>2. QED
      BY <1>3, <3>1 DEF InSq
  <2>3. InSq(k)' => InSq(k) /\ e # OpEntry(k)
    <3>1. SUFFICES ASSUME NEW i \in 1 .. Len(sq'), sq'[i] = OpEntry(k)
                   PROVE  InSq(k) /\ e # OpEntry(k)
      BY DEF InSq, OpEntry
    <3>2. i + 1 \in 1 .. Len(sq) /\ sq[i + 1] = OpEntry(k) /\ 1 \in 1 .. Len(sq) /\ i + 1 # 1
      BY <1>3, <3>1, SMT
    <3>3. QED
      BY <1>3, <3>2 DEF RingInv, OnePlace, InSq
  <2>4. InSq(k) /\ e # OpEntry(k) => InSq(k)'
    <3>1. SUFFICES ASSUME NEW i \in 1 .. Len(sq), sq[i] = OpEntry(k), e # OpEntry(k)
                   PROVE  InSq(k)'
      BY DEF InSq
    <3>2. i - 1 \in 1 .. Len(sq') /\ sq'[i - 1] = OpEntry(k)
      BY <1>3, <3>1, SMT
    <3>3. QED
      BY <3>2 DEF InSq, OpEntry
  <2>5. QED
    BY <2>1, <2>2, <2>3, <2>4
<1>5. \A k \in Slots : \A i, j \in 1 .. Len(sq') : sq'[i] = OpEntry(k) /\ sq'[j] = OpEntry(k) => i = j
  <2> SUFFICES ASSUME NEW k \in Slots, NEW i \in 1 .. Len(sq'), NEW j \in 1 .. Len(sq'),
                      sq'[i] = OpEntry(k), sq'[j] = OpEntry(k)
               PROVE  i = j
    OBVIOUS
  <2>1. i + 1 \in 1 .. Len(sq) /\ j + 1 \in 1 .. Len(sq) /\ sq[i + 1] = sq'[i] /\ sq[j + 1] = sq'[j]
    BY <1>3, SMT
  <2>2. i + 1 = j + 1
    BY <2>1 DEF RingInv, OnePlace
  <2>3. QED
    BY <2>2, SMT
<1>6. CASE e.op = "request"
  <2>1. working' = working \cup {e.key} /\ UNCHANGED cq
    BY <1>6 DEF HostTakes, e
  <2>2. e.key \in Slots /\ e = OpEntry(e.key) /\ \A k \in Slots : e = OpEntry(k) <=> k = e.key
    BY <1>3, <1>6, Entries, SMT
  <2>3. RingTypeOK'
    BY <1>1, <1>3, <2>1, <2>2 DEF RingInv, RingTypeOK
  <2>4. \A k \in Slots : (InCq(k)' <=> InCq(k)) /\ (k \in working' <=> k \in working \/ k = e.key)
    BY <2>1 DEF InCq
  <2>5. OnePlace'
    BY <1>4, <1>5, <2>1, <2>2, <2>4, SMT DEF RingInv, OnePlace, OpEntry
  <2>6. TokenInv' /\ CallInv'
    BY <1>1, <1>4, <2>2, <2>4, SamePlaces
  <2>7. QED
    BY <2>3, <2>5, <2>6 DEF RingInv
<1>7. CASE e.op # "request"
  <2>1. e.key \in Slots /\ e.key # CancelKey /\ \A k \in Slots : e # OpEntry(k)
    BY <1>3, <1>7, Entries, IoUringAssumption
  <2> DEFINE done == [key |-> CancelKey, result |-> "done"]
             gone == [key |-> e.key, result |-> "ECANCELED"]
  <2>2. done \in C /\ gone \in C /\ done.key = CancelKey /\ gone.key = e.key
    BY <2>1 DEF Results
  <2>3. working' = working \ {e.key}
    BY <1>7 DEF HostTakes, e
  <2>4. cq' = cq \o (IF e.key \in working THEN <<gone>> ELSE <<>>) \o <<done>>
    BY <1>7 DEF HostTakes, e
  <2> HIDE DEF done, gone
  <2>5. CASE e.key \in working
    <3> DEFINE mid == Append(cq, gone)
    <3>1. /\ mid \in Seq(C) /\ Len(mid) = Len(cq) + 1 /\ mid[Len(cq) + 1] = gone
          /\ \A i \in 1 .. Len(cq) : mid[i] = cq[i]
      BY <1>2, <2>2, Appended, SMT
    <3>2. cq' = Append(mid, done)
      <4>1. cq' = (cq \o <<gone>>) \o <<done>>
        BY <2>4, <2>5
      <4>2. cq \o <<gone>> = mid
        BY <1>2, <2>2, Joined, SMT
      <4>3. mid \o <<done>> = Append(mid, done)
        BY <2>2, <3>1, Joined
      <4>4. QED
        BY <4>1, <4>2, <4>3
    <3> HIDE DEF mid
    <3>3. /\ cq' \in Seq(C) /\ Len(cq') = Len(mid) + 1 /\ cq'[Len(mid) + 1] = done
          /\ \A i \in 1 .. Len(mid) : cq'[i] = mid[i]
      BY <2>2, <3>1, <3>2, Appended, SMT
    <3>4. /\ Len(cq) \in Nat /\ Len(cq') = Len(cq) + 2 /\ \A i \in 1 .. Len(cq) : cq'[i] = cq[i]
          /\ cq'[Len(cq) + 1] = gone /\ cq'[Len(cq) + 2] = done
      <4>1. Len(cq) \in Nat
        BY <1>2, SMT
      <4>2. Len(mid) = Len(cq) + 1 /\ Len(cq') = Len(cq) + 2 /\ Len(mid) + 1 = Len(cq) + 2
        BY <3>1, <3>3, <4>1, SMT
      <4>3. \A i \in 1 .. Len(cq) : i \in 1 .. Len(mid)
        BY <4>1, <4>2, SMT
      <4>4. Len(cq) + 1 \in 1 .. Len(mid)
        BY <4>1, <4>2, SMT
      <4>5. QED
        BY <3>1, <3>3, <4>1, <4>2, <4>3, <4>4
    <3>5. ASSUME NEW k \in Slots
          PROVE  InCq(k)' <=> InCq(k) \/ k = e.key
      BY <2>1, <2>2, <3>4, IoUringAssumption, SMT DEF InCq
    <3>6. \A k \in Slots : \A i, j \in 1 .. Len(cq') : cq'[i].key = k /\ cq'[j].key = k => i = j
      <4> SUFFICES ASSUME NEW k \in Slots, NEW i \in 1 .. Len(cq'), NEW j \in 1 .. Len(cq'),
                          cq'[i].key = k, cq'[j].key = k, i # j
                   PROVE  FALSE
        OBVIOUS
      <4>1. i \in 1 .. Len(cq) \/ (i = Len(cq) + 1 /\ k = e.key)
        BY <2>2, <3>4, IoUringAssumption, SMT
      <4>2. j \in 1 .. Len(cq) \/ (j = Len(cq) + 1 /\ k = e.key)
        BY <2>2, <3>4, IoUringAssumption, SMT
      <4>3. k = e.key => ~InCq(k)
        BY <2>5 DEF RingInv, OnePlace
      <4>4. QED
        BY <3>4, <4>1, <4>2, <4>3 DEF RingInv, OnePlace, InCq
    <3>7. RingTypeOK'
      BY <1>1, <1>3, <2>3, <3>3 DEF RingInv, RingTypeOK
    <3>8. \A k \in Slots : k \in working' <=> k \in working /\ k # e.key
      BY <2>3
    <3>9. OnePlace'
      BY <1>4, <1>5, <2>1, <2>5, <3>5, <3>6, <3>8 DEF RingInv, OnePlace, OpEntry
    <3>10. TokenInv' /\ CallInv'
      BY <1>1, <1>4, <2>1, <2>5, <3>5, <3>8, SamePlaces
    <3>11. QED
      BY <3>7, <3>9, <3>10 DEF RingInv
  <2>6. CASE e.key \notin working
    <3>1. cq' = Append(cq, done)
      <4>1. cq' = (cq \o <<>>) \o <<done>>
        BY <2>4, <2>6
      <4>2. cq \o <<>> = cq /\ cq \o <<done>> = Append(cq, done)
        BY <1>2, <2>2, Joined, SMT
      <4>3. QED
        BY <4>1, <4>2
    <3>2. /\ cq' \in Seq(C) /\ Len(cq') = Len(cq) + 1 /\ Len(cq) \in Nat
          /\ cq'[Len(cq) + 1] = done /\ \A i \in 1 .. Len(cq) : cq'[i] = cq[i]
      BY <1>2, <2>2, <3>1, Appended, SMT
    <3>3. ASSUME NEW k \in Slots, NEW i \in 1 .. Len(cq'), cq'[i].key = k
          PROVE  i \in 1 .. Len(cq) /\ cq[i].key = k
      <4>1. i \in 1 .. Len(cq) \/ i = Len(cq) + 1
        BY <3>2, SMT
      <4>2. QED
        BY <2>2, <3>2, <3>3, <4>1, IoUringAssumption
    <3>4. \A k \in Slots : InCq(k)' <=> InCq(k)
      BY <3>2, <3>3, SMT DEF InCq
    <3>5. working' = working
      BY <2>3, <2>6
    <3>6. RingTypeOK'
      BY <1>1, <1>3, <3>2, <3>5 DEF RingInv, RingTypeOK
    <3>7. OnePlace'
      BY <1>4, <1>5, <2>1, <3>3, <3>4, <3>5 DEF RingInv, OnePlace, OpEntry
    <3>8. TokenInv' /\ CallInv'
      BY <1>1, <1>4, <2>1, <3>4, <3>5, SamePlaces
    <3>9. QED
      BY <3>6, <3>7, <3>8 DEF RingInv
  <2>7. QED
    BY <2>5, <2>6
<1>8. QED
  BY <1>6, <1>7

LEMMA HostCompletesStep ==
    ASSUME RingInv, NEW c \in Slots, HostCompletes(c)
    PROVE  RingInv'
<1> DEFINE C == [key : Slots \cup {CancelKey}, result : Results]
           done == [key |-> c, result |-> "done"]
<1>1. /\ c \in working /\ working' = working \ {c} /\ cq' = Append(cq, done)
      /\ UNCHANGED <<token_table, iostate, keyOf, sq, pushing, taken, called>>
  BY DEF HostCompletes
<1>2. cq \in Seq(C) /\ done \in C /\ done.key = c
  BY DEF RingInv, RingTypeOK, Results
<1> HIDE DEF done
<1>3. /\ cq' \in Seq(C) /\ Len(cq') = Len(cq) + 1 /\ Len(cq) \in Nat
      /\ cq'[Len(cq) + 1] = done /\ \A i \in 1 .. Len(cq) : cq'[i] = cq[i]
  BY <1>1, <1>2, Appended, SMT
<1>4. RingTypeOK'
  BY <1>1, <1>3 DEF RingInv, RingTypeOK
<1>5. \A i \in 1 .. Len(cq') : i \in 1 .. Len(cq) \/ i = Len(cq) + 1
  BY <1>3, SMT
<1>6. ASSUME NEW k \in Slots
      PROVE  /\ InCq(k)' <=> InCq(k) \/ k = c
             /\ InPushing(k)' <=> InPushing(k)
             /\ InSq(k)' <=> InSq(k)
             /\ k \in working' <=> k \in working /\ k # c
  <2>1. InCq(k)' <=> InCq(k) \/ k = c
    BY <1>2, <1>3, SMT DEF InCq
  <2>2. QED
    BY <1>1, <2>1 DEF InPushing, InSq, OpEntry
<1>7. \A k \in Slots : \A i, j \in 1 .. Len(cq') : cq'[i].key = k /\ cq'[j].key = k => i = j
  <2>1. ~InCq(c)
    BY <1>1 DEF RingInv, OnePlace
  <2>2. \A i \in 1 .. Len(cq) : cq'[i] = cq[i] /\ cq[i].key # c
    BY <1>3, <2>1 DEF InCq
  <2>3. \A k \in Slots : \A i, j \in 1 .. Len(cq) : cq[i].key = k /\ cq[j].key = k => i = j
    BY DEF RingInv, OnePlace
  <2>4. QED
    <3> SUFFICES ASSUME NEW k \in Slots, NEW i \in 1 .. Len(cq'), NEW j \in 1 .. Len(cq'),
                        cq'[i].key = k, cq'[j].key = k
                 PROVE  i = j
      OBVIOUS
    <3>1. i \in 1 .. Len(cq) <=> k # c
      BY <1>2, <1>3, <1>5, <2>2
    <3>2. j \in 1 .. Len(cq) <=> k # c
      BY <1>2, <1>3, <1>5, <2>2
    <3>3. QED
      BY <1>5, <2>2, <2>3, <3>1, <3>2
<1>8. OnePlace'
  BY <1>1, <1>6, <1>7 DEF RingInv, OnePlace, OpEntry
<1>9. TokenInv' /\ CallInv'
  BY <1>1, <1>6, SamePlaces
<1>10. QED
  BY <1>4, <1>8, <1>9 DEF RingInv

\* The key leaves the completions and the token its slot, together.
LEMMA PollEntryStep ==
    ASSUME RingInv, PollEntry
    PROVE  RingInv'
<1> DEFINE e == Head(cq)
           C == [key : Slots \cup {CancelKey}, result : Results]
<1>1. /\ cq # <<>> /\ taken = NoRequest /\ cq' = Tail(cq)
      /\ UNCHANGED <<iostate, keyOf, sq, working, pushing, called>>
  BY DEF PollEntry
<1>2. cq \in Seq(C)
  BY DEF RingInv, RingTypeOK
<1>3. /\ cq' \in Seq(C) /\ Len(cq') = Len(cq) - 1 /\ Len(cq) \in Nat \ {0}
      /\ e = cq[1] /\ e \in C /\ \A i \in 1 .. Len(cq) - 1 : cq'[i] = cq[i + 1]
  BY <1>1, <1>2, Shortened
<1>4. /\ IF e.key = CancelKey THEN UNCHANGED <<token_table, taken>>
         ELSE /\ taken' = [req |-> token_table[e.key], result |-> e.result]
              /\ token_table' = [token_table EXCEPT ![e.key] = NoRequest]
      /\ e.key \in Slots \cup {CancelKey} /\ e.result \in Results
  BY <1>3 DEF PollEntry, RemoveToken
<1> HIDE DEF e
<1>5. ASSUME NEW i \in 1 .. Len(cq')
      PROVE  i + 1 \in 1 .. Len(cq) /\ cq'[i] = cq[i + 1] /\ i + 1 # 1
  BY <1>3, SMT
<1>6. 1 \in 1 .. Len(cq)
  BY <1>3, SMT
<1>7. ASSUME NEW k \in Slots
      PROVE  /\ InCq(k)' <=> InCq(k) /\ k # e.key
             /\ k = e.key => InCq(k)
             /\ InPushing(k)' <=> InPushing(k)
             /\ InSq(k)' <=> InSq(k)
             /\ k \in working' <=> k \in working
  <2>1. k = e.key => InCq(k)
    BY <1>3, <1>6 DEF InCq
  <2>2. InCq(k)' => InCq(k) /\ k # e.key
    <3>1. SUFFICES ASSUME NEW i \in 1 .. Len(cq'), cq'[i].key = k
                   PROVE  InCq(k) /\ k # e.key
      BY DEF InCq
    <3>2. QED
      BY <1>3, <1>5, <1>6, <3>1 DEF RingInv, OnePlace, InCq
  <2>3. InCq(k) /\ k # e.key => InCq(k)'
    <3>1. SUFFICES ASSUME NEW i \in 1 .. Len(cq), cq[i].key = k, k # e.key
                   PROVE  InCq(k)'
      BY DEF InCq
    <3>2. i - 1 \in 1 .. Len(cq') /\ cq'[i - 1].key = k
      BY <1>3, <3>1, SMT
    <3>3. QED
      BY <3>2 DEF InCq
  <2>4. QED
    BY <1>1, <2>1, <2>2, <2>3 DEF InPushing, InSq, OpEntry
<1>8. \A k \in Slots : \A i, j \in 1 .. Len(cq') : cq'[i].key = k /\ cq'[j].key = k => i = j
  <2> SUFFICES ASSUME NEW k \in Slots, NEW i \in 1 .. Len(cq'), NEW j \in 1 .. Len(cq'),
                      cq'[i].key = k, cq'[j].key = k
               PROVE  i = j
    OBVIOUS
  <2>1. i + 1 = j + 1
    BY <1>5, SMT DEF RingInv, OnePlace
  <2>2. QED
    BY <2>1, SMT
<1>9. OnePlace'
  BY <1>1, <1>7, <1>8 DEF RingInv, OnePlace, OpEntry
<1>10. CASE e.key = CancelKey
  <2>1. UNCHANGED <<token_table, taken>> /\ \A k \in Slots : k # e.key
    BY <1>4, <1>10, IoUringAssumption
  <2>2. RingTypeOK'
    BY <1>1, <1>3, <2>1 DEF RingInv, RingTypeOK
  <2>3. TokenInv' /\ CallInv'
    BY <1>1, <1>7, <2>1, SamePlaces
  <2>4. QED
    BY <1>9, <2>2, <2>3 DEF RingInv
<1>11. CASE e.key # CancelKey
  <2>1. /\ e.key \in Slots /\ taken' = [req |-> token_table[e.key], result |-> e.result]
        /\ \A k \in Slots : token_table'[k] = IF k = e.key THEN NoRequest ELSE token_table[k]
        /\ token_table' \in [Slots -> Requests \cup {NoRequest}]
    BY <1>4, <1>11 DEF RingInv, RingTypeOK
  <2>2. InCq(e.key) /\ ~InPushing(e.key) /\ ~InSq(e.key) /\ e.key \notin working
    BY <1>7, <2>1 DEF RingInv, OnePlace
  <2>3. /\ token_table[e.key] \in Requests /\ keyOf[token_table[e.key]] = e.key
        /\ iostate[token_table[e.key]] \in Live
    BY <2>1, <2>2 DEF RingInv, RingTypeOK, TokenInv
  <2>4. taken' \in [req : Requests, result : Results] /\ taken'.req = token_table[e.key]
    BY <1>4, <2>1, <2>3
  <2>5. RingTypeOK'
    BY <1>1, <1>3, <2>1, <2>4 DEF RingInv, RingTypeOK
  <2>6. TokenInv'
    BY <1>1, <1>7, <2>1, <2>2 DEF RingInv, TokenInv
  <2>7. \A k \in Slots : token_table'[k] # taken'.req
    BY <2>1, <2>3, <2>4, IoUringAssumption, SMT DEF RingInv, TokenInv
  <2>8. CallInv'
    BY <1>1, <2>3, <2>4, <2>7 DEF RingInv, CallInv
  <2>9. QED
    BY <1>9, <2>5, <2>6, <2>8 DEF RingInv
<1>12. QED
  BY <1>10, <1>11

LEMMA CompleteStep ==
    ASSUME RingInv, Complete
    PROVE  RingInv'
<1>1. /\ taken # NoRequest /\ taken' = NoRequest
      /\ iostate' = [iostate EXCEPT ![taken.req] = Completed(@, taken.result)]
      /\ called' = [called EXCEPT ![taken.req] = @ + 1]
      /\ UNCHANGED <<token_table, keyOf, sq, working, cq, pushing>>
  BY DEF Complete
<1>2. /\ taken.req \in Requests /\ iostate[taken.req] \in Live
      /\ \A k \in Slots : token_table[k] # taken.req
  BY <1>1 DEF RingInv, RingTypeOK, CallInv
<1>3. \A s : Completed(s, taken.result) \in {"Processed", "Cancelled"}
  BY DEF Completed
<1>4. \A r \in Requests :
        /\ r # taken.req => iostate'[r] = iostate[r] /\ called'[r] = called[r]
        /\ r = taken.req => iostate'[r] \in {"Processed", "Cancelled"} /\ called'[r] = called[r] + 1
  BY <1>1, <1>2, <1>3 DEF RingInv, RingTypeOK
<1>5. RingTypeOK'
  <2>1. iostate' \in [Requests -> States]
    BY <1>1, <1>3 DEF RingInv, RingTypeOK, States
  <2>2. \A n \in Nat : n + 1 \in Nat
    BY SMT
  <2>3. called' \in [Requests -> Nat]
    BY <1>1, <2>2 DEF RingInv, RingTypeOK
  <2>4. QED
    BY <1>1, <2>1, <2>3 DEF RingInv, RingTypeOK
<1>6. OnePlace' /\ \A k \in Slots : (InPushing(k) \/ InSq(k) \/ k \in working \/ InCq(k))' <=>
                                  InPushing(k) \/ InSq(k) \/ k \in working \/ InCq(k)
  <2>1. \A k \in Slots : InPushing(k)' <=> InPushing(k)
    BY <1>1 DEF InPushing, OpEntry
  <2>2. QED
    BY <1>1, <2>1, SameQueues
<1>7. \A l \in Slots : token_table[l] = NoRequest \/ token_table[l] \in Requests
  BY DEF RingInv, RingTypeOK
<1>8. TokenInv'
  BY <1>1, <1>2, <1>4, <1>6, <1>7 DEF RingInv, TokenInv
<1>9. CallInv'
  BY <1>1, <1>2, <1>4, SMT DEF RingInv, CallInv, Live
<1>10. QED
  BY <1>5, <1>6, <1>8, <1>9 DEF RingInv

LEMMA RingNextInv ==
    ASSUME RingInv, [RingNext]_ringVars
    PROVE  RingInv'
<1>1. CASE UNCHANGED ringVars
  <2>1. RingTypeOK'
    BY <1>1 DEF ringVars, RingInv, RingTypeOK
  <2>2. \A k \in Slots : InPushing(k)' <=> InPushing(k)
    BY <1>1 DEF ringVars, InPushing, OpEntry
  <2>3. OnePlace' /\ TokenInv' /\ CallInv'
    BY <1>1, <2>2, SameQueues, SamePlaces DEF ringVars
  <2>4. QED
    BY <2>1, <2>3 DEF RingInv
<1>2. CASE RingNext
  BY <1>2, InsertStep, CancelStep, PushStep, HostTakesStep, HostCompletesStep, PollEntryStep,
     CompleteStep DEF RingNext
<1>3. QED
  BY <1>1, <1>2

-----------------------------------------------------------------------------
\* A completion always finds the token of the request it completes, in the slot the host knows
\* it by, and the callback of every request runs at most once, when its state becomes final.
\* For every number of requests and slots, and every size of the submission queue.
THEOREM TokensKept == RingSpec => []TokenMatchesRequest
<1>1. RingInv /\ [RingNext]_ringVars => RingInv'
  BY RingNextInv
<1>2. QED
  BY RingInitInv, RingInvImplies, <1>1, PTL DEF RingSpec
-----------------------------------------------------------------------------
(***************************************************************************)
(* The UDP socket.                                                         *)
(***************************************************************************)
\* The buffer is free while the host has it; what is in it before the socket is bound came early.
DgramReceivers == [msg : Nat, req : BOOLEAN, error : BOOLEAN, shut : BOOLEAN]
DgramInv ==
    /\ arrived \in Nat /\ drcv \in DgramReceivers
    /\ dstate \in [bound : BOOLEAN, connected : BOOLEAN]
    /\ drcv.req => drcv.msg = 0
    /\ ~dstate.bound => drcv.msg \in early \cup {0}
    /\ NoDatagramLost

LEMMA FlagSet ==
    ASSUME NEW r \in DgramReceivers, NEW f \in BOOLEAN,
           NEW u \in {[r EXCEPT !.error = f], [r EXCEPT !.shut = f]}
    PROVE  u \in DgramReceivers /\ u.msg = r.msg /\ u.req = r.req
  BY DEF DgramReceivers

LEMMA DgramUpdates ==
    ASSUME NEW r \in DgramReceivers
    PROVE  /\ \A f, g \in BOOLEAN :
                LET u == [r EXCEPT !.req = f, !.error = g] IN
                u \in DgramReceivers /\ u.msg = r.msg /\ u.req = f
           /\ \A f \in BOOLEAN :
                LET u == [r EXCEPT !.req = f] IN u \in DgramReceivers /\ u.msg = r.msg /\ u.req = f
           /\ \A f \in BOOLEAN, m \in Nat :
                LET u == [r EXCEPT !.req = f, !.msg = m] IN
                u \in DgramReceivers /\ u.msg = m /\ u.req = f
           /\ \A f \in BOOLEAN, m \in Nat :
                LET u == [r EXCEPT !.msg = m, !.error = f] IN u \in DgramReceivers /\ u.msg = m
  BY DEF DgramReceivers

\* A new request empties the buffer.
LEMMA DgramRequestMade ==
    ASSUME NEW r \in DgramReceivers, r.req => r.msg = 0
    PROVE  LET d == dgram_do_recv(r) IN
           d \in DgramReceivers /\ (d.req => d.msg = 0) /\ d.msg \in {0, r.msg}
<1>1. CASE r.req \/ dclosed
  BY <1>1 DEF dgram_do_recv
<1>2. CASE ~(r.req \/ dclosed)
  <2> DEFINE u == [r EXCEPT !.msg = 0, !.error = FALSE]
             b == ~u.shut
  <2>1. 0 \in Nat
    BY SMT
  <2>2. \A f \in BOOLEAN, m \in Nat :
          LET w == [r EXCEPT !.msg = m, !.error = f] IN w \in DgramReceivers /\ w.msg = m
    BY DgramUpdates
  <2>3. u \in DgramReceivers /\ u.msg = 0
    BY <2>1, <2>2
  <2> HIDE DEF u
  <2>4. b \in BOOLEAN /\ dgram_do_recv(r) = [u EXCEPT !.req = b]
    BY <1>2 DEF dgram_do_recv, dgram_new_recv_req, u
  <2> HIDE DEF b
  <2>5. [u EXCEPT !.req = b] \in DgramReceivers /\ [u EXCEPT !.req = b].msg = 0
    <3>1. \A f \in BOOLEAN :
            LET w == [u EXCEPT !.req = f] IN w \in DgramReceivers /\ w.msg = u.msg /\ w.req = f
      BY <2>3, DgramUpdates
    <3>2. QED
      BY <2>3, <2>4, <3>1
  <2>6. QED
    BY <2>4, <2>5
<1>3. QED
  BY <1>1, <1>2

\* The buffer keeps its datagram, or had none, or it has been returned: no more are missing.
LEMMA BufferSafe ==
    ASSUME DgramInv, UNCHANGED <<arrived, early>>, received \subseteq received',
           drcv' \in DgramReceivers, drcv'.req => drcv'.msg = 0,
           \/ drcv'.msg = drcv.msg
           \/ drcv'.msg = 0 /\ drcv.msg \in received' \cup {0},
           dstate' \in [bound : BOOLEAN, connected : BOOLEAN], dstate.bound => dstate'.bound
    PROVE  DgramInv'
<1>1. \A d \in 1 .. arrived : d # 0
  BY SMT DEF DgramInv
<1>2. Missing' \subseteq Missing
  BY <1>1 DEF Missing
<1>3. NoDatagramLost'
  BY <1>2 DEF DgramInv, NoDatagramLost
<1>4. QED
  BY <1>3 DEF DgramInv

\* The first use of the socket starts a request and binds it.  None is missing before it, so
\* that the one in the buffer, which came early, is the only one that may be afterwards.
LEMMA FirstUseStep ==
    ASSUME DgramInv, drcv' = StartIfUnbound(drcv), UNCHANGED <<arrived, received, early>>,
           dstate' \in [bound : BOOLEAN, connected : BOOLEAN], dstate'.bound
    PROVE  DgramInv'
<1>1. drcv \in DgramReceivers /\ (drcv.req => drcv.msg = 0)
  BY DEF DgramInv
<1>2. CASE dstate.bound
  BY <1>1, <1>2, BufferSafe DEF StartIfUnbound
<1>3. CASE ~dstate.bound
  <2>1. drcv' = dgram_do_recv(drcv) /\ drcv.msg \in early \cup {0} /\ Missing = {}
    BY <1>3 DEF StartIfUnbound, DgramInv, NoDatagramLost
  <2>2. drcv' \in DgramReceivers /\ (drcv'.req => drcv'.msg = 0)
    BY <1>1, <2>1, DgramRequestMade
  <2>3. \A d \in 1 .. arrived : d # 0
    BY SMT DEF DgramInv
  <2>4. Missing' \subseteq {drcv.msg} \ {0}
    BY <2>1, <2>3 DEF Missing
  <2>5. NoDatagramLost'
    BY <2>1, <2>4 DEF NoDatagramLost
  <2>6. QED
    BY <2>2, <2>5 DEF DgramInv
<1>4. QED
  BY <1>2, <1>3

\* A flag of the receiver is set, or its request fails.
LEMMA FlagStep ==
    ASSUME DgramInv, UNCHANGED <<dstate, arrived, received, early>>, NEW f \in BOOLEAN,
           drcv' \in {drcv, [drcv EXCEPT !.shut = f], [drcv EXCEPT !.req = FALSE, !.error = f]}
    PROVE  DgramInv'
<1>1. /\ drcv \in DgramReceivers /\ (drcv.req => drcv.msg = 0)
      /\ dstate \in [bound : BOOLEAN, connected : BOOLEAN]
  BY DEF DgramInv
<1>2. drcv' \in DgramReceivers /\ drcv'.msg = drcv.msg /\ (drcv'.req => drcv.req)
  <2>1. \A e, g \in BOOLEAN :
          LET u == [drcv EXCEPT !.req = e, !.error = g] IN
          u \in DgramReceivers /\ u.msg = drcv.msg /\ u.req = e
    BY <1>1, DgramUpdates
  <2>2. CASE drcv' = [drcv EXCEPT !.req = FALSE, !.error = f]
    BY <2>1, <2>2
  <2>3. CASE drcv' = [drcv EXCEPT !.shut = f]
    BY <1>1, <2>3, FlagSet
  <2>4. QED
    BY <1>1, <2>2, <2>3
<1>3. QED
  BY <1>1, <1>2, BufferSafe

LEMMA DgramRecvStep ==
    ASSUME DgramInv, NEW t \in DCallers, dgram_try_recvmsg(t), UNCHANGED early
    PROVE  DgramInv'
<1>1. /\ drcv \in DgramReceivers /\ (drcv.req => drcv.msg = 0) /\ UNCHANGED <<arrived, dstate>>
      /\ dstate' \in [bound : BOOLEAN, connected : BOOLEAN]
  BY DEF DgramInv, dgram_try_recvmsg
<1>2. \/ drcv' = drcv /\ received \subseteq received'
      \/ drcv' = dgram_do_recv(drcv) /\ received' = received \cup {drcv.msg}
      \/ drcv' = [drcv EXCEPT !.error = FALSE] /\ received' = received
      \/ drcv.msg = 0 /\ drcv' = dgram_do_recv(drcv) /\ received' = received
  <2>1. drcv.error \in BOOLEAN /\ drcv.shut \in BOOLEAN
    BY <1>1 DEF DgramReceivers
  <2>2. CASE drcv.msg # 0
    BY <2>2 DEF dgram_try_recvmsg
  <2>3. CASE drcv.msg = 0 /\ drcv.error
    BY <2>3 DEF dgram_try_recvmsg
  <2>4. CASE drcv.msg = 0 /\ ~drcv.error /\ drcv.shut
    BY <2>4 DEF dgram_try_recvmsg
  <2>5. CASE drcv.msg = 0 /\ ~drcv.error /\ ~drcv.shut
    BY <2>5 DEF dgram_try_recvmsg
  <2>6. QED
    BY <2>1, <2>2, <2>3, <2>4, <2>5
<1>3. CASE drcv' = drcv /\ received \subseteq received'
  BY <1>1, <1>3, BufferSafe
<1>4. CASE /\ drcv' = dgram_do_recv(drcv)
           /\ received' = received \cup {drcv.msg} \/ (drcv.msg = 0 /\ received' = received)
  <2>1. drcv' \in DgramReceivers /\ (drcv'.req => drcv'.msg = 0) /\ drcv'.msg \in {0, drcv.msg}
    BY <1>1, <1>4, DgramRequestMade
  <2>2. received \subseteq received' /\ drcv.msg \in received' \cup {0}
    BY <1>4
  <2>3. QED
    BY <1>1, <2>1, <2>2, BufferSafe
<1>5. CASE drcv' = [drcv EXCEPT !.error = FALSE] /\ received' = received
  <2>1. drcv' \in DgramReceivers /\ drcv'.msg = drcv.msg /\ drcv'.req = drcv.req
    BY <1>1, <1>5, FlagSet
  <2>2. QED
    BY <1>1, <1>5, <2>1, BufferSafe
<1>6. QED
  BY <1>2, <1>3, <1>4, <1>5

\* A datagram arrives in a buffer the host had, so the earlier ones have been returned.
LEMMA DgramArrivalStep ==
    ASSUME DgramInv, DgramRecvDone
    PROVE  DgramInv'
<1>1. /\ drcv.req /\ arrived' = arrived + 1 /\ UNCHANGED <<dstate, received>>
      /\ early' = IF dstate.bound THEN early ELSE early \cup {arrived + 1}
      /\ drcv' = [drcv EXCEPT !.req = FALSE, !.msg = arrived + 1]
  BY DEF DgramRecvDone
<1>2. arrived + 1 \in Nat /\ drcv \in DgramReceivers /\ drcv.msg = 0 /\ arrived \in Nat
  BY <1>1, SMT DEF DgramInv
<1>3. \A f \in BOOLEAN, m \in Nat :
        LET u == [drcv EXCEPT !.req = f, !.msg = m] IN
        u \in DgramReceivers /\ u.msg = m /\ u.req = f
  BY <1>2, DgramUpdates
<1>4. drcv' \in DgramReceivers /\ drcv'.msg = arrived' /\ ~drcv'.req
  BY <1>1, <1>2, <1>3
<1>5. NoDatagramLost'
  <2>1. \A d \in 1 .. arrived' : d = arrived' \/ (d \in 1 .. arrived /\ d # 0)
    BY <1>1, <1>2, SMT
  <2>2. Missing' \subseteq Missing
    BY <1>1, <1>2, <1>4, <2>1 DEF Missing
  <2>3. QED
    BY <1>1, <2>2 DEF DgramInv, NoDatagramLost
<1>6. ~dstate'.bound => drcv'.msg \in early'
  BY <1>1, <1>4, SMT
<1>7. QED
  BY <1>1, <1>2, <1>4, <1>5, <1>6 DEF DgramInv

\* For any threads, calls and arrivals, the one buffer of a UDP socket is handed to the host
\* again only when its datagram has been returned by recvmsg, except once, when the socket is
\* bound.
THEOREM DatagramsKept == DgramSpec => []NoDatagramLost
<1>1. DgramInit => DgramInv
  <2> SUFFICES ASSUME DgramInit PROVE DgramInv
    OBVIOUS
  <2>1. drcv \in DgramReceivers /\ drcv.msg = 0 /\ arrived = 0 /\ arrived \in Nat /\ ~drcv.req
    BY SMT DEF DgramInit, NewDgramReceiver, DgramReceivers
  <2>2. 1 .. arrived = {}
    BY <2>1, SMT
  <2>3. Missing = {}
    BY <2>2 DEF Missing
  <2>4. QED
    BY <2>1, <2>3 DEF DgramInit, DgramInv, NoDatagramLost
<1>2. DgramInv /\ [DgramNext]_dgramVars => DgramInv'
  <2> SUFFICES ASSUME DgramInv, [DgramNext]_dgramVars PROVE DgramInv'
    OBVIOUS
  <2>1. /\ drcv \in DgramReceivers /\ (drcv.req => drcv.msg = 0)
        /\ dstate \in [bound : BOOLEAN, connected : BOOLEAN]
    BY DEF DgramInv
  <2>2. CASE UNCHANGED dgramVars
    BY <2>2, FlagStep DEF dgramVars
  <2>3. ASSUME NEW t \in DCallers, DCallerNext(t), UNCHANGED early PROVE DgramInv'
    <3>1. CASE mark_explicit_bind(t) \/ Sent(t) \/ mark_connected(t)
      <4> DEFINE c == DCurrent(t).peer # "default"
      <4>1. /\ drcv' = StartIfUnbound(drcv) /\ UNCHANGED <<arrived, received, early>>
            /\ dstate' = [dstate EXCEPT !.bound = TRUE] \/ dstate' = [bound |-> TRUE, connected |-> c]
        BY <2>3, <3>1 DEF mark_explicit_bind, Sent, mark_connected
      <4>2. c \in BOOLEAN
        OBVIOUS
      <4> HIDE DEF c
      <4>3. dstate' \in [bound : BOOLEAN, connected : BOOLEAN] /\ dstate'.bound
        <5>1. CASE dstate' = [dstate EXCEPT !.bound = TRUE]
          BY <2>1, <5>1
        <5>2. CASE dstate' = [bound |-> TRUE, connected |-> c]
          BY <4>2, <5>2
        <5>3. QED
          BY <4>1, <5>1, <5>2
      <4>4. QED
        BY <4>1, <4>3, FirstUseStep
    <3>2. CASE connect(t)
      <4>1. /\ UNCHANGED <<drcv, arrived, received, early>>
            /\ dstate' = dstate \/ dstate' = [dstate EXCEPT !.connected = FALSE]
        BY <2>3, <3>2 DEF connect
      <4>2. dstate' \in [bound : BOOLEAN, connected : BOOLEAN] /\ dstate'.bound = dstate.bound
        BY <2>1, <4>1
      <4>3. QED
        BY <2>1, <4>1, <4>2, BufferSafe
    <3>3. CASE dgram_try_recvmsg(t)
      BY <2>3, <3>3, DgramRecvStep
    <3>4. CASE DgramShutdownSet(t)
      <4> DEFINE f == drcv.shut \/ "read" \in DCurrent(t).how
      <4>1. f \in BOOLEAN /\ drcv' = [drcv EXCEPT !.shut = f] /\ UNCHANGED <<dstate, arrived, received>>
        BY <3>4 DEF DgramShutdownSet
      <4> HIDE DEF f
      <4>2. QED
        BY <2>3, <4>1, FlagStep
    <3>5. CASE DgramClose(t)
      BY <2>3, <3>5, FlagStep DEF DgramClose
    <3>6. CASE reset_shutdown(t)
      BY <2>3, <3>6, FlagStep DEF reset_shutdown
    <3>7. CASE \/ bind(t) \/ SendCall(t) \/ dgram_try_sendmsg(t) \/ RecvCall(t) \/ dgram_connect_poller(t)
               \/ dgram_poll(t) \/ dgram_wait_timeout(t) \/ ShutdownCall(t) \/ DgramCancelWaited(t)
      <4>1. UNCHANGED <<dstate, arrived, received, drcv>>
        BY <3>7 DEF bind, SendCall, dgram_try_sendmsg, RecvCall, dgram_connect_poller, dgram_poll,
                    dgram_wait_timeout, ShutdownCall, DgramCancelWaited
      <4>2. QED
        BY <2>3, <4>1, FlagStep
    <3>8. QED
      BY <2>3, <3>1, <3>2, <3>3, <3>4, <3>5, <3>6, <3>7 DEF DCallerNext
  <2>4. CASE (HostBinds \/ DgramSendDone \/ DgramSendFails) /\ UNCHANGED early
    <3>1. UNCHANGED <<dstate, arrived, received, drcv, early>>
      BY <2>4 DEF HostBinds, DgramSendDone, DgramSendFails
    <3>2. QED
      BY <3>1, FlagStep
  <2>5. CASE DgramRecvDone
    BY <2>5, DgramArrivalStep
  <2>6. CASE DgramRecvFails /\ UNCHANGED early
    BY <2>6, FlagStep DEF DgramRecvFails
  <2>7. QED
    BY <2>2, <2>3, <2>4, <2>5, <2>6 DEF DgramNext
<1>3. DgramInv => NoDatagramLost
  BY DEF DgramInv
<1>4. QED
  BY <1>1, <1>2, <1>3, PTL DEF DgramSpec
=============================================================================
