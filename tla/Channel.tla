------------------------------ MODULE Channel ------------------------------
(***************************************************************************)
(* The channel behind pipes and Unix sockets, fs/channel.rs, with the      *)
(* waiter queues, waiters and notifiers of events/ that block and wake its *)
(* users.  Threads push to the producer and pop from the consumer; any of  *)
(* them may shut an endpoint down or change its O_NONBLOCK meanwhile.      *)
(*                                                                         *)
(* The ring buffer (a library) is a number of items.  The two endpoints    *)
(* have a lock each, so pushes and pops run concurrently.  The queue of    *)
(* wakers is a set, because it is always drained as a whole; a waker whose *)
(* waiter is gone does nothing, so it leaves the set with its waiter.      *)
(***************************************************************************)
EXTENDS Naturals, Sequences

CONSTANTS
    Threads,    \* threads that use the channel
    Side,       \* the endpoint each thread uses: "producer" or "consumer"
    Capacity,   \* of the ring buffer
    Sizes,      \* lengths of the slices the threads push and pop
    Calls,      \* what each thread does: "transfer", "shutdown", "nonblock", "block"
    MaxPushed,  \* bound on the items pushed
    Nobody

ASSUME ChannelAssumption ==
    /\ Side \in [Threads -> {"producer", "consumer"}]
    /\ Capacity \in Nat /\ Nobody \notin Threads
    /\ Sizes \subseteq Nat \ {0}       \* a call with nothing to transfer returns at once

Ends == {"producer", "consumer"}
Peer(e) == IF e = "producer" THEN "consumer" ELSE "producer"

VARIABLES
    len,            \* items in the ring buffer
    pushed,         \* items pushed so far
    shut,           \* State: is_producer_shutdown, is_consumer_shutdown
    nonblocking,    \* is_nonblocking of each endpoint
    lock,           \* holder of each endpoint's SgxMutex
    wakers,         \* waiters in the WaiterQueue of each endpoint's observer
    woken,          \* LevelSync::is_woken of a thread's waiter
    event,          \* the host eventfd of each thread is readable
    pc,
    size,           \* length of the slice of the call in progress
    waiting,        \* the thread has made its waiter: it is in the main loop
    toNotify,       \* endpoints whose queues the thread has still to wake, in order
    toWake,         \* wakers it has taken out of a queue
    toWrite         \* threads whose eventfd it has still to write to

chanVars == <<len, pushed, shut, nonblocking>>
vars == <<chanVars, lock, wakers, woken, event, pc, size, waiting, toNotify, toWake, toWrite>>

Init ==
    /\ len = 0 /\ pushed = 0
    /\ shut = [e \in Ends |-> FALSE]
    /\ nonblocking = [e \in Ends |-> FALSE]
    /\ lock = [e \in Ends |-> Nobody]
    /\ wakers = [e \in Ends |-> {}]
    /\ woken = [t \in Threads |-> FALSE]
    /\ event = [t \in Threads |-> FALSE]
    /\ pc = [t \in Threads |-> "user"]
    /\ size = [t \in Threads |-> 0]
    /\ waiting = [t \in Threads |-> FALSE]
    /\ toNotify = [t \in Threads |-> <<>>]
    /\ toWake = [t \in Threads |-> {}]
    /\ toWrite = [t \in Threads |-> {}]

Goto(t, label) == pc' = [pc EXCEPT ![t] = label]
Unlock(t) == lock' = [lock EXCEPT ![Side[t]] = Nobody]

\* The call returns and its waiter, if it made one, is dropped.
Leave(t) ==
    /\ size' = [size EXCEPT ![t] = 0]
    /\ waiting' = [waiting EXCEPT ![t] = FALSE]
    /\ woken' = [woken EXCEPT ![t] = FALSE]
    /\ wakers' = [e \in Ends |-> wakers[e] \ {t}]
    /\ toWake' = [u \in Threads |-> toWake[u] \ {t}]

Return(t) == Goto(t, "user") /\ Leave(t)

(***************************************************************************)
(* push_slices and pop_slices: the body of waiter_loop.                    *)
(***************************************************************************)
Call(t) ==
    /\ "transfer" \in Calls[t] /\ pc[t] = "user"
    /\ \E n \in Sizes : /\ Side[t] = "producer" => pushed + n <= MaxPushed
                        /\ size' = [size EXCEPT ![t] = n]
    /\ Goto(t, "lock")
    /\ UNCHANGED <<chanVars, lock, wakers, woken, event, waiting, toNotify, toWake, toWrite>>

\* EPIPE: a pop is refused on its own shutdown only, a push on either.
Refused(e) == shut[e] \/ (e = "producer" /\ shut["consumer"])

\* The endpoint is locked and the flags are read.
LockAndCheck(t) ==
    /\ pc[t] = "lock" /\ lock[Side[t]] = Nobody
    /\ IF Refused(Side[t])
       THEN Return(t) /\ UNCHANGED lock
       ELSE /\ lock' = [lock EXCEPT ![Side[t]] = t]
            /\ Goto(t, "transfer") /\ UNCHANGED <<wakers, woken, size, waiting, toWake>>
    /\ UNCHANGED <<chanVars, event, toNotify, toWrite>>

Room(e) == IF e = "producer" THEN Capacity - len ELSE len
Min2(a, b) == IF a < b THEN a ELSE b

\* push_slice or pop_slice on the ring buffer.  Something was transferred: the lock is
\* dropped and the peer notified.
Transfer(t) ==
    LET n == Min2(size[t], Room(Side[t])) IN
    /\ pc[t] = "transfer"
    /\ IF n > 0
       THEN /\ IF Side[t] = "producer" THEN len' = len + n /\ pushed' = pushed + n
                                       ELSE len' = len - n /\ UNCHANGED pushed
            /\ Unlock(t)
            /\ toNotify' = [toNotify EXCEPT ![t] = <<Peer(Side[t])>>]
            /\ Goto(t, "drain")
       ELSE Goto(t, "empty") /\ UNCHANGED <<len, pushed, lock, toNotify>>
    /\ UNCHANGED <<shut, nonblocking, wakers, woken, event, size, waiting, toWake, toWrite>>

\* Nothing was transferred: the end of the stream, EAGAIN, or one more round of the loop.
NothingDone(t) ==
    /\ pc[t] = "empty"
    /\ Unlock(t)
    /\ IF nonblocking[Side[t]] \/ (Side[t] = "consumer" /\ shut["producer"])
       THEN Return(t)
       ELSE /\ Goto(t, IF waiting[t] THEN "wait" ELSE "reset")
            /\ waiting' = [waiting EXCEPT ![t] = TRUE]
            /\ UNCHANGED <<wakers, woken, size, toWake>>
    /\ UNCHANGED <<chanVars, event, toNotify, toWrite>>

(***************************************************************************)
(* WaiterQueue::reset_and_enqueue and LevelSync::wait.                     *)
(***************************************************************************)
Reset(t) ==
    /\ pc[t] = "reset"
    /\ woken' = [woken EXCEPT ![t] = FALSE]
    /\ Goto(t, "enqueue")
    /\ UNCHANGED <<chanVars, lock, wakers, event, size, waiting, toNotify, toWake, toWrite>>

\* Mutant: the queue is not tried again between the enqueuing and the sleep.
EnqueueAndSleep(t) ==
    /\ pc[t] = "enqueue"
    /\ wakers' = [wakers EXCEPT ![Side[t]] = @ \cup {t}]
    /\ Goto(t, "wait")
    /\ UNCHANGED <<chanVars, lock, woken, event, size, waiting, toNotify, toWake, toWrite>>

Enqueue(t) ==
    /\ pc[t] = "enqueue"
    /\ wakers' = [wakers EXCEPT ![Side[t]] = @ \cup {t}]
    /\ Goto(t, "lock")
    /\ UNCHANGED <<chanVars, lock, woken, event, size, waiting, toNotify, toWake, toWrite>>

Wait(t) ==
    /\ pc[t] = "wait"
    /\ Goto(t, IF woken[t] THEN "reset" ELSE "poll")
    /\ UNCHANGED <<chanVars, lock, wakers, woken, event, size, waiting, toNotify, toWake, toWrite>>

\* HostEventFd::poll: the eventfd becomes readable and is read.
Poll(t) ==
    /\ pc[t] = "poll" /\ event[t]
    /\ event' = [event EXCEPT ![t] = FALSE]
    /\ Goto(t, "wait")
    /\ UNCHANGED <<chanVars, lock, wakers, woken, size, waiting, toNotify, toWake, toWrite>>

\* The poll is interrupted: EINTR.
Interrupted(t) ==
    /\ pc[t] = "poll"
    /\ Return(t)
    /\ UNCHANGED <<chanVars, lock, event, toNotify, toWrite>>

(***************************************************************************)
(* trigger_peer_events: Notifier::broadcast to the peer's observer, which  *)
(* is WaiterQueue::dequeue_and_wake_all; the thread's own queue is woken   *)
(* in the same way by shutdown and set_nonblocking.                        *)
(***************************************************************************)
Drain(t) ==
    /\ pc[t] = "drain"
    /\ LET e == toNotify[t][1] IN
       /\ toWake' = [toWake EXCEPT ![t] = wakers[e]]
       /\ wakers' = [wakers EXCEPT ![e] = {}]
    /\ Goto(t, "mark")
    /\ UNCHANGED <<chanVars, lock, woken, event, size, waiting, toNotify, toWrite>>

\* LevelSync::wake_cond: the compare-and-swap succeeds.
wake_cond(t) == ~woken[t]

Mark(t) ==
    /\ pc[t] = "mark"
    /\ woken' = [u \in Threads |-> woken[u] \/ u \in toWake[t]]
    /\ toWrite' = [toWrite EXCEPT ![t] = {u \in toWake[t] : wake_cond(u)}]
    /\ toWake' = [toWake EXCEPT ![t] = {}]
    /\ Goto(t, "write")
    /\ UNCHANGED <<chanVars, lock, wakers, event, size, waiting, toNotify>>

\* write_u64_raw_and_batch; then the next queue, or the call is over.
Write(t) ==
    /\ pc[t] = "write"
    /\ event' = [u \in Threads |-> event[u] \/ u \in toWrite[t]]
    /\ toWrite' = [toWrite EXCEPT ![t] = {}]
    /\ IF Len(toNotify[t]) = 2
       THEN /\ toNotify' = [toNotify EXCEPT ![t] = <<@[2]>>]
            /\ Goto(t, "drain") /\ UNCHANGED <<wakers, woken, size, waiting, toWake>>
       ELSE /\ toNotify' = [toNotify EXCEPT ![t] = <<>>]
            /\ Return(t)
    /\ UNCHANGED <<chanVars, lock>>

(***************************************************************************)
(* shutdown, which dropping an endpoint does as well, and set_nonblocking. *)
(***************************************************************************)

ShutdownQueues(e) == <<Peer(e), e>>

\* The flag is set with the endpoint locked; a second shutdown does nothing.
Shutdown(t) ==
    /\ "shutdown" \in Calls[t] /\ pc[t] = "user"
    /\ lock[Side[t]] = Nobody /\ ~shut[Side[t]]
    /\ shut' = [shut EXCEPT ![Side[t]] = TRUE]
    /\ toNotify' = [toNotify EXCEPT ![t] = ShutdownQueues(Side[t])]
    /\ Goto(t, "drain")
    /\ UNCHANGED <<len, pushed, nonblocking, lock, wakers, woken, event, size, waiting, toWake, toWrite>>

set_nonblocking(t, on) ==
    /\ (IF on THEN "nonblock" ELSE "block") \in Calls[t] /\ pc[t] = "user"
    /\ nonblocking' = [nonblocking EXCEPT ![Side[t]] = on]
    /\ toNotify' = [toNotify EXCEPT ![t] = IF on THEN <<Side[t]>> ELSE <<>>]
    /\ Goto(t, IF on THEN "drain" ELSE "user")
    /\ UNCHANGED <<len, pushed, shut, lock, wakers, woken, event, size, waiting, toWake, toWrite>>

Step(t) ==
    \/ LockAndCheck(t) \/ Transfer(t) \/ NothingDone(t)
    \/ Reset(t) \/ Enqueue(t) \/ Wait(t) \/ Poll(t)
    \/ Drain(t) \/ Mark(t) \/ Write(t)

Next ==
    \E t \in Threads :
        \/ Call(t) \/ Step(t) \/ Interrupted(t) \/ Shutdown(t)
        \/ \E on \in BOOLEAN : set_nonblocking(t, on)

Spec == Init /\ [][Next]_vars
-----------------------------------------------------------------------------
Labels == {"user", "lock", "transfer", "empty", "reset", "enqueue", "wait", "poll", "drain", "mark", "write"}

\* The queues a thread has still to wake: one, or the peer's and its own.
Queues == {<<>>} \cup {<<e>> : e \in Ends} \cup {<<e, f>> : e, f \in Ends}

TypeOK ==
    /\ len \in 0 .. Capacity /\ pushed \in Nat
    /\ shut \in [Ends -> BOOLEAN] /\ nonblocking \in [Ends -> BOOLEAN]
    /\ lock \in [Ends -> Threads \cup {Nobody}]
    /\ wakers \in [Ends -> SUBSET Threads]
    /\ woken \in [Threads -> BOOLEAN] /\ event \in [Threads -> BOOLEAN]
    /\ pc \in [Threads -> Labels]
    /\ size \in [Threads -> Nat] /\ waiting \in [Threads -> BOOLEAN]
    /\ toNotify \in [Threads -> Queues]
    /\ toWake \in [Threads -> SUBSET Threads] /\ toWrite \in [Threads -> SUBSET Threads]

\* The next round of the loop would not go to sleep.
Ready(t) ==
    Room(Side[t]) > 0 \/ shut["producer"] \/ nonblocking[Side[t]] \/ Refused(Side[t])

Asleep(t) == pc[t] \in {"wait", "poll"} /\ ~woken[t]

\* u has yet to empty the queue of e.
Notifying(u, e) ==
    \/ pc[u] = "drain" /\ toNotify[u][1] = e
    \/ pc[u] \in {"drain", "mark", "write"} /\ Len(toNotify[u]) = 2 /\ toNotify[u][2] = e

\* u has taken the waker of t out of the queue.
Taken(u, t) == pc[u] = "mark" /\ t \in toWake[u]

AboutToBeWoken(t) ==
    \E u \in Threads : Taken(u, t) \/ (t \in wakers[Side[t]] /\ Notifying(u, Side[t]))

\* No wake-up is lost: a thread that sleeps, or is about to, although it could go on is
\* about to be woken by somebody: its waker has been taken out of the queue, or it is in
\* the queue and the one who made the change has not yet emptied it (waiter_loop enqueues
\* before it tries again, so a change before the attempt is seen and one after it wakes).
NoLostWakeup == \A t \in Threads : Asleep(t) /\ Ready(t) => AboutToBeWoken(t)

\* The end of the stream is told only to a consumer that has taken everything (what the
\* two flags and the lock "important to hold ... while updating the state" are for).
EofOnlyWhenDrained ==
    [][\A t \in Threads :
         pc[t] = "empty" /\ pc'[t] = "user" /\ Side[t] = "consumer" /\ ~nonblocking["consumer"]
            => len = 0]_vars
=============================================================================
