----------------------------- MODULE WaitProofs -----------------------------
(***************************************************************************)
(* Proofs about threads that wait. The futex service, for any number of    *)
(* threads, waiters, words and buckets, loses no sleeper, and FUTEX_WAIT   *)
(* and a broadcast FUTEX_WAKE miss nobody. The TCP socket, for any callers *)
(* and buffer sizes, never hides that it is readable or writable.          *)
(***************************************************************************)
EXTENDS Futex, StreamSocket, FiniteSetTheorems, TLAPS

\* A thread's Waiter is one it allocated, and is marked on the error path.
WaiterInv ==
    \A t \in Threads :
        /\ me[t] # NoWaiter => Owner[me[t]] = t
        /\ pc[t] \in {"relock", "dequeue"} => is_woken[me[t]]

IInv == TypeOK /\ WaiterInv /\ NoSleeperLost /\ StaleItemsWoken

\* The backend of the leaves that name no other, with time to spare.
USE ZenonT(60)


\* The fields of a call, whatever its kind.
LEMMA CallFields ==
    ASSUME NEW c \in Call
    PROVE  /\ c # NoCall
           /\ c.key \in Addrs /\ Hash[c.key] \in Buckets
           /\ c.op \in {"wait", "wake", "requeue"}
           /\ c.op # "requeue" => c.val \in Vals
           /\ c.op = "wait" => c.bitset \in SUBSET Bits
           /\ c.op = "requeue" => c.new \in Addrs /\ Hash[c.new] \in Buckets
  BY HashAssumption, NullAssumption DEF Call, WaitCall, WakeCall, RequeueCall

LEMMA InitType == Init => TypeOK
  BY AddrsAssumption, NullAssumption, SMTT(60) DEF Init, TypeOK, Labels, Waiting

\* Every step of the futex service preserves the types and the control state.
LEMMA NextType == TypeOK /\ [Next]_vars => TypeOK'
  <1> SUFFICES ASSUME TypeOK, [Next]_vars PROVE TypeOK'
    OBVIOUS
  <1> USE NullAssumption, HashAssumption, OwnerAssumption DEF TypeOK, Labels, Waiting
  <1>1. CASE UNCHANGED vars
    BY <1>1 DEF vars, itemVars
  <1>2. ASSUME NEW t \in Threads, Enter(t) PROVE TypeOK'
    <2>1. PICK c \in Calls[t] : Enter(t)!(c)
      BY <1>2 DEF Enter
    <2>2. c \in Call
      BY CallsAssumption
    <2> QED
      BY <2>1, <2>2, CallFields DEF Goto, itemVars
  <1>3. ASSUME NEW t \in Threads, LockBucket(t) PROVE TypeOK'
    BY <1>3, CallFields DEF LockBucket, Acquire, Goto, TwoBuckets, FirstBucket, itemVars
  <1>4. ASSUME NEW t \in Threads, LockSecondBucket(t) PROVE TypeOK'
    BY <1>4, CallFields DEF LockSecondBucket, Acquire, Goto, FirstBucket, SecondBucket, itemVars
  <1>5. ASSUME NEW t \in Threads, WaitMismatch(t) PROVE TypeOK'
    BY <1>5, CallFields DEF WaitMismatch, Unlock, Return, Goto, itemVars
  <1>6. ASSUME NEW t \in Threads, WaitMatch(t) PROVE TypeOK'
    BY <1>6, CallFields DEF WaitMatch, Goto, itemVars
  <1>7. ASSUME NEW t \in Threads, WaitEnqueue(t) PROVE TypeOK'
    BY <1>7, CallFields, SMTT(60) DEF WaitEnqueue, enqueue_item, Unlock, Goto
  <1>8. ASSUME NEW t \in Threads, dequeue_and_wake_items(t) PROVE TypeOK'
    <2> DEFINE D == First(Selected(Hash[call[t].key], call[t].key,
                            IF call[t].op = "wake" THEN call[t].bitset ELSE Bits), call[t].n)
    <2>1. call[t] \in Call /\ D \subseteq Waiters
      BY <1>8, CallFields DEF dequeue_and_wake_items, First, Selected
    <2>2. is_woken' \in [Waiters -> BOOLEAN]
      BY <1>8 DEF dequeue_and_wake_items
    <2>3. toSet' \in [Threads -> SUBSET Threads]
      <3>1. ThreadsToSet(D) \in SUBSET Threads
        BY <2>1, SMTT(60) DEF ThreadsToSet
      <3> QED
        BY <3>1, <1>8 DEF dequeue_and_wake_items
    <2>4. queue' \in [Buckets -> SUBSET Waiters] /\ ahead' \in [Waiters -> SUBSET Waiters]
      BY <1>8, <2>1, CallFields DEF dequeue_and_wake_items, RemoveItems
    <2> QED
      BY <1>8, <2>1, <2>2, <2>3, <2>4, CallFields, SMTT(60) DEF dequeue_and_wake_items, Goto
  <1>9. ASSUME NEW t \in Threads, set_events(t) PROVE TypeOK'
    <2>1. event' \in [Threads -> BOOLEAN]
      BY <1>9 DEF set_events
    <2>2. CASE call[t].op = "requeue" /\ call[t].new # call[t].key
      BY <1>9, <2>1, <2>2, CallFields, SMTT(60) DEF set_events, Goto, itemVars
    <2>3. CASE ~(call[t].op = "requeue" /\ call[t].new # call[t].key)
      <3>1. Unlock(t) /\ Return(t) /\ toSet' = [toSet EXCEPT ![t] = {}] /\ pc[t] = "set"
        BY <1>9, <2>3 DEF set_events
      <3>2. UNCHANGED <<val, itemVars, is_woken, me>>
        BY <1>9 DEF set_events
      <3> QED
        BY <2>1, <3>1, <3>2 DEF Unlock, Return, Goto, itemVars
    <2> QED
      BY <2>2, <2>3
  <1>10. ASSUME NEW t \in Threads, requeue_items(t) PROVE TypeOK'
    <2>1. call[t] \in Call /\ call[t].new \in Addrs
      BY <1>10, CallFields DEF requeue_items
    <2>2. key' \in [Waiters -> Addrs]
      BY <1>10, <2>1 DEF requeue_items
    <2>3. queue' \in [Buckets -> SUBSET Waiters] /\ ahead' \in [Waiters -> SUBSET Waiters]
      <3> DEFINE M == First({w \in queue[Hash[call[t].key]] : key[w] = call[t].key}, call[t].m)
      <3>1. M \subseteq Waiters /\ Hash[call[t].new] \in Buckets
        BY <2>1, CallFields DEF First
      <3>2. CASE Hash[call[t].key] = Hash[call[t].new]
        BY <1>10, <3>2 DEF requeue_items
      <3>3. CASE Hash[call[t].key] # Hash[call[t].new]
        <4> HIDE DEF M
        <4>1. /\ queue' = [queue EXCEPT ![Hash[call[t].key]] = @ \ M,
                                       ![Hash[call[t].new]] = @ \cup M]
              /\ ahead' = [w \in Waiters |->
                             IF w \in M THEN queue[Hash[call[t].new]] \cup (ahead[w] \cap M)
                                        ELSE ahead[w] \ M]
          BY <1>10, <3>3 DEF requeue_items, M
        <4> QED
          BY <4>1, <3>1
      <3> QED
        BY <3>2, <3>3
    <2> QED
      BY <1>10, <2>1, <2>2, <2>3, CallFields DEF requeue_items, Unlock, Return, Goto
  <1>11. ASSUME NEW t \in Threads, CheckWoken(t) PROVE TypeOK'
    <2>1. CASE is_woken[me[t]]
      <3>1. Return(t) /\ me' = [me EXCEPT ![t] = NoWaiter] /\ pc[t] = "check"
        BY <1>11, <2>1 DEF CheckWoken
      <3>2. UNCHANGED <<val, lock, itemVars, is_woken, event, toSet>>
        BY <1>11 DEF CheckWoken
      <3> QED
        BY <3>1, <3>2 DEF Return, Goto, itemVars
    <2>2. CASE ~is_woken[me[t]]
      BY <1>11, <2>2 DEF CheckWoken, Goto, itemVars
    <2> QED
      BY <2>1, <2>2
  <1>12. ASSUME NEW t \in Threads, EventArrives(t) PROVE TypeOK'
    BY <1>12, CallFields DEF EventArrives, Goto, itemVars
  <1>13. ASSUME NEW t \in Threads, EventFails(t) PROVE TypeOK'
    BY <1>13, CallFields DEF EventFails, Goto, itemVars
  <1>14. ASSUME NEW t \in Threads, GiveUp(t) PROVE TypeOK'
    BY <1>14, CallFields DEF GiveUp, Goto, itemVars
  <1>15. ASSUME NEW t \in Threads, Relock(t) PROVE TypeOK'
    BY <1>15, CallFields DEF Relock, Acquire, Goto, itemVars
  <1>16. ASSUME NEW t \in Threads, dequeue_item(t) PROVE TypeOK'
    <2>1. /\ pc[t] = "dequeue" /\ RemoveItems(Hash[call[t].key], First(EqualItems(t), 1))
          /\ Unlock(t) /\ Return(t) /\ me' = [me EXCEPT ![t] = NoWaiter]
          /\ UNCHANGED <<val, key, bitset, is_woken, event, toSet>>
      BY <1>16 DEF dequeue_item
    <2>2. queue' \in [Buckets -> SUBSET Waiters]
      BY <2>1 DEF RemoveItems
    <2>3. ahead' \in [Waiters -> SUBSET Waiters]
      BY <2>1 DEF RemoveItems
    <2>4. lock' \in [Buckets -> Threads \cup {NoThread}]
      BY <2>1 DEF Unlock
    <2> QED
      BY <2>1, <2>2, <2>3, <2>4 DEF Return, Goto
  <1>17. ASSUME NEW t \in Threads, SpuriousEvent(t) PROVE TypeOK'
    BY <1>17 DEF SpuriousEvent, itemVars
  <1> QED
    BY <1>1, <1>2, <1>3, <1>4, <1>5, <1>6, <1>7, <1>8, <1>9, <1>10, <1>11, <1>12,
       <1>13, <1>14, <1>15, <1>16, <1>17 DEF Next, Locking, Running

\* A step that touches neither items nor Waiters, and brings no thread to the
\* sleep loop or to the error path from elsewhere, preserves the invariant.
LEMMA QuietStep ==
    ASSUME IInv, TypeOK', UNCHANGED <<queue, key, is_woken, me>>,
           \A u \in Threads : /\ pc'[u] \in {"check", "sleep"} => pc[u] \in {"check", "sleep"}
                              /\ pc'[u] \in {"relock", "dequeue"} => pc[u] \in {"relock", "dequeue"}
    PROVE  IInv'
  <1>1. WaiterInv'
    BY DEF IInv, WaiterInv
  <1>2. NoSleeperLost'
    BY DEF IInv, NoSleeperLost, Asleep
  <1>3. StaleItemsWoken'
    BY DEF IInv, StaleItemsWoken
  <1> QED
    BY <1>1, <1>2, <1>3 DEF IInv

\* Every step preserves the inductive invariant of the futex service.
LEMMA NextInv == IInv /\ [Next]_vars => IInv'
  <1> SUFFICES ASSUME IInv, [Next]_vars PROVE IInv'
    OBVIOUS
  <1>t. TypeOK /\ TypeOK'
    BY NextType DEF IInv
  <1>f. /\ queue \in [Buckets -> SUBSET Waiters] /\ key \in [Waiters -> Addrs]
        /\ is_woken \in [Waiters -> BOOLEAN] /\ me \in [Threads -> Waiters \cup {NoWaiter}]
        /\ pc \in [Threads -> Labels] /\ call \in [Threads -> Call \cup {NoCall}]
        /\ \A u \in Threads : /\ pc[u] \in Waiting <=> me[u] # NoWaiter
                              /\ pc[u] = "user" <=> call[u] = NoCall
                              /\ pc[u] = "move" => call[u].op = "requeue"
    BY <1>t DEF TypeOK
  <1> USE DEF Waiting
  <1> USE NullAssumption, HashAssumption, OwnerAssumption
  <1>1. CASE UNCHANGED vars
    BY <1>1, <1>t, QuietStep DEF vars, itemVars
  <1>2. ASSUME NEW t \in Threads, Enter(t) PROVE IInv'
    BY <1>2, <1>t, <1>f, QuietStep DEF Enter, Goto, itemVars
  <1>3. ASSUME NEW t \in Threads, LockBucket(t) PROVE IInv'
    BY <1>3, <1>t, <1>f, QuietStep DEF LockBucket, Goto, itemVars
  <1>4. ASSUME NEW t \in Threads, LockSecondBucket(t) PROVE IInv'
    BY <1>4, <1>t, <1>f, QuietStep DEF LockSecondBucket, Goto, itemVars
  <1>5. ASSUME NEW t \in Threads, WaitMismatch(t) PROVE IInv'
    BY <1>5, <1>t, <1>f, QuietStep DEF WaitMismatch, Return, Goto, itemVars
  <1>6. ASSUME NEW t \in Threads, WaitMatch(t) PROVE IInv'
    BY <1>6, <1>t, <1>f, QuietStep DEF WaitMatch, Goto, itemVars
  <1>7. ASSUME NEW t \in Threads, WaitEnqueue(t) PROVE IInv'
    <2> DEFINE b == Hash[call[t].key]
    <2>1. PICK w \in Waiters : WaitEnqueue(t)!2!(w)
      BY <1>7 DEF WaitEnqueue
    <2>2. /\ b \in Buckets /\ call[t].key \in Addrs /\ pc[t] = "enqueue" /\ Owner[w] = t
          /\ \A u \in Threads : me[u] # w
          /\ \A bb \in Buckets : w \notin queue[bb]
          /\ queue' = [queue EXCEPT ![b] = @ \cup {w}]
          /\ key' = [key EXCEPT ![w] = call[t].key]
          /\ is_woken' = [is_woken EXCEPT ![w] = FALSE]
          /\ me' = [me EXCEPT ![t] = w]
          /\ pc' = [pc EXCEPT ![t] = "check"]
      <3>1. pc[t] = "enqueue" /\ Goto(t, "check")
        BY <1>7 DEF WaitEnqueue
      <3>2. b \in Buckets /\ call[t].key \in Addrs
        BY <3>1, <1>f, CallFields
      <3> QED
        BY <2>1, <3>1, <3>2 DEF enqueue_item, Goto, Unreferenced
    <2>3. WaiterInv'
      BY <2>2, <1>f, SMTT(60) DEF IInv, WaiterInv, Waiting
    <2>4. NoSleeperLost'
      <3> SUFFICES ASSUME NEW u \in Threads, Asleep(u)'
                   PROVE  (me[u] \in queue[Hash[key[me[u]]]])'
        BY DEF NoSleeperLost
      <3>1. CASE u = t
        BY <2>2, <3>1, <1>f
      <3>2. CASE u # t
        <4>1. Asleep(u) /\ me[u] \in Waiters /\ me[u] # w
          BY <2>2, <3>2, <1>f, SMTT(60) DEF Asleep, Waiting
        <4>2. me[u] \in queue[Hash[key[me[u]]]] /\ key[me[u]] \in Addrs
          BY <4>1, <1>f DEF IInv, NoSleeperLost
        <4> QED
          BY <2>2, <3>2, <4>1, <4>2, <1>f
      <3> QED
        BY <3>1, <3>2
    <2>5. StaleItemsWoken'
      <3> SUFFICES ASSUME NEW bb \in Buckets, NEW v \in queue'[bb],
                          \A u \in Threads : me'[u] # v
                   PROVE  is_woken'[v]
        BY DEF StaleItemsWoken
      <3>1. v # w /\ v \in queue[bb] /\ v \in Waiters
        BY <2>2, <1>f
      <3>2. \A u \in Threads : me[u] # v
        <4>1. me[t] = NoWaiter /\ v # NoWaiter
          BY <2>2, <3>1, <1>f DEF Waiting
        <4>2. \A u \in Threads \ {t} : me'[u] = me[u]
          BY <2>2, <1>f
        <4> QED
          BY <4>1, <4>2
      <3>3. is_woken[v]
        BY <3>1, <3>2 DEF IInv, StaleItemsWoken
      <3> QED
        BY <2>2, <3>1, <3>3, <1>f
    <2> QED
      BY <2>3, <2>4, <2>5, <1>t DEF IInv
  <1>8. ASSUME NEW t \in Threads, dequeue_and_wake_items(t) PROVE IInv'
    <2> DEFINE c == call[t]
               D == First(Selected(Hash[c.key], c.key,
                            IF c.op = "wake" THEN c.bitset ELSE Bits), c.n)
    <2>1. /\ c \in Call /\ Hash[c.key] \in Buckets /\ pc[t] = "body"
          /\ queue' = [queue EXCEPT ![Hash[c.key]] = @ \ D]
          /\ UNCHANGED <<key, me>> /\ pc' = [pc EXCEPT ![t] = "set"]
      BY <1>8, <1>f, CallFields DEF dequeue_and_wake_items, RemoveItems, Goto
    <2>2. is_woken' = [w \in Waiters |-> w \in D \/ is_woken[w]]
      BY <1>8 DEF dequeue_and_wake_items
    <2> HIDE DEF D, c
    <2>3. \A w \in Waiters : is_woken'[w] <=> w \in D \/ is_woken[w]
      BY <2>2
    <2>4. WaiterInv'
      BY <2>1, <2>3, <1>f DEF IInv, WaiterInv, Waiting
    <2>5. NoSleeperLost'
      BY <2>1, <2>3, <1>f DEF IInv, NoSleeperLost, Asleep, Waiting
    <2>6. StaleItemsWoken'
      BY <2>1, <2>3, <1>f DEF IInv, StaleItemsWoken
    <2> QED
      BY <2>4, <2>5, <2>6, <1>t DEF IInv
  <1>9. ASSUME NEW t \in Threads, set_events(t) PROVE IInv'
    <2>1. UNCHANGED <<queue, key, is_woken, me>>
      BY <1>9 DEF set_events, itemVars
    <2>2. pc' = [pc EXCEPT ![t] = "move"] \/ pc' = [pc EXCEPT ![t] = "user"]
      BY <1>9 DEF set_events, Goto, Return
    <2> QED
      BY <2>1, <2>2, <1>t, <1>f, QuietStep
  <1>10. ASSUME NEW t \in Threads, requeue_items(t) PROVE IInv'
    <2> DEFINE b == Hash[call[t].key]
               nb == Hash[call[t].new]
               M == First({w \in queue[b] : key[w] = call[t].key}, call[t].m)
    <2>1. /\ b \in Buckets /\ nb \in Buckets /\ pc[t] = "move"
          /\ key' = [w \in Waiters |-> IF w \in M THEN call[t].new ELSE key[w]]
          /\ UNCHANGED <<is_woken, me>> /\ pc' = [pc EXCEPT ![t] = "user"]
      <3>1. pc[t] = "move" /\ Return(t) /\ UNCHANGED <<is_woken, me>>
        BY <1>10 DEF requeue_items
      <3>2. b \in Buckets /\ nb \in Buckets
        BY <3>1, <1>f, CallFields
      <3>3. key' = [w \in Waiters |-> IF w \in M THEN call[t].new ELSE key[w]]
        BY <1>10 DEF requeue_items
      <3> QED
        BY <3>1, <3>2, <3>3 DEF Return, Goto
    <2>2. \A w \in M : w \in queue[b] /\ key[w] = call[t].key /\ w \in Waiters
      BY <2>1, <1>f DEF First
    <2>3. IF b = nb THEN UNCHANGED queue
                    ELSE queue' = [queue EXCEPT ![b] = @ \ M, ![nb] = @ \cup M]
      BY <1>10 DEF requeue_items
    <2> HIDE DEF M, b, nb
    <2>3a. \A w \in Waiters : key'[w] = IF w \in M THEN call[t].new ELSE key[w]
      BY <2>1
    <2>3b. \A bb \in Buckets :
            queue'[bb] = IF b = nb \/ bb \notin {b, nb} THEN queue[bb]
                         ELSE IF bb = b THEN queue[b] \ M ELSE queue[nb] \cup M
      <3>1. queue \in [Buckets -> SUBSET Waiters]
        BY <1>f
      <3> QED
        BY <2>1, <2>3, <3>1
    <2>3c. \A bb \in Buckets : \A w \in queue[bb] : w \notin M => w \in queue'[bb]
      BY <2>3b
    <2>3d. \A w \in M : w \in queue'[nb]
      BY <2>1, <2>2, <2>3b
    <2>3e. \A bb \in Buckets : \A w \in queue'[bb] : w \in queue[bb] \/ w \in M
      BY <2>3b
    <2>4. WaiterInv'
      BY <2>1, <1>f DEF IInv, WaiterInv, Waiting
    <2>5. NoSleeperLost'
      <3> SUFFICES ASSUME NEW u \in Threads, Asleep(u)'
                   PROVE  (me[u] \in queue[Hash[key[me[u]]]])'
        BY DEF NoSleeperLost
      <3>1. me[u] \in Waiters /\ me[u] \in queue[Hash[key[me[u]]]] /\ u # t
        BY <2>1, <1>f DEF IInv, NoSleeperLost, Asleep, Waiting
      <3>2. CASE me[u] \in M
        <4>1. me'[u] = me[u] /\ key'[me[u]] = call[t].new /\ me[u] \in queue'[nb]
          BY <2>1, <2>3a, <2>3d, <3>1, <3>2
        <4> QED
          BY <4>1 DEF nb
      <3>3. CASE me[u] \notin M
        <4>1. Hash[key[me[u]]] \in Buckets
          BY <3>1, <1>f
        <4> QED
          BY <2>1, <2>3a, <2>3c, <3>1, <3>3, <4>1
      <3> QED
        BY <3>2, <3>3
    <2>6. StaleItemsWoken'
      <3> SUFFICES ASSUME NEW bb \in Buckets, NEW w \in queue'[bb],
                          \A u \in Threads : me'[u] # w
                   PROVE  is_woken'[w]
        BY DEF StaleItemsWoken
      <3>1. w \in queue[bb] \/ w \in queue[b]
        BY <2>2, <2>3e
      <3> QED
        BY <2>1, <3>1 DEF IInv, StaleItemsWoken
    <2> QED
      BY <2>4, <2>5, <2>6, <1>t DEF IInv
  <1>11. ASSUME NEW t \in Threads, CheckWoken(t) PROVE IInv'
    <2>1. CASE is_woken[me[t]]
      <3>1. /\ pc' = [pc EXCEPT ![t] = "user"] /\ me' = [me EXCEPT ![t] = NoWaiter]
            /\ UNCHANGED <<queue, key, is_woken>> /\ pc[t] = "check"
        BY <1>11, <2>1 DEF CheckWoken, Return, Goto, itemVars
      <3>2. WaiterInv'
        BY <3>1, <1>f, SMTT(60) DEF IInv, WaiterInv, Waiting
      <3>3. NoSleeperLost'
        BY <3>1, <1>f DEF IInv, NoSleeperLost, Asleep, Waiting
      <3>4. StaleItemsWoken'
        BY <3>1, <2>1, <1>f, SMTT(60) DEF IInv, StaleItemsWoken
      <3> QED
        BY <3>2, <3>3, <3>4, <1>t DEF IInv
    <2>2. CASE ~is_woken[me[t]]
      BY <1>11, <2>2, <1>t, <1>f, QuietStep DEF CheckWoken, Goto, itemVars
    <2> QED
      BY <2>1, <2>2
  <1>12. ASSUME NEW t \in Threads, EventArrives(t) PROVE IInv'
    BY <1>12, <1>t, <1>f, QuietStep DEF EventArrives, Goto, itemVars
  <1>13. ASSUME NEW t \in Threads, EventFails(t) PROVE IInv'
    BY <1>13, <1>t, <1>f, QuietStep DEF EventFails, Goto, itemVars
  <1>14. ASSUME NEW t \in Threads, GiveUp(t) PROVE IInv'
    <2>1. /\ pc[t] = "failed" /\ me[t] \in Waiters /\ UNCHANGED <<queue, key, me>>
          /\ pc' = [pc EXCEPT ![t] = "relock"]
          /\ is_woken' = [is_woken EXCEPT ![me[t]] = TRUE]
      BY <1>14, <1>f DEF GiveUp, Goto, itemVars, Waiting
    <2>2. WaiterInv'
      BY <2>1, <1>f, SMTT(60) DEF IInv, WaiterInv, Waiting
    <2>3. NoSleeperLost'
      BY <2>1, <1>f DEF IInv, NoSleeperLost, Asleep, Waiting
    <2>4. StaleItemsWoken'
      BY <2>1, <1>f DEF IInv, StaleItemsWoken
    <2> QED
      BY <2>2, <2>3, <2>4, <1>t DEF IInv
  <1>15. ASSUME NEW t \in Threads, Relock(t) PROVE IInv'
    BY <1>15, <1>t, <1>f, QuietStep DEF Relock, Goto, itemVars
  <1>16. ASSUME NEW t \in Threads, dequeue_item(t) PROVE IInv'
    <2> DEFINE D == First(EqualItems(t), 1)
    <2>1. /\ pc[t] = "dequeue" /\ Hash[call[t].key] \in Buckets
          /\ queue' = [queue EXCEPT ![Hash[call[t].key]] = @ \ D]
          /\ UNCHANGED <<key, is_woken>> /\ me' = [me EXCEPT ![t] = NoWaiter]
          /\ pc' = [pc EXCEPT ![t] = "user"]
      BY <1>16, <1>f, CallFields DEF dequeue_item, RemoveItems, Return, Goto, Waiting
    <2>2. \A w \in D : Owner[w] = t
      BY DEF First, EqualItems
    <2> HIDE DEF D
    <2>3. WaiterInv'
      BY <2>1, <1>f, SMTT(60) DEF IInv, WaiterInv, Waiting
    <2>4. NoSleeperLost'
      BY <2>1, <2>2, <1>f, SMTT(60) DEF IInv, NoSleeperLost, WaiterInv, Asleep, Waiting
    <2>5. StaleItemsWoken'
      BY <2>1, <1>f, SMTT(60) DEF IInv, StaleItemsWoken, WaiterInv
    <2> QED
      BY <2>3, <2>4, <2>5, <1>t DEF IInv
  <1>17. ASSUME NEW t \in Threads, SpuriousEvent(t) PROVE IInv'
    <2>1. UNCHANGED <<queue, key, is_woken, me, pc>>
      BY <1>17 DEF SpuriousEvent, itemVars
    <2> QED
      BY <2>1, <1>t, QuietStep
  <1> QED
    BY <1>1, <1>2, <1>3, <1>4, <1>5, <1>6, <1>7, <1>8, <1>9, <1>10, <1>11, <1>12,
       <1>13, <1>14, <1>15, <1>16, <1>17 DEF Next, Locking, Running

LEMMA InitInv == Init => IInv
  <1> SUFFICES ASSUME Init PROVE IInv
    OBVIOUS
  <1>1. TypeOK
    BY InitType
  <1> QED
    BY <1>1 DEF Init, IInv, WaiterInv, NoSleeperLost, Asleep, StaleItemsWoken

LEMMA Inductive == Spec => []IInv
  BY InitInv, NextInv, PTL DEF Spec

\* The types and local variables of do_futex.rs, for every number of threads.
THEOREM TypeCorrect == Spec => []TypeOK
  <1>1. IInv => TypeOK
    BY DEF IInv
  <1> QED
    BY <1>1, Inductive, PTL

\* No thread in futex_wait is ever dropped from the bucket of its item's key
\* before it is woken, whatever mix of wakes, requeues and timeouts happens.
THEOREM SleeperReachable == Spec => []NoSleeperLost
  <1>1. IInv => NoSleeperLost
    BY DEF IInv
  <1> QED
    BY <1>1, Inductive, PTL

\* An item left behind by a wait that has returned is always marked woken.
THEOREM StaleNeverSignalled == Spec => []StaleItemsWoken
  <1>1. IInv => StaleItemsWoken
    BY DEF IInv
  <1> QED
    BY <1>1, Inductive, PTL

-----------------------------------------------------------------------------
(* Wakers that broadcast.                                                  *)

\* The calls of a program that waits and broadcasts: FUTEX_WAIT with some bit,
\* and FUTEX_WAKE of everybody (INT_MAX) after each store.
Broadcasts ==
    /\ IsFiniteSet(Waiters)
    /\ \A t \in Threads : \A c \in Calls[t] :
        \/ c.op = "wait" /\ c.bitset # {}
        \/ c.op = "wake" /\ c.bitset = Bits /\ c.n > Cardinality(Waiters)

\* Between its value check and its enqueue a waiter holds the bucket's lock;
\* so does a waker that dequeues.  Items keep the key their wait was given.
BInv ==
    \A t \in Threads :
        /\ call[t] # NoCall => call[t] \in Calls[t]
        /\ pc[t] \in {"body", "enqueue"} => lock[Hash[call[t].key]] = t
        /\ pc[t] \in Waiting => key[me[t]] = call[t].key /\ bitset[me[t]] = call[t].bitset

\* NoMissedWake, extended to a waiter that is about to join the queue.
Pending(k) ==
    \E u \in Threads : pc[u] \in {"lock", "body"} /\ call[u].op = "wake" /\ call[u].key = k

MInv ==
    \A t \in Threads :
        (Asleep(t) \/ pc[t] = "enqueue") /\ val[call[t].key] # call[t].val
            => Pending(call[t].key)


\* With broadcast wakes, First selects every item that matches.
LEMMA FirstAll ==
    ASSUME IsFiniteSet(Waiters), TypeOK, NEW M \in SUBSET Waiters, NEW n \in Nat,
           n > Cardinality(Waiters)
    PROVE  First(M, n) = M
  <1>1. ASSUME NEW w \in M PROVE Cardinality(ahead[w] \cap M) < n
    <2>1. ahead[w] \cap M \subseteq Waiters
      BY DEF TypeOK
    <2>2. /\ Cardinality(ahead[w] \cap M) <= Cardinality(Waiters)
          /\ IsFiniteSet(ahead[w] \cap M)
      BY <2>1, FS_Subset
    <2>3. Cardinality(ahead[w] \cap M) \in Nat /\ Cardinality(Waiters) \in Nat
      BY <2>2, FS_CardinalityType
    <2> QED
      BY <2>2, <2>3, SMTT(60)
  <1> QED
    BY <1>1 DEF First

LEMMA NextB == ASSUME Broadcasts PROVE IInv /\ BInv /\ [Next]_vars => BInv'
  <1> SUFFICES ASSUME IInv, BInv, [Next]_vars PROVE BInv'
    OBVIOUS
  <1>t. TypeOK /\ TypeOK'
    BY NextType DEF IInv
  <1>c. \A u \in Threads : pc[u] # "user" =>
            /\ call[u] \in Call /\ call[u].key \in Addrs /\ Hash[call[u].key] \in Buckets
            /\ call[u].op \in {"wait", "wake"}
    BY <1>t, CallFields, SMTT(60) DEF Broadcasts, BInv, TypeOK
  <1> USE NullAssumption, HashAssumption, OwnerAssumption
  <1>f. /\ lock \in [Buckets -> Threads \cup {NoThread}] /\ key \in [Waiters -> Addrs]
        /\ queue \in [Buckets -> SUBSET Waiters] /\ bitset \in [Waiters -> SUBSET Bits]
        /\ is_woken \in [Waiters -> BOOLEAN] /\ me \in [Threads -> Waiters \cup {NoWaiter}]
        /\ pc \in [Threads -> Labels] /\ call \in [Threads -> Call \cup {NoCall}]
        /\ val \in [Addrs -> Vals]
        /\ \A u \in Threads : /\ pc[u] \in Waiting <=> me[u] # NoWaiter
                              /\ pc[u] = "user" <=> call[u] = NoCall
                              /\ pc[u] \in Waiting \cup {"enqueue"} => call[u].op = "wait"
                              /\ pc[u] \in {"lock2", "set", "move"} => call[u].op # "wait"
                              /\ pc[u] \in {"lock2", "move"} => call[u].op = "requeue"
    BY <1>t DEF TypeOK
  <1> USE DEF Waiting
  <1>1. CASE UNCHANGED vars
    BY <1>1 DEF vars, itemVars, BInv
  <1>2. ASSUME NEW t \in Threads, Enter(t) PROVE BInv'
    <2>1. PICK c \in Calls[t] : Enter(t)!(c)
      BY <1>2 DEF Enter
    <2> QED
      BY <2>1, <1>f DEF Goto, itemVars, BInv, Waiting
  <1>3. ASSUME NEW t \in Threads, LockBucket(t) PROVE BInv'
    BY <1>3, <1>f, <1>c, SMTT(60) DEF LockBucket, Acquire, TwoBuckets, FirstBucket, Goto, itemVars,
                            BInv, Waiting
  <1>4. ASSUME NEW t \in Threads, LockSecondBucket(t) PROVE BInv'
    BY <1>4, <1>f, <1>c DEF LockSecondBucket
  <1>5. ASSUME NEW t \in Threads, WaitMismatch(t) PROVE BInv'
    BY <1>5, <1>f, <1>c DEF WaitMismatch, Unlock, Return, Goto, itemVars, BInv, Waiting
  <1>6. ASSUME NEW t \in Threads, WaitMatch(t) PROVE BInv'
    BY <1>6, <1>f DEF WaitMatch, Goto, itemVars, BInv, Waiting
  <1>7. ASSUME NEW t \in Threads, WaitEnqueue(t) PROVE BInv'
    <2>1. PICK w \in Waiters : WaitEnqueue(t)!2!(w)
      BY <1>7 DEF WaitEnqueue
    <2> QED
      BY <1>7, <2>1, <1>f, <1>c, SMTT(60) DEF WaitEnqueue, Unlock, Goto, Unreferenced, BInv, Waiting
  <1>8. ASSUME NEW t \in Threads, dequeue_and_wake_items(t) PROVE BInv'
    BY <1>8, <1>f DEF dequeue_and_wake_items, Goto, BInv, Waiting
  <1>9. ASSUME NEW t \in Threads, set_events(t) PROVE BInv'
    <2>1. Unlock(t) /\ Return(t) /\ UNCHANGED <<key, bitset, me>> /\ pc[t] = "set"
      BY <1>9, <1>c DEF set_events, itemVars
    <2> QED
      BY <2>1, <1>f, <1>c DEF Unlock, Return, Goto, BInv, Waiting
  <1>10. ASSUME NEW t \in Threads, requeue_items(t) PROVE BInv'
    BY <1>10, <1>f, <1>c DEF requeue_items
  <1>11. ASSUME NEW t \in Threads, CheckWoken(t) PROVE BInv'
    <2>1. CASE is_woken[me[t]]
      <3>1. /\ Return(t) /\ me' = [me EXCEPT ![t] = NoWaiter]
            /\ UNCHANGED <<lock, key, bitset>>
        BY <1>11, <2>1 DEF CheckWoken, itemVars
      <3> QED
        BY <3>1, <1>f DEF Return, Goto, BInv, Waiting
    <2>2. CASE ~is_woken[me[t]]
      BY <1>11, <2>2, <1>f, SMTT(60) DEF CheckWoken, Goto, itemVars, BInv, Waiting
    <2> QED
      BY <2>1, <2>2
  <1>12. ASSUME NEW t \in Threads, EventArrives(t) PROVE BInv'
    BY <1>12, <1>f DEF EventArrives, Goto, itemVars, BInv, Waiting
  <1>13. ASSUME NEW t \in Threads, EventFails(t) PROVE BInv'
    BY <1>13, <1>f DEF EventFails, Goto, itemVars, BInv, Waiting
  <1>14. ASSUME NEW t \in Threads, GiveUp(t) PROVE BInv'
    BY <1>14, <1>f DEF GiveUp, Goto, itemVars, BInv, Waiting
  <1>15. ASSUME NEW t \in Threads, Relock(t) PROVE BInv'
    BY <1>15, <1>f, <1>c, SMTT(60) DEF Relock, Acquire, Goto, itemVars, BInv, Waiting
  <1>16. ASSUME NEW t \in Threads, dequeue_item(t) PROVE BInv'
    BY <1>16, <1>f, <1>c DEF dequeue_item, Unlock, Return, Goto, BInv, Waiting
  <1>17. ASSUME NEW t \in Threads, SpuriousEvent(t) PROVE BInv'
    BY <1>17 DEF SpuriousEvent, itemVars, BInv
  <1> QED
    BY <1>1, <1>2, <1>3, <1>4, <1>5, <1>6, <1>7, <1>8, <1>9, <1>10, <1>11, <1>12,
       <1>13, <1>14, <1>15, <1>16, <1>17 DEF Next, Locking, Running

\* A step that changes no word and wakes nobody, lets no thread fall asleep,
\* and takes no waker past its dequeue, preserves MInv.
LEMMA QuietM ==
    ASSUME MInv, UNCHANGED val,
           \A u \in Threads : (Asleep(u)' \/ pc'[u] = "enqueue") =>
                (Asleep(u) \/ pc[u] = "enqueue") /\ call'[u] = call[u],
           \A u \in Threads : pc[u] \in {"lock", "body"} /\ call[u].op = "wake" =>
                pc'[u] \in {"lock", "body"} /\ call'[u] = call[u]
    PROVE  MInv'
  <1>1. \A k : Pending(k) => Pending(k)'
    BY DEF Pending
  <1> QED
    BY <1>1 DEF MInv

LEMMA NextM == ASSUME Broadcasts PROVE IInv /\ BInv /\ MInv /\ [Next]_vars => MInv'
  <1> SUFFICES ASSUME IInv, BInv, MInv, [Next]_vars PROVE MInv'
    OBVIOUS
  <1>t. TypeOK /\ TypeOK'
    BY NextType DEF IInv
  <1>c. \A u \in Threads : pc[u] # "user" =>
            /\ call[u] \in Call /\ call[u].key \in Addrs /\ Hash[call[u].key] \in Buckets
            /\ call[u].op \in {"wait", "wake"}
    BY <1>t, CallFields, SMTT(60) DEF Broadcasts, BInv, TypeOK
  <1> USE NullAssumption, HashAssumption, OwnerAssumption
  <1>f. /\ lock \in [Buckets -> Threads \cup {NoThread}] /\ key \in [Waiters -> Addrs]
        /\ queue \in [Buckets -> SUBSET Waiters] /\ bitset \in [Waiters -> SUBSET Bits]
        /\ is_woken \in [Waiters -> BOOLEAN] /\ me \in [Threads -> Waiters \cup {NoWaiter}]
        /\ pc \in [Threads -> Labels] /\ call \in [Threads -> Call \cup {NoCall}]
        /\ val \in [Addrs -> Vals]
        /\ \A u \in Threads : /\ pc[u] \in Waiting <=> me[u] # NoWaiter
                              /\ pc[u] = "user" <=> call[u] = NoCall
                              /\ pc[u] \in Waiting \cup {"enqueue"} => call[u].op = "wait"
                              /\ pc[u] \in {"lock2", "set", "move"} => call[u].op # "wait"
                              /\ pc[u] \in {"lock2", "move"} => call[u].op = "requeue"
    BY <1>t DEF TypeOK
  <1> USE DEF Waiting
  <1>1. CASE UNCHANGED vars
    BY <1>1, QuietM DEF vars, itemVars, Asleep
  <1>2. ASSUME NEW t \in Threads, Enter(t) PROVE MInv'
    <2>1. PICK c \in Calls[t] : Enter(t)!(c)
      BY <1>2 DEF Enter
    <2>2. c \in Call /\ c.key \in Addrs
      BY CallsAssumption, CallFields
    <2>3. \A k : Pending(k) => Pending(k)'
      BY <2>1, <1>f DEF Pending, Goto
    <2>4. c.op = "wake" => Pending(c.key)'
      BY <2>1, <1>f DEF Pending, Goto
    <2>5. ASSUME NEW u \in Threads, Asleep(u)' \/ pc'[u] = "enqueue",
                 val'[call'[u].key] # call'[u].val
          PROVE  Pending(call[u].key)'
      <3>1. u # t /\ (Asleep(u) \/ pc[u] = "enqueue") /\ call'[u] = call[u]
        BY <2>1, <2>5, <1>f DEF Goto, Asleep
      <3>2. CASE val[call[u].key] # call[u].val
        <4>1. Pending(call[u].key)
          BY <3>1, <3>2 DEF MInv
        <4>2. \A k : Pending(k)' /\ k = call'[u].key => Pending(call[u].key)'
          BY DEF Pending
        <4> QED
          BY <4>1, <4>2, <2>3, <3>1
      <3>3. CASE val[call[u].key] = call[u].val
        <4>1. val'[call[u].key] # val[call[u].key]
          BY <2>5, <3>1, <3>3
        <4>2. c.op = "wake"
          BY <2>1, <4>1
        <4>3. PICK v : val' = [val EXCEPT ![c.key] = v]
          BY <2>1, <4>2
        <4>4. call[u].key \in Addrs
          BY <3>1, <1>c, <1>f DEF Asleep, Labels
        <4>5. c.key = call[u].key
          BY <4>1, <4>3, <4>4, <1>f
        <4> QED
          BY <4>2, <4>5, <2>4, <3>1 DEF Pending
      <3> QED
        BY <3>2, <3>3
    <2> QED
      BY <2>5 DEF MInv
  <1>3. ASSUME NEW t \in Threads, LockBucket(t) PROVE MInv'
    BY <1>3, <1>f, <1>c, QuietM DEF LockBucket, TwoBuckets, Goto, itemVars, Asleep, Waiting
  <1>4. ASSUME NEW t \in Threads, LockSecondBucket(t) PROVE MInv'
    BY <1>4, <1>f, <1>c, QuietM DEF LockSecondBucket, Goto, itemVars, Asleep, Waiting
  <1>5. ASSUME NEW t \in Threads, WaitMismatch(t) PROVE MInv'
    BY <1>5, <1>f, QuietM DEF WaitMismatch, Return, Goto, itemVars, Asleep, Waiting
  <1>6. ASSUME NEW t \in Threads, WaitMatch(t) PROVE MInv'
    <2>1. \A k : Pending(k) => Pending(k)'
      BY <1>6, <1>f DEF WaitMatch, Pending, Goto
    <2>2. \A u \in Threads \ {t} : (Asleep(u)' <=> Asleep(u)) /\ pc'[u] = pc[u]
      BY <1>6, <1>f DEF WaitMatch, Asleep, Goto
    <2>3. val' = val /\ call' = call /\ val[call[t].key] = call[t].val
      BY <1>6 DEF WaitMatch
    <2> QED
      BY <2>1, <2>2, <2>3 DEF MInv
  <1>7. ASSUME NEW t \in Threads, WaitEnqueue(t) PROVE MInv'
    <2>1. PICK w \in Waiters : WaitEnqueue(t)!2!(w)
      BY <1>7 DEF WaitEnqueue
    <2>2. \A u \in Threads \ {t} : Asleep(u)' => Asleep(u)
      BY <1>7, <2>1, <1>f, SMTT(60) DEF WaitEnqueue, Goto, Asleep, Unreferenced, Waiting
    <2> QED
      BY <1>7, <2>2, <1>f, QuietM DEF WaitEnqueue, Goto
  <1>8. ASSUME NEW t \in Threads, dequeue_and_wake_items(t) PROVE MInv'
    <2> DEFINE c == call[t]
               S == Selected(Hash[c.key], c.key, Bits)
    <2>1. /\ c \in Calls[t] /\ c \in Call /\ c.op = "wake" /\ pc[t] = "body"
          /\ c.key \in Addrs /\ Hash[c.key] \in Buckets
      BY <1>8, <1>f, <1>c DEF dequeue_and_wake_items, BInv
    <2>2. c.bitset = Bits /\ c.n > Cardinality(Waiters) /\ c.n \in Nat
      BY <2>1 DEF Broadcasts, Call, WaitCall, WakeCall, RequeueCall
    <2>3. S \in SUBSET Waiters
      BY <2>1, <1>f DEF Selected
    <2>4. First(S, c.n) = S
      BY <2>2, <2>3, <1>t, FirstAll DEF Broadcasts
    <2>5. /\ is_woken' = [w \in Waiters |-> w \in S \/ is_woken[w]]
          /\ pc' = [pc EXCEPT ![t] = "set"] /\ UNCHANGED <<val, call, me>>
      BY <1>8, <2>1, <2>2, <2>4 DEF dequeue_and_wake_items, Goto
    <2> HIDE DEF S
    <2>6. \A w \in Waiters : is_woken'[w] <=> w \in S \/ is_woken[w]
      BY <2>5
    <2>7. ASSUME NEW u \in Threads, Asleep(u)' \/ pc'[u] = "enqueue",
                 val[call[u].key] # call[u].val
          PROVE  Pending(call[u].key)'
      <3>1. u # t /\ (Asleep(u) \/ pc[u] = "enqueue")
        BY <2>1, <2>5, <2>6, <2>7, <1>f DEF Asleep, Waiting
      <3>2. PICK v \in Threads : /\ pc[v] \in {"lock", "body"}
                                 /\ call[v].op = "wake" /\ call[v].key = call[u].key
        BY <3>1, <2>7 DEF MInv, Pending
      <3>3. call[u].key # c.key
        <4>1. CASE pc[u] = "enqueue"
          BY <4>1, <3>1, <2>1 DEF BInv
        <4>2. CASE Asleep(u)
          <5>1. me[u] \in Waiters /\ me[u] \notin S /\ pc[u] \in {"check", "sleep"} /\ ~is_woken[me[u]]
            BY <4>2, <3>1, <2>5, <2>6, <2>7, <1>f DEF Asleep, Waiting
          <5>2. /\ me[u] \in queue[Hash[key[me[u]]]] /\ key[me[u]] = call[u].key
                /\ bitset[me[u]] = call[u].bitset /\ call[u] \in Calls[u]
            BY <4>2, <5>1, <1>f DEF IInv, NoSleeperLost, BInv, Waiting
          <5>3. call[u].bitset # {} /\ bitset[me[u]] \subseteq Bits
            BY <5>1, <5>2, <1>f DEF Broadcasts, Waiting
          <5> QED
            BY <5>1, <5>2, <5>3 DEF S, Selected
        <4> QED
          BY <4>1, <4>2, <3>1
      <3> QED
        BY <3>2, <3>3, <2>5, <1>f DEF Pending
    <2> QED
      BY <2>5, <2>7 DEF MInv
  <1>9. ASSUME NEW t \in Threads, set_events(t) PROVE MInv'
    <2>1. /\ Return(t) /\ UNCHANGED <<val, is_woken, me>> /\ pc[t] = "set"
      BY <1>9, <1>c DEF set_events
    <2> QED
      BY <2>1, <1>f, QuietM DEF Return, Goto, Asleep
  <1>10. ASSUME NEW t \in Threads, requeue_items(t) PROVE MInv'
    BY <1>10, <1>f, <1>c, QuietM DEF requeue_items, Goto, itemVars, Asleep, Waiting
  <1>11. ASSUME NEW t \in Threads, CheckWoken(t) PROVE MInv'
    <2>1. CASE is_woken[me[t]]
      <3>1. /\ Return(t) /\ me' = [me EXCEPT ![t] = NoWaiter] /\ pc[t] = "check"
            /\ UNCHANGED <<val, is_woken>>
        BY <1>11, <2>1 DEF CheckWoken
      <3> QED
        BY <3>1, <1>f, QuietM DEF Return, Goto, Asleep
    <2>2. CASE ~is_woken[me[t]]
      BY <1>11, <2>2, <1>f, QuietM DEF CheckWoken, Goto, Asleep
    <2> QED
      BY <2>1, <2>2
  <1>12. ASSUME NEW t \in Threads, EventArrives(t) PROVE MInv'
    BY <1>12, <1>f, QuietM DEF EventArrives, Goto, itemVars, Asleep, Waiting
  <1>13. ASSUME NEW t \in Threads, EventFails(t) PROVE MInv'
    BY <1>13, <1>f, QuietM DEF EventFails, Goto, itemVars, Asleep, Waiting
  <1>14. ASSUME NEW t \in Threads, GiveUp(t) PROVE MInv'
    <2>1. \A u \in Threads : Asleep(u)' => Asleep(u)
      BY <1>14, <1>f DEF GiveUp, Goto, Asleep, Waiting
    <2> QED
      BY <1>14, <2>1, <1>f, QuietM DEF GiveUp, Goto
  <1>15. ASSUME NEW t \in Threads, Relock(t) PROVE MInv'
    BY <1>15, <1>f, QuietM DEF Relock, Goto, itemVars, Asleep, Waiting
  <1>16. ASSUME NEW t \in Threads, dequeue_item(t) PROVE MInv'
    BY <1>16, <1>f, QuietM DEF dequeue_item, Return, Goto, itemVars, Asleep, Waiting
  <1>17. ASSUME NEW t \in Threads, SpuriousEvent(t) PROVE MInv'
    BY <1>17, <1>f, QuietM DEF SpuriousEvent, Goto, itemVars, Asleep, Waiting
  <1> QED
    BY <1>1, <1>2, <1>3, <1>4, <1>5, <1>6, <1>7, <1>8, <1>9, <1>10, <1>11, <1>12,
       <1>13, <1>14, <1>15, <1>16, <1>17 DEF Next, Locking, Running

\* The claim of the comment in futex_wait_bitset, for every program that waits
\* and broadcasts: checking the value with the bucket locked, no waiter misses
\* the wake that follows a change of its word.
THEOREM WakeNotMissed == ASSUME Broadcasts PROVE Spec => []NoMissedWake
  <1>1. Init => BInv /\ MInv
    BY DEF Init, BInv, MInv, Asleep, Waiting
  <1>2. MInv => NoMissedWake
    BY DEF MInv, NoMissedWake, Pending
  <1>3. IInv /\ BInv /\ MInv /\ [Next]_vars => BInv' /\ MInv'
    BY NextB, NextM
  <1> QED
    BY <1>1, <1>2, <1>3, Inductive, PTL DEF Spec
-----------------------------------------------------------------------------
(***************************************************************************)
(* The connected TCP socket.                                               *)
(***************************************************************************)
\* A thread that is not in user mode is in one of the calls it had to make.
StreamLabels == {"user", "try", "connect", "poll", "wait", "host_shutdown", "set_shutdown",
                 "set_write", "need_update", "cancel_recv", "linger"}
CallersInv ==
    /\ left \in [Callers -> Nat] /\ ucalls \in [Callers -> Seq(StreamCalls)]
    /\ upc \in [Callers -> StreamLabels]
    /\ \A t \in Callers : upc[t] # "user" => ucalls[t] # <<>>

\* A request covers bytes that are in the send buffer, which is never overfull; while it has
\* room OUT is set.
Senders == [buf : Nat, cap : Nat \ {0}, req : Nat, fatal : BOOLEAN, need : BOOLEAN,
            shut : {"Running", "PreShutdown", "PostShutdown"}]
SenderInv ==
    /\ snd \in Senders
    /\ snd.req <= snd.buf /\ snd.buf <= snd.cap
    /\ snd.buf < snd.cap => "OUT" \in uevents

\* While there is something to read IN is set.
Receivers == [buf : Nat, cap : Nat, req : BOOLEAN, shut : BOOLEAN, eof : BOOLEAN, fatal : BOOLEAN,
              need : BOOLEAN]
ReceiverInv ==
    /\ rcv \in Receivers
    /\ rcv.buf > 0 \/ rcv.eof => "IN" \in uevents

StreamInv ==
    /\ bufSize \in [send : Nat \ {0}, recv : Nat \ {0}] /\ wire \in Nat
    /\ CallersInv /\ SenderInv /\ ReceiverInv

-----------------------------------------------------------------------------
\* The fields of a sender or receiver after an update.
LEMMA SenderUpdates ==
    ASSUME NEW s \in Senders
    PROVE  /\ \A b, r \in Nat :
                LET u == [s EXCEPT !.buf = b, !.req = r] IN
                u \in Senders /\ u.buf = b /\ u.cap = s.cap /\ u.req = r
           /\ \A b \in Nat :
                LET u == [s EXCEPT !.buf = b] IN
                u \in Senders /\ u.buf = b /\ u.cap = s.cap /\ u.req = s.req
           /\ \A r \in Nat :
                LET u == [s EXCEPT !.req = r] IN
                u \in Senders /\ u.buf = s.buf /\ u.cap = s.cap /\ u.req = r
           /\ \A r \in Nat, f \in BOOLEAN :
                LET u == [s EXCEPT !.req = r, !.fatal = f] IN
                u \in Senders /\ u.buf = s.buf /\ u.cap = s.cap /\ u.req = r
           /\ \A c \in Nat \ {0} :
                LET u == [s EXCEPT !.cap = c] IN
                u \in Senders /\ u.buf = s.buf /\ u.cap = c /\ u.req = s.req
           /\ \A c \in Nat \ {0}, f \in BOOLEAN :
                LET u == [s EXCEPT !.need = f, !.cap = c] IN
                u \in Senders /\ u.buf = s.buf /\ u.cap = c /\ u.req = s.req
           /\ \A f \in BOOLEAN, h \in {"Running", "PreShutdown", "PostShutdown"} :
                \A u \in {[s EXCEPT !.fatal = f], [s EXCEPT !.need = f], [s EXCEPT !.shut = h]} :
                   u \in Senders /\ u.buf = s.buf /\ u.cap = s.cap /\ u.req = s.req
  BY DEF Senders

LEMMA ReceiverUpdates ==
    ASSUME NEW r \in Receivers
    PROVE  /\ \A b \in Nat, f \in BOOLEAN :
                \A u \in {[r EXCEPT !.buf = b], [r EXCEPT !.buf = b, !.req = f]} :
                   u \in Receivers /\ u.buf = b /\ u.eof = r.eof
           /\ \A f, g \in BOOLEAN :
                \A u \in {[r EXCEPT !.req = f], [r EXCEPT !.shut = f], [r EXCEPT !.fatal = f],
                          [r EXCEPT !.need = f], [r EXCEPT !.req = f, !.fatal = g]} :
                   u \in Receivers /\ u.buf = r.buf /\ u.eof = r.eof
           /\ \A c \in Nat, f \in BOOLEAN :
                LET u == [r EXCEPT !.need = f, !.cap = c] IN
                u \in Receivers /\ u.buf = r.buf /\ u.eof = r.eof
           /\ \A f, g \in BOOLEAN : [r EXCEPT !.req = f, !.eof = g] \in Receivers
  BY DEF Receivers

LEMMA StreamStarts == StreamInit => StreamInv
<1> SUFFICES ASSUME StreamInit PROVE StreamInv
  OBVIOUS
<1>1. /\ bufSize \in [send : Nat \ {0}, recv : Nat \ {0}] /\ wire \in Nat
      /\ ucalls \in [Callers -> Seq(StreamCalls)]
  <2>1. PICK p \in Programs : ucalls = p.calls /\ wire = p.wire
    BY DEF StreamInit
  <2>2. QED
    BY <2>1, StreamAssumption, SMT DEF StreamInit
<1>2. CallersInv
  BY <1>1 DEF StreamInit, CallersInv, StreamLabels
<1>3. SenderInv
  BY StreamAssumption, SMT DEF StreamInit, SenderInv, NewSender, Senders
<1>4. ReceiverInv
  <2>1. NewReceiver \in Receivers /\ NewReceiver.buf = 0 /\ NewReceiver.eof = FALSE
    BY StreamAssumption, SMT DEF NewReceiver, Receivers
  <2>2. rcv \in Receivers /\ rcv.buf = 0 /\ rcv.eof = FALSE
    BY <2>1, ReceiverUpdates DEF StreamInit
  <2>3. QED
    BY <2>2, SMT DEF ReceiverInv
<1>5. QED
  BY <1>1, <1>2, <1>3, <1>4 DEF StreamInv

\* A call returns, or goes on at another place.
LEMMA CallReturns ==
    ASSUME CallersInv, NEW t \in Callers, ucalls[t] # <<>>, SReturn(t)
    PROVE  CallersInv'
<1>1. Tail(ucalls[t]) \in Seq(StreamCalls)
  BY SMT DEF CallersInv
<1>2. ucalls' \in [Callers -> Seq(StreamCalls)] /\ left' \in [Callers -> Nat]
  BY <1>1, SMT DEF CallersInv, SReturn
<1>3. /\ upc' = [upc EXCEPT ![t] = "user"]
      /\ \A u \in Callers \ {t} : ucalls'[u] = ucalls[u]
  BY DEF CallersInv, SReturn, SGoto
<1>4. QED
  BY <1>2, <1>3 DEF CallersInv, StreamLabels

LEMMA CallGoesOn ==
    ASSUME CallersInv, NEW t \in Callers, ucalls[t] # <<>>, UNCHANGED ucalls,
           left' \in [Callers -> Nat], NEW l \in StreamLabels, SGoto(t, l)
    PROVE  CallersInv'
  BY DEF CallersInv, SGoto

\* Steps that leave a buffer as it is and do not withdraw its event.
LEMMA SenderKept ==
    ASSUME SenderInv, snd' \in Senders, snd'.buf = snd.buf, snd'.cap = snd.cap, snd'.req = snd.req,
           "OUT" \in uevents => "OUT" \in uevents'
    PROVE  SenderInv'
  BY DEF SenderInv
LEMMA ReceiverKept ==
    ASSUME ReceiverInv, rcv' \in Receivers, rcv'.buf = rcv.buf, rcv'.eof = rcv.eof,
           "IN" \in uevents => "IN" \in uevents'
    PROVE  ReceiverInv'
  BY DEF ReceiverInv

LEMMA SendStep ==
    ASSUME StreamInv, NEW t \in Callers, try_sendmsg(t)
    PROVE  StreamInv'
<1>1. /\ ucalls[t] # <<>> /\ CallersInv /\ left[t] \in Nat /\ snd \in Senders /\ rcv \in Receivers
      /\ UNCHANGED <<rcv, bufSize, wire>>
  BY DEF StreamInv, CallersInv, SenderInv, ReceiverInv, try_sendmsg
<1>2. CASE snd.shut # "Running" \/ snd.fatal
  <2>1. SReturn(t) /\ uevents' \in {uevents, uevents \ {"ERR"}} /\ snd' \in {snd, [snd EXCEPT !.fatal = FALSE]}
    BY <1>2 DEF try_sendmsg
  <2>2. snd' \in Senders /\ snd'.buf = snd.buf /\ snd'.cap = snd.cap /\ snd'.req = snd.req
    BY <1>1, <2>1, SenderUpdates
  <2>3. SenderInv' /\ ReceiverInv'
    BY <1>1, <2>1, <2>2, SenderKept, ReceiverKept DEF StreamInv
  <2>4. QED
    BY <1>1, <2>1, <2>3, CallReturns DEF StreamInv
<1>3. CASE snd.shut = "Running" /\ ~snd.fatal
  <2> DEFINE n == Lesser(left[t], snd.cap - snd.buf)
             s == [snd EXCEPT !.buf = @ + n]
  <2>1. /\ snd' = Flushed(s, n) /\ uevents' = OutAfter(s)
        /\ \/ SReturn(t)
           \/ /\ left' = [left EXCEPT ![t] = @ - n] /\ UNCHANGED ucalls
              /\ SGoto(t, IF upoller[t] = "none" THEN "connect" ELSE "poll")
    BY <1>3 DEF try_sendmsg
  <2>2. /\ snd.buf \in Nat /\ snd.cap \in Nat /\ snd.req \in Nat /\ snd.req <= snd.buf /\ snd.buf <= snd.cap
        /\ snd.buf < snd.cap => "OUT" \in uevents
    BY DEF StreamInv, SenderInv, Senders
  <2>3. n \in Nat /\ n <= left[t] /\ n <= snd.cap - snd.buf /\ snd.buf + n \in Nat
    BY <1>1, <2>2, SMT DEF Lesser
  <2> HIDE DEF n
  <2>4. s \in Senders /\ s.buf = snd.buf + n /\ s.cap = snd.cap /\ s.req = snd.req
    BY <1>1, <2>3, SenderUpdates
  <2> HIDE DEF s
  <2>5. /\ s.buf \in Nat /\ s.cap \in Nat /\ s.req \in Nat /\ s.req <= s.buf /\ s.buf <= s.cap
        /\ s.buf < s.cap => "OUT" \in uevents'
    BY <2>1, <2>2, <2>3, <2>4, SMT DEF OutAfter
  <2>6. snd' \in Senders /\ snd'.buf = s.buf /\ snd'.cap = s.cap /\ snd'.req \in {s.req, s.buf}
    BY <2>1, <2>4, <2>5, SenderUpdates DEF Flushed, do_send, new_send_req
  <2>7. SenderInv'
    BY <2>5, <2>6, SMT DEF SenderInv
  <2>8. ReceiverInv'
    BY <1>1, <2>1, ReceiverKept DEF StreamInv, OutAfter
  <2>9. CallersInv'
    <3>1. CASE SReturn(t)
      BY <1>1, <3>1, CallReturns
    <3>2. CASE /\ left' = [left EXCEPT ![t] = @ - n] /\ UNCHANGED ucalls
               /\ SGoto(t, IF upoller[t] = "none" THEN "connect" ELSE "poll")
      <4>1. left[t] - n \in Nat
        BY <1>1, <2>3, SMT
      <4>2. left' \in [Callers -> Nat]
        BY <3>2, <4>1 DEF StreamInv, CallersInv
      <4>3. QED
        BY <1>1, <3>2, <4>2, CallGoesOn DEF StreamLabels
    <3>3. QED
      BY <2>1, <3>1, <3>2
  <2>10. QED
    BY <1>1, <2>7, <2>8, <2>9 DEF StreamInv
<1>4. QED
  BY <1>2, <1>3

\* The completions of a send request.
LEMMA SendDoneStep ==
    ASSUME StreamInv, SendDone
    PROVE  StreamInv'
<1>1. PICK n \in 1 .. snd.req :
        LET s == [snd EXCEPT !.buf = @ - n, !.req = 0] IN
        CASE s.buf > 0 -> snd' = do_send(s) /\ UNCHANGED hostShut
          [] s.buf = 0 /\ s.shut = "PreShutdown" ->
                snd' = [s EXCEPT !.shut = "PostShutdown"] /\ hostShut' = hostShut \cup {"write"}
          [] s.buf = 0 /\ s.shut # "PreShutdown" ->
                /\ snd' = IF s.need THEN [s EXCEPT !.need = FALSE, !.cap = bufSize.send] ELSE s
                /\ UNCHANGED hostShut
  BY DEF SendDone
<1>2. /\ UNCHANGED <<rcv, bufSize, upc, ucalls, left, wire>>
      /\ uevents \subseteq uevents' /\ "OUT" \in uevents'
  <2>1. UNCHANGED <<rcv, bufSize, upc, ucalls, left, wire>> /\ add_events({"OUT"})
    BY DEF SendDone
  <2>2. QED
    BY <2>1 DEF add_events
<1>3. /\ snd \in Senders /\ snd.buf \in Nat /\ snd.cap \in Nat /\ snd.req \in Nat
      /\ snd.req <= snd.buf /\ snd.buf <= snd.cap /\ bufSize.send \in Nat \ {0} /\ rcv \in Receivers
  BY DEF StreamInv, SenderInv, ReceiverInv, Senders
<1>4. snd.buf - n \in Nat /\ snd.buf - n <= snd.cap /\ 0 \in Nat
  BY <1>3, SMT
<1> DEFINE s == [snd EXCEPT !.buf = @ - n, !.req = 0]
<1>5. s \in Senders /\ s.buf = snd.buf - n /\ s.cap = snd.cap /\ s.req = 0
  <2>1. \A b, r \in Nat :
          LET u == [snd EXCEPT !.buf = b, !.req = r] IN
          u \in Senders /\ u.buf = b /\ u.cap = snd.cap /\ u.req = r
    BY <1>3, SenderUpdates
  <2>2. QED
    BY <1>4, <2>1
<1> HIDE DEF s
<1>6. \/ s.buf > 0 /\ snd' = [s EXCEPT !.req = s.buf]
      \/ s.buf = 0 /\ snd' = [s EXCEPT !.shut = "PostShutdown"]
      \/ s.buf = 0 /\ snd' = [s EXCEPT !.need = FALSE, !.cap = bufSize.send]
      \/ s.buf = 0 /\ snd' = s
  <2>1. s.buf > 0 \/ s.buf = 0
    BY <1>4, <1>5, SMT
  <2>2. CASE s.buf > 0
    <3>1. ~(s.buf = 0)
      BY <1>4, <1>5, <2>2, SMT
    <3>2. QED
      BY <1>1, <2>2, <3>1 DEF s, do_send, new_send_req
  <2>3. CASE s.buf = 0
    <3>1. ~(s.buf > 0)
      BY <2>3, SMT
    <3>2. QED
      BY <1>1, <2>3, <3>1 DEF s
  <2>4. QED
    BY <2>1, <2>2, <2>3
<1>7. /\ snd' \in Senders /\ snd'.buf = s.buf
      /\ \/ snd'.req \in {0, s.buf} /\ snd'.cap = snd.cap
         \/ snd'.req = 0 /\ s.buf = 0
  <2>1. s.buf \in Nat
    BY <1>4, <1>5
  <2>2. CASE snd' = [s EXCEPT !.req = s.buf]
    BY <1>5, <2>1, <2>2, SenderUpdates
  <2>3. CASE snd' \in {s, [s EXCEPT !.shut = "PostShutdown"]}
    BY <1>5, <2>3, SenderUpdates
  <2>4. CASE s.buf = 0 /\ snd' = [s EXCEPT !.need = FALSE, !.cap = bufSize.send]
    <3>1. \A c \in Nat \ {0}, f \in BOOLEAN :
            LET u == [s EXCEPT !.need = f, !.cap = c] IN
            u \in Senders /\ u.buf = s.buf /\ u.cap = c /\ u.req = s.req
      BY <1>5, SenderUpdates
    <3>2. QED
      BY <1>3, <1>5, <2>4, <3>1
  <2>5. QED
    BY <1>6, <2>2, <2>3, <2>4
<1>8. SenderInv'
  <2>1. snd'.cap \in Nat
    BY <1>7 DEF Senders
  <2>2. QED
    BY <1>2, <1>4, <1>5, <1>7, <2>1, SMT DEF SenderInv
<1>9. ReceiverInv'
  BY <1>2, <1>3, ReceiverKept DEF StreamInv
<1>10. QED
  BY <1>2, <1>8, <1>9 DEF StreamInv, CallersInv

LEMMA SendFailsStep ==
    ASSUME StreamInv, SendFails
    PROVE  StreamInv'
<1>1. /\ snd' = [snd EXCEPT !.req = 0, !.fatal = TRUE] /\ uevents \subseteq uevents'
      /\ UNCHANGED <<rcv, bufSize, upc, ucalls, left, wire>>
  BY DEF SendFails, add_events
<1>2. snd \in Senders /\ rcv \in Receivers /\ 0 \in Nat
  BY SMT DEF StreamInv, SenderInv, ReceiverInv
<1>3. snd' \in Senders /\ snd'.buf = snd.buf /\ snd'.cap = snd.cap /\ snd'.req = 0
  BY <1>1, <1>2, SenderUpdates
<1>4. SenderInv'
  <2>1. snd.buf \in Nat
    BY <1>2 DEF Senders
  <2>2. snd'.req <= snd'.buf
    BY <1>3, <2>1, SMT
  <2>3. QED
    BY <1>1, <1>3, <2>2 DEF StreamInv, SenderInv
<1>5. QED
  BY <1>1, <1>2, <1>4, ReceiverKept DEF StreamInv, CallersInv

LEMMA RequestMade ==
    ASSUME NEW r \in Receivers
    PROVE  do_recv(r) \in Receivers /\ do_recv(r).buf = r.buf /\ do_recv(r).eof = r.eof
<1> DEFINE b == r.req \/ Armable(r)
<1>1. b \in BOOLEAN
  OBVIOUS
<1>2. do_recv(r) = [r EXCEPT !.req = b]
  BY DEF do_recv
<1> HIDE DEF b
<1>3. [r EXCEPT !.req = b] \in Receivers /\ [r EXCEPT !.req = b].buf = r.buf /\ [r EXCEPT !.req = b].eof = r.eof
  BY <1>1, ReceiverUpdates
<1>4. QED
  BY <1>2, <1>3

\* One round of recvmsg.  The receiver is changed to r, whose buffer has what was not read.
LEMMA RecvStep ==
    ASSUME StreamInv, NEW t \in Callers, try_recvmsg(t)
    PROVE  StreamInv'
<1> DEFINE n == Lesser(left[t], rcv.buf)
           q == [rcv EXCEPT !.buf = @ - n]
           r == Resized(q)
<1>1. /\ ucalls[t] # <<>> /\ CallersInv /\ left[t] \in Nat /\ snd \in Senders /\ rcv \in Receivers
      /\ rcv.buf \in Nat /\ bufSize.recv \in Nat
      /\ UNCHANGED <<snd, bufSize, wire>>
  BY DEF StreamInv, CallersInv, SenderInv, ReceiverInv, Receivers, try_recvmsg
<1>2. n \in Nat /\ n <= left[t] /\ rcv.buf - n \in Nat /\ (rcv.buf - n > 0 => rcv.buf > 0)
  BY <1>1, SMT DEF Lesser
<1> HIDE DEF n
<1>3. q \in Receivers /\ q.buf = rcv.buf - n /\ q.eof = rcv.eof
  BY <1>1, <1>2, ReceiverUpdates
<1> HIDE DEF q
<1>4. r \in Receivers /\ r.buf = rcv.buf - n /\ r.eof = rcv.eof
  BY <1>1, <1>3, ReceiverUpdates DEF Resized
<1>5. /\ \/ rcv' = r /\ uevents' = uevents
         \/ ~r.eof /\ rcv' = r /\ uevents' = ReadableAfter(r)
         \/ ~r.eof /\ rcv' = do_recv(r) /\ uevents' = EventsAfterRecv(r, ReadableAfter(r))
         \/ ~r.eof /\ rcv' = [r EXCEPT !.fatal = FALSE] /\ uevents' = ReadableAfter(r) \ {"ERR"}
      /\ \/ SReturn(t)
         \/ /\ SGoto(t, IF upoller[t] = "none" THEN "connect" ELSE "poll") /\ UNCHANGED ucalls
            /\ left' \in {left, [left EXCEPT ![t] = @ - n]}
  <2>1. r.eof \in BOOLEAN /\ r.shut \in BOOLEAN /\ r.fatal \in BOOLEAN /\ (n > 0 \/ n = 0) /\ ~(n > 0 /\ n = 0)
    <3>1. (n > 0 \/ n = 0) /\ ~(n > 0 /\ n = 0)
      BY <1>2, SMT
    <3>2. QED
      BY <1>4, <3>1 DEF Receivers
  <2> HIDE DEF r
  <2> DEFINE ev == ReadableAfter(r)
             Got(m) == IF ~Current(t).waitall \/ m = left[t] \/ Current(t).dontwait
                       THEN SReturn(t)
                       ELSE /\ left' = [left EXCEPT ![t] = @ - m]
                            /\ SGoto(t, IF upoller[t] = "none" THEN "connect" ELSE "poll")
                            /\ UNCHANGED <<ucalls, upoller>>
  <2>2. (CASE r.eof -> rcv' = r /\ UNCHANGED uevents /\ Got(n)
           [] ~r.eof /\ n > 0 -> rcv' = do_recv(r) /\ uevents' = EventsAfterRecv(r, ev) /\ Got(n)
           [] ~r.eof /\ n = 0 /\ r.shut -> rcv' = r /\ uevents' = ev /\ SReturn(t)
           [] ~r.eof /\ n = 0 /\ ~r.shut /\ r.fatal ->
                 rcv' = [r EXCEPT !.fatal = FALSE] /\ uevents' = ev \ {"ERR"} /\ SReturn(t)
           [] ~r.eof /\ n = 0 /\ ~r.shut /\ ~r.fatal ->
                 /\ rcv' = Restarted(r) /\ uevents' = EventsAfterRecv(r, ev)
                 /\ IF Current(t).dontwait
                    THEN SReturn(t)
                    ELSE /\ SGoto(t, IF upoller[t] = "none" THEN "connect" ELSE "poll")
                         /\ UNCHANGED <<ucalls, left, upoller>>)
    BY DEF try_recvmsg, r, q, n
  <2>3. Got(n) => \/ SReturn(t)
                  \/ /\ SGoto(t, IF upoller[t] = "none" THEN "connect" ELSE "poll") /\ UNCHANGED ucalls
                     /\ left' \in {left, [left EXCEPT ![t] = @ - n]}
    OBVIOUS
  <2> HIDE DEF Got
  <2>4. CASE r.eof
    BY <2>2, <2>3, <2>4
  <2>5. CASE ~r.eof /\ n > 0
    BY <2>1, <2>2, <2>3, <2>5
  <2>6. CASE ~r.eof /\ n = 0 /\ r.shut
    BY <2>1, <2>2, <2>6
  <2>7. CASE ~r.eof /\ n = 0 /\ ~r.shut /\ r.fatal
    BY <2>1, <2>2, <2>7
  <2>8. CASE ~r.eof /\ n = 0 /\ ~r.shut /\ ~r.fatal
    BY <2>1, <2>2, <2>8 DEF Restarted
  <2>9. QED
    BY <2>1, <2>4, <2>5, <2>6, <2>7, <2>8
<1> HIDE DEF r
<1>6. rcv' \in Receivers /\ rcv'.buf = r.buf /\ rcv'.eof = r.eof
  <2>1. [r EXCEPT !.fatal = FALSE] \in Receivers /\ [r EXCEPT !.fatal = FALSE].buf = r.buf
        /\ [r EXCEPT !.fatal = FALSE].eof = r.eof
    BY <1>4, ReceiverUpdates
  <2>2. rcv' \in {r, do_recv(r), [r EXCEPT !.fatal = FALSE]}
    BY <1>5
  <2>3. QED
    BY <1>4, <2>1, <2>2, RequestMade
<1>7. /\ "OUT" \in uevents => "OUT" \in uevents'
      /\ "IN" \in uevents => "IN" \in uevents' \/ (r.buf = 0 /\ ~r.eof)
  BY <1>5 DEF ReadableAfter, EventsAfterRecv
<1>8. ReceiverInv'
  BY <1>1, <1>2, <1>4, <1>6, <1>7, SMT DEF StreamInv, ReceiverInv
<1>9. SenderInv'
  BY <1>1, <1>7, SenderKept DEF StreamInv
<1>10. CallersInv'
  <2>1. left[t] - n \in Nat
    BY <1>1, <1>2, SMT
  <2>2. CASE SReturn(t)
    BY <1>1, <2>2, CallReturns
  <2>3. CASE /\ SGoto(t, IF upoller[t] = "none" THEN "connect" ELSE "poll") /\ UNCHANGED ucalls
             /\ left' \in {left, [left EXCEPT ![t] = @ - n]}
    <3>1. left' \in [Callers -> Nat]
      BY <1>1, <2>1, <2>3 DEF CallersInv
    <3>2. QED
      BY <1>1, <2>3, <3>1, CallGoesOn DEF StreamLabels
  <2>4. QED
    BY <1>5, <2>2, <2>3
<1>11. QED
  BY <1>1, <1>8, <1>9, <1>10 DEF StreamInv

\* The completions of a recv request.
LEMMA RecvCompletionStep ==
    ASSUME StreamInv, RecvDone \/ RecvEof \/ RecvFails
    PROVE  StreamInv'
<1>1. /\ snd \in Senders /\ rcv \in Receivers /\ rcv.buf \in Nat /\ rcv.cap \in Nat /\ wire \in Nat
      /\ bufSize.recv \in Nat /\ UNCHANGED <<snd, bufSize, upc, ucalls, left>>
  BY DEF StreamInv, SenderInv, ReceiverInv, Receivers, RecvDone, RecvEof, RecvFails
<1>2. uevents \subseteq uevents'
  BY DEF RecvDone, RecvEof, RecvFails, add_events
<1>3. SenderInv' /\ CallersInv'
  BY <1>1, <1>2, SenderKept DEF StreamInv, CallersInv
<1>4. CASE RecvDone
  <2>1. PICK n \in 1 .. Lesser(wire, new_recv_req(rcv)) :
          LET r == [rcv EXCEPT !.buf = @ + n, !.req = FALSE] IN
          /\ rcv' = IF r.need THEN r ELSE do_recv(r)
          /\ wire' = wire - n
    BY <1>4 DEF RecvDone
  <2>2. "IN" \in uevents'
    BY <1>4 DEF RecvDone, add_events
  <2>3. rcv.buf + n \in Nat /\ wire - n \in Nat
    BY <1>1, SMT DEF Lesser, new_recv_req
  <2> DEFINE r == [rcv EXCEPT !.buf = @ + n, !.req = FALSE]
  <2>4. r \in Receivers
    BY <1>1, <2>3, ReceiverUpdates
  <2>5. rcv' = r \/ rcv' = do_recv(r)
    BY <2>1
  <2> HIDE DEF r
  <2>6. rcv' \in Receivers
    BY <2>4, <2>5, RequestMade
  <2>7. ReceiverInv'
    BY <2>2, <2>6 DEF ReceiverInv
  <2>8. QED
    BY <1>1, <1>3, <2>1, <2>3, <2>7 DEF StreamInv
<1>5. CASE RecvEof
  <2>1. rcv' = [rcv EXCEPT !.req = FALSE, !.eof = TRUE] /\ "IN" \in uevents' /\ UNCHANGED wire
    BY <1>5 DEF RecvEof, add_events
  <2>2. ReceiverInv'
    BY <1>1, <2>1, ReceiverUpdates DEF ReceiverInv
  <2>3. QED
    BY <1>1, <1>3, <2>1, <2>2 DEF StreamInv
<1>6. CASE RecvFails
  <2>1. rcv' = [rcv EXCEPT !.req = FALSE, !.fatal = TRUE] /\ UNCHANGED wire
    BY <1>6 DEF RecvFails
  <2>2. ReceiverInv'
    BY <1>1, <1>2, <2>1, ReceiverUpdates, ReceiverKept DEF StreamInv
  <2>3. QED
    BY <1>1, <1>3, <2>1, <2>2 DEF StreamInv
<1>7. QED
  BY <1>4, <1>5, <1>6

\* The steps that change neither buffer nor event: they move a thread along.
LEMMA MoveStep ==
    ASSUME StreamInv, NEW t \in Callers,
           \/ StreamCall(t) \/ connect_poller(t) \/ poll(t) \/ wait_timeout(t) \/ TimedOut(t)
           \/ ShutdownLook(t) \/ host_shutdown(t) \/ CancelWaited(t) \/ Linger(t)
    PROVE  StreamInv'
<1>1. UNCHANGED <<snd, rcv, bufSize, uevents, wire>>
  BY DEF StreamCall, connect_poller, poll, wait_timeout, TimedOut, ShutdownLook, host_shutdown,
         CancelWaited, Linger
<1>2. CallersInv /\ ucalls[t] # <<>> /\ ucalls[t] \in Seq(StreamCalls)
  BY DEF StreamInv, CallersInv, StreamCall, connect_poller, poll, wait_timeout, TimedOut,
         ShutdownLook, host_shutdown, CancelWaited, Linger
<1>3. CallersInv'
  <2>1. CASE StreamCall(t)
    <3>1. Current(t) \in StreamCalls
      BY <1>2, SMT DEF Current
    <3>2. Current(t).len \in Nat
      BY <2>1, <3>1, SMT DEF StreamCall, StreamCalls
    <3>3. left' \in [Callers -> Nat] /\ UNCHANGED ucalls /\ SGoto(t, "try")
      BY <1>2, <2>1, <3>2 DEF StreamCall, CallersInv
    <3>4. QED
      BY <1>2, <3>3, CallGoesOn DEF StreamLabels
  <2>2. CASE \/ connect_poller(t) \/ poll(t) \/ wait_timeout(t) \/ ShutdownLook(t) \/ host_shutdown(t)
             \/ CancelWaited(t)
    <3>1. /\ UNCHANGED <<left, ucalls>>
          /\ \E l \in {"poll", "wait", "try", "host_shutdown", "set_shutdown", "linger"} : SGoto(t, l)
      BY <2>2 DEF connect_poller, poll, wait_timeout, ShutdownLook, host_shutdown, CancelWaited
    <3>2. left' \in [Callers -> Nat] /\ \E l \in StreamLabels : SGoto(t, l)
      BY <1>2, <3>1 DEF CallersInv, StreamLabels
    <3>3. QED
      BY <1>2, <3>1, <3>2, CallGoesOn
  <2>3. CASE TimedOut(t) \/ Linger(t)
    <3>1. SReturn(t) \/ UNCHANGED <<upc, ucalls, left>>
      BY <2>3 DEF TimedOut, Linger
    <3>2. QED
      BY <1>2, <3>1, CallReturns DEF CallersInv
  <2>4. QED
    BY <2>1, <2>2, <2>3
<1>4. QED
  BY <1>1, <1>3 DEF StreamInv, SenderInv, ReceiverInv

\* The two halves of shutdown.
LEMMA ShutdownReadStep ==
    ASSUME StreamInv, NEW t \in Callers, ShutdownRead(t)
    PROVE  StreamInv'
<1>1. /\ CallersInv /\ ucalls[t] # <<>> /\ snd \in Senders /\ rcv \in Receivers
  BY DEF StreamInv, CallersInv, SenderInv, ReceiverInv, ShutdownRead
<1>2. /\ rcv' = [rcv EXCEPT !.shut = rcv.shut \/ "read" \in Current(t).how]
      /\ uevents \subseteq uevents' /\ UNCHANGED <<snd, bufSize, left, wire, ucalls>>
      /\ SGoto(t, "set_write")
  BY DEF ShutdownRead, add_events
<1>3. rcv' \in Receivers /\ rcv'.buf = rcv.buf /\ rcv'.eof = rcv.eof
  <2> DEFINE b == rcv.shut \/ "read" \in Current(t).how
  <2>1. b \in BOOLEAN /\ rcv' = [rcv EXCEPT !.shut = b]
    BY <1>2
  <2> HIDE DEF b
  <2>2. QED
    BY <1>1, <2>1, ReceiverUpdates
<1>4. CallersInv'
  <2>1. left' \in [Callers -> Nat] /\ UNCHANGED ucalls /\ SGoto(t, "set_write")
    BY <1>1, <1>2 DEF CallersInv
  <2>2. QED
    BY <1>1, <2>1, CallGoesOn DEF StreamLabels
<1>5. QED
  BY <1>1, <1>2, <1>3, <1>4, SenderKept, ReceiverKept DEF StreamInv

LEMMA SocketShutdownStep ==
    ASSUME StreamInv, NEW t \in Callers, ShutdownWrite(t)
    PROVE  StreamInv'
<1>1. /\ CallersInv /\ ucalls[t] # <<>> /\ ucalls[t] \in Seq(StreamCalls)
      /\ snd \in Senders /\ rcv \in Receivers
  BY DEF StreamInv, CallersInv, SenderInv, ReceiverInv, ShutdownWrite
<1>2. /\ UNCHANGED rcv
      /\ snd' = [snd EXCEPT !.shut = IF "write" \in Current(t).how THEN "PreShutdown" ELSE snd.shut]
      /\ uevents \subseteq uevents' /\ UNCHANGED <<bufSize, left, wire>>
      /\ upc' = [upc EXCEPT ![t] = "user"] /\ ucalls' = [ucalls EXCEPT ![t] = Tail(@)]
  BY DEF ShutdownWrite, add_events, SGoto
<1>3. snd' \in Senders /\ snd'.buf = snd.buf /\ snd'.cap = snd.cap /\ snd'.req = snd.req
  <2>1. (IF "write" \in Current(t).how THEN "PreShutdown" ELSE snd.shut)
          \in {"Running", "PreShutdown", "PostShutdown"}
    BY <1>1 DEF Senders
  <2>2. QED
    BY <1>1, <1>2, <2>1, SenderUpdates
<1>4. rcv' \in Receivers /\ rcv'.buf = rcv.buf /\ rcv'.eof = rcv.eof
  BY <1>1, <1>2
<1>5. CallersInv'
  <2>1. Tail(ucalls[t]) \in Seq(StreamCalls)
    BY <1>1, SMT
  <2>2. ucalls' \in [Callers -> Seq(StreamCalls)] /\ \A u \in Callers \ {t} : ucalls'[u] = ucalls[u]
    BY <1>1, <1>2, <2>1 DEF CallersInv
  <2>3. QED
    BY <1>1, <1>2, <2>2 DEF CallersInv, StreamLabels
<1>6. QED
  BY <1>2, <1>3, <1>4, <1>5, SenderKept, ReceiverKept DEF StreamInv

\* A buffer gets another size at once only while it is empty, so it has shown OUT before.
LEMMA ResizeStep ==
    ASSUME StreamInv, NEW t \in Callers, UpdateSendBuf(t) \/ SendNeedUpdate(t) \/ UpdateRecvBuf(t)
    PROVE  StreamInv'
<1>1. /\ CallersInv /\ ucalls[t] # <<>> /\ ucalls[t] \in Seq(StreamCalls)
      /\ snd \in Senders /\ rcv \in Receivers
      /\ UNCHANGED <<uevents, wire>>
  BY DEF StreamInv, CallersInv, SenderInv, ReceiverInv, UpdateSendBuf, SendNeedUpdate, UpdateRecvBuf
<1>2. Current(t) \in StreamCalls
  BY <1>1, SMT DEF Current
<1>3. CASE UpdateSendBuf(t)
  <2>1. Current(t).size \in Nat \ {0}
    BY <1>2, <1>3, SMT DEF UpdateSendBuf, StreamCalls
  <2>2. bufSize' \in [send : Nat \ {0}, recv : Nat \ {0}] /\ UNCHANGED rcv
    BY <1>3, <2>1 DEF StreamInv, UpdateSendBuf
  <2>3. CASE snd.buf = 0 /\ snd.req = 0
    <3>1. snd' = [snd EXCEPT !.cap = Current(t).size] /\ SReturn(t)
      BY <1>3, <2>3 DEF UpdateSendBuf
    <3>2. snd' \in Senders /\ snd'.buf = 0 /\ snd'.cap = Current(t).size /\ snd'.req = 0
      BY <1>1, <2>1, <2>3, <3>1, SenderUpdates
    <3>3. snd.cap \in Nat \ {0}
      BY <1>1 DEF Senders
    <3>4. "OUT" \in uevents
      BY <2>3, <3>3, SMT DEF StreamInv, SenderInv
    <3>5. SenderInv'
      BY <1>1, <2>1, <3>2, <3>4, SMT DEF SenderInv
    <3>6. QED
      BY <1>1, <2>2, <3>1, <3>5, CallReturns, ReceiverKept DEF StreamInv
  <2>4. CASE ~(snd.buf = 0 /\ snd.req = 0)
    <3>1. SGoto(t, "need_update") /\ UNCHANGED <<snd, ucalls, left>>
      BY <1>3, <2>4 DEF UpdateSendBuf
    <3>2. CallersInv'
      BY <1>1, <3>1, CallGoesOn DEF CallersInv, StreamLabels
    <3>3. QED
      BY <1>1, <2>2, <3>1, <3>2, SenderKept, ReceiverKept DEF StreamInv
  <2>5. QED
    BY <2>3, <2>4
<1>4. CASE SendNeedUpdate(t)
  <2>1. snd' = [snd EXCEPT !.need = TRUE] /\ SReturn(t) /\ UNCHANGED <<rcv, bufSize>>
    BY <1>4 DEF SendNeedUpdate
  <2>2. snd' \in Senders /\ snd'.buf = snd.buf /\ snd'.cap = snd.cap /\ snd'.req = snd.req
    BY <1>1, <2>1, SenderUpdates
  <2>3. QED
    BY <1>1, <2>1, <2>2, CallReturns, SenderKept, ReceiverKept DEF StreamInv
<1>5. CASE UpdateRecvBuf(t)
  <2>1. Current(t).size \in Nat \ {0}
    BY <1>2, <1>5, SMT DEF UpdateRecvBuf, StreamCalls
  <2>2. bufSize' \in [send : Nat \ {0}, recv : Nat \ {0}]
    BY <1>5, <2>1 DEF StreamInv, UpdateRecvBuf
  <2>3. rcv' = [rcv EXCEPT !.need = TRUE] /\ SReturn(t) /\ UNCHANGED snd
    BY <1>5 DEF UpdateRecvBuf
  <2>4. rcv' \in Receivers /\ rcv'.buf = rcv.buf /\ rcv'.eof = rcv.eof
    BY <1>1, <2>3, ReceiverUpdates
  <2>5. QED
    BY <1>1, <2>2, <2>3, <2>4, CallReturns, SenderKept, ReceiverKept DEF StreamInv
<1>6. QED
  BY <1>3, <1>4, <1>5

LEMMA CloseStep ==
    ASSUME StreamInv, NEW t \in Callers, Close(t)
    PROVE  StreamInv'
<1>1. /\ CallersInv /\ ucalls[t] # <<>> /\ snd \in Senders /\ rcv \in Receivers /\ left \in [Callers -> Nat]
  BY DEF StreamInv, CallersInv, SenderInv, ReceiverInv, Close
<1>2. /\ rcv' = [rcv EXCEPT !.shut = TRUE] /\ snd' = [snd EXCEPT !.shut = "PreShutdown"]
      /\ SGoto(t, "cancel_recv") /\ UNCHANGED <<bufSize, uevents, ucalls, left, wire>>
  BY DEF Close
<1>3. /\ snd' \in Senders /\ snd'.buf = snd.buf /\ snd'.cap = snd.cap /\ snd'.req = snd.req
      /\ rcv' \in Receivers /\ rcv'.buf = rcv.buf /\ rcv'.eof = rcv.eof
  BY <1>1, <1>2, SenderUpdates, ReceiverUpdates
<1>4. CallersInv'
  BY <1>1, <1>2, CallGoesOn DEF StreamLabels
<1>5. QED
  BY <1>2, <1>3, <1>4, SenderKept, ReceiverKept DEF StreamInv

\* The pollee of a connected TCP socket hides no readiness, for any threads, calls, sizes of
\* the buffers and bytes of the peer: bytes or an end of file to read show as IN, room to
\* write as OUT, through partial sends, resized buffers, shutdown and close.
THEOREM ReadinessKept == StreamSpec => []ReadinessShown
<1>1. StreamInit => StreamInv
  BY StreamStarts
<1>2. StreamInv /\ [StreamNext]_streamVars => StreamInv'
  <2> SUFFICES ASSUME StreamInv, [StreamNext]_streamVars PROVE StreamInv'
    OBVIOUS
  <2>1. CASE UNCHANGED streamVars
    BY <2>1 DEF streamVars, StreamInv, CallersInv, SenderInv, ReceiverInv
  <2>2. ASSUME NEW t \in Callers, CallerNext(t) PROVE StreamInv'
    BY <2>2, SendStep, RecvStep, MoveStep, ShutdownReadStep, SocketShutdownStep, ResizeStep, CloseStep DEF CallerNext
  <2>3. CASE Completion
    BY <2>3, SendDoneStep, SendFailsStep, RecvCompletionStep DEF Completion
  <2>4. QED
    BY <2>1, <2>2, <2>3 DEF StreamNext
<1>3. StreamInv => ReadinessShown
  BY DEF StreamInv, SenderInv, ReceiverInv, ReadinessShown
<1>4. QED
  BY <1>1, <1>2, <1>3, PTL DEF StreamSpec
=============================================================================
