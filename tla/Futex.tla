------------------------------- MODULE Futex -------------------------------
(***************************************************************************)
(* The futex service of the LibOS, process/do_futex.rs: threads that wait  *)
(* on a word of user memory, threads that wake or requeue them, the hash   *)
(* buckets with their locks, and the host event each thread sleeps on.     *)
(*                                                                         *)
(* A FutexItem is identified with its Waiter (one Arc per futex_wait call) *)
(* since the code moves items and never copies one into two queues.  The   *)
(* VecDeque of a bucket is a set of waiters, queue[b], with the order of   *)
(* the deque as a relation: ahead[w] is the set of waiters in front of w.  *)
(***************************************************************************)
EXTENDS Naturals, FiniteSets

CONSTANTS
    Threads,    \* threads of the LibOS
    Addrs,      \* user addresses used as futexes; FutexKey is an address
    Vals,       \* values of a futex word
    Bits,       \* bits of a bitset; Bits itself is FUTEX_BITSET_MATCH_ANY
    Waiters,    \* Waiter allocations (Arc<Waiter>), reused once unreferenced
    Owner,      \* Waiter.thread: the thread that makes each allocation
    Buckets,    \* indices of FUTEX_BUCKETS
    Hash,       \* FutexBucketVec::get_bucket
    Calls,      \* the futex system calls each thread makes, with their arguments
    NoThread, NoWaiter, NoCall

\* futex_wait_bitset(key, val, bitset)
WaitCall == [op : {"wait"}, key : Addrs, val : Vals, bitset : SUBSET Bits]
\* Store to the futex word in user mode, then futex_wake_bitset(key, n, bitset).
WakeCall == [op : {"wake"}, key : Addrs, val : Vals, n : Nat, bitset : SUBSET Bits]
\* futex_requeue(key, n, m, new)
RequeueCall == [op : {"requeue"}, key : Addrs, n : Nat, m : Nat, new : Addrs]

ASSUME BucketsAssumption == Buckets \subseteq Nat
ASSUME AddrsAssumption == Addrs # {}
ASSUME HashAssumption == Hash \in [Addrs -> Buckets]
Call == WaitCall \cup WakeCall \cup RequeueCall

ASSUME OwnerAssumption == Owner \in [Waiters -> Threads]
ASSUME CallsAssumption == Calls \in [Threads -> SUBSET Call]
ASSUME NullAssumption ==
    NoThread \notin Threads /\ NoWaiter \notin Waiters /\ NoCall \notin Call

VARIABLES
    val,        \* the futex words, in user memory
    lock,       \* holder of each bucket's SgxMutex
    queue,      \* waiters whose item is in the bucket's deque
    ahead,      \* deque order: the waiters in front of each queued waiter
    key,        \* key field of the queued item (the waiting thread keeps its own copy)
    bitset,     \* bitset field of the item
    is_woken,   \* Waiter.is_woken
    event,      \* host event of a thread is set (external)
    pc,         \* where a thread is in its call; "user" outside the service
    call,       \* the call in progress
    me,         \* the Waiter of the wait in progress
    toSet       \* threads a waker has marked and still has to set events for

itemVars == <<queue, ahead, key, bitset>>
vars == <<val, lock, itemVars, is_woken, event, pc, call, me, toSet>>

Labels == {"user", "lock", "lock2", "body", "enqueue", "set", "move",
           "check", "sleep", "failed", "relock", "dequeue"}

\* In FutexItem::wait, with the item queued or dequeued by a waker.
Waiting == {"check", "sleep", "failed", "relock", "dequeue"}

\* Types, and which of its local variables a thread has at which point.
TypeOK ==
    /\ val \in [Addrs -> Vals]
    /\ lock \in [Buckets -> Threads \cup {NoThread}]
    /\ queue \in [Buckets -> SUBSET Waiters]
    /\ ahead \in [Waiters -> SUBSET Waiters]
    /\ key \in [Waiters -> Addrs]
    /\ bitset \in [Waiters -> SUBSET Bits]
    /\ is_woken \in [Waiters -> BOOLEAN]
    /\ event \in [Threads -> BOOLEAN]
    /\ pc \in [Threads -> Labels]
    /\ call \in [Threads -> Call \cup {NoCall}]
    /\ me \in [Threads -> Waiters \cup {NoWaiter}]
    /\ toSet \in [Threads -> SUBSET Threads]
    /\ \A t \in Threads :
        /\ pc[t] = "user" <=> call[t] = NoCall
        /\ pc[t] \in Waiting <=> me[t] # NoWaiter
        /\ pc[t] \in Waiting \cup {"enqueue"} => call[t].op = "wait"
        /\ pc[t] \in {"lock2", "set", "move"} => call[t].op # "wait"
        /\ pc[t] \in {"lock2", "move"} => call[t].op = "requeue"

Init ==
    /\ val \in [Addrs -> Vals]
    /\ lock = [b \in Buckets |-> NoThread]
    /\ queue = [b \in Buckets |-> {}]
    /\ ahead = [w \in Waiters |-> {}]
    /\ key = [w \in Waiters |-> CHOOSE a \in Addrs : TRUE]
    /\ bitset = [w \in Waiters |-> Bits]
    /\ is_woken = [w \in Waiters |-> TRUE]
    /\ event = [t \in Threads |-> FALSE]
    /\ pc = [t \in Threads |-> "user"]
    /\ call = [t \in Threads |-> NoCall]
    /\ me = [t \in Threads |-> NoWaiter]
    /\ toSet = [t \in Threads |-> {}]

-----------------------------------------------------------------------------
(* The deque of a bucket.                                                  *)

\* The first n waiters of the set M, in deque order.
First(M, n) == {w \in M : Cardinality(ahead[w] \cap M) < n}

\* Items of bucket b that a wake on key k with the given bitset selects.
Selected(b, k, bs) == {w \in queue[b] : key[w] = k /\ bitset[w] \cap bs # {}}

\* Waiters to which no reference is left: a new Arc may take their place.
Unreferenced(w) ==
    /\ \A b \in Buckets : w \notin queue[b]
    /\ \A t \in Threads : me[t] # w

\* enqueue_item: push_back.
enqueue_item(w, b) ==
    /\ queue' = [queue EXCEPT ![b] = @ \cup {w}]
    /\ ahead' = [ahead EXCEPT ![w] = queue[b]]

\* Removal of the set D of items from bucket b, the others keeping their order.
RemoveItems(b, D) ==
    /\ queue' = [queue EXCEPT ![b] = @ \ D]
    /\ ahead' = [w \in Waiters |-> IF w \in D THEN {} ELSE ahead[w] \ D]

(* Steps a thread goes through.                                            *)

Goto(t, label) == pc' = [pc EXCEPT ![t] = label]

Return(t) ==
    /\ Goto(t, "user")
    /\ call' = [call EXCEPT ![t] = NoCall]

Unlock(t) == lock' = [b \in Buckets |-> IF lock[b] = t THEN NoThread ELSE lock[b]]

Acquire(t, b) ==
    /\ lock[b] = NoThread
    /\ lock' = [lock EXCEPT ![b] = t]

\* futex_requeue between two buckets: the only call that takes two locks.
TwoBuckets(c) == c.op = "requeue" /\ Hash[c.key] # Hash[c.new]

FirstBucketUnordered(c) == Hash[c.key]

\* The bucket locked first: the smaller index when there are two.
FirstBucket(c) ==
    IF TwoBuckets(c) /\ Hash[c.new] < Hash[c.key] THEN Hash[c.new] ELSE Hash[c.key]

SecondBucket(c) == IF FirstBucket(c) = Hash[c.key] THEN Hash[c.new] ELSE Hash[c.key]

-----------------------------------------------------------------------------
(* The system call, up to and including its critical section.              *)

\* A thread enters the service; a waker has stored to the word before.
\* Bound: a thread waits only while it has a Waiter left to allocate.
Enter(t) ==
    \E c \in Calls[t] :
        /\ pc[t] = "user"
        /\ c.op = "wait" => \E w \in Waiters : Owner[w] = t /\ Unreferenced(w)
        /\ val' = IF c.op = "wake" THEN [val EXCEPT ![c.key] = c.val] ELSE val
        /\ call' = [call EXCEPT ![t] = c]
        /\ Goto(t, "lock")
        /\ UNCHANGED <<lock, itemVars, is_woken, event, me, toSet>>

LockBucket(t) ==
    /\ pc[t] = "lock"
    /\ Acquire(t, FirstBucket(call[t]))
    /\ Goto(t, IF TwoBuckets(call[t]) THEN "lock2" ELSE "body")
    /\ UNCHANGED <<val, itemVars, is_woken, event, call, me, toSet>>

LockSecondBucket(t) ==
    /\ pc[t] = "lock2"
    /\ Acquire(t, SecondBucket(call[t]))
    /\ Goto(t, "body")
    /\ UNCHANGED <<val, itemVars, is_woken, event, call, me, toSet>>

\* futex_wait_bitset, the bucket locked: EAGAIN when the value does not match.
WaitMismatch(t) ==
    /\ pc[t] = "body" /\ call[t].op = "wait"
    /\ val[call[t].key] # call[t].val
    /\ Unlock(t)
    /\ Return(t)
    /\ UNCHANGED <<val, itemVars, is_woken, event, me, toSet>>

WaitMatchUnlocking(t) ==
    /\ pc[t] = "body" /\ call[t].op = "wait"
    /\ val[call[t].key] = call[t].val
    /\ Unlock(t)
    /\ Goto(t, "enqueue")
    /\ UNCHANGED <<val, itemVars, is_woken, event, call, me, toSet>>

\* The value matches; the bucket stays locked.
WaitMatch(t) ==
    /\ pc[t] = "body" /\ call[t].op = "wait"
    /\ val[call[t].key] = call[t].val
    /\ Goto(t, "enqueue")
    /\ UNCHANGED <<val, lock, itemVars, is_woken, event, call, me, toSet>>

\* futex_wait_bitset: a new item joins the bucket, which is then unlocked.
WaitEnqueue(t) ==
    /\ pc[t] = "enqueue"
    /\ \E w \in Waiters :
        /\ Owner[w] = t /\ Unreferenced(w)
        /\ enqueue_item(w, Hash[call[t].key])
        /\ key' = [key EXCEPT ![w] = call[t].key]
        /\ bitset' = [bitset EXCEPT ![w] = call[t].bitset]
        /\ is_woken' = [is_woken EXCEPT ![w] = FALSE]
        /\ me' = [me EXCEPT ![t] = w]
    /\ Unlock(t)
    /\ Goto(t, "check")
    /\ UNCHANGED <<val, event, call, toSet>>

ThreadsToSetInverted(D) == {Owner[w] : w \in {u \in D : is_woken[u]}}

\* batch_wake: the threads of the waiters that were not woken before.
ThreadsToSet(D) == {Owner[w] : w \in {u \in D : ~is_woken[u]}}

\* dequeue_and_wake_items up to the end of batch_wake's fetch_or loop.
dequeue_and_wake_items(t) ==
    LET c  == call[t]
        b  == Hash[c.key]
        bs == IF c.op = "wake" THEN c.bitset ELSE Bits
        D  == First(Selected(b, c.key, bs), c.n)
    IN  /\ pc[t] = "body" /\ c.op \in {"wake", "requeue"}
        /\ RemoveItems(b, D)
        /\ is_woken' = [w \in Waiters |-> w \in D \/ is_woken[w]]
        /\ toSet' = [toSet EXCEPT ![t] = ThreadsToSet(D)]
        /\ Goto(t, "set")
        /\ UNCHANGED <<val, lock, key, bitset, event, call, me>>

\* set_events, one OCall for all marked threads.  futex_wake is then done, as
\* is a requeue to the same address, which is a wake; otherwise the move is next.
set_events(t) ==
    LET c == call[t]
        moves == c.op = "requeue" /\ c.new # c.key
    IN  /\ pc[t] = "set"
        /\ event' = [u \in Threads |-> u \in toSet[t] \/ event[u]]
        /\ toSet' = [toSet EXCEPT ![t] = {}]
        /\ IF moves THEN Goto(t, "move") /\ UNCHANGED <<lock, call>>
                    ELSE Unlock(t) /\ Return(t)
        /\ UNCHANGED <<val, itemVars, is_woken, me>>

\* update_item_keys, or requeue_items_to_another_bucket; then both unlock.
requeue_items(t) ==
    LET c  == call[t]
        b  == Hash[c.key]
        nb == Hash[c.new]
        M  == First({w \in queue[b] : key[w] = c.key}, c.m)
    IN  /\ pc[t] = "move"
        /\ key' = [w \in Waiters |-> IF w \in M THEN c.new ELSE key[w]]
        /\ IF b = nb
           THEN UNCHANGED <<queue, ahead>>
           ELSE /\ queue' = [queue EXCEPT ![b] = @ \ M, ![nb] = @ \cup M]
                /\ ahead' = [w \in Waiters |->
                                IF w \in M THEN queue[nb] \cup (ahead[w] \cap M)
                                           ELSE ahead[w] \ M]
        /\ Unlock(t)
        /\ Return(t)
        /\ UNCHANGED <<val, bitset, is_woken, event, me, toSet>>

-----------------------------------------------------------------------------
(* FutexItem::wait and Waiter::wait_timeout, with no lock held.            *)

\* The loop condition: leave the call once woken, otherwise sleep.
CheckWoken(t) ==
    /\ pc[t] = "check"
    /\ IF is_woken[me[t]]
       THEN /\ Return(t)
            /\ me' = [me EXCEPT ![t] = NoWaiter]
       ELSE /\ Goto(t, "sleep")
            /\ UNCHANGED <<call, me>>
    /\ UNCHANGED <<val, lock, itemVars, is_woken, event, toSet>>

\* wait_event_timeout returns 0: the host event was set, and is consumed.
EventArrives(t) ==
    /\ pc[t] = "sleep" /\ event[t]
    /\ event' = [event EXCEPT ![t] = FALSE]
    /\ Goto(t, "check")
    /\ UNCHANGED <<val, lock, itemVars, is_woken, call, me, toSet>>

\* wait_event_timeout returns ETIMEDOUT, EINTR or EAGAIN.
EventFails(t) ==
    /\ pc[t] = "sleep"
    /\ Goto(t, "failed")
    /\ UNCHANGED <<val, lock, itemVars, is_woken, event, call, me, toSet>>

GiveUpUnmarked(t) ==
    /\ pc[t] = "failed"
    /\ Goto(t, "relock")
    /\ UNCHANGED <<val, lock, itemVars, is_woken, event, call, me, toSet>>

\* The error path of wait_timeout marks the waiter woken.
GiveUp(t) ==
    /\ pc[t] = "failed"
    /\ is_woken' = [is_woken EXCEPT ![me[t]] = TRUE]
    /\ Goto(t, "relock")
    /\ UNCHANGED <<val, lock, itemVars, event, call, me, toSet>>

\* The error path of FutexItem::wait locks the bucket of the key it was given.
Relock(t) ==
    /\ pc[t] = "relock"
    /\ Acquire(t, Hash[call[t].key])
    /\ Goto(t, "dequeue")
    /\ UNCHANGED <<val, itemVars, is_woken, event, call, me, toSet>>

EqualItemsOfAnyThread(t) ==
    {w \in queue[Hash[call[t].key]] :
        key[w] = call[t].key /\ bitset[w] = call[t].bitset}

\* FutexItem's equality: the key, the bitset and the thread, not the Waiter.
EqualItems(t) ==
    {w \in queue[Hash[call[t].key]] :
        key[w] = call[t].key /\ bitset[w] = call[t].bitset /\ Owner[w] = t}

\* dequeue_item: the first item equal to the thread's own, if any.
dequeue_item(t) ==
    /\ pc[t] = "dequeue"
    /\ RemoveItems(Hash[call[t].key], First(EqualItems(t), 1))
    /\ Unlock(t)
    /\ Return(t)
    /\ me' = [me EXCEPT ![t] = NoWaiter]
    /\ UNCHANGED <<val, key, bitset, is_woken, event, toSet>>

\* The host event is shared with the enclave's mutexes: a late wake-up of one
\* of these may end a sleep that no futex call ends.
SpuriousEvent(t) ==
    /\ pc[t] = "sleep" /\ ~event[t]
    /\ event' = [event EXCEPT ![t] = TRUE]
    /\ UNCHANGED <<val, lock, itemVars, is_woken, pc, call, me, toSet>>

-----------------------------------------------------------------------------
Locking(t) == LockBucket(t) \/ LockSecondBucket(t) \/ Relock(t)

\* Steps a thread that is scheduled takes on its own.
Running(t) ==
    \/ WaitMismatch(t) \/ WaitMatch(t) \/ WaitEnqueue(t)
    \/ dequeue_and_wake_items(t) \/ set_events(t) \/ requeue_items(t)
    \/ CheckWoken(t) \/ EventArrives(t) \/ GiveUp(t) \/ dequeue_item(t)

Next ==
    \E t \in Threads :
        Enter(t) \/ Locking(t) \/ Running(t) \/ EventFails(t) \/ SpuriousEvent(t)

Spec == Init /\ [][Next]_vars

\* Scheduled threads run on; a mutex that is released again and again is
\* obtained in the end.  Nothing makes a thread enter, fail or wake spuriously.
Fairness == \A t \in Threads : WF_vars(Running(t)) /\ SF_vars(Locking(t))

FairSpec == Spec /\ Fairness

-----------------------------------------------------------------------------
Asleep(t) == pc[t] \in {"check", "sleep"} /\ ~is_woken[me[t]]

\* A thread that waits and is not woken is in the queue of the bucket its
\* item's key hashes to, so the next wake on that key can find it: no wake,
\* requeue, timeout or removal of another thread's item ever drops it.
NoSleeperLost ==
    \A t \in Threads : Asleep(t) => me[t] \in queue[Hash[key[me[t]]]]

\* The comment in futex_wait_bitset: a waiter whose word no longer has the
\* value it waits for is not left asleep once the waker of that change is
\* through the bucket, because the value is checked with the bucket locked.
NoMissedWake ==
    \A t \in Threads :
        Asleep(t) /\ val[call[t].key] # call[t].val
            => \E u \in Threads : /\ pc[u] \in {"lock", "body"}
                                  /\ call[u].op = "wake"
                                  /\ call[u].key = call[t].key

\* An item that did outlive its wait (moved by a requeue before the timeout)
\* is marked woken, so no wake sends its thread an event meant for that wait.
StaleItemsWoken ==
    \A b \in Buckets : \A w \in queue[b] :
        (\A t \in Threads : me[t] # w) => is_woken[w]

\* The event of a wake-up is never lost between the waiter's look at is_woken
\* and its sleep: a waiter marked woken leaves futex_wait.
WokenReturns ==
    \A t \in Threads :
        (me[t] # NoWaiter /\ is_woken[me[t]]) ~> me[t] = NoWaiter

\* Every wake and requeue ends, whatever pairs of buckets are locked meanwhile.
WakersFinish ==
    \A t \in Threads :
        (pc[t] # "user" /\ call[t].op # "wait") ~> pc[t] = "user"
=============================================================================
