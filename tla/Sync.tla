-------------------------------- MODULE Sync --------------------------------
(***************************************************************************)
(* The LibOS's own locks (util/sync): a mutex and a readers-writer lock on *)
(* futexes.  They share no state.                                          *)
(***************************************************************************)
EXTENDS Integers, Sequences, FiniteSets

\* The queue without its entry i.
Without(q, i) == SubSeq(q, 1, i - 1) \o SubSeq(q, i + 1, Len(q))

-----------------------------------------------------------------------------
(***************************************************************************)
(* The mutex (mutex.rs): 0 is unlocked, 1 locked, 2 locked with somebody   *)
(* waiting.  It guards the io_uring rings and the inner state of the       *)
(* sockets that use them.                                                  *)
(***************************************************************************)
CONSTANTS
    MThreads,     \* threads that use the mutex
    MPrograms     \* [MThreads -> Seq({"lock", "try_lock"})], one of which runs

VARIABLES
    mword,        \* the lock word
    mQueue,       \* threads asleep in futex_wait on it
    mpc,          \* thread -> where it is
    mstate,       \* thread -> the state spin or a failed exchange returned
    mcalls        \* thread -> the calls still to be made

ASSUME MProgramsAssumption == MPrograms \subseteq [MThreads -> Seq({"lock", "try_lock"})]

mutexVars == <<mword, mQueue, mpc, mstate, mcalls>>

MGoes(t, where) == mpc' = [mpc EXCEPT ![t] = where]
MReturns(t) == MGoes(t, "idle") /\ mcalls' = [mcalls EXCEPT ![t] = Tail(@)]

\* lock and try_lock: the exchange of 0 for 1.
Lock(t) ==
    /\ mpc[t] = "idle" /\ mcalls[t] # <<>>
    /\ IF mword = 0 THEN mword' = 1 /\ MGoes(t, "hold") /\ UNCHANGED mcalls
       ELSE /\ UNCHANGED mword
            /\ IF Head(mcalls[t]) = "try_lock" THEN MReturns(t) ELSE MGoes(t, "spin") /\ UNCHANGED mcalls
    /\ UNCHANGED <<mQueue, mstate>>

\* spin ends with the state it last loaded: at once unless it is 1, and after its last round
\* even then.  The first spin is followed by one more exchange if the lock looked free.
Spin(t) ==
    /\ mpc[t] \in {"spin", "respin"}
    /\ mstate' = [mstate EXCEPT ![t] = mword]
    /\ MGoes(t, IF mpc[t] = "spin" /\ mword = 0 THEN "exchange" ELSE "loop")
    /\ UNCHANGED <<mword, mQueue, mcalls>>

Exchange(t) ==
    /\ mpc[t] = "exchange"
    /\ IF mword = 0 THEN mword' = 1 /\ MGoes(t, "hold") /\ UNCHANGED mstate
       ELSE /\ mstate' = [mstate EXCEPT ![t] = mword]
            /\ MGoes(t, "loop") /\ UNCHANGED mword
    /\ UNCHANGED <<mQueue, mcalls>>

\* lock_contended's loop: the lock is taken, or marked contended, unless it was seen so.
SwapWhenFree(w) == IF w = 0 THEN 1 ELSE 2
SwappedIn(w) == 2
LockContended(t) ==
    /\ mpc[t] = "loop"
    /\ IF mstate[t] # 2
       THEN /\ mword' = SwappedIn(mword)
            /\ MGoes(t, IF mword = 0 THEN "hold" ELSE "futex_wait")
       ELSE MGoes(t, "futex_wait") /\ UNCHANGED mword
    /\ UNCHANGED <<mQueue, mstate, mcalls>>

MFutexWait(t) ==
    /\ mpc[t] = "futex_wait"
    /\ IF mword = 2 THEN mQueue' = Append(mQueue, t) /\ MGoes(t, "sleep")
       ELSE MGoes(t, "respin") /\ UNCHANGED mQueue
    /\ UNCHANGED <<mword, mstate, mcalls>>

\* A signal ends the wait, whose result is not looked at.
MInterrupted(t) ==
    /\ mpc[t] = "sleep"
    /\ \E i \in DOMAIN mQueue : mQueue[i] = t /\ mQueue' = Without(mQueue, i)
    /\ MGoes(t, "respin")
    /\ UNCHANGED <<mword, mstate, mcalls>>

\* force_unlock: one waiter is woken if the word was 2.
ForceUnlock(t) ==
    /\ mpc[t] = "hold"
    /\ mword' = 0
    /\ IF mword = 2 THEN MGoes(t, "wake") /\ UNCHANGED mcalls ELSE MReturns(t)
    /\ UNCHANGED <<mQueue, mstate>>

WakeOne(t) ==
    /\ mpc[t] = "wake"
    /\ IF mQueue = <<>> THEN MGoes(t, "idle") /\ UNCHANGED mQueue
       ELSE /\ mpc' = [mpc EXCEPT ![t] = "idle", ![Head(mQueue)] = "respin"]
            /\ mQueue' = Tail(mQueue)
    /\ mcalls' = [mcalls EXCEPT ![t] = Tail(@)]
    /\ UNCHANGED <<mword, mstate>>

MutexInit ==
    /\ mword = 0 /\ mQueue = <<>>
    /\ mpc = [t \in MThreads |-> "idle"]
    /\ mstate = [t \in MThreads |-> 0]
    /\ mcalls \in MPrograms

MutexStep(t) ==
    \/ Lock(t) \/ Spin(t) \/ Exchange(t) \/ LockContended(t) \/ MFutexWait(t) \/ MInterrupted(t)
    \/ ForceUnlock(t) \/ WakeOne(t)

MutexNext == \E t \in MThreads : MutexStep(t)

MutexSpec == MutexInit /\ [][MutexNext]_mutexVars

-----------------------------------------------------------------------------
\* One thread at a time holds the mutex, and the word is not 0 while one does.
MutexExclusive ==
    /\ Cardinality({t \in MThreads : mpc[t] = "hold"}) <= 1
    /\ mword # 0 <=> \E t \in MThreads : mpc[t] = "hold"

\* Nobody is left asleep: while a thread sleeps for the mutex the word is 2, so that its holder
\* will wake somebody on unlocking, or a thread is about to do so, or one that will mark the
\* word or take the mutex is on its way through lock_contended.
MutexSleepersServed ==
    (\E t \in MThreads : mpc[t] = "sleep") =>
        \/ mword = 2
        \/ \E t \in MThreads : mpc[t] \in {"wake", "respin", "loop", "futex_wait"}

\* The mutex excludes and serves: both of the above.
MutexCorrect == MutexExclusive /\ MutexSleepersServed

-----------------------------------------------------------------------------
(***************************************************************************)
(* The readers-writer lock (rw_lock), which guards among others the        *)
(* record-lock lists and the memory mappings of a process.  The status     *)
(* word counts the readers, or is all ones for a writer, and its top bit   *)
(* says that someone waits; rw_waiters counts the waiters besides.         *)
(*                                                                         *)
(* A compare-and-exchange that fails and is retried at once changes        *)
(* nothing, so only the successful round is a step; the one whose failure  *)
(* is ignored (marking the word before the wait) is a step of its own.     *)
(* Spinning before the first wait is left out: it only loads.              *)
(***************************************************************************)
CONSTANTS
    RWThreads,    \* threads that use the lock
    RWPrograms,   \* [RWThreads -> Seq(calls)], one of which runs
    I32Max        \* i32::MAX, the status of a writer; the waiting bit is the next one

VARIABLES
    word,         \* the status word
    rw_waiters,
    rwQueue,      \* threads asleep in futex_wait on the word
    rwpc,         \* thread -> where it is
    seen,         \* thread -> the status it has loaded
    rwcalls       \* thread -> the calls still to be made

ASSUME I32MaxAssumption == I32Max \in Nat \ {0, 1}
ASSUME RWProgramsAssumption ==
    RWPrograms \subseteq [RWThreads -> Seq({"read", "try_read", "write", "try_write"})]

rwVars == <<word, rw_waiters, rwQueue, rwpc, seen, rwcalls>>

WaitingBit == I32Max + 1
is_waiting(w) == w >= WaitingBit
get_locker(w) == IF is_waiting(w) THEN w - WaitingBit ELSE w
set_waiting(w) == IF is_waiting(w) THEN w ELSE w + WaitingBit
Free == 0
WriterLocked == I32Max
max_read_lock_holder_num == I32Max - 1

RWCall(t) == Head(rwcalls[t])
Reading(t) == RWCall(t) \in {"read", "try_read"}
Goes(t, where) == rwpc' = [rwpc EXCEPT ![t] = where]
RWReturns(t) == Goes(t, "idle") /\ rwcalls' = [rwcalls EXCEPT ![t] = Tail(@)]

\* try_read and try_write.  The reader that would be one too many gets EAGAIN.
TryRead(t) ==
    /\ Reading(t) /\ get_locker(word) \notin {WriterLocked, max_read_lock_holder_num}
    /\ word' = word + 1
TryWrite(t) ==
    /\ ~Reading(t) /\ word = Free
    /\ word' = WriterLocked

Acquire(t) ==
    /\ rwcalls[t] # <<>> /\ rwpc[t] \in {"idle", "again"}
    /\ TryRead(t) \/ TryWrite(t)
    /\ Goes(t, "hold")
    /\ UNCHANGED <<rw_waiters, rwQueue, seen, rwcalls>>

\* The calls that return without the lock: a try that fails, a reader beyond the limit.
Refused(t) ==
    /\ rwcalls[t] # <<>> /\ rwpc[t] \in {"idle", "again"}
    /\ \/ RWCall(t) = "try_write" /\ word # Free
       \/ RWCall(t) = "try_read" /\ get_locker(word) = WriterLocked
       \/ Reading(t) /\ get_locker(word) = max_read_lock_holder_num
    /\ RWReturns(t)
    /\ UNCHANGED <<word, rw_waiters, rwQueue, seen>>

\* The try failed; the status is loaded again, and the caller waits unless it has changed so
\* that the try should succeed.
Reload(t) ==
    /\ rwcalls[t] # <<>> /\ rwpc[t] \in {"idle", "again"}
    /\ \/ RWCall(t) = "read" /\ get_locker(word) = WriterLocked
       \/ RWCall(t) = "write" /\ word # Free
    /\ Goes(t, "reload")
    /\ UNCHANGED <<word, rw_waiters, rwQueue, seen, rwcalls>>
DecideToWait(t) ==
    /\ rwpc[t] = "reload"
    /\ seen' = [seen EXCEPT ![t] = word]
    /\ Goes(t, IF (Reading(t) /\ get_locker(word) # WriterLocked) \/ (~Reading(t) /\ word = Free)
               THEN "again" ELSE "count")
    /\ UNCHANGED <<word, rw_waiters, rwQueue, rwcalls>>

CountWaiter(t) ==
    /\ rwpc[t] = "count"
    /\ rw_waiters' = rw_waiters + 1
    /\ Goes(t, "mark")
    /\ UNCHANGED <<word, rwQueue, seen, rwcalls>>

\* try_set_new_status(status, status with the bit); its failure is ignored.
MarkWaiting(t) ==
    /\ rwpc[t] = "mark"
    /\ word' = IF word = seen[t] THEN set_waiting(word) ELSE word
    /\ Goes(t, "futex_wait")
    /\ UNCHANGED <<rw_waiters, rwQueue, seen, rwcalls>>

\* futex_wait sleeps only if the word still is the marked status.
FutexWait(t) ==
    /\ rwpc[t] = "futex_wait"
    /\ IF word = set_waiting(seen[t])
       THEN rwQueue' = Append(rwQueue, t) /\ Goes(t, "sleep")
       ELSE Goes(t, "uncount") /\ UNCHANGED rwQueue
    /\ UNCHANGED <<word, rw_waiters, seen, rwcalls>>

\* A signal ends the wait; the loop goes on (EINTR is not ECANCELED).
RWInterrupted(t) ==
    /\ rwpc[t] = "sleep"
    /\ \E i \in DOMAIN rwQueue : rwQueue[i] = t /\ rwQueue' = Without(rwQueue, i)
    /\ Goes(t, "uncount")
    /\ UNCHANGED <<word, rw_waiters, seen, rwcalls>>

UncountWaiter(t) ==
    /\ rwpc[t] = "uncount"
    /\ rw_waiters' = rw_waiters - 1
    /\ Goes(t, "again")
    /\ UNCHANGED <<word, rwQueue, seen, rwcalls>>

\* rw_unlock: the word, then the count of waiters, then the wake.
StatusMinusOne(w) == w - 1
UnlockedWord(w) == IF get_locker(w) \in {1, WriterLocked} THEN Free ELSE w - 1
Unlock(t) ==
    /\ rwpc[t] = "hold"
    /\ seen' = [seen EXCEPT ![t] = word]
    /\ word' = UnlockedWord(word)
    /\ Goes(t, "unlocked")
    /\ UNCHANGED <<rw_waiters, rwQueue, rwcalls>>

MustWake(t) == get_locker(seen[t]) \in {1, WriterLocked} /\ (rw_waiters # 0 \/ is_waiting(seen[t]))
CheckWaiters(t) ==
    /\ rwpc[t] = "unlocked"
    /\ IF MustWake(t) THEN Goes(t, "wake") /\ UNCHANGED rwcalls ELSE RWReturns(t)
    /\ UNCHANGED <<word, rw_waiters, rwQueue, seen>>

\* A writer wakes everybody, the last reader one waiter (get_waking_num).
get_waking_num(w) ==
    IF get_locker(w) = WriterLocked \/ Len(rwQueue) = 0 THEN Len(rwQueue) ELSE 1
Wake(t) ==
    /\ rwpc[t] = "wake"
    /\ LET n == get_waking_num(seen[t])
           woken == {rwQueue[i] : i \in 1..n}
       IN /\ rwQueue' = SubSeq(rwQueue, n + 1, Len(rwQueue))
          /\ rwpc' = [u \in RWThreads |-> IF u = t THEN "idle" ELSE IF u \in woken THEN "uncount" ELSE rwpc[u]]
    /\ rwcalls' = [rwcalls EXCEPT ![t] = Tail(@)]
    /\ UNCHANGED <<word, rw_waiters, seen>>

RWInit ==
    /\ word = Free /\ rw_waiters = 0 /\ rwQueue = <<>>
    /\ rwpc = [t \in RWThreads |-> "idle"]
    /\ seen = [t \in RWThreads |-> Free]
    /\ rwcalls \in RWPrograms

RWStep(t) ==
    \/ Acquire(t) \/ Refused(t) \/ Reload(t) \/ DecideToWait(t) \/ CountWaiter(t) \/ MarkWaiting(t)
    \/ FutexWait(t) \/ RWInterrupted(t) \/ UncountWaiter(t) \/ Unlock(t) \/ CheckWaiters(t) \/ Wake(t)
RWNext == \E t \in RWThreads : RWStep(t)

RWSpec == RWInit /\ [][RWNext]_rwVars

-----------------------------------------------------------------------------
Readers == {t \in RWThreads : rwpc[t] = "hold" /\ Reading(t)}
Writers == {t \in RWThreads : rwpc[t] = "hold" /\ ~Reading(t)}

\* Many readers or one writer hold the lock, and the word counts exactly them.
RwLockExclusive ==
    /\ Cardinality(Writers) <= 1
    /\ Writers # {} => Readers = {}
    /\ get_locker(word) = IF Writers # {} THEN WriterLocked ELSE Cardinality(Readers)

\* Nobody is left asleep: while a thread sleeps for the lock some other thread holds it, or has
\* unlocked it and will wake somebody, or is itself on its way to try for it.
RwLockSleepersServed ==
    (\E t \in RWThreads : rwpc[t] = "sleep") =>
        \E t \in RWThreads :
            \/ rwpc[t] \in {"hold", "wake", "uncount", "again", "reload", "count", "mark", "futex_wait"}
            \/ rwpc[t] = "unlocked" /\ MustWake(t)

\* The lock excludes and serves: both of the above.
RwLockCorrect == RwLockExclusive /\ RwLockSleepersServed
=============================================================================
