------------------------------ MODULE FileLocks ------------------------------
(***************************************************************************)
(* POSIX advisory record locks (fs/locks/range_lock): the list of the      *)
(* locks of one inode, what fcntl's F_SETLK, F_SETLKW and F_GETLK and      *)
(* close do with it, and the sleep of a caller whose lock conflicts.       *)
(*                                                                         *)
(* fcntl locks the file table of the process from its first line to its    *)
(* last, so a thread that sleeps in F_SETLKW keeps every other thread of   *)
(* its process from opening, closing or even looking up a file.            *)
(***************************************************************************)
EXTENDS Naturals, Sequences, SequencesExt, FiniteSets

CONSTANTS
    LThreads,      \* threads that call fcntl and close
    ProcOf,        \* [LThreads -> processes]
    OffsetMax,     \* OFFSET_MAX, the end of a lock that reaches the end of the file
    NowRequests,   \* the locks asked for with F_SETLK, unlocking included
    WaitRequests   \* the locks asked for with F_SETLKW

VARIABLES
    list,     \* the list of granted locks, each with its queue of waiters
    held,     \* reference: process -> byte -> the type of lock it holds there
    asks,     \* thread -> the lock it sleeps for, or NoLock
    lwoken    \* sleeping threads whose waiter has been woken

lockVars == <<list, held, asks, lwoken>>

Procs == {ProcOf[t] : t \in LThreads}
Bytes == 0..OffsetMax - 1
NoLock == [type |-> "F_UNLCK", start |-> 0, end |-> 0]

\* RangeLockBuilder: the owner is the calling process, and there are no waiters.
Lock(t, req) == [owner |-> ProcOf[t], type |-> req.type, start |-> req.start, end |-> req.end, waiters |-> {}]

-----------------------------------------------------------------------------
\* How range a overlaps range b (FileRange::overlap_with).
overlap_with(a, b) ==
    CASE a.start >= b.end \/ a.end <= b.start -> "None"
      [] a.start <= b.start /\ a.end < b.end /\ ~(a.end <= b.start) -> "ToLeft"
      [] a.start > b.start /\ a.end < b.end -> "InMiddle"
      [] a.start > b.start /\ a.end >= b.end /\ ~(a.start >= b.end) -> "ToRight"
      [] a.start <= b.start /\ a.end >= b.end -> "Includes"

conflict_with(a, b) ==
    /\ a.owner # b.owner
    /\ overlap_with(a, b) # "None"
    /\ a.type = "F_WRLCK" \/ b.type = "F_WRLCK"

\* Shrinking a lock wakes its waiters; a clone has none.
SetStartQuietly(lk, s) == [lk EXCEPT !.start = s]
SetStart(lk, s) == [lk EXCEPT !.start = s, !.waiters = {}]
SetEnd(lk, e) == [lk EXCEPT !.end = e, !.waiters = {}]
Cloned(lk) == [lk EXCEPT !.waiters = {}]

MergedStartOnly(a, b) == [a EXCEPT !.start = IF b.start < @ THEN b.start ELSE @]
merge_with(a, b) ==
    [a EXCEPT !.start = IF b.start < @ THEN b.start ELSE @, !.end = IF b.end > @ THEN b.end ELSE @]

Swapped(l, i) == [l EXCEPT ![i] = l[i + 1], ![i + 1] = l[i]]

\* insert_lock_into_list's loop: the lock at position pre is settled against the next one of
\* its owner: merged into it, moved behind it, or cut out of it.
RECURSIVE Settle(_, _)
Settle(l, pre) ==
    IF pre = Len(l) \/ l[IF pre = Len(l) THEN pre ELSE pre + 1].owner # l[pre].owner THEN l
    ELSE LET new == l[pre]
             next == l[pre + 1]
             same == new.type = next.type
             how == overlap_with(new, next)
         IN CASE (same /\ new.end < next.start) \/ (~same /\ new.end <= next.start) -> l
              [] (same /\ next.end < new.start) \/ (~same /\ next.end <= new.start) ->
                   Settle(Swapped(l, pre), pre + 1)
              [] same /\ ~(new.end < next.start) /\ ~(next.end < new.start) ->
                   Settle(RemoveAt([l EXCEPT ![pre + 1] = merge_with(@, new)], pre), pre)
              [] ~same /\ how = "ToLeft" -> [l EXCEPT ![pre + 1] = SetStart(@, new.end)]
              [] ~same /\ how = "InMiddle" ->
                   InsertAt(Swapped([l EXCEPT ![pre + 1] = SetEnd(@, new.start)], pre), pre + 2,
                            SetStart(Cloned(next), new.end))
              [] ~same /\ how = "ToRight" ->
                   Settle(Swapped([l EXCEPT ![pre + 1] = SetEnd(@, new.start)], pre), pre + 1)
              [] ~same /\ how = "Includes" -> Settle(RemoveAt(l, pre + 1), pre)

\* Positions of the owner's locks from position i on.
OwnedFrom(l, owner, i) == {j \in i..Len(l) : l[j].owner = owner}
First(S) == CHOOSE i \in S : \A j \in S : i <= j

insert_lock_into_list(l, lk) ==
    IF OwnedFrom(l, lk.owner, 1) = {} THEN <<Cloned(lk)>> \o l
    ELSE LET i == First(OwnedFrom(l, lk.owner, 1)) IN Settle(InsertAt(l, i, Cloned(lk)), i)

\* unlock's loop over the owner's locks from position i on.
RECURSIVE UnlockFrom(_, _, _)
UnlockFrom(l, lk, i) ==
    IF OwnedFrom(l, lk.owner, i) = {} THEN l
    ELSE LET j == First(OwnedFrom(l, lk.owner, i))
             how == overlap_with(lk, l[j])
         IN CASE how = "None" -> UnlockFrom(l, lk, j + 1)
              [] how = "ToLeft" -> [l EXCEPT ![j] = SetStart(@, lk.end)]
              [] how = "InMiddle" ->
                   InsertAt([l EXCEPT ![j] = SetEnd(@, lk.start)], j + 1, SetStart(Cloned(l[j]), lk.end))
              [] how = "ToRight" -> UnlockFrom([l EXCEPT ![j] = SetEnd(@, lk.start)], lk, j + 1)
              [] how = "Includes" -> UnlockFrom(RemoveAt(l, j), lk, j)
unlock(l, lk) == UnlockFrom(l, lk, 1)

-----------------------------------------------------------------------------
Sleeping(t) == asks[t] # NoLock
Waiters(l) == UNION {l[i].waiters : i \in 1..Len(l)}

\* fcntl, dup2 and close lock the file table, which a sleeper in F_SETLKW keeps locked.
TableFree(t) == \A u \in LThreads : ProcOf[u] = ProcOf[t] => ~Sleeping(u)

\* Dropping a lock, or shrinking it, wakes the waiters it had.
ListBecomes(l) ==
    /\ list' = l
    /\ lwoken' = lwoken \cup (Waiters(list) \ Waiters(l))

HoldsFrom(lk) ==
    held' = [held EXCEPT ![lk.owner] =
                [b \in Bytes |-> IF lk.start <= b /\ b < lk.end THEN lk.type ELSE @[b]]]

Conflicts(lk) == {i \in 1..Len(list) : conflict_with(list[i], lk)}

\* One round of set_lock's loop that finds no conflicting lock: the lock is entered.
Grant(t, req) ==
    /\ Conflicts(Lock(t, req)) = {}
    /\ ListBecomes(insert_lock_into_list(list, Lock(t, req)))
    /\ HoldsFrom(Lock(t, req))
    /\ asks' = [asks EXCEPT ![t] = NoLock]

\* One round of set_lock's loop that finds one: the caller queues at the first and sleeps.
Enqueue(t, req) ==
    /\ Conflicts(Lock(t, req)) # {}
    /\ list' = [list EXCEPT ![First(Conflicts(Lock(t, req)))].waiters = @ \cup {t}]
    /\ asks' = [asks EXCEPT ![t] = req]
    /\ lwoken' = lwoken \ {t}
    /\ UNCHANGED held

\* F_SETLK: EAGAIN if there is a conflict, which changes nothing.
SetLk(t) == \E req \in NowRequests :
    /\ ~Sleeping(t) /\ TableFree(t)
    /\ req.type # "F_UNLCK" /\ Grant(t, req)

\* F_SETLK or F_SETLKW with F_UNLCK.
SetUnlck(t) == \E req \in NowRequests :
    /\ ~Sleeping(t) /\ TableFree(t)
    /\ req.type = "F_UNLCK"
    /\ ListBecomes(unlock(list, Lock(t, req)))
    /\ HoldsFrom(Lock(t, req))
    /\ UNCHANGED asks

\* F_SETLKW.
SetLkWait(t) == \E req \in WaitRequests :
    /\ ~Sleeping(t) /\ TableFree(t)
    /\ Grant(t, req) \/ Enqueue(t, req)

\* The sleeper was woken and goes round the loop again.
Retry(t) ==
    /\ Sleeping(t) /\ t \in lwoken
    /\ Grant(t, asks[t]) \/ Enqueue(t, asks[t])

\* A signal ends the sleep with EINTR; the waiter left in a queue is a dead one.
Interrupted(t) ==
    /\ Sleeping(t)
    /\ list' = [i \in 1..Len(list) |-> [list[i] EXCEPT !.waiters = @ \ {t}]]
    /\ asks' = [asks EXCEPT ![t] = NoLock]
    /\ lwoken' = lwoken \ {t}
    /\ UNCHANGED held

\* close, dup2 over the descriptor, exec and exit: every lock of the process on the inode goes
\* (release_advisory_locks).
release_advisory_locks(t) ==
    /\ ~Sleeping(t) /\ TableFree(t)
    /\ \E all \in {Lock(t, [type |-> "F_UNLCK", start |-> 0, end |-> OffsetMax])} :
          ListBecomes(unlock(list, all)) /\ HoldsFrom(all)
    /\ UNCHANGED asks

\* F_GETLK answers with the first conflicting lock, or F_UNLCK.
test_lock(l, lk) ==
    LET c == {i \in 1..Len(l) : conflict_with(lk, l[i])}
    IN IF c = {} THEN "F_UNLCK" ELSE l[First(c)].type

LocksInit ==
    /\ list = <<>>
    /\ held = [p \in Procs |-> [b \in Bytes |-> "F_UNLCK"]]
    /\ asks = [t \in LThreads |-> NoLock]
    /\ lwoken = {}

LocksNext == \E t \in LThreads :
    SetLk(t) \/ SetUnlck(t) \/ SetLkWait(t) \/ Retry(t) \/ Interrupted(t) \/ release_advisory_locks(t)

LocksSpec == LocksInit /\ [][LocksNext]_lockVars

-----------------------------------------------------------------------------
Covers(lk, b) == lk.start <= b /\ b < lk.end

\* The list of ranges is exactly what the calls, byte by byte, amount to, and obeys the rules
\* its comment states: an owner's locks stand together in the order of their offsets, adjacent
\* ones of one type are merged, none overlap; and no byte is locked for writing by one process
\* and locked by another, as F_GETLK then reports.
RangeLocksExact ==
    /\ \A p \in Procs, b \in Bytes :
          LET at == {i \in 1..Len(list) : list[i].owner = p /\ Covers(list[i], b)}
          IN /\ Cardinality(at) <= 1
             /\ held[p][b] = IF at = {} THEN "F_UNLCK" ELSE list[First(at)].type
    /\ \A i, j \in 1..Len(list) : i < j /\ list[i].owner = list[j].owner =>
          /\ list[i].end <= list[j].start
          /\ \A k \in i..j : list[k].owner = list[i].owner
          /\ list[i].end = list[j].start => list[i].type # list[j].type
    /\ \A p, q \in Procs, b \in Bytes : p # q /\ held[p][b] = "F_WRLCK" =>
          /\ held[q][b] = "F_UNLCK"
          /\ test_lock(list, [owner |-> q, type |-> "F_RDLCK", start |-> b, end |-> b + 1]) = "F_WRLCK"

\* Whoever sleeps in F_SETLKW and has not been woken is queued at a lock that still stands in
\* its way, whatever splits, merges and replacements the lock has been through since.
LockWaitersServed ==
    \A t \in LThreads : Sleeping(t) /\ t \notin lwoken =>
        \E i \in 1..Len(list) : t \in list[i].waiters /\ conflict_with(list[i], Lock(t, asks[t]))

\* set_lock's "Ensure that we drop any locks before wait": nobody else's call on a file is held
\* up by a thread that sleeps in F_SETLKW.
NoLockHeldWhileWaiting == \A t \in LThreads : ~Sleeping(t) => TableFree(t)

(***************************************************************************)
(* flock(2) (fs/locks/flock.rs, file_ops/flock.rs): whole-file locks owned *)
(* by open files.  A lock holds its owner weakly; the last strong          *)
(* reference to an open file, dropped by whoever drops it, runs            *)
(* INodeFile's destructor, which takes the lock off the list.  unlock      *)
(* upgrades every owner on the list for a moment to compare it, so the     *)
(* last reference may be the one unlock itself holds.                      *)
(***************************************************************************)
CONSTANTS
    KThreads,    \* threads that call flock and close
    KPrograms,   \* [KThreads -> Seq(calls)], one of which runs
    KFiles,      \* open files of one inode
    NobodyK      \* no thread

VARIABLES
    flocks,      \* the list: owner, type, waiters
    strong,      \* open file -> strong references to it
    listLock,    \* the thread that holds the list's lock, or NobodyK
    kpc,         \* thread -> where it is
    kidx,        \* thread -> position of unlock's retain in the list
    kcalls,      \* thread -> the calls still to be made
    kwoken       \* sleeping threads whose waiter has been woken

flockVars == <<flocks, strong, listLock, kpc, kidx, kcalls, kwoken>>

KCall(t) == Head(kcalls[t])
HasKCall(t, op) == kcalls[t] # <<>> /\ KCall(t).op = op
KReturns(t) == kcalls' = [kcalls EXCEPT ![t] = Tail(@)]

flock_conflict_with(a, b) == a.owner # b.owner /\ (a.type = "EX" \/ b.type = "EX")

Request(t) == [owner |-> KCall(t).file, type |-> KCall(t).type, waiters |-> {}]
KConflicts(t) == {i \in 1..Len(flocks) : flock_conflict_with(Request(t), flocks[i])}
FirstOf(S) == CHOOSE i \in S : \A j \in S : i <= j

\* A Flock that is dropped wakes its waiters.
FlocksBecome(l) ==
    /\ flocks' = l
    /\ kwoken' = kwoken \cup (UNION {flocks[i].waiters : i \in 1..Len(flocks)}
                                \ UNION {l[i].waiters : i \in 1..Len(l)})

\* flock(LOCK_SH or LOCK_EX) looks the file up, which is one more reference.
do_flock(t) ==
    /\ HasKCall(t, "lock") /\ kpc[t] = "idle"
    /\ strong[KCall(t).file] > 0
    /\ strong' = [strong EXCEPT ![KCall(t).file] = @ + 1]
    /\ kpc' = [kpc EXCEPT ![t] = "try"]
    /\ UNCHANGED <<flocks, listLock, kidx, kcalls, kwoken>>

\* A call on a descriptor that is closed (EBADF).
BadFile(t) ==
    /\ kcalls[t] # <<>> /\ kpc[t] = "idle" /\ strong[KCall(t).file] = 0
    /\ KReturns(t)
    /\ UNCHANGED <<flocks, strong, listLock, kpc, kidx, kwoken>>

\* Replacing the owner's own lock drops the old one, with its waiters.
Replaced(l, i, req) == [l EXCEPT ![i] = req]

\* set_lock finds no conflict: the lock is entered, or replaces the one its owner has.
KGrant(t) ==
    /\ kpc[t] = "try" /\ listLock = NobodyK /\ KConflicts(t) = {}
    /\ LET own == {i \in 1..Len(flocks) : flocks[i].owner = KCall(t).file}
       IN FlocksBecome(IF own = {} THEN <<Request(t)>> \o flocks
                       ELSE Replaced(flocks, FirstOf(own), Request(t)))
    /\ kpc' = [kpc EXCEPT ![t] = "release"]
    /\ UNCHANGED <<strong, listLock, kidx, kcalls>>

\* set_lock finds a conflict: EAGAIN with LOCK_NB, and otherwise a sleep.
KWait(t) ==
    /\ kpc[t] = "try" /\ listLock = NobodyK /\ KConflicts(t) # {}
    /\ IF KCall(t).nonblocking
       THEN kpc' = [kpc EXCEPT ![t] = "release"] /\ UNCHANGED <<flocks, kwoken>>
       ELSE /\ flocks' = [flocks EXCEPT ![FirstOf(KConflicts(t))].waiters = @ \cup {t}]
            /\ kwoken' = kwoken \ {t}
            /\ kpc' = [kpc EXCEPT ![t] = "sleep"]
    /\ UNCHANGED <<strong, listLock, kidx, kcalls>>

KWoken(t) ==
    /\ kpc[t] = "sleep" /\ t \in kwoken
    /\ kpc' = [kpc EXCEPT ![t] = "try"]
    /\ UNCHANGED <<flocks, strong, listLock, kidx, kcalls, kwoken>>

\* A signal ends the sleep; the waiter left in the queue is a dead one.
KInterrupted(t) ==
    /\ kpc[t] = "sleep"
    /\ flocks' = [i \in 1..Len(flocks) |-> [flocks[i] EXCEPT !.waiters = @ \ {t}]]
    /\ kwoken' = kwoken \ {t}
    /\ kpc' = [kpc EXCEPT ![t] = "release"]
    /\ UNCHANGED <<strong, listLock, kidx, kcalls>>

\* A reference to the file is dropped; the last one runs the destructor, which unlocks.
DropReference(t) ==
    /\ kpc[t] = "release" \/ (kpc[t] = "idle" /\ HasKCall(t, "close") /\ strong[KCall(t).file] > 0)
    /\ strong' = [strong EXCEPT ![KCall(t).file] = @ - 1]
    /\ IF strong[KCall(t).file] = 1
       THEN kpc' = [kpc EXCEPT ![t] = "unlock"] /\ UNCHANGED kcalls
       ELSE kpc' = [kpc EXCEPT ![t] = "idle"] /\ KReturns(t)
    /\ UNCHANGED <<flocks, listLock, kidx, kwoken>>

\* flock(LOCK_UN), which keeps a reference for the length of the call.
StartUnlock(t) ==
    /\ HasKCall(t, "unlock") /\ kpc[t] = "idle" /\ strong[KCall(t).file] > 0
    /\ strong' = [strong EXCEPT ![KCall(t).file] = @ + 1]
    /\ kpc' = [kpc EXCEPT ![t] = "unlock"]
    /\ UNCHANGED <<flocks, listLock, kidx, kcalls, kwoken>>

LockList(t) ==
    /\ kpc[t] = "unlock" /\ listLock = NobodyK
    /\ listLock' = t
    /\ kidx' = [kidx EXCEPT ![t] = 1]
    /\ kpc' = [kpc EXCEPT ![t] = "retain"]
    /\ UNCHANGED <<flocks, strong, kcalls, kwoken>>

\* retain looks at the next lock: an owner that cannot be upgraded loses it, and one that can
\* is held until it has been compared.
Upgrade(t) ==
    /\ kpc[t] = "retain" /\ kidx[t] <= Len(flocks)
    /\ LET o == flocks[kidx[t]].owner
       IN IF strong[o] = 0
          THEN FlocksBecome(RemoveAt(flocks, kidx[t])) /\ UNCHANGED <<strong, kpc>>
          ELSE /\ strong' = [strong EXCEPT ![o] = @ + 1]
               /\ kpc' = [kpc EXCEPT ![t] = "compare"]
               /\ UNCHANGED <<flocks, kwoken>>
    /\ UNCHANGED <<listLock, kidx, kcalls>>

\* The owner is compared and its reference dropped.  If that was the last one its destructor
\* locks the list that this thread has locked.
Compare(t) ==
    /\ kpc[t] = "compare"
    /\ LET o == flocks[kidx[t]].owner
       IN /\ strong' = [strong EXCEPT ![o] = @ - 1]
          /\ IF strong[o] = 1 THEN kpc' = [kpc EXCEPT ![t] = "stuck"] /\ UNCHANGED <<flocks, kidx, kwoken>>
             ELSE /\ kpc' = [kpc EXCEPT ![t] = "retain"]
                  /\ IF o = KCall(t).file THEN FlocksBecome(RemoveAt(flocks, kidx[t])) /\ UNCHANGED kidx
                     ELSE kidx' = [kidx EXCEPT ![t] = @ + 1] /\ UNCHANGED <<flocks, kwoken>>
    /\ UNCHANGED <<listLock, kcalls>>

UnlockList(t) ==
    /\ kpc[t] = "retain" /\ kidx[t] > Len(flocks)
    /\ listLock' = NobodyK
    /\ IF KCall(t).op = "unlock" /\ strong[KCall(t).file] > 0
       THEN kpc' = [kpc EXCEPT ![t] = "release"] /\ UNCHANGED kcalls
       ELSE kpc' = [kpc EXCEPT ![t] = "idle"] /\ KReturns(t)
    /\ UNCHANGED <<flocks, strong, kidx, kwoken>>

FlockInit ==
    /\ flocks = <<>>
    /\ strong = [f \in KFiles |-> 1]
    /\ listLock = NobodyK
    /\ kpc = [t \in KThreads |-> "idle"]
    /\ kidx = [t \in KThreads |-> 1]
    /\ kcalls \in KPrograms
    /\ kwoken = {}

FlockNext == \E t \in KThreads :
    \/ do_flock(t) \/ BadFile(t) \/ KGrant(t) \/ KWait(t) \/ KWoken(t) \/ KInterrupted(t)
    \/ DropReference(t) \/ StartUnlock(t) \/ LockList(t) \/ Upgrade(t) \/ Compare(t) \/ UnlockList(t)

FlockSpec == FlockInit /\ [][FlockNext]_flockVars

-----------------------------------------------------------------------------
\* No two open files hold conflicting locks, no open file holds two, and a lock whose owner is
\* gone is about to be taken off the list by the thread that dropped the last reference.
FlocksExclusive ==
    /\ \A i, j \in 1..Len(flocks) : i # j =>
          flocks[i].owner # flocks[j].owner /\ ~flock_conflict_with(flocks[i], flocks[j])
    /\ \A i \in 1..Len(flocks) : strong[flocks[i].owner] = 0 =>
          \E t \in KThreads : kpc[t] \in {"unlock", "retain", "compare", "stuck"}

\* Whoever sleeps in flock and has not been woken is queued at a lock that still conflicts.
FlockWaitersServed ==
    \A t \in KThreads : kpc[t] = "sleep" /\ t \notin kwoken =>
        \E i \in 1..Len(flocks) : t \in flocks[i].waiters /\ flock_conflict_with(Request(t), flocks[i])

\* unlock never waits for the list it has locked itself.
NoSelfDeadlock == \A t \in KThreads : kpc[t] # "stuck"
=============================================================================
