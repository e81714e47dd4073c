------------------------------ MODULE Process ------------------------------
(***************************************************************************)
(* The life of processes and threads in the LibOS: spawn, clone, exit,     *)
(* exit_group, wait4, execve, and the idle process that adopts orphans     *)
(* (process/do_spawn, do_clone.rs, do_exit.rs, do_wait4.rs, wait.rs,       *)
(* do_exec.rs, process/mod.rs, table.rs).                                  *)
(*                                                                         *)
(* A process is an object (an Arc<Process>), not a pid: execve builds a    *)
(* second object with the pid of the first and both are, for a while, in   *)
(* the children of the same parent.  Objects are numbered in the order     *)
(* they are built and object 0 is IDLE.                                    *)
(*                                                                         *)
(* A step is a critical section: the code between taking a process's inner *)
(* lock and releasing it.  exit_process and exit_process_for_execve hold   *)
(* the locks of IDLE, of the parent and of the process together, and every *)
(* change of a parent is made under the lock of IDLE, so each is one step. *)
(*                                                                         *)
(* A failed expect, unwrap or debug_assert is recorded in `panicked` and   *)
(* leaves the panicking thread stuck.                                      *)
(***************************************************************************)
EXTENDS Integers, Sequences

CONSTANTS
    MaxProcess,     \* objects 0..MaxProcess may be built: a bound on spawn and execve
    MaxThread,      \* threads of a process: a bound on clone
    WaitFilters,    \* WaitFilters[i]: what the i-th thread of a process may wait4 for
    Cloners,        \* the processes whose program calls clone
    Executors,      \* the processes whose program calls execve
    GroupExiters,   \* the processes whose program calls exit_group
    Killed          \* the processes that may receive a fatal signal

\* The elements of a Vec; its first index that holds a member of S (0: there is none); and
\* Vec::swap_remove, where the last element takes the place of the removed one.
Elements(s) == {s[i] : i \in DOMAIN s}
FirstIn(s, S) ==
    IF Elements(s) \cap S = {} THEN 0
    ELSE CHOOSE i \in DOMAIN s : s[i] \in S /\ \A j \in 1 .. i - 1 : s[j] \notin S
SwapRemove(s, i) == [k \in 1 .. Len(s) - 1 |-> IF k = i THEN s[Len(s)] ELSE s[k]]

NoPid == -1
NoProcess == -1
Idle == 0
Processes == 0 .. MaxProcess
Threads == Processes \X (1 .. MaxThread)
Pids == 1 .. MaxProcess

\* ProcessFilter: WithAnyPid, WithPid and WithPgid.
AnyPid == [by |-> "any", id |-> 0]
Filters == {AnyPid} \cup [by : {"pid", "pgid"}, id : Pids]

ASSUME BoundsAssumption == MaxProcess \in Nat \ {0} /\ MaxThread \in Nat \ {0}
ASSUME WaitFiltersAssumption == WaitFilters \in [1 .. MaxThread -> SUBSET Filters]
ASSUME UsersAssumption == Cloners \cup Executors \cup GroupExiters \cup Killed \subseteq Processes

VARIABLES
    status,     \* ProcessInner: "none" (not built), "live" or "zombie"
    pid,
    pgid,
    parent,
    children,   \* ProcessInner::children, a Vec
    threads,    \* ProcessInner::threads
    waiters,    \* ProcessInner::waiting_children, a Vec of the waiting threads
    forced,     \* forced_exit_status is set
    processTable,
    threadTable,
    pc,
    filter,     \* the filter of the thread's Waiter
    woken,      \* Waiter's is_woken
    result,     \* Waiter's result
    captured,   \* do_exec's local: the parent of the process to build
    fresh,      \* do_exec's local: the process just built
    panicked

procVars == <<status, pid, pgid, parent, children, threads, waiters, forced>>
tables == <<processTable, threadTable>>
threadVars == <<pc, filter, woken, result, captured, fresh>>
vars == <<procVars, tables, threadVars, panicked>>

Of(t) == t[1]
MainThread(p) == <<p, 1>>
IsMain(t) == t[2] = 1

\* The tid of a process's i-th thread; that of the main thread is the pid.
MainTid(id) == <<id, 1>>
Tid(t) == <<pid[Of(t)], t[2]>>

Labels == {"none", "user", "wait", "exit_group", "exit", "left", "last", "exec",
           "exec_wait", "exec_replace", "exited", "panic"}

TypeOK ==
    /\ status \in [Processes -> {"none", "live", "zombie"}]
    /\ pid \in [Processes -> Nat]
    /\ pgid \in [Processes -> Nat]
    /\ parent \in [Processes -> Processes]
    /\ children \in [Processes -> Seq(Processes)]
    /\ threads \in [Processes -> SUBSET Threads]
    /\ waiters \in [Processes -> Seq(Threads)]
    /\ \A p \in Processes : \A t \in threads[p] \cup Elements(waiters[p]) : Of(t) = p
    /\ forced \in [Processes -> BOOLEAN]
    /\ processTable \in [Pids -> Processes \cup {NoProcess}]
    /\ threadTable \subseteq Pids \X (1 .. MaxThread)
    /\ pc \in [Threads -> Labels]
    /\ filter \in [Threads -> Filters]
    /\ woken \in [Threads -> BOOLEAN]
    /\ result \in [Threads -> Pids \cup {NoPid}]
    /\ captured \in [Threads -> Processes]
    /\ fresh \in [Threads -> Processes \cup {NoProcess}]
    /\ panicked \subseteq STRING

-----------------------------------------------------------------------------
(* The LibOS boots with the idle process, which has no thread of its own   *)
(* that runs, and the first process, which IDLE spawned.                   *)

Init ==
    /\ status = [p \in Processes |-> IF p <= 1 THEN "live" ELSE "none"]
    /\ pid = [p \in Processes |-> IF p = 1 THEN 1 ELSE 0]
    /\ pgid = [p \in Processes |-> IF p = 1 THEN 1 ELSE 0]
    /\ parent = [p \in Processes |-> Idle]
    /\ children = [p \in Processes |-> IF p = Idle THEN <<1>> ELSE <<>>]
    /\ threads = [p \in Processes |-> IF p = 1 THEN {MainThread(1)} ELSE {}]
    /\ waiters = [p \in Processes |-> <<>>]
    /\ forced = [p \in Processes |-> FALSE]
    /\ processTable = [i \in Pids |-> IF i = 1 THEN 1 ELSE NoProcess]
    /\ threadTable = {MainTid(1)}
    /\ pc = [t \in Threads |-> IF t = MainThread(1) THEN "user" ELSE "none"]
    /\ filter = [t \in Threads |-> AnyPid]
    /\ woken = [t \in Threads |-> FALSE]
    /\ result = [t \in Threads |-> NoPid]
    /\ captured = [t \in Threads |-> Idle]
    /\ fresh = [t \in Threads |-> NoProcess]
    /\ panicked = {}

-----------------------------------------------------------------------------
(* Helpers *)

Goto(t, l) == pc' = [pc EXCEPT ![t] = l]

\* An expect, unwrap or debug_assert that does not hold.
Panic(t, what) ==
    /\ panicked' = panicked \cup {what}
    /\ Goto(t, "panic")
    /\ UNCHANGED <<procVars, tables, filter, woken, result, captured, fresh>>

Matches(f, p) ==
    CASE f.by = "any" -> TRUE
      [] f.by = "pid" -> pid[p] = f.id
      [] f.by = "pgid" -> pgid[p] = f.id

\* The first child in the Vec with this pid (0: there is none).
HavePid(id) == {c \in Processes : pid[c] = id}
ChildIndex(p, id) == FirstIn(children[p], HavePid(id))
Zombies == {c \in Processes : status[c] = "zombie"}

\* A new object is the next one of Processes.
CanBuild == \E q \in Processes : status[q] = "none"
NextObject == CHOOSE q \in Processes : status[q] = "none" /\ (q = 0 \/ status[q - 1] # "none")

-----------------------------------------------------------------------------
(* Process and thread creation *)

\* ProcessBuilder::build: a process with one thread, the last child of its parent.
build(q, id, group, p) ==
    /\ status' = [status EXCEPT ![q] = "live"]
    /\ pid' = [pid EXCEPT ![q] = id]
    /\ pgid' = [pgid EXCEPT ![q] = group]
    /\ parent' = [parent EXCEPT ![q] = p]
    /\ children' = [children EXCEPT ![p] = Append(@, q)]
    /\ threads' = [threads EXCEPT ![q] = {MainThread(q)}]

\* The number of a new object is its pid: ThreadId::new counts up, and no pid comes
\* back before the counter wraps.
do_spawn(t) ==
    LET q == NextObject IN
    /\ pc[t] = "user"
    /\ CanBuild
    /\ \E group \in {pgid[Of(t)], q} : build(q, q, group, Of(t))
    /\ processTable' = [processTable EXCEPT ![q] = q]
    /\ threadTable' = threadTable \cup {MainTid(q)}
    /\ Goto(MainThread(q), "user")
    /\ UNCHANGED <<waiters, forced, filter, woken, result, captured, fresh, panicked>>

do_clone(t) ==
    /\ pc[t] = "user"
    /\ Of(t) \in Cloners
    /\ \E i \in 2 .. MaxThread :
          /\ pc[<<Of(t), i>>] = "none"
          /\ \A j \in 2 .. i - 1 : pc[<<Of(t), j>>] # "none"
          /\ threads' = [threads EXCEPT ![Of(t)] = @ \cup {<<Of(t), i>>}]
          /\ threadTable' = threadTable \cup {Tid(<<Of(t), i>>)}
          /\ Goto(<<Of(t), i>>, "user")
    /\ UNCHANGED <<status, pid, pgid, parent, children, waiters, forced, processTable,
                   filter, woken, result, captured, fresh, panicked>>

-----------------------------------------------------------------------------
(* wait4 *)

\* The asserts of free_zombie_child, and its effect: the child leaves both tables and
\* the children of p.  Its pid names the child to remove.
CanFree(p, id) ==
    /\ MainTid(id) \in threadTable
    /\ processTable[id] # NoProcess
    /\ ChildIndex(p, id) # 0
    /\ status[children[p][ChildIndex(p, id)]] = "zombie"

free_zombie_child(p, id) ==
    /\ threadTable' = threadTable \ {MainTid(id)}
    /\ processTable' = [processTable EXCEPT ![id] = NoProcess]
    /\ children' = [children EXCEPT ![p] = SwapRemove(@, ChildIndex(p, id))]

\* The first critical section of do_wait4 finds a zombie: it is reaped at once.
Wait4Reap(t, f) ==
    LET p == Of(t)
        i == FirstIn(children[p], {c \in Zombies : Matches(f, c)})
    IN /\ pc[t] = "user"
       /\ i # 0
       /\ LET id == pid[children[p][i]] IN
          IF CanFree(p, id)
          THEN /\ free_zombie_child(p, id)
               /\ UNCHANGED <<status, pid, pgid, parent, threads, waiters, forced,
                              threadVars, panicked>>
          ELSE Panic(t, "wait4: reap a zombie")

\* No zombie, but a child to wait for: the Waiter joins the queue before the lock of the
\* process is released.  (No such child, or WNOHANG: an error or 0, nothing changes.)
Wait4Sleep(t, f) ==
    /\ pc[t] = "user"
    /\ \E c \in Elements(children[Of(t)]) : Matches(f, c)
    /\ ~\E c \in Elements(children[Of(t)]) : Matches(f, c) /\ status[c] = "zombie"
    /\ waiters' = [waiters EXCEPT ![Of(t)] = Append(@, t)]
    /\ filter' = [filter EXCEPT ![t] = f]
    /\ Goto(t, "wait")
    /\ UNCHANGED <<status, pid, pgid, parent, children, threads, forced, tables, woken,
                   result, captured, fresh, panicked>>

\* sleep_until_woken_with_result ends: with a pid, that child is reaped in a second
\* critical section; with none (the process is exiting), wait4 fails with EINTR.
DropWaiter(t) ==
    /\ Goto(t, "user")
    /\ filter' = [filter EXCEPT ![t] = AnyPid]
    /\ woken' = [woken EXCEPT ![t] = FALSE]
    /\ result' = [result EXCEPT ![t] = NoPid]

Wait4Woken(t) ==
    /\ pc[t] = "wait"
    /\ woken[t]
    /\ IF result[t] = NoPid
       THEN /\ DropWaiter(t)
            /\ UNCHANGED <<procVars, tables, captured, fresh, panicked>>
       ELSE IF CanFree(Of(t), result[t])
       THEN /\ free_zombie_child(Of(t), result[t])
            /\ DropWaiter(t)
            /\ UNCHANGED <<status, pid, pgid, parent, threads, waiters, forced, captured,
                           fresh, panicked>>
       ELSE Panic(t, "wait4: reap the child that woke the waiter")

\* entry.rs: when a host thread that ran a program comes back, IDLE reaps the zombies
\* it has adopted.
idle_reap_zombie_children ==
    LET i == FirstIn(children[Idle], Zombies) IN
    /\ i # 0
    /\ LET id == pid[children[Idle][i]] IN
       IF CanFree(Idle, id)
       THEN /\ free_zombie_child(Idle, id)
            /\ UNCHANGED <<status, pid, pgid, parent, threads, waiters, forced, threadVars,
                           panicked>>
       ELSE /\ panicked' = panicked \cup {"idle: reap a zombie"}
            /\ UNCHANGED <<procVars, tables, threadVars>>

-----------------------------------------------------------------------------
(* Exit *)

\* exit_group: force_exit first, then, under the lock, every wait4 of the process is
\* woken without a result; then the calling thread exits.
do_exit_group(t) ==
    /\ pc[t] = "user"
    /\ Of(t) \in GroupExiters
    /\ forced' = [forced EXCEPT ![Of(t)] = TRUE]
    /\ Goto(t, "exit_group")
    /\ UNCHANGED <<status, pid, pgid, parent, children, threads, waiters, tables, filter,
                   woken, result, captured, fresh, panicked>>

del_and_wake_all_waiters(t) ==
    LET asleep == Elements(waiters[Of(t)]) IN
    /\ pc[t] = "exit_group"
    /\ waiters' = [waiters EXCEPT ![Of(t)] = <<>>]
    /\ woken' = [u \in Threads |-> u \in asleep \/ woken[u]]
    /\ result' = [u \in Threads |-> IF u \in asleep THEN NoPid ELSE result[u]]
    /\ Goto(t, "exit")
    /\ UNCHANGED <<status, pid, pgid, parent, children, threads, forced, tables, filter,
                   captured, fresh, panicked>>

\* A fatal signal: force_exit, and nothing else.
handle_fatal_signal(t) ==
    /\ pc[t] = "user"
    /\ Of(t) \in Killed
    /\ ~forced[Of(t)]
    /\ forced' = [forced EXCEPT ![Of(t)] = TRUE]
    /\ UNCHANGED <<status, pid, pgid, parent, children, threads, waiters, tables,
                   threadVars, panicked>>

do_exit(t) ==
    /\ pc[t] = "user"
    /\ Goto(t, "exit")
    /\ UNCHANGED <<procVars, tables, filter, woken, result, captured, fresh, panicked>>

\* On the way back to user mode, from a system call or an interrupt.
handle_force_exit(t) ==
    /\ pc[t] = "user"
    /\ forced[Of(t)]
    /\ Goto(t, "exit")
    /\ UNCHANGED <<procVars, tables, filter, woken, result, captured, fresh, panicked>>

\* Thread::exit: the thread leaves its process; the number of those that remain decides
\* who exits the process.
thread_exit(t) ==
    /\ pc[t] = "exit"
    /\ threads' = [threads EXCEPT ![Of(t)] = @ \ {t}]
    /\ Goto(t, IF threads[Of(t)] = {t} THEN "last" ELSE "left")
    /\ UNCHANGED <<status, pid, pgid, parent, children, waiters, forced, tables, filter,
                   woken, result, captured, fresh, panicked>>

\* The main thread's tid stays in the table as long as the process does.
ThreadTableAfter(t) == IF IsMain(t) THEN threadTable ELSE threadTable \ {Tid(t)}

exit_thread(t) ==
    /\ pc[t] = "left"
    /\ threadTable' = ThreadTableAfter(t)
    /\ Goto(t, "exited")
    /\ UNCHANGED <<procVars, processTable, filter, woken, result, captured, fresh, panicked>>

\* ProcessInner::exit: the new parent adopts the children, and the process is a zombie.
Adopted(p, heir) == [children EXCEPT ![heir] = @ \o children[p], ![p] = <<>>]
ExitKeepingParents(p, heir) ==
    /\ status' = [status EXCEPT ![p] = "zombie"]
    /\ UNCHANGED parent

exit(p, heir) ==
    /\ status' = [status EXCEPT ![p] = "zombie"]
    /\ parent' = [c \in Processes |-> IF c \in Elements(children[p]) THEN heir ELSE parent[c]]

\* ProcessInner::remove_zombie_child, on the children after the adoption.
RemoveChild(childrenOf, p, id) ==
    [childrenOf EXCEPT ![p] = SwapRemove(@, FirstIn(@, HavePid(id)))]

\* WaitQueue::del_and_wake_one_waiter, for the exit of c: the first waiter that waits for
\* it leaves the queue of p with the pid of c as its result.
WaiterIndexByGroup(p, c) ==
    FirstIn(waiters[p], {u \in Threads : filter[u].by = "any" \/ pgid[c] = filter[u].id})
WaiterIndex(p, c) == FirstIn(waiters[p], {u \in Threads : Matches(filter[u], c)})
WakeWithoutFlag(p, c) ==
    LET i == WaiterIndex(p, c)
    IN /\ waiters' = IF i = 0 THEN [waiters EXCEPT ![c] = <<>>]
                    ELSE [waiters EXCEPT ![p] = SwapRemove(@, i), ![c] = <<>>]
       /\ UNCHANGED <<woken, result>>

del_and_wake_one_waiter(p, c) ==
    LET i == WaiterIndex(p, c)
    IN IF i = 0
       THEN /\ waiters' = [waiters EXCEPT ![c] = <<>>]
            /\ UNCHANGED <<woken, result>>
       ELSE /\ waiters' = [waiters EXCEPT ![p] = SwapRemove(@, i), ![c] = <<>>]
            /\ woken' = [woken EXCEPT ![waiters[p][i]] = TRUE]
            /\ result' = [result EXCEPT ![waiters[p][i]] = pid[c]]

\* The parent is IDLE, which waits for nobody: the process leaves no zombie.
ExitToIdle(t) ==
    LET p == Of(t) IN
    /\ pc[t] = "last"
    /\ parent[p] = Idle
    /\ IF MainTid(pid[p]) \notin threadTable \/ processTable[pid[p]] = NoProcess
            \/ ChildIndex(Idle, pid[p]) = 0
       THEN Panic(t, "exit: the process is in the tables and a child of IDLE")
       ELSE /\ threadTable' = ThreadTableAfter(t) \ {MainTid(pid[p])}
            /\ processTable' = [processTable EXCEPT ![pid[p]] = NoProcess]
            /\ exit(p, Idle)
            /\ children' = RemoveChild(Adopted(p, Idle), Idle, pid[p])
            /\ waiters' = [waiters EXCEPT ![p] = <<>>]
            /\ Goto(t, "exited")
            /\ UNCHANGED <<pid, pgid, threads, forced, filter, woken, result, captured,
                           fresh, panicked>>

\* Otherwise the process stays as a zombie child and one wait4 of the parent is woken.
ExitToParent(t) ==
    LET p == Of(t) IN
    /\ pc[t] = "last"
    /\ parent[p] # Idle
    /\ IF status[parent[p]] # "live"
       THEN Panic(t, "exit: the parent is live")
       ELSE /\ threadTable' = ThreadTableAfter(t)
            /\ exit(p, Idle)
            /\ children' = Adopted(p, Idle)
            /\ del_and_wake_one_waiter(parent[p], p)
            /\ Goto(t, "exited")
            /\ UNCHANGED <<pid, pgid, threads, forced, processTable, filter, captured,
                           fresh, panicked>>

-----------------------------------------------------------------------------
(* execve *)

\* do_exec reads the parent of the process, without a lock.
do_exec(t) ==
    /\ pc[t] = "user"
    /\ Of(t) \in Executors
    /\ CanBuild
    /\ captured' = [captured EXCEPT ![t] = parent[Of(t)]]
    /\ Goto(t, "exec")
    /\ UNCHANGED <<procVars, tables, filter, woken, result, fresh, panicked>>

\* new_process_for_exec builds the new process, a second child of that parent with the
\* same pid; the other threads are then forced to exit.
new_process_for_exec(t) ==
    LET q == NextObject IN
    /\ pc[t] = "exec"
    /\ CanBuild
    /\ IF status[captured[t]] # "live"
       THEN Panic(t, "build: the parent is live")
       ELSE /\ build(q, pid[Of(t)], pgid[Of(t)], captured[t])
            /\ fresh' = [fresh EXCEPT ![t] = q]
            /\ forced' = [forced EXCEPT ![Of(t)] = TRUE]
            /\ Goto(t, "exec_wait")
            /\ UNCHANGED <<waiters, tables, filter, woken, result, captured, panicked>>

\* wait_for_other_threads_to_exit, then exit_old_process_for_execve: the new process
\* adopts the children and the old one leaves its parent, found by its pid.
exit_process_for_execve(t) ==
    LET p == Of(t) IN
    /\ pc[t] = "exec_wait"
    /\ threads[p] = {t}
    /\ IF status[parent[p]] # "live" \/ ChildIndex(parent[p], pid[p]) = 0
       THEN Panic(t, "exec: the process is a child of a live parent")
       ELSE /\ threads' = [threads EXCEPT ![p] = {}]
            /\ threadTable' = ThreadTableAfter(t)
            /\ exit(p, fresh[t])
            /\ children' = RemoveChild(Adopted(p, fresh[t]), parent[p], pid[p])
            /\ waiters' = [waiters EXCEPT ![p] = <<>>]
            /\ Goto(t, "exec_replace")
            /\ UNCHANGED <<pid, pgid, forced, processTable, filter, woken, result,
                           captured, fresh, panicked>>

\* replace_process and replace_thread; the new main thread is enqueued for execution.
exec_replace(t) ==
    LET q == fresh[t] IN
    /\ pc[t] = "exec_replace"
    /\ processTable' = [processTable EXCEPT ![pid[q]] = q]
    /\ threadTable' = threadTable \cup {MainTid(pid[q])}
    /\ pc' = [pc EXCEPT ![t] = "exited", ![MainThread(q)] = "user"]
    /\ captured' = [captured EXCEPT ![t] = Idle]
    /\ fresh' = [fresh EXCEPT ![t] = NoProcess]
    /\ UNCHANGED <<procVars, filter, woken, result, panicked>>

-----------------------------------------------------------------------------
Kernel(t) ==
    \/ Wait4Woken(t)
    \/ del_and_wake_all_waiters(t)
    \/ handle_force_exit(t)
    \/ thread_exit(t)
    \/ exit_thread(t)
    \/ ExitToIdle(t)
    \/ ExitToParent(t)
    \/ new_process_for_exec(t)
    \/ exit_process_for_execve(t)
    \/ exec_replace(t)

Next ==
    \/ \E t \in Threads :
          \/ do_spawn(t)
          \/ do_clone(t)
          \/ \E f \in WaitFilters[t[2]] : Wait4Reap(t, f) \/ Wait4Sleep(t, f)
          \/ do_exit_group(t)
          \/ handle_fatal_signal(t)
          \/ do_exit(t)
          \/ do_exec(t)
          \/ Kernel(t)
    \/ idle_reap_zombie_children

Spec == Init /\ [][Next]_vars

\* A thread inside the LibOS keeps running, and one in user mode is interrupted: the
\* host schedules its thread and broadcasts interrupts to all of them, again and again.
Fairness == \A t \in Threads : WF_vars(Kernel(t))
FairSpec == Spec /\ Fairness

-----------------------------------------------------------------------------
(* Properties *)

Children(p) == Elements(children[p])
Building(q) == pc[MainThread(q)] = "none"

\* Every live process, and no process twice, is a child of exactly one process, its
\* parent, which is live: adoption by IDLE or by the process that execve builds never
\* loses a child, whatever exits at the same time (ProcessInner::exit, build,
\* remove_zombie_child).
TreeConsistent ==
    /\ \A q \in Processes \ {Idle} : status[q] = "live" =>
          /\ status[parent[q]] = "live"
          /\ q \in Children(parent[q])
    /\ \A p \in Processes : \A i, j \in DOMAIN children[p] :
          /\ children[p][i] = children[p][j] => i = j
          /\ parent[children[p][i]] = p

\* The pid of a running process names it in the process table, its main tid stays in
\* the thread table until it is reaped even when the main thread has exited, and no
\* entry outlives its process: it is running, or a zombie child, or execve is about to
\* replace it (add_process, del_process, replace_process and the exit_thread comment
\* "Keep the main thread's tid available as long as the process is not destroyed").
TablesConsistent ==
    /\ \A q \in Processes \ {Idle} : status[q] = "live" /\ ~Building(q) =>
          processTable[pid[q]] = q
    /\ \A id \in Pids :
          /\ (processTable[id] # NoProcess) <=> (MainTid(id) \in threadTable)
          /\ processTable[id] # NoProcess =>
                LET p == processTable[id] IN
                \/ status[p] = "live"
                \/ p \in Children(parent[p])
                \/ \E t \in Threads : Of(t) = p /\ pc[t] = "exec_replace"

\* No wait4 sleeps while a child it waits for is a zombie: the check for zombies and
\* the registration of the waiter are one critical section of the parent's lock, and
\* the exit of a child wakes a waiter under the same lock (do_wait4: "we can safely
\* release the lock on the process inner without risking missing events").
NoMissedExit ==
    \A t \in Threads : pc[t] = "wait" /\ ~woken[t] =>
        /\ t \in Elements(waiters[Of(t)])
        /\ ~\E c \in Children(Of(t)) : Matches(filter[t], c) /\ status[c] = "zombie"

\* No expect, unwrap or debug_assert of these paths fails: a zombie is reaped once, the
\* tables hold what is deleted from them, and a parent is live when a child is added to
\* it or reports its exit.
AssertionsHold == panicked = {}

\* The tree of processes and the tables of pids and tids stay consistent and no assertion
\* of the code fails.
ProcessesConsistent == TypeOK /\ TreeConsistent /\ TablesConsistent /\ AssertionsHold

\* execve leaves the parent without the old process (exit_process_for_execve: "Remove
\* current process from parent process' zombie list").
ExecRemovesCurrent ==
    \A t \in Threads : pc[t] = "exec_replace" =>
        \A p \in Processes : Of(t) \notin Children(p)

\* A thread asleep in wait4 whose child has exited returns from it.
WaitReturns ==
    \A t \in Threads :
        (pc[t] = "wait" /\ \E c \in Children(Of(t)) : Matches(filter[t], c) /\ status[c] = "zombie")
            ~> (pc[t] # "wait")

\* exit_group terminates the process: once force_exit has been called every thread exits
\* and the process becomes a zombie (the test exit_group/main.c: "exit_group syscall
\* should terminate all threads in a thread group").
ForcedExitHappens ==
    \A p \in Processes : forced[p] ~> status[p] = "zombie"
=============================================================================
