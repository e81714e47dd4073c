------------------------------- MODULE MCTasks -------------------------------
(***************************************************************************)
(* For TLC: the tasks of the LibOS and what they synchronize with.  The    *)
(* exec server of `occlum exec`, vfork, process groups, robust futexes,    *)
(* the LibOS's own mutex and readers-writer lock, and the settings of      *)
(* threads and processes.  They share no state here, so comp picks the one *)
(* whose steps a behaviour takes; the others stay in one of their initial  *)
(* states.                                                                 *)
(***************************************************************************)
EXTENDS Integers, Sequences, FiniteSets, TLC, Sync

VARIABLES comp,
    main, starts, sock_file, status, enclave, init, init_done, interrupt, counter, stop_timer, firing,
    commands, procs, order, client,
    live, pstatus, tstatus, vpc, script, snapshot, running, event, vcontext, saved, next_id,
    used_ids, exit_children, execed, forcedExit, waited,
    groups, gtable, gprocesses, pgrp, gpc, gscript, local, gpanic, unsettled,
    rlist, fword, rpc, entry, count, faddr, old_val, lpc, lseen, sleeping,
    sstate, sproc, maker, agent, hostCpus, nice, rlimits, setKind, setCalls, wantedCpus, wantedNice,
    profiler, insys, cputime, spanic, tally

\* What the two clients of the exec server ask of it.
Exec(kind) == [op |-> "exec", kind |-> kind, ok |-> TRUE, connect |-> TRUE, interrupted |-> FALSE]
ExecBad == [Exec("ends") EXCEPT !.ok = FALSE]
ExecInterrupted == [Exec("daemon") EXCEPT !.interrupted = TRUE]
StartServer == [op |-> "start"]
StopServer == [op |-> "stop"]
StopAfter(c) == [op |-> "stop", after |-> c]
Two(a, b) == ("a" :> a) @@ ("b" :> b)
FirstExec == Two(<<StartServer, Exec("forks"), ExecBad>>, <<Exec("ends"), ExecInterrupted>>)
ExecScripts == {
    FirstExec,
    Two(<<StartServer, Exec("daemon")>>, <<StopAfter("a")>>),
    Two(<<StartServer, Exec("forks")>>, <<StopAfter("a"), StartServer>>),
    Two(<<StartServer, Exec("ends"), StopServer>>, <<>>),
    Two(<<StartServer>>, <<StopServer>>),
    Two(<<StartServer, StopServer>>, <<Exec("daemon")>>)}

\* Threads of one process that vfork, and what the child on the same thread does next.
Vforks == [op |-> "vfork"]
ExitGroup(s) == [op |-> "exit_group", status |-> s]
Execve(ok) == [op |-> "execve", ok |-> ok]
Wait(pid) == [op |-> "wait4", pid |-> pid]
Clones(t) == [op |-> "clone", thread |-> t]
Exits == [op |-> "exit"]
VforkScript(threads, a, b, c) == [threads |-> threads, script |-> <<a, b, c>>]
FirstVfork == VforkScript({1, 2, 3}, <<Vforks, ExitGroup(1)>>, <<Vforks, Execve(TRUE)>>, <<>>)
VforkScripts == {
    FirstVfork,
    VforkScript({1, 2}, <<Vforks, Execve(FALSE), ExitGroup(2), Wait(0), Vforks, ExitGroup(1), Wait(4)>>,
                <<Vforks, Execve(TRUE), Wait(0), Exits>>, <<>>),
    VforkScript({1}, <<Clones(3), Vforks, ExitGroup(1), Wait(4)>>, <<>>, <<Wait(0)>>),
    VforkScript({1, 2}, <<Vforks, Execve(TRUE), Wait(4)>>, <<Vforks, ExitGroup(1), ExitGroup(0)>>, <<>>),
    VforkScript({1, 2}, <<Vforks, Exits>>, <<Vforks, ExitGroup(1)>>, <<>>)}
\* A thread is cloned while another one vforks.
CloneDuringVfork == {VforkScript({1, 2}, <<Vforks, ExitGroup(1), Wait(4)>>, <<Clones(3)>>, <<>>)}

\* Processes 1..4, of which 1 runs at first.
Spawn(c, pgid) == [op |-> "spawn", child |-> c, attr |-> pgid]
SetPgid(pid, pgid) == [op |-> "setpgid", pid |-> pid, pgid |-> pgid]
GExits == [op |-> "exit"]
FirstGroups == << <<Spawn(2, 0), Spawn(3, 2), Spawn(4, -1)>>, <<>>, <<SetPgid(0, 0), GExits>>,
                  <<SetPgid(0, 2), GExits>> >>
GroupScripts == {
    FirstGroups,
    << <<Spawn(2, -1), Spawn(3, 9)>>, <<SetPgid(0, 0), SetPgid(4, 1), Spawn(4, -1)>>,
       <<[op |-> "launch"], SetPgid(0, 0), GExits>>, <<SetPgid(0, 0), GExits>> >>,
    << <<Spawn(2, 0), SetPgid(0, 2), SetPgid(0, 0)>>, <<SetPgid(0, 0), GExits>>,
       <<[op |-> "launch"], SetPgid(0, 2)>>, <<>> >>,
    << <<Spawn(2, 0), Spawn(3, 2), SetPgid(0, 0)>>, <<GExits>>, <<SetPgid(0, 0)>>,
       <<[op |-> "launch"], SetPgid(0, 4)>> >>}

\* Robust lists of a dying thread: in order, in a circle, broken, with a pending lock.
RList(next, pending, held, locks) == [next |-> next, pending |-> pending, held |-> held, locks |-> locks]
Entries(a, b) == ("a" :> a) @@ ("b" :> b)
Links(head, a, b) == ("head" :> head) @@ Entries(a, b)
Locks(x, y, z) == ("x" :> x) @@ ("y" :> y) @@ ("z" :> z)
Both == Entries("dying", "dying")
FirstRobust == RList(Links("a", "b", "head"), "null", Both, Locks("a", "a", "b"))
RobustLists == {
    FirstRobust,
    RList(Links("a", "a", "bad"), "b", Both, Locks("a", "b", "null")),
    RList(Links("b", "bad", "a"), "a", Both, Locks("b", "a", "null")),
    RList(Links("a", "b", "head"), "b", Entries("dying", "x"), Locks("null", "b", "a"))}

\* The programs of the two locks, for the configuration.
FirstRW == << <<"write">>, <<"read">>, <<"write">> >>
MCRWPrograms == {FirstRW, << <<"read">>, <<"try_read">>, <<"write">> >>,
                 << <<"read", "try_write">>, <<"read">>, <<"read">> >>}
MCMPrograms == {<< <<"lock">>, <<"lock">>, <<"lock", "try_lock">> >>}

RLimit(cur, max) == [cur |-> cur, max |-> max]
MCDefaultLimits ==
    "DATA" :> RLimit(2, 15) @@ "STACK" :> RLimit(1, 15) @@ "AS" :> RLimit(5, 15) @@ "NOFILE" :> RLimit(4, 15)

Ex == INSTANCE ExecServer
    WITH Clients <- {"a", "b"}, Scripts <- ExecScripts, MaxStarts <- 2, MaxCommands <- 4,
         Faults <- {"create", "init", "interrupt", "run_init"}
Re == INSTANCE ProcessRelations
    WITH VfThreads <- 1..3, VfScripts <- VforkScripts \cup CloneDuringVfork, MaxId <- 8,
         GPids <- 1..4, GScripts <- GroupScripts,
         Lockers <- {"x", "y", "z"}, RobustLists <- RobustLists, Limit <- 3
Se == INSTANCE Settings
    WITH STids <- 1..3, AvailCpuset <- {0, 1}, CpuSets <- {{}, {0}, {0, 1}, {1, 2}}, Nices <- {-200},
         LimitValues <- {RLimit(4, 15), RLimit(15, 15), RLimit(4, 3)}, DefaultLimits <- MCDefaultLimits,
         U64Max <- 15, AppHost <- 9, NoHost <- 0, MaxSettings <- 2,
         SyscallNums <- {"Write", "Execve", "ExitGroup", "Exit", "HandleException"}, MaxSyscalls <- 4

exVars == <<main, starts, sock_file, status, enclave, init, init_done, interrupt, counter, stop_timer,
            firing, commands, procs, order, client>>
vfVars == <<live, pstatus, tstatus, vpc, script, snapshot, running, event, vcontext, saved, next_id,
            used_ids, exit_children, execed, forcedExit, waited>>
gVars == <<groups, gtable, gprocesses, pgrp, gpc, gscript, local, gpanic, unsettled>>
rlVars == <<rlist, fword, rpc, entry, count, faddr, old_val, lpc, lseen, sleeping>>
settingVars == <<sstate, sproc, maker, agent, hostCpus, nice, rlimits, setKind, setCalls, wantedCpus,
                 wantedNice, profiler, insys, cputime, spanic, tally>>
vars == <<comp, exVars, vfVars, gVars, rlVars, rwVars, mutexVars, settingVars>>

AllInit ==
    /\ Ex!ExInit /\ (comp # "exec" => \A c \in {"a", "b"} : client[c].script = FirstExec[c])
    /\ Re!VfInit /\ (comp # "vfork" => script = FirstVfork.script)
    /\ Re!GInit /\ (comp # "groups" => gscript = FirstGroups)
    /\ Re!RLInit /\ (comp # "robust" => rlist = FirstRobust)
    /\ RWInit /\ (comp # "rwlock" => rwcalls = FirstRW)
    /\ MutexInit
    /\ Se!SettingsInit /\ (comp # "settings" => setKind = "nice")

Init ==
    /\ comp \in {"exec", "vfork", "groups", "robust", "rwlock", "mutex", "settings"} /\ AllInit
    /\ \E s \in VforkScripts : script = s.script

Next ==
    \/ comp = "exec" /\ Ex!ExNext
       /\ UNCHANGED <<comp, vfVars, gVars, rlVars, rwVars, mutexVars, settingVars>>
    \/ comp = "vfork" /\ Re!VfNext
       /\ UNCHANGED <<comp, exVars, gVars, rlVars, rwVars, mutexVars, settingVars>>
    \/ comp = "groups" /\ Re!GNext
       /\ UNCHANGED <<comp, exVars, vfVars, rlVars, rwVars, mutexVars, settingVars>>
    \/ comp = "robust" /\ Re!RLNext
       /\ UNCHANGED <<comp, exVars, vfVars, gVars, rwVars, mutexVars, settingVars>>
    \/ comp = "rwlock" /\ RWNext
       /\ UNCHANGED <<comp, exVars, vfVars, gVars, rlVars, mutexVars, settingVars>>
    \/ comp = "mutex" /\ MutexNext
       /\ UNCHANGED <<comp, exVars, vfVars, gVars, rlVars, rwVars, settingVars>>
    \/ comp = "settings" /\ Se!SettingsNext
       /\ UNCHANGED <<comp, exVars, vfVars, gVars, rlVars, rwVars, mutexVars>>

\* The fairness of ExecServer and of vfork, for the behaviours that take their steps.
Fairness ==
    /\ WF_exVars(comp = "exec" /\ Ex!MainStep) /\ WF_exVars(comp = "exec" /\ Ex!InterruptThread)
    /\ WF_exVars(comp = "exec" /\ Ex!TimerFires) /\ WF_exVars(comp = "exec" /\ Ex!SetStopped)
    /\ \A p \in 1..4 : WF_exVars(comp = "exec" /\ p \in Ex!Pids /\ Ex!ProcStep(p))
    /\ \A c \in {"a", "b"} : WF_exVars(comp = "exec" /\ Ex!ClientStep(c))
    /\ \A t \in 1..3 : WF_vfVars(comp = "vfork" /\ Re!VfStep(t))

Spec == Init /\ [][Next]_vars /\ Fairness

\* vfork while another thread clones.
CloneSpec == comp = "vfork" /\ AllInit /\ (\E s \in CloneDuringVfork : script = s.script) /\ [][Next]_vars

\* The next process on a host thread that a process has left its affinity to.
ReuseNext ==
    /\ comp = "settings" /\ Se!ReuseNext
    /\ UNCHANGED <<comp, exVars, vfVars, gVars, rlVars, rwVars, mutexVars>>
ReuseSpec == comp = "settings" /\ AllInit /\ [][ReuseNext]_vars

(***************************************************************************)
(* Properties                                                              *)
(***************************************************************************)
\* The exec server's counts and results are exact: see ExecServer.tla.
ExecExact == Ex!ExecExact

\* A vfork child runs alone and is waited for once, the table of process groups agrees with the
\* groups and their members but for groups entered while they empty, and a robust futex of a
\* thread that died is marked and its waiters woken: see ProcessRelations.tla.
VforkGroupsRobustExact == Re!VforkExact /\ Re!GroupsExact /\ Re!RobustExact

\* What was set is what holds: a thread's host thread runs where the last sched_setaffinity of
\* it said, a process's resource limits leave room for its memory, getpriority tells what
\* setpriority set, and a profiler follows the system calls of its thread: see Settings.tla.
SettingsExact ==
    comp = "settings" => Se!AffinityApplied /\ Se!LimitsLeaveRoom /\ Se!PriorityTold /\ Se!ProfilerFollows

\* sched_getaffinity's part, which cloned threads break.
AffinityTold == Se!AffinityTold

\* Commands that end are reported, a stop that is not overruled or outlived by a daemon stops
\* the server, and threads stopped by vfork go on, unless the child has ended its parent's
\* thread: see ExecServer.tla and ProcessRelations.tla.
TasksProgress == (comp = "exec" => Ex!ExecLive) /\ (comp = "vfork" => Re!VforkLive)
=============================================================================
