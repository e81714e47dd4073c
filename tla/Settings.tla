------------------------------- MODULE Settings -------------------------------
(***************************************************************************)
(* What a thread takes over from the thread that creates it, and the calls *)
(* that change it: the CPU affinity kept by its SchedAgent (sched/), the   *)
(* nice value and the resource limits of its process, and, in a build with *)
(* syscall_timing, the profiler that follows its system calls.             *)
(*                                                                         *)
(* A SchedAgent is detached until its thread runs on a host thread, and    *)
(* records what is set meanwhile; attaching applies it if it is dirty.     *)
(* The host thread is made by an OCALL of the creator, so the host lets it *)
(* begin with the affinity of the creator's host thread.  The main thread  *)
(* of a process that the host program starts runs on a thread of that      *)
(* program, which is free for the next process once it returns.            *)
(***************************************************************************)
EXTENDS Integers, FiniteSets, FiniteSetsExt

CONSTANTS
    STids,          \* threads that may be created; a process has the tid of its first thread
    AvailCpuset,    \* AVAIL_CPUSET
    CpuSets,        \* the sets given to sched_setaffinity
    Nices,          \* the values given to setpriority
    LimitValues,    \* the limits given to prlimit: [cur, max]
    DefaultLimits,  \* resource -> the limit Occlum.json gives
    U64Max,         \* u64::MAX
    AppHost,        \* the host program's thread
    NoHost,         \* detached
    MaxSettings,    \* bound on the calls that change a setting
    SyscallNums,    \* system calls of profiled threads
    MaxSyscalls     \* bound on these calls

VARIABLES
    sstate,         \* tid -> "none", "built", "launched", "running" or "exited"
    sproc,          \* tid -> its process
    maker,          \* tid -> the thread that creates it, or 0, the idle thread
    agent,          \* tid -> its SchedAgent: affinity, dirty, host
    hostCpus,       \* host thread -> the CPUs the host lets it run on
    nice,           \* process -> nice value, one cell for all its threads
    rlimits,        \* process -> its limits, one cell for all its threads
    setKind,        \* the setting the calls of this behaviour are about: they share no state
    setCalls,       \* how many settings have been changed
    wantedCpus,     \* history: tid -> the affinity asked for it or its creator, {} if none was
    wantedNice,     \* history: process -> the nice value last asked for
    profiler,       \* tid -> its ThreadProfiler
    insys,          \* tid -> the system call it is in, "user", or "end" after the dispatch
    cputime,        \* tid -> the CPU clock of its host thread
    spanic,         \* threads in which the profiler's error was unexpected
    tally           \* history: tid -> when it entered a call; how many traced calls returned, their time

profVars == <<profiler, insys, cputime, spanic, tally>>
settingsVars ==
    <<sstate, sproc, maker, agent, hostCpus, nice, rlimits, setKind, setCalls, wantedCpus, wantedNice,
      profVars>>

InTable(t) == sstate[t] \in {"built", "launched", "running"}
Running(t) == sstate[t] = "running"
\* The next tid that was never used.
Fresh(u) == \A v \in STids : (sstate[v] = "none") = (v >= u)
ThreadsOf(p) == {t \in STids : InTable(t) /\ sproc[t] = p}
\* The build has syscall_timing.  A profiler is its thread's own, so one thread is enough.
Timed == setKind = "profile"

-----------------------------------------------------------------------------
\* SchedAgent
NewAgent == [affinity |-> AvailCpuset, dirty |-> FALSE, host |-> NoHost]
CloneClean(a) == [affinity |-> a.affinity, dirty |-> FALSE, host |-> NoHost]
clone(a) == [affinity |-> a.affinity, dirty |-> a.affinity # AvailCpuset, host |-> NoHost]
attach(a, h) == [affinity |-> a.affinity, dirty |-> FALSE, host |-> h]
detach(a) == [affinity |-> a.affinity, dirty |-> FALSE, host |-> NoHost]
IsAttached(a) == a.host # NoHost
WithAffinity(a, cpus) == [a EXCEPT !.affinity = cpus, !.dirty = ~IsAttached(a)]

-----------------------------------------------------------------------------
\* ThreadProfiler.  Times are CPU times.
Traced(n) == n \notin {"HandleException", "Exit", "ExitGroup"}
NewEntry == [calls |-> 0, total_time |-> 0, peak |-> 0, bottom |-> U64Max, errors |-> 0]
Updated(e, time, is_err) ==
    [calls |-> e.calls + 1, total_time |-> e.total_time + time, peak |-> Max({e.peak, time}),
     bottom |-> Min({e.bottom, time}), errors |-> e.errors + (IF is_err THEN 1 ELSE 0)]
NewProfiler == [status |-> "Stopped", num |-> "none", start_cpu |-> 0, start_time |-> 0,
                syscall_data |-> <<>>, usr |-> 0, sys |-> 0]

StartProfiler(p, now) == [p EXCEPT !.status = "Running", !.start_time = now]

SyscallTotal(p) == MapThenSumSet(LAMBDA n : p.syscall_data[n].total_time, DOMAIN p.syscall_data)
\* The subtraction of Durations panics below zero.
StopProfiler(p, now) ==
    [p EXCEPT !.status = "Stopped", !.sys = SyscallTotal(p), !.usr = now - p.start_time - SyscallTotal(p)]

EnterRefused(p) == p.status # "Running"
syscall_enter(p, n, now) ==
    [p EXCEPT !.status = "InSyscall", !.num = n, !.start_cpu = now,
              !.syscall_data = [m \in DOMAIN @ \cup {n} |-> IF m \in DOMAIN @ THEN @[m] ELSE NewEntry]]

ExitRefused(p, n) == p.status # "InSyscall" \/ p.num # n
syscall_exit(p, n, now, is_err) ==
    [p EXCEPT !.status = "Running", !.syscall_data[n] = Updated(@, now - p.start_cpu, is_err)]

-----------------------------------------------------------------------------

\* do_clone: the thread shares its process's nice value and limits, and gets a new SchedAgent.
do_clone(t, u) ==
    /\ Running(t) /\ Fresh(u) /\ ~Timed
    /\ sstate' = [sstate EXCEPT ![u] = "built"]
    /\ sproc' = [sproc EXCEPT ![u] = sproc[t]]
    /\ maker' = [maker EXCEPT ![u] = t]
    /\ agent' = [agent EXCEPT ![u] = NewAgent]
    /\ UNCHANGED <<hostCpus, nice, rlimits, setKind, setCalls, wantedCpus, wantedNice, profVars>>

\* The memory a new process asks for with these limits (init_vm::do_init): u64 arithmetic.
MmapSize(l) == l["AS"].cur - l["DATA"].cur - l["STACK"].cur

\* do_spawn: the new process gets copies.
do_spawn(t, u) ==
    /\ Running(t) /\ Fresh(u) /\ ~Timed
    /\ sstate' = [sstate EXCEPT ![u] = "built"]
    /\ sproc' = [sproc EXCEPT ![u] = u]
    /\ maker' = [maker EXCEPT ![u] = t]
    /\ agent' = [agent EXCEPT ![u] = clone(agent[t])]
    /\ nice' = [nice EXCEPT ![u] = nice[sproc[t]]]
    /\ rlimits' = [rlimits EXCEPT ![u] = rlimits[sproc[t]]]
    /\ wantedCpus' = [wantedCpus EXCEPT ![u] = IF agent[t].affinity # AvailCpuset THEN agent[t].affinity ELSE {}]
    /\ wantedNice' = [wantedNice EXCEPT ![u] = wantedNice[sproc[t]]]
    /\ UNCHANGED <<hostCpus, setKind, setCalls, profVars>>

\* do_spawn_without_exec, for the host program: what is cloned is the idle thread.
spawn_without_exec(u) ==
    /\ Fresh(u)
    /\ \A t \in STids : maker[t] = 0 => sstate[t] \in {"none", "exited"}
    /\ sstate' = [sstate EXCEPT ![u] = "launched"]
    /\ sproc' = [sproc EXCEPT ![u] = u]
    /\ agent' = [agent EXCEPT ![u] = clone(NewAgent)]
    /\ nice' = [nice EXCEPT ![u] = 0]
    /\ rlimits' = [rlimits EXCEPT ![u] = DefaultLimits]
    /\ wantedNice' = [wantedNice EXCEPT ![u] = 0]
    /\ UNCHANGED <<maker, hostCpus, setKind, setCalls, wantedCpus, profVars>>

\* enqueue_and_exec: the host thread is made by the creator's.
enqueue_and_exec(u) ==
    /\ sstate[u] = "built"
    /\ sstate' = [sstate EXCEPT ![u] = "launched"]
    /\ hostCpus' = [hostCpus EXCEPT ![u] = hostCpus[agent[maker[u]].host]]
    /\ UNCHANGED <<sproc, maker, agent, nice, rlimits, setKind, setCalls, wantedCpus, wantedNice, profVars>>

\* Thread::start, on its host thread.
start(u) ==
    /\ sstate[u] = "launched"
    /\ sstate' = [sstate EXCEPT ![u] = "running"]
    /\ LET h == IF maker[u] = 0 THEN AppHost ELSE u
       IN /\ agent' = [agent EXCEPT ![u] = attach(@, h)]
          /\ hostCpus' = IF agent[u].dirty THEN [hostCpus EXCEPT ![h] = agent[u].affinity] ELSE hostCpus
    /\ profiler' = IF Timed THEN [profiler EXCEPT ![u] = StartProfiler(@, cputime[u])] ELSE profiler
    /\ UNCHANGED <<sproc, maker, nice, rlimits, setKind, setCalls, wantedCpus, wantedNice,
                   insys, cputime, spanic, tally>>

\* Thread::exit.  A thread does not exit while it creates another, and only inside a system
\* call: in exit and execve, and at the end of any call that finds it forced to.
exit(u) ==
    /\ Running(u) /\ \A v \in STids : maker[v] = u => sstate[v] # "built"
    /\ Timed => u \notin spanic /\ insys[u] \in {"Exit", "ExitGroup", "Execve", "end"}
    /\ profiler' = IF Timed THEN [profiler EXCEPT ![u] = StopProfiler(@, cputime[u])] ELSE profiler
    /\ sstate' = [sstate EXCEPT ![u] = "exited"]
    /\ agent' = [agent EXCEPT ![u] = detach(@)]
    /\ UNCHANGED <<sproc, maker, hostCpus, nice, rlimits, setKind, setCalls, wantedCpus, wantedNice,
                   insys, cputime, spanic, tally>>

-----------------------------------------------------------------------------
Counted(kind) ==
    /\ setKind = kind /\ UNCHANGED setKind
    /\ setCalls < MaxSettings /\ setCalls' = setCalls + 1

\* sched_setaffinity on any thread in the table; refused sets change nothing.
do_sched_setaffinity(u, cpus) ==
    /\ Counted("affinity")
    /\ cpus # {} /\ cpus \subseteq AvailCpuset
    /\ agent' = [agent EXCEPT ![u] = WithAffinity(@, cpus)]
    /\ hostCpus' = IF IsAttached(agent[u]) THEN [hostCpus EXCEPT ![agent[u].host] = cpus] ELSE hostCpus
    /\ wantedCpus' = [wantedCpus EXCEPT ![u] = cpus]
    /\ UNCHANGED <<sstate, sproc, maker, nice, rlimits, wantedNice, profVars>>

\* setpriority clamps twice: to an i8, then to the range of nice values.
Clamp(n, lo, hi) == IF n < lo THEN lo ELSE IF n > hi THEN hi ELSE n
NiceValue(raw) == Clamp(Clamp(raw, -128, 127), -20, 19)

\* A process without threads has no cell to write.
do_set_priority(ps, raw) ==
    /\ Counted("nice")
    /\ LET written == {p \in ps : ThreadsOf(p) # {}}
       IN /\ nice' = [p \in DOMAIN nice |-> IF p \in written THEN NiceValue(raw) ELSE nice[p]]
          /\ wantedNice' = [p \in DOMAIN nice |-> IF p \in written THEN raw ELSE wantedNice[p]]
    /\ UNCHANGED <<sstate, sproc, maker, agent, hostCpus, rlimits, wantedCpus, profVars>>

\* getpriority: the highest priority of the processes, or ESRCH if one has lost its main thread.
do_get_priority(ps) ==
    IF \A p \in ps : InTable(p) THEN 20 - Min({nice[p] : p \in ps} \cup {19}) ELSE -1

\* prlimit checks the soft limits as they will be.
do_prlimit(p, resource, new) ==
    /\ Counted("limits")
    /\ new.cur <= new.max
    /\ LET soft == [r \in {"DATA", "STACK", "AS"} |-> IF r = resource THEN new.cur ELSE rlimits[p][r].cur]
       IN /\ soft["DATA"] + soft["STACK"] <= U64Max
          /\ soft["AS"] > soft["DATA"] + soft["STACK"]
    /\ rlimits' = [rlimits EXCEPT ![p][resource] = new]
    /\ UNCHANGED <<sstate, sproc, maker, agent, hostCpus, nice, wantedCpus, wantedNice, profVars>>

\* The CPU clock goes on, or not, before the next step of a thread.
TimePasses(t) == \E d \in {0, 1} : cputime' = [cputime EXCEPT ![t] = @ + d]
Expect(t, refused, p) ==
    /\ spanic' = IF refused THEN spanic \cup {t} ELSE spanic
    /\ profiler' = IF refused THEN profiler ELSE [profiler EXCEPT ![t] = p]

\* do_syscall, up to dispatch_syscall.
EnterSyscall(t, n) ==
    /\ Timed /\ Running(t) /\ insys[t] = "user" /\ t \notin spanic
    /\ setCalls < MaxSyscalls /\ setCalls' = setCalls + 1
    /\ insys' = [insys EXCEPT ![t] = n]
    /\ TimePasses(t)
    /\ IF Traced(n)
       THEN Expect(t, EnterRefused(profiler[t]), syscall_enter(profiler[t], n, cputime'[t]))
       ELSE UNCHANGED <<profiler, spanic>>
    /\ tally' = [tally EXCEPT ![t].entered = cputime'[t]]
    /\ UNCHANGED <<sstate, sproc, maker, agent, hostCpus, nice, rlimits, setKind, wantedCpus, wantedNice>>

\* do_syscall, after dispatch_syscall.  exit comes back with the thread exited; exit_group and
\* execve do so too, unless they came from a vfork child and returned to its parent.
LeaveSyscall(t, is_err) ==
    /\ Timed /\ insys[t] \in SyscallNums /\ t \notin spanic
    /\ insys[t] = "Exit" => sstate[t] = "exited"
    /\ sstate[t] = "exited" => ~is_err
    /\ insys' = [insys EXCEPT ![t] = "end"]
    /\ TimePasses(t)
    /\ LET n == insys[t]
       IN IF Traced(n)
          THEN /\ Expect(t, ExitRefused(profiler[t], n), syscall_exit(profiler[t], n, cputime'[t], is_err))
               /\ tally' = [tally EXCEPT ![t].calls = @ + 1, ![t].time = @ + cputime'[t] - tally[t].entered]
          ELSE UNCHANGED <<profiler, spanic, tally>>
    /\ UNCHANGED <<sstate, sproc, maker, agent, hostCpus, nice, rlimits, setKind, setCalls, wantedCpus, wantedNice>>

\* do_sysret, back to user space.
do_sysret(t) ==
    /\ insys[t] = "end" /\ Running(t) /\ t \notin spanic
    /\ insys' = [insys EXCEPT ![t] = "user"]
    /\ UNCHANGED <<sstate, sproc, maker, agent, hostCpus, nice, rlimits, setKind, setCalls, wantedCpus, wantedNice,
                   profiler, cputime, spanic, tally>>

SettingsInit ==
    /\ sstate = [t \in STids |-> "none"]
    /\ sproc = [t \in STids |-> 0]
    /\ maker = [t \in STids |-> 0]
    /\ agent = [t \in STids |-> NewAgent]
    /\ hostCpus = [h \in STids \cup {AppHost} |-> AvailCpuset]
    /\ nice = [p \in STids |-> 0]
    /\ rlimits = [p \in STids |-> DefaultLimits]
    /\ setKind \in {"affinity", "nice", "limits", "profile"} /\ setCalls = 0
    /\ wantedCpus = [t \in STids |-> {}]
    /\ wantedNice = [p \in STids |-> 0]
    /\ profiler = [t \in STids |-> NewProfiler]
    /\ insys = [t \in STids |-> "user"]
    /\ cputime = [t \in STids |-> 1]
    /\ spanic = {}
    /\ tally = [t \in STids |-> [entered |-> 0, calls |-> 0, time |-> 0]]

ThreadStep ==
    \/ \E t, u \in STids : do_clone(t, u) \/ do_spawn(t, u)
    \/ \E u \in STids : enqueue_and_exec(u) \/ start(u) \/ exit(u)
    \/ \E t \in STids, n \in SyscallNums : EnterSyscall(t, n)
    \/ \E t \in STids, is_err \in BOOLEAN : LeaveSyscall(t, is_err)
    \/ \E t \in STids : do_sysret(t)

SettingCall ==
    /\ \E t \in STids : Running(t)
    /\ \/ \E u \in STids, cpus \in CpuSets : InTable(u) /\ do_sched_setaffinity(u, cpus)
       \/ \E ps \in SUBSET {sproc[t] : t \in {u \in STids : sstate[u] # "none"}}, raw \in Nices :
             ps # {} /\ do_set_priority(ps, raw)
       \/ \E t \in STids, r \in {"DATA", "STACK", "AS", "NOFILE"}, new \in LimitValues :
             InTable(t) /\ do_prlimit(sproc[t], r, new)

\* The host program starts one process, or another when the first has returned.
SettingsNext == ThreadStep \/ SettingCall \/ spawn_without_exec(1)
ReuseNext == ThreadStep \/ SettingCall \/ \E u \in STids : spawn_without_exec(u)

-----------------------------------------------------------------------------
\* An affinity that was asked for a thread, or that it took over from the thread that spawned
\* its process, is where the host runs it, whether it was set before the thread was attached or
\* after; every agent keeps a set the host accepts.
AffinityApplied ==
    \A t \in STids :
        /\ agent[t].affinity # {} /\ agent[t].affinity \subseteq AvailCpuset
        /\ wantedCpus[t] # {} /\ InTable(t) => agent[t].affinity = wantedCpus[t]
        /\ wantedCpus[t] # {} /\ Running(t) => hostCpus[agent[t].host] = wantedCpus[t]

\* The soft limits always leave room for mmap, so that the size init_vm subtracts for a new
\* process is positive; and getpriority tells what setpriority was asked for last.
LimitsLeaveRoom == \A p \in STids : MmapSize(rlimits[p]) > 0
PriorityTold ==
    \A p \in STids : sstate[p] # "none" /\ sproc[p] = p /\ InTable(p) =>
        do_get_priority({p}) = 20 - Clamp(wantedNice[p], -20, 19)

\* The profiler follows its thread: it runs while the thread does and is in a call with it, and
\* its report counts every traced call that returned, with the time spent in each, what is left
\* of the thread's CPU time being its user time.  The one exception is a thread that panicked
\* at the end of an execve, which has stopped its profiler: see ProfilerAccepts.
CallsOf(p) == MapThenSumSet(LAMBDA n : p.syscall_data[n].calls, DOMAIN p.syscall_data)
ProfilerFollows ==
    \A t \in STids :
        LET p == profiler[t]
        IN /\ Timed /\ Running(t) =>
                 IF Traced(insys[t]) /\ insys[t] \in SyscallNums THEN p.status = "InSyscall" /\ p.num = insys[t]
                                                                ELSE p.status = "Running"
           /\ t \in spanic => insys[t] = "end" /\ sstate[t] = "exited" /\ "Execve" \in DOMAIN p.syscall_data
           /\ t \notin spanic => CallsOf(p) = tally[t].calls /\ SyscallTotal(p) = tally[t].time
           /\ sstate[t] = "exited" /\ Timed => p.status = "Stopped" /\ p.usr >= 0 /\ p.sys <= tally[t].time
           /\ \A n \in DOMAIN p.syscall_data :
                 LET e == p.syscall_data[n]
                 IN e.errors <= e.calls
                    /\ (e.calls > 0 => e.bottom * e.calls <= e.total_time /\ e.total_time <= e.peak * e.calls)

\* No call of the profiler is refused, as the callers of syscall_enter and syscall_exit expect.
ProfilerAccepts == spanic = {}

\* The affinity sched_getaffinity tells of a running thread is where the host runs it.
AffinityTold == \A t \in STids : Running(t) => hostCpus[agent[t].host] = agent[t].affinity
=============================================================================
