-------------------------- MODULE ProcessRelations --------------------------
(***************************************************************************)
(* What ties processes and threads together besides parent and child: the  *)
(* thread that a vfork child borrows from its parent, the process group,   *)
(* and the robust futexes an exiting thread leaves to the others.          *)
(***************************************************************************)
EXTENDS Integers, Sequences, SequencesExt, FiniteSets, FiniteSetsExt, Functions, TLC

(***************************************************************************)
(* vfork: the child runs on the thread of its parent until it exits or     *)
(* calls execve, and until then the other threads of the parent are        *)
(* stopped (process/do_vfork.rs, thread/mod.rs, thread/id.rs, task/exec.rs *)
(* and the ends of a system call in syscall/mod.rs).                       *)
(*                                                                         *)
(* The module follows one process.  What the vfork child does to the file  *)
(* table is in module FileTable; here a table is only whose it is.         *)
(***************************************************************************)
CONSTANTS
  VfThreads,      \* the threads the process may have: 1..n
  VfScripts,      \* [threads |-> those running at first, script |-> what each thread calls]
  MaxId           \* the largest thread id: 2^32 - 1 in the code

VARIABLES
  live,           \* ProcessInner::threads
  pstatus,        \* LiveStatus of the process
  tstatus,        \* ThreadInner of each thread
  vpc, script,
  snapshot,       \* vfork_stop_all_child_thread: the threads still to look at
  running,        \* its running_thread_num
  event,          \* posted and not yet awaited events of the host thread
  vcontext,       \* VFORK_CONTEXT: the pid of the child on this thread, or 0
  saved,          \* VFORK_PARENT_FILE_TABLES has the table of this process
  next_id, used_ids,
  exit_children,  \* EXIT_CHILDREN_STATUS of this process
  execed,         \* children that have called execve: pid -> "running" or "zombie"
  forcedExit,     \* ForcedExitStatus
  waited          \* what wait4 has answered, and what the children exited with

vfVars == <<live, pstatus, tstatus, vpc, script, snapshot, running, event, vcontext, saved,
            next_id, used_ids, exit_children, execed, forcedExit, waited>>
stopVars == <<live, pstatus, tstatus, snapshot, running, event>>
exitVars == <<vcontext, saved, next_id, used_ids, execed, waited>>
childVars == <<vcontext, saved, next_id, used_ids, exit_children, execed, waited>>

VfInit ==
  \E s \in VfScripts :
    /\ live = s.threads
    /\ script = s.script
    /\ pstatus = "Running"
    /\ tstatus = [t \in VfThreads |-> IF t \in s.threads THEN "Running" ELSE "Init"]
    /\ vpc = [t \in VfThreads |-> IF t \in s.threads THEN "user" ELSE "none"]
    /\ snapshot = {} /\ running = 0
    /\ event = [t \in VfThreads |-> 0]
    /\ vcontext = [t \in VfThreads |-> 0]
    /\ saved = FALSE
    /\ next_id = Max(VfThreads) /\ used_ids = VfThreads
    /\ exit_children = <<>> /\ execed = <<>> /\ forcedExit = FALSE
    /\ waited = [asked |-> <<>>, due |-> {}]

VGoto(t, l) == vpc' = [vpc EXCEPT ![t] = l]

is_vforked_child_process(t) == vcontext[t] # 0
is_stopped(t) == tstatus[t] = "Stopped"
is_forced_to_stop(t) == tstatus[t] = "ToStop"

(***************************************************************************)
(* The end of a system call: handle_force_stop, then handle_force_exit.    *)
(* Between two calls the thread runs in user mode; the interrupt that      *)
(* broadcast_interrupts sends to a thread brings it here as well.          *)
(***************************************************************************)
EndOfSyscall(t) ==
  /\ vpc[t] = "ret"
  /\ VGoto(t, IF is_forced_to_stop(t) THEN "stopping" ELSE "force_exit")
  /\ UNCHANGED <<stopVars, childVars, script, forcedExit>>

\* handle_force_stop and, from do_vfork, the same function before it looks again.
Stop(t) ==
  /\ vpc[t] \in {"stopping", "vf_stopping"}
  /\ tstatus' = [tstatus EXCEPT ![t] = "Stopped"]
  /\ VGoto(t, IF vpc[t] = "stopping" THEN "stopped" ELSE "vf_stopped")
  /\ UNCHANGED <<live, pstatus, snapshot, running, event, childVars, script, forcedExit>>

\* while current.is_stopped() { wait_event(..) }
LookAgain(t) ==
  /\ vpc[t] \in {"stopped", "vf_stopped"}
  /\ VGoto(t, CASE is_stopped(t) -> (IF vpc[t] = "stopped" THEN "waiting" ELSE "vf_waiting")
                [] vpc[t] = "stopped" -> "force_exit"
                [] OTHER -> "vfork")
  /\ UNCHANGED <<stopVars, childVars, script, forcedExit>>

wait_event(t) ==
  /\ vpc[t] \in {"waiting", "vf_waiting"}
  /\ event[t] > 0
  /\ event' = [event EXCEPT ![t] = @ - 1]
  /\ VGoto(t, IF vpc[t] = "waiting" THEN "stopped" ELSE "vf_stopped")
  /\ UNCHANGED <<live, pstatus, tstatus, snapshot, running, childVars, script, forcedExit>>

\* reap_zombie_child_created_with_vfork, when the last thread goes.
ChildrenLeft(t) == IF live = {t} THEN <<>> ELSE exit_children

ExitThread(t) ==
  /\ live' = live \ {t}
  /\ exit_children' = ChildrenLeft(t)
  /\ tstatus' = [tstatus EXCEPT ![t] = "Exited"]
  /\ VGoto(t, "exited")

handle_force_exit(t) ==
  /\ vpc[t] = "force_exit"
  /\ IF forcedExit THEN ExitThread(t) ELSE VGoto(t, "user") /\ UNCHANGED <<live, tstatus, exit_children>>
  /\ UNCHANGED <<pstatus, snapshot, running, event, exitVars, script, forcedExit>>

Interrupted(t) == is_forced_to_stop(t) \/ forcedExit
Interrupt(t) ==
  /\ vpc[t] = "user"
  /\ Interrupted(t)
  /\ VGoto(t, "ret")
  /\ UNCHANGED <<stopVars, childVars, script, forcedExit>>

(***************************************************************************)
(* Thread identifiers                                                      *)
(***************************************************************************)
Following(id) == IF id = MaxId THEN 1 ELSE id + 1

\* The first identifier after next_id that is not in use.
alloc_id ==
  LET From[k \in 0 .. MaxId] == IF k = 0 THEN next_id ELSE Following(From[k - 1])
      k == Min({j \in 1 .. MaxId : From[j] \notin used_ids})
  IN From[k]

\* do_vfork keeps the number and drops the ThreadId, which frees the identifier.
UsedAfterVfork == used_ids

(***************************************************************************)
(* vfork                                                                   *)
(***************************************************************************)
Call(t, op) == vpc[t] = "user" /\ script[t] # <<>> /\ Head(script[t]).op = op
Done(t) == script' = [script EXCEPT ![t] = Tail(@)]

CallVfork(t) ==
  /\ Call(t, "vfork") /\ Done(t)
  /\ VGoto(t, "vfork")
  /\ UNCHANGED <<stopVars, childVars, forcedExit>>

\* The thread that finds the process running stops it; the others stop themselves.
MayStart == pstatus # "Stopped"
BeginVfork(t) ==
  /\ vpc[t] = "vfork"
  /\ IF MayStart
     THEN /\ pstatus' = "Stopped"
          /\ VGoto(t, "vf_threads")
     ELSE /\ VGoto(t, IF is_forced_to_stop(t) THEN "vf_stopping" ELSE "vfork")
          /\ UNCHANGED pstatus
  /\ UNCHANGED <<live, tstatus, snapshot, running, event, childVars, script, forcedExit>>

\* vfork_stop_all_child_thread: each round looks at a copy of the thread list.
TakeThreads(t) ==
  /\ vpc[t] = "vf_threads"
  /\ snapshot' = live \ {t}
  /\ running' = 0
  /\ VGoto(t, "vf_stop")
  /\ UNCHANGED <<live, pstatus, tstatus, event, childVars, script, forcedExit>>

force_stop(u) == IF tstatus[u] \in {"Exited", "Stopped"} THEN tstatus
                 ELSE [tstatus EXCEPT ![u] = "ToStop"]

StopThread(t) ==
  /\ vpc[t] = "vf_stop"
  /\ snapshot # {}
  /\ LET u == Min(snapshot) IN
       /\ snapshot' = snapshot \ {u}
       /\ tstatus' = force_stop(u)
       /\ running' = IF is_stopped(u) THEN running ELSE running + 1
  /\ UNCHANGED <<live, pstatus, event, vpc, childVars, script, forcedExit>>

\* (AllAsked: a round that does not look whether the threads have stopped.)
AllAsked == TRUE
AllStopped == running = 0

\* No thread runs: the child gets its pid and continues on this thread with a
\* copy of the file table.  Otherwise the threads are interrupted and looked at again.
StoppedOrAgain(t) ==
  /\ vpc[t] = "vf_stop"
  /\ snapshot = {}
  /\ IF AllStopped
     THEN /\ next_id' = alloc_id
          /\ used_ids' = UsedAfterVfork
          /\ vcontext' = [vcontext EXCEPT ![t] = alloc_id]
          /\ saved' = TRUE
          /\ VGoto(t, "ret")
     ELSE VGoto(t, "vf_threads") /\ UNCHANGED <<next_id, used_ids, vcontext, saved>>
  /\ UNCHANGED <<stopVars, exit_children, execed, waited, script, forcedExit>>

(***************************************************************************)
(* The vfork child ends: it calls exit_group, or execve with success       *)
(***************************************************************************)
restore_parent_process(t) ==
  /\ saved' = FALSE
  /\ vcontext' = [vcontext EXCEPT ![t] = 0]

record_exit_child(id, code) == Append(exit_children, [pid |-> id, status |-> code])

ChildExitGroup(t) ==
  /\ Call(t, "exit_group") /\ Done(t)
  /\ is_vforked_child_process(t)
  /\ restore_parent_process(t)
  /\ LET code == Head(script[t]).status IN
       /\ exit_children' = record_exit_child(vcontext[t], code)
       /\ waited' = [waited EXCEPT !.due = @ \cup {[pid |-> vcontext[t], status |-> code]}]
  /\ VGoto(t, "vf_return")
  /\ UNCHANGED <<stopVars, next_id, used_ids, execed, forcedExit>>

\* check_vfork_for_exec: the new process takes the pid that vfork has promised.
ChildExec(t) ==
  /\ Call(t, "execve") /\ Done(t)
  /\ is_vforked_child_process(t)
  /\ IF Head(script[t]).ok
     THEN /\ restore_parent_process(t)
          /\ execed' = (vcontext[t] :> "running") @@ execed
          /\ VGoto(t, "vf_return")
     ELSE VGoto(t, "ret") /\ UNCHANGED <<saved, vcontext, execed>>
  /\ UNCHANGED <<stopVars, next_id, used_ids, exit_children, waited, forcedExit>>

Resumed == [u \in VfThreads |-> IF u \in live THEN "Running" ELSE tstatus[u]]
\* (set_no_event: the threads are marked and not woken.)
set_no_event(t) == event
set_event(t) == [u \in VfThreads |-> IF u \in live \ {t} THEN event[u] + 1 ELSE event[u]]

\* vfork_return_to_parent, with the lock of the process held to the end.
ReturnToParent(t) ==
  /\ vpc[t] = "vf_return"
  /\ tstatus' = Resumed
  /\ event' = set_event(t)
  /\ pstatus' = "Running"
  /\ VGoto(t, "ret")
  /\ UNCHANGED <<live, snapshot, running, childVars, script, forcedExit>>

\* The child that has called execve runs on a thread of its own and exits.
ExecedExits(id) ==
  /\ execed[id] = "running"
  /\ execed' = [execed EXCEPT ![id] = "zombie"]
  /\ waited' = [waited EXCEPT !.due = @ \cup {[pid |-> id, status |-> 0]}]
  /\ UNCHANGED <<stopVars, vpc, script, vcontext, saved, next_id, used_ids, exit_children, forcedExit>>

(***************************************************************************)
(* wait4 with WNOHANG, clone, exit and exit_group of the process itself    *)
(***************************************************************************)
Matching(want) == SelectInSeq(exit_children, LAMBDA c : want \in {0, c.pid})
Children(want) == {id \in DOMAIN execed : want \in {0, id}}
Zombies(want) == {id \in Children(want) : execed[id] = "zombie"}

wait4_exit_child_created_with_vfork(want) ==
  /\ exit_children' = RemoveAt(exit_children, Matching(want))
  /\ waited' = [waited EXCEPT !.asked = Append(@, exit_children[Matching(want)])]
  /\ UNCHANGED execed

Wait4(t) ==
  /\ Call(t, "wait4") /\ Done(t)
  /\ LET want == Head(script[t]).pid IN
       IF Zombies(want) # {}
       THEN /\ LET id == Min(Zombies(want)) IN
                 /\ execed' = Restrict(execed, DOMAIN execed \ {id})
                 /\ waited' = [waited EXCEPT !.asked = Append(@, [pid |-> id, status |-> 0])]
            /\ UNCHANGED exit_children
       ELSE IF Matching(want) # 0
       THEN wait4_exit_child_created_with_vfork(want)
       ELSE UNCHANGED <<exit_children, execed, waited>>
  /\ VGoto(t, "ret")
  /\ UNCHANGED <<stopVars, vcontext, saved, next_id, used_ids, forcedExit>>

Clone(t) ==
  /\ Call(t, "clone") /\ Done(t)
  /\ live' = live \cup {Head(script[t]).thread}
  /\ vpc' = [vpc EXCEPT ![t] = "ret", ![Head(script[t]).thread] = "enqueued"]
  /\ UNCHANGED <<pstatus, tstatus, snapshot, running, event, childVars, forcedExit>>

\* task::exec on the new host thread: Thread::start looks first and starts then.
Started(t) ==
  /\ vpc[t] = "enqueued"
  /\ VGoto(t, IF tstatus[t] \in {"ToStop", "Stopped"} THEN "user" ELSE "start")
  /\ UNCHANGED <<stopVars, childVars, script, forcedExit>>

Start(t) ==
  /\ vpc[t] = "start"
  /\ tstatus' = [tstatus EXCEPT ![t] = "Running"]
  /\ VGoto(t, "user")
  /\ UNCHANGED <<live, pstatus, snapshot, running, event, childVars, script, forcedExit>>

\* do_exit does not ask whose thread it is: a vfork child that calls it takes its parent's along.
Exit(t) ==
  /\ Call(t, "exit") /\ Done(t)
  /\ ExitThread(t)
  /\ UNCHANGED <<pstatus, snapshot, running, event, exitVars, forcedExit>>

ExitGroup(t) ==
  /\ Call(t, "exit_group") /\ Done(t)
  /\ ~ is_vforked_child_process(t)
  /\ forcedExit' = TRUE
  /\ ExitThread(t)
  /\ UNCHANGED <<pstatus, snapshot, running, event, exitVars>>

VfStep(t) ==
  \/ EndOfSyscall(t) \/ Stop(t) \/ LookAgain(t) \/ wait_event(t) \/ handle_force_exit(t)
  \/ Interrupt(t) \/ CallVfork(t) \/ BeginVfork(t) \/ TakeThreads(t) \/ StopThread(t)
  \/ StoppedOrAgain(t) \/ ChildExitGroup(t) \/ ChildExec(t) \/ ReturnToParent(t)
  \/ Wait4(t) \/ Clone(t) \/ Started(t) \/ Start(t) \/ Exit(t) \/ ExitGroup(t)

VfNext ==
  \/ \E t \in VfThreads : VfStep(t)
  \/ \E id \in DOMAIN execed : ExecedExits(id)

\* A host thread that can take a step takes one in the end.
VfFairness == \A t \in VfThreads : WF_vfVars(VfStep(t))

-----------------------------------------------------------------------------
Halted == {"stopped", "vf_stopped", "waiting", "vf_waiting"}
Vforkers == {t \in VfThreads : is_vforked_child_process(t)}

\* While a vfork child runs on a thread, every other thread of the process is
\* stopped, no second vfork is under way, and the file table of the parent is
\* kept for it; without one, none is (do_vfork.rs: the other threads are frozen
\* until vfork returns or execve is called).
ChildAlone ==
  /\ Cardinality(Vforkers) <= 1
  /\ saved <=> Vforkers # {}
  /\ \A t \in Vforkers : \A u \in live \ {t} : is_stopped(u) /\ vpc[u] \in Halted

\* A vfork child that exited is answered by at most one wait4, with the status
\* it exited with, and until then it is remembered (record_exit_child,
\* wait4_exit_child_created_with_vfork).
ChildWaitedOnce ==
  /\ IsInjective(waited.asked)
  /\ ToSet(waited.asked) \subseteq waited.due
  /\ live # {} => \A c \in waited.due :
       \/ c \in ToSet(waited.asked) \/ c \in ToSet(exit_children)
       \/ c.pid \in DOMAIN execed
  /\ \A i, j \in 1 .. Len(exit_children) : exit_children[i].pid = exit_children[j].pid => i = j

VforkExact == ChildAlone /\ ChildWaitedOnce

\* Stopped threads are resumed and every thread finishes what it has to do: in the end all
\* that have not exited run in user mode with nothing left to call (vfork_return_to_parent
\* wakes the threads that vfork has stopped), unless a thread has exited as a vfork child.
AllIdle == \A t \in live : vpc[t] = "user" /\ script[t] = <<>>
VforkLive == <>[](AllIdle \/ ~ Vforkers \subseteq live)

\* Without the exception: "The calling thread is suspended until the child terminates (either
\* normally, by calling _exit(2), or abnormally" (do_vfork.rs).
VforkEnds == <>[]AllIdle

-----------------------------------------------------------------------------
(***************************************************************************)
(* Process groups: setpgid, the group a new process is put into, the group *)
(* an exiting process leaves, and the table kill(2) finds groups in        *)
(* (process/pgrp.rs, table.rs, process/idle.rs, process/builder.rs).       *)
(*                                                                         *)
(* A group is an object; the table maps a pgid to one.  Every lock is a    *)
(* step of its own: the table, the members of a group, and the group a     *)
(* process refers to are never changed together.                           *)
(***************************************************************************)
CONSTANTS
  GPids,          \* the pids processes may have
  GScripts        \* what each process calls, with those that run at first

VARIABLES
  groups,         \* objects: [pgid, members, leader], the first that of IDLE
  gtable,         \* PROCESSGRP_TABLE
  gprocesses,     \* PROCESS_TABLE: the pids of processes not yet reaped
  pgrp,           \* Process::pgrp
  gpc, gscript,
  local,          \* per process: the call in progress
  gpanic,         \* an unwrap has failed
  unsettled       \* history: the pgids of groups entered while their last member left

gVars == <<groups, gtable, gprocesses, pgrp, gpc, gscript, local, gpanic, unsettled>>

NoGroup == 0
IdleGroup == 1

GInit ==
  /\ groups = <<[pgid |-> 0, members |-> {1}, leader |-> 0]>>
  /\ gtable = (0 :> IdleGroup)
  /\ gprocesses = {1}
  /\ pgrp = [p \in GPids |-> IF p = 1 THEN IdleGroup ELSE NoGroup]
  /\ gpc = [p \in GPids |-> IF p = 1 THEN "user" ELSE "none"]
  /\ gscript \in GScripts
  /\ local = [p \in GPids |-> [joins |-> NoGroup, then |-> "user", child |-> 0, attr |-> -1]]
  /\ gpanic = FALSE /\ unsettled = {}

GGoto(p, l) == gpc' = [gpc EXCEPT ![p] = l]
Calls(p, op) == gpc[p] = "user" /\ gscript[p] # <<>> /\ Head(gscript[p]).op = op
Consume(p) == gscript' = [gscript EXCEPT ![p] = Tail(@)]

get_pgrp(pgid) == IF pgid \in DOMAIN gtable THEN gtable[pgid] ELSE NoGroup
\* Table::add and Table::del, whose errors the callers ignore.
add_pgrp(g) == IF groups[g].pgid \in DOMAIN gtable THEN gtable ELSE (groups[g].pgid :> g) @@ gtable
del_pgrp(pgid) == Restrict(gtable, DOMAIN gtable \ {pgid})

add_new_process(g, p) == [groups EXCEPT ![g].members = @ \cup {p}]
NewGroup(p) == [pgid |-> p, members |-> {p}, leader |-> p]

(***************************************************************************)
(* ProcessGrp::remove_process: the number of members is read first, the    *)
(* group is taken out of the table for it, the member is removed last.     *)
(***************************************************************************)
Number(p) == Cardinality(groups[pgrp[p]].members)
Empties(p) == Number(p) = 1

RemoveLooks(p) ==
  /\ gpc[p] = "leave"
  /\ GGoto(p, CASE Number(p) = 0 -> local[p].then
                [] Empties(p) -> "leave_table"
                [] OTHER -> "leave_group")
  /\ UNCHANGED <<groups, gtable, gprocesses, pgrp, gscript, local, gpanic>>

RemoveFromTable(p) ==
  /\ gpc[p] = "leave_table"
  /\ gtable' = del_pgrp(groups[pgrp[p]].pgid)
  /\ GGoto(p, "leave_group")
  /\ UNCHANGED <<groups, gprocesses, pgrp, gscript, local, gpanic>>

\* (MembersKept: the table is updated and the member forgotten about.)
MembersKept(p) == groups[pgrp[p]].members
MembersWithout(p) == groups[pgrp[p]].members \ {p}

RemoveMember(p) ==
  /\ gpc[p] = "leave_group"
  /\ LET g == pgrp[p]
         leads == p \in groups[g].members /\ groups[g].leader = p IN
     groups' = [groups EXCEPT ![g].members = MembersWithout(p), ![g].leader = IF leads THEN -1 ELSE @]
  /\ GGoto(p, local[p].then)
  /\ UNCHANGED <<gtable, gprocesses, pgrp, gscript, local, gpanic>>

(***************************************************************************)
(* setpgid of the calling process                                          *)
(***************************************************************************)
Target(p) == IF Head(gscript[p]).pgid = 0 THEN p ELSE Head(gscript[p]).pgid

do_setpgid(p) ==
  /\ Calls(p, "setpgid")
  /\ IF \/ Target(p) # p /\ get_pgrp(Target(p)) = NoGroup       \* EPERM
        \/ Head(gscript[p]).pid \notin {0, p}                   \* EACCES
     THEN Consume(p) /\ UNCHANGED gpc
     ELSE GGoto(p, "find") /\ UNCHANGED gscript
  /\ UNCHANGED <<groups, gtable, gprocesses, pgrp, local, gpanic>>

FindGroup(p) ==
  /\ gpc[p] = "find" /\ Consume(p)
  /\ LET g == get_pgrp(Target(p)) IN
     local' = [local EXCEPT ![p].joins = g, ![p].then = IF g = NoGroup THEN "create" ELSE "join"]
  /\ GGoto(p, "leave")
  /\ UNCHANGED <<groups, gtable, gprocesses, pgrp, gpanic>>

update_pgrp(p) ==
  /\ gpc[p] = "join"
  /\ pgrp' = [pgrp EXCEPT ![p] = local[p].joins]
  /\ GGoto(p, "add")
  /\ UNCHANGED <<groups, gtable, gprocesses, gscript, local, gpanic>>

AddMember(p) ==
  /\ gpc[p] = "add"
  /\ groups' = add_new_process(pgrp[p], p)
  /\ GGoto(p, "user")
  /\ UNCHANGED <<gtable, gprocesses, pgrp, gscript, local, gpanic>>

CreateGroup(p) ==
  /\ gpc[p] = "create"
  /\ groups' = Append(groups, NewGroup(p))
  /\ pgrp' = [pgrp EXCEPT ![p] = Len(groups')]
  /\ GGoto(p, "register")
  /\ UNCHANGED <<gtable, gprocesses, gscript, local, gpanic>>

Register(p) ==
  /\ gpc[p] = "register"
  /\ gtable' = add_pgrp(pgrp[p])
  /\ GGoto(p, "user")
  /\ UNCHANGED <<groups, gprocesses, pgrp, gscript, local, gpanic>>

(***************************************************************************)
(* A new process: the attribute is checked, the process is built in the    *)
(* group of its parent, and put into the group it is to have.              *)
(***************************************************************************)
get_spawn_attribute_pgrp(attr) == attr \in {-1, 0} \/ get_pgrp(attr) # NoGroup

Spawn(p) ==
  /\ Calls(p, "spawn") /\ Consume(p)
  /\ LET call == Head(gscript[p]) IN
     IF get_spawn_attribute_pgrp(call.attr)
     THEN /\ local' = [local EXCEPT ![p].child = call.child, ![p].attr = call.attr,
                                    ![p].joins = get_pgrp(call.attr)]
          /\ GGoto(p, "build")
     ELSE UNCHANGED <<local, gpc>>
  /\ UNCHANGED <<groups, gtable, gprocesses, pgrp, gpanic>>

update_pgrp_for_new_process(p) ==
  /\ gpc[p] = "build"
  /\ LET c == local[p].child
         attr == local[p].attr
         g == IF attr = -1 THEN pgrp[p] ELSE get_pgrp(attr)
     IN \/ /\ attr = 0
           /\ groups' = Append(groups, NewGroup(c))
           /\ pgrp' = [pgrp EXCEPT ![c] = Len(groups')]
           /\ GGoto(p, "new_register")
           /\ UNCHANGED gpanic
        \/ /\ attr # 0 /\ g # NoGroup
           /\ pgrp' = [pgrp EXCEPT ![c] = g]
           /\ GGoto(p, "new_add")
           /\ UNCHANGED <<groups, gpanic>>
        \/ /\ attr # 0 /\ g = NoGroup
           /\ gpanic' = TRUE
           /\ GGoto(p, "panicked")
           /\ UNCHANGED <<groups, pgrp>>
  /\ UNCHANGED <<gtable, gprocesses, gscript, local>>

AddNew(p) ==
  /\ gpc[p] = "new_add"
  /\ groups' = add_new_process(pgrp[local[p].child], local[p].child)
  /\ GGoto(p, "publish")
  /\ UNCHANGED <<gtable, gprocesses, pgrp, gscript, local, gpanic>>

RegisterNew(p) ==
  /\ gpc[p] = "new_register"
  /\ gtable' = add_pgrp(pgrp[local[p].child])
  /\ GGoto(p, "publish")
  /\ UNCHANGED <<groups, gprocesses, pgrp, gscript, local, gpanic>>

Publish(p) ==
  /\ gpc[p] = "publish"
  /\ gprocesses' = gprocesses \cup {local[p].child}
  /\ gpc' = [gpc EXCEPT ![p] = "user", ![local[p].child] = "user"]
  /\ UNCHANGED <<groups, gtable, pgrp, gscript, local, gpanic>>

\* do_new_process: a command of the host starts in the group of IDLE.
Launch(p) ==
  /\ gpc[p] = "none" /\ gscript[p] # <<>> /\ Head(gscript[p]).op = "launch" /\ Consume(p)
  /\ groups' = add_new_process(IdleGroup, p)
  /\ pgrp' = [pgrp EXCEPT ![p] = IdleGroup]
  /\ gprocesses' = gprocesses \cup {p}
  /\ GGoto(p, "user")
  /\ UNCHANGED <<gtable, local, gpanic>>

(***************************************************************************)
(* The process has exited and is reaped: clean_pgrp_when_exit              *)
(***************************************************************************)
Reap(p) ==
  /\ Calls(p, "exit") /\ Consume(p)
  /\ gprocesses' = gprocesses \ {p}
  /\ local' = [local EXCEPT ![p].then = "gone"]
  /\ GGoto(p, "leave")
  /\ UNCHANGED <<groups, gtable, pgrp, gpanic>>

remove_pgrp(p) ==
  /\ gpc[p] = "gone"
  /\ pgrp' = [pgrp EXCEPT ![p] = NoGroup]
  /\ GGoto(p, "reaped")
  /\ UNCHANGED <<groups, gtable, gprocesses, gscript, local, gpanic>>

GStep(p) ==
  \/ RemoveLooks(p) \/ RemoveFromTable(p) \/ RemoveMember(p)
  \/ do_setpgid(p) \/ FindGroup(p) \/ update_pgrp(p) \/ AddMember(p) \/ CreateGroup(p) \/ Register(p)
  \/ Spawn(p) \/ update_pgrp_for_new_process(p) \/ AddNew(p) \/ RegisterNew(p) \/ Publish(p) \/ Launch(p)
  \/ Reap(p) \/ remove_pgrp(p)

\* A process has looked at its group as its last member and is leaving it; meanwhile one, the
\* same or another, has found the group and is to enter it.  Group 0 is entered at any time.
LastLeaves(p, g) ==
  /\ pgrp[p] = g
  /\ gpc[p] = "leave_table" \/ (gpc[p] = "leave_group" /\ get_pgrp(groups[g].pgid) # g)
Enters(q, g) ==
  /\ local[q].joins = g
  /\ \/ gpc[q] \in {"leave", "leave_table", "leave_group"} /\ local[q].then = "join"
     \/ gpc[q] \in {"join", "add", "build", "new_add"}
Crossed(g) ==
  \E p \in GPids : LastLeaves(p, g) /\ (g = IdleGroup \/ \E q \in GPids : Enters(q, g))

GNext ==
  /\ \E p \in GPids : GStep(p)
  /\ unsettled' = unsettled \cup {groups[g].pgid : g \in {h \in DOMAIN groups : Crossed(h)'}}

-----------------------------------------------------------------------------
Settled(p) == get_pgrp(groups[pgrp[p]].pgid) = pgrp[p]

\* A process that is not changing its group is a member of the group it refers to and of no
\* other, and that group is the one its pgid stands for in the table, so that kill(-pgid)
\* reaches it, unless the group was entered while its last member left it; and only then may
\* an unwrap on the way have failed.
GroupsExact ==
  /\ \A p \in GPids : gpc[p] = "panicked" => local[p].attr \in unsettled
  /\ \A p \in gprocesses : gpc[p] = "user" =>
       /\ pgrp[p] # NoGroup
       /\ {g \in DOMAIN groups : p \in groups[g].members} = {pgrp[p]}
       /\ Settled(p) \/ groups[pgrp[p]].pgid \in unsettled

\* "pgrp must exist when updating" (update_pgrp_for_new_process).
PgrpExists == ~ gpanic

\* "if setpgid to a pgroup other than self, the pgroup must exist" (do_setpgid): a group with
\* a member is in the table, where that is looked up.
GroupsListed == \A p \in gprocesses : gpc[p] = "user" => Settled(p)

\* "Keep process groud 0 in the table" (idle.rs).
IdleGroupKept == 0 \in DOMAIN gtable

-----------------------------------------------------------------------------
(***************************************************************************)
(* Robust futexes: a thread that exits walks the list its program has      *)
(* registered, marks the futexes it still holds and wakes a waiter of each *)
(* (process/do_robust_list.rs, Thread::wake_robust_list, exit_thread).     *)
(*                                                                         *)
(* The list is memory of the program: it may end in a bad pointer or run   *)
(* in a circle.  The other threads are the lock and unlock of a robust     *)
(* mutex in the C library, which works on the same words with              *)
(* compare-and-swap while the dying thread does.                           *)
(***************************************************************************)
CONSTANTS
  Lockers,        \* threads that lock and unlock
  RobustLists,    \* lists: [next, pending, held] by entry; "head", "bad" and entries
  Limit           \* ROBUST_LIST_LIMIT

Dying == "dying"
Nobody == "nobody"
NoEntry == "null"

VARIABLES
  rlist,          \* [next, pending, held] of the dying thread, and whom each locker locks
  fword,          \* the futex of an entry: [tid, waiters, died]
  rpc,            \* of the dying thread
  entry, count,   \* FutexIter
  faddr, old_val, \* wake_robust_futex
  lpc, lseen,     \* the lockers and the word they have read
  sleeping        \* entry -> the lockers asleep on its futex

rlVars == <<rlist, fword, rpc, entry, count, faddr, old_val, lpc, lseen, sleeping>>
walkVars == <<rpc, entry, count, faddr, old_val>>
lockVars == <<lpc, lseen>>

Entries == DOMAIN rlist.held
Free == [tid |-> Nobody, waiters |-> FALSE, died |-> FALSE]

RLInit ==
  /\ rlist \in RobustLists
  /\ fword = [e \in Entries |-> [Free EXCEPT !.tid = rlist.held[e]]]
  /\ rpc = "running" /\ entry = NoEntry /\ count = 0
  /\ faddr = NoEntry /\ old_val = Free
  /\ lpc = [w \in Lockers |-> "start"]
  /\ lseen = [w \in Lockers |-> Free]
  /\ sleeping = [e \in Entries |-> <<>>]

(***************************************************************************)
(* exit_thread: the walk of the list                                       *)
(***************************************************************************)
wake_robust_list ==
  /\ rpc = "running"
  /\ entry' = rlist.next["head"]
  /\ count' = 0
  /\ rpc' = "next"
  /\ UNCHANGED <<rlist, fword, faddr, old_val, lockVars, sleeping>>

pending_futex_addr == rlist.pending

\* (IterUnbounded: a walk that only ends where the list does.)
IterUnbounded == entry = "head"
IterEnds == entry = "head" \/ count = Limit

\* FutexIter::next.  The entry under `pending' is left for the end.
FutexIterNext ==
  /\ rpc = "next"
  /\ IF IterEnds
     THEN /\ count' = -1
          /\ faddr' = pending_futex_addr
          /\ rpc' = IF pending_futex_addr = NoEntry THEN "end" ELSE "load"
          /\ UNCHANGED entry
     ELSE IF entry = "bad"
     THEN rpc' = "end" /\ UNCHANGED <<entry, count, faddr>>
     ELSE /\ entry' = rlist.next[entry]
          /\ count' = count + 1
          /\ faddr' = entry
          /\ rpc' = IF entry = rlist.pending THEN "next" ELSE "load"
  /\ UNCHANGED <<rlist, fword, old_val, lockVars, sleeping>>

\* set_end: the iterator has given its last item.
NextItem == IF count = -1 THEN "end" ELSE "next"

LoadFutex ==
  /\ rpc = "load"
  /\ old_val' = fword[faddr]
  /\ rpc' = "exchange"
  /\ UNCHANGED <<rlist, fword, entry, count, faddr, lockVars, sleeping>>

\* (DiedAlone: the bit that says that somebody waits is lost.)
DiedAlone(v) == [tid |-> Nobody, waiters |-> FALSE, died |-> TRUE]
OwnerDied(v) == [tid |-> Nobody, waiters |-> v.waiters, died |-> TRUE]

ExchangeFutex ==
  /\ rpc = "exchange"
  /\ \/ /\ old_val.tid # Dying
        /\ rpc' = NextItem
        /\ UNCHANGED <<fword, old_val>>
     \/ /\ old_val.tid = Dying /\ fword[faddr] # old_val
        /\ old_val' = fword[faddr]
        /\ UNCHANGED <<fword, rpc>>
     \/ /\ old_val.tid = Dying /\ fword[faddr] = old_val
        /\ fword' = [fword EXCEPT ![faddr] = OwnerDied(old_val)]
        /\ rpc' = "wake"
        /\ UNCHANGED old_val
  /\ UNCHANGED <<rlist, entry, count, faddr, lockVars, sleeping>>

\* futex_wake(e, 1), by the dying thread and by a locker that unlocks.
WakeOne(e) ==
  IF sleeping[e] = <<>> THEN UNCHANGED sleeping
  ELSE sleeping' = [sleeping EXCEPT ![e] = Tail(@)]

WakeFutex ==
  /\ rpc = "wake"
  /\ IF fword[faddr].waiters THEN WakeOne(faddr) ELSE UNCHANGED sleeping
  /\ rpc' = NextItem
  /\ UNCHANGED <<rlist, fword, entry, count, faddr, old_val, lockVars>>

(***************************************************************************)
(* The C library, from how a robust mutex uses its futex (external)        *)
(***************************************************************************)
Wanted(w) == rlist.locks[w]
LGoto(w, l) == lpc' = [lpc EXCEPT ![w] = l]

LockReads(w) ==
  /\ lpc[w] \in {"start", "retry"}
  /\ Wanted(w) # NoEntry
  /\ lseen' = [lseen EXCEPT ![w] = fword[Wanted(w)]]
  /\ LGoto(w, IF lpc[w] = "start" THEN "try" ELSE "try_again")
  /\ UNCHANGED <<rlist, fword, walkVars, sleeping>>

\* Take a free mutex, or say that somebody waits before sleeping; a thread that
\* has slept takes it with the bit set, for there may be others.
LockTries(w) ==
  /\ lpc[w] \in {"try", "try_again"}
  /\ LET e == Wanted(w)
         slept == lpc[w] = "try_again" IN
     IF fword[e] # lseen[w]
     THEN LGoto(w, IF slept THEN "retry" ELSE "start") /\ UNCHANGED <<fword, lseen>>
     ELSE IF lseen[w].tid = Nobody
     THEN /\ fword' = [fword EXCEPT ![e].tid = w, ![e].waiters = @ \/ slept]
          /\ LGoto(w, "held") /\ UNCHANGED lseen
     ELSE /\ fword' = [fword EXCEPT ![e].waiters = TRUE]
          /\ lseen' = [lseen EXCEPT ![w].waiters = TRUE]
          /\ LGoto(w, "sleep")
  /\ UNCHANGED <<rlist, walkVars, sleeping>>

\* futex_wait: compares and sleeps in one critical section.
LockSleeps(w) ==
  /\ lpc[w] = "sleep"
  /\ IF fword[Wanted(w)] = lseen[w]
     THEN /\ sleeping' = [sleeping EXCEPT ![Wanted(w)] = Append(@, w)]
          /\ LGoto(w, "asleep")
     ELSE LGoto(w, "retry") /\ UNCHANGED sleeping
  /\ UNCHANGED <<rlist, fword, walkVars, lseen>>

LockWoken(w) ==
  /\ lpc[w] = "asleep"
  /\ \A i \in 1 .. Len(sleeping[Wanted(w)]) : sleeping[Wanted(w)][i] # w
  /\ LGoto(w, "retry")
  /\ UNCHANGED <<rlist, fword, walkVars, lseen, sleeping>>

Unlock(w) ==
  /\ lpc[w] = "held"
  /\ fword' = [fword EXCEPT ![Wanted(w)] = Free]
  /\ IF fword[Wanted(w)].waiters THEN WakeOne(Wanted(w)) ELSE UNCHANGED sleeping
  /\ LGoto(w, "done")
  /\ UNCHANGED <<rlist, walkVars, lseen>>

LockStep(w) == LockReads(w) \/ LockTries(w) \/ LockSleeps(w) \/ LockWoken(w) \/ Unlock(w)
WalkStep == wake_robust_list \/ FutexIterNext \/ LoadFutex \/ ExchangeFutex \/ WakeFutex

RLNext == WalkStep \/ \E w \in Lockers : LockStep(w)

-----------------------------------------------------------------------------
\* The entries within the limit and before a bad pointer; the pending one comes
\* last, and not at all after a bad pointer.
Reached ==
  LET From[k \in 0 .. Limit - 1] ==
        IF k = 0 THEN rlist.next["head"]
        ELSE IF From[k - 1] \in {"head", "bad"} THEN From[k - 1] ELSE rlist.next[From[k - 1]]
      seen == {From[k] : k \in 0 .. Limit - 1}
  IN ((seen \cap Entries) \ {rlist.pending}) \cup (IF "bad" \in seen THEN {} ELSE {rlist.pending} \cap Entries)

\* When the walk has ended, within the limit whatever the list looks like, the
\* dead thread holds no futex that the list reaches, and no thread sleeps on a
\* futex without owner unless one that was woken is about to take it
\* (wake_robust_futex: exchange, then wake).
RobustExact ==
  /\ count <= Limit
  /\ rpc = "end" => \A e \in Reached : fword[e].tid # Dying
  /\ rpc = "end" => \A e \in Entries :
       sleeping[e] # <<>> /\ fword[e].tid = Nobody =>
         \E w \in Lockers : /\ Wanted(w) = e
                            /\ \A i \in 1 .. Len(sleeping[e]) : sleeping[e][i] # w
                            /\ lpc[w] \in {"asleep", "retry", "try_again"}
=============================================================================
