----------------------------- MODULE ExecServer -----------------------------
(***************************************************************************)
(* `occlum start', `occlum exec' and `occlum stop': the client and the     *)
(* server of src/exec, the platform layer they call (src/pal) and the      *)
(* entry of the LibOS (entry.rs).                                          *)
(*                                                                         *)
(* The server answers calls from its socket while its main thread creates  *)
(* the enclave, waits for the order to stop and destroys the enclave.      *)
(* Every command runs on a thread of its own, which enters the enclave;    *)
(* pal_thread_counter counts these threads, and the interrupt thread, with *)
(* which the main thread joins before it destroys the enclave, ends when   *)
(* the counter is zero.  A client that has launched a command sleeps until *)
(* the server sends it SIGUSR1.                                            *)
(***************************************************************************)
EXTENDS Integers, Sequences, FiniteSets, FiniteSetsExt, Functions, TLC

CONSTANTS
  Clients,        \* clients, each a script of occlum commands
  Scripts,        \* [Clients -> sequence of commands]
  MaxStarts,      \* times the server may be launched
  MaxCommands,    \* commands of the scripts
  Faults          \* steps of occlum_pal_init that may fail

VARIABLES
  main,           \* the main thread of the server
  starts,         \* launches so far
  sock_file,      \* the socket file exists
  status,         \* ServerStatus
  enclave,        \* global_eid is valid
  init,           \* the process of /bin/init: "none", "live" or "killed"
  init_done,      \* it has mounted the root file system and set the entry points
  interrupt,      \* the interrupt thread: "off", "on" or "ended"
  counter,        \* pal_thread_counter
  stop_timer,     \* the timer of stop_server: "none" or "waiting"
  firing,         \* its callback has sent SIGKILL and not yet stopped the server
  commands,       \* OcclumExecImpl.commands: pid -> [done, value]
  procs,          \* the server's commands as LibOS processes: [client, kind, state, exit, kids, killed],
                  \* and late: the interrupt thread had ended when the command was counted
  order,          \* history: of the last stop that fired, "none", "given" or "overruled"
  client          \* per client: [pc, script, pid, usr1, launched, results], with the
                  \* launch of the server it got its pid from and the result it is due

exVars == <<main, starts, sock_file, status, enclave, init, init_done, interrupt, counter,
            stop_timer, firing, commands, procs, order, client>>
palVars == <<enclave, init, init_done, interrupt, counter>>
serverVars == <<main, starts, sock_file, status, stop_timer, firing, order>>

Pids == DOMAIN procs
Listening == main \notin {"down", "check", "build", "exited"}
Down == main \in {"down", "exited"}
ExInit ==
  /\ main = "down" /\ starts = 0 /\ sock_file = FALSE /\ status = "Stopped"
  /\ enclave = FALSE /\ init = "none" /\ init_done = FALSE /\ interrupt = "off" /\ counter = 0
  /\ stop_timer = "none" /\ firing = FALSE /\ order = "none"
  /\ commands = <<>> /\ procs = <<>>
  /\ \E scripts \in Scripts :
       client = [c \in Clients |-> [pc |-> "ready", script |-> scripts[c], pid |-> 0, usr1 |-> FALSE,
                                    launched |-> FALSE, results |-> <<>>, server |-> 0, due |-> -1]]

(***************************************************************************)
(* The main thread of the server                                           *)
(***************************************************************************)
\* is_server_running: a socket file nobody answers at is removed.
CheckSocket ==
  /\ main = "check"
  /\ main' = "build"
  /\ sock_file' = FALSE
  /\ UNCHANGED <<starts, status, stop_timer, firing, order, palVars, commands, procs, client>>

Build ==
  /\ main = "build"
  /\ main' = "create"
  /\ sock_file' = TRUE
  /\ UNCHANGED <<starts, status, stop_timer, firing, order, palVars, commands, procs, client>>

\* occlum_pal_init, step by step: pal_init_enclave, occlum_ecall_init, the interrupt
\* thread, and /bin/init.  A failure undoes the steps before it.
MainGoes(label) ==
  /\ main' = label
  /\ UNCHANGED <<starts, sock_file, status, stop_timer, firing, order, commands, procs, client>>
Fails(step) == step \in Faults
CreateEnclave ==
  /\ main = "create"
  /\ \/ Fails("create") /\ MainGoes("init_failed") /\ UNCHANGED enclave
     \/ MainGoes("init") /\ enclave' = TRUE
  /\ UNCHANGED <<init, init_done, interrupt, counter>>

EcallInit ==
  /\ main = "init"
  /\ (Fails("init") /\ MainGoes("undo_destroy")) \/ MainGoes("interrupt")
  /\ UNCHANGED palVars

InterruptStart ==
  /\ main = "interrupt"
  /\ \/ Fails("interrupt") /\ MainGoes("undo_destroy") /\ UNCHANGED <<interrupt, counter>>
     \/ MainGoes("create_init") /\ interrupt' = "on" /\ counter' = counter + 1
  /\ UNCHANGED <<enclave, init, init_done>>

\* pal_run_init_process: /bin/init is created, then executed on this thread; it mounts the
\* root file system and sets the entry points before it exits.  A stop may kill it.
CreateInit ==
  /\ main = "create_init"
  /\ \/ Fails("run_init") /\ MainGoes("undo_interrupt") /\ UNCHANGED init
     \/ MainGoes("exec_init") /\ init' = "live"
  /\ UNCHANGED <<enclave, init_done, interrupt, counter>>
ExecInit ==
  /\ main = "exec_init"
  /\ MainGoes("in_init") /\ counter' = counter + 1
  /\ UNCHANGED <<enclave, init, init_done, interrupt>>
InitMounts ==
  /\ main = "in_init" /\ init = "live"
  /\ MainGoes("mounted") /\ init_done' = TRUE
  /\ UNCHANGED <<enclave, init, interrupt, counter>>
InitExits ==
  /\ \/ main \in {"in_init", "mounted"} /\ (init = "killed" \/ Fails("run_init")) /\ MainGoes("undo_interrupt")
     \/ main = "mounted" /\ init = "live" /\ MainGoes("serve")
  /\ init' = "none" /\ counter' = counter - 1
  /\ UNCHANGED <<enclave, init_done, interrupt>>

\* The server's own main: set_running and the wait for the condition variable.
SetRunning ==
  /\ main = "serve"
  /\ main' = "waiting"
  /\ status' = "Running"
  /\ order' = IF order = "given" THEN "overruled" ELSE order
  /\ UNCHANGED <<starts, sock_file, stop_timer, firing, palVars, commands, procs, client>>

Woken ==
  /\ main = "waiting" /\ status # "Running"
  /\ MainGoes("stop_interrupt") /\ UNCHANGED palVars

\* pal_interrupt_thread_stop, and the join with the interrupt thread.
StopInterrupt ==
  /\ main \in {"stop_interrupt", "undo_interrupt"}
  /\ MainGoes(IF main = "stop_interrupt" THEN "join" ELSE "undo_join")
  /\ counter' = counter - 1
  /\ UNCHANGED <<enclave, init, init_done, interrupt>>

\* thread_func: the interrupt thread ends when it finds the counter at zero.
\* The interrupt thread that looks at the flag instead of the counter.
InterruptEndsOnStop == interrupt = "on" /\ main \in {"join", "undo_join"}
InterruptEnds == interrupt = "on" /\ counter = 0
InterruptThread ==
  /\ InterruptEnds
  /\ interrupt' = "ended"
  /\ UNCHANGED <<serverVars, enclave, init, init_done, counter, commands, procs, client>>

Join ==
  /\ main \in {"join", "undo_join"} /\ interrupt = "ended"
  /\ MainGoes(IF main = "join" THEN "destroy" ELSE "undo_destroy")
  /\ UNCHANGED palVars

\* The exit of the server's process ends its threads and breaks its connections.
Exit(how) ==
  /\ main' = "exited"
  /\ status' = how
  /\ stop_timer' = "none"
  /\ firing' = FALSE
  /\ enclave' = FALSE
  /\ init' = "none"
  /\ init_done' = FALSE
  /\ interrupt' = "off"
  /\ counter' = 0
  /\ client' = [c \in Clients |->
                  IF client[c].pc \in {"exec_rpc", "create_rpc"}
                  THEN [client[c] EXCEPT !.pc = "ready", !.script = Tail(@),
                                         !.results = Append(@, -1)]
                  ELSE IF client[c].pc = "spin" THEN [client[c] EXCEPT !.pc = "ready"]
                  ELSE client[c]]
  /\ procs' = <<>>
  /\ commands' = <<>>

\* pal_destroy_enclave, after the join or on the way out of a failed occlum_pal_init.
DestroyEnclave ==
  /\ main \in {"destroy", "undo_destroy"}
  /\ MainGoes(IF main = "destroy" THEN "leave" ELSE "init_failed")
  /\ enclave' = FALSE
  /\ UNCHANGED <<init, init_done, interrupt, counter>>

\* The return from main: occlum_pal_destroy is done, or occlum_pal_init has failed.
Leave ==
  /\ main = "leave"
  /\ Exit("Stopped")
  /\ UNCHANGED <<starts, sock_file, order>>
InitFailed ==
  /\ main = "init_failed"
  /\ Exit("Error")
  /\ UNCHANGED <<starts, sock_file, order>>

(***************************************************************************)
(* Commands in the enclave                                                 *)
(***************************************************************************)
\* The thread of exec_command calls occlum_pal_exec: it fails if there is no enclave,
\* counts itself, and enters; the ECall fails if the enclave is gone by then.
ProcGoes(p, becomes) ==
  /\ procs' = [procs EXCEPT ![p] = becomes]
  /\ UNCHANGED <<serverVars, enclave, init, init_done, interrupt, commands, client>>
PalExec(p) ==
  /\ procs[p].state = "spawned"
  /\ ProcGoes(p, IF enclave THEN [procs[p] EXCEPT !.state = "checked"]
                 ELSE [procs[p] EXCEPT !.state = "left", !.exit = -1])
  /\ UNCHANGED counter
CountThread(p) ==
  /\ procs[p].state = "checked"
  /\ ProcGoes(p, [procs[p] EXCEPT !.state = "counted", !.late = (interrupt = "ended")])
  /\ counter' = counter + 1
EnterEnclave(p) ==
  /\ procs[p].state = "counted"
  /\ \/ enclave /\ ProcGoes(p, [procs[p] EXCEPT !.state = "inside"]) /\ UNCHANGED counter
     \/ /\ ~enclave /\ ProcGoes(p, [procs[p] EXCEPT !.state = "left", !.exit = -1])
        /\ counter' = counter - 1

\* occlum_ocall_exec_thread_async: the process starts a thread or a child of its own.
SpawnKid(p) ==
  /\ procs[p].state = "inside" /\ enclave
  /\ procs[p].kind = "forks" /\ ~procs[p].killed /\ procs[p].kids = 0
  /\ ProcGoes(p, [procs[p] EXCEPT !.kids = 1])
  /\ counter' = counter + 1

\* A thread of the process ends: by itself, or killed.
KidEnds(p) ==
  /\ procs[p].kids = 1
  /\ ProcGoes(p, [procs[p] EXCEPT !.kids = 2])
  /\ counter' = counter - 1

\* rust_occlum_pal_exec: the status the command leaves; none if the enclave was destroyed.
ExitStatus(p) == IF ~enclave THEN -1 ELSE IF procs[p].killed THEN 9 ELSE 0
PalExecReturns(p) ==
  /\ procs[p].state = "inside"
  /\ procs[p].kind # "daemon" \/ procs[p].killed \/ ~enclave
  /\ ProcGoes(p, [procs[p] EXCEPT !.state = "left", !.exit = ExitStatus(p)])
  /\ counter' = counter - 1

\* The rest of the thread, under the lock of commands: the result is stored and the
\* client signalled.
Report(p) ==
  /\ procs[p].state = "left"
  /\ p \in DOMAIN commands
  /\ commands' = [commands EXCEPT ![p] = [done |-> TRUE, value |-> procs[p].exit]]
  /\ procs' = [procs EXCEPT ![p].state = "reported"]
  /\ client' = [client EXCEPT ![procs[p].client].usr1 = TRUE, ![procs[p].client].due = procs[p].exit]
  /\ UNCHANGED <<serverVars, palVars>>

(***************************************************************************)
(* The clients and the handlers of the server                              *)
(***************************************************************************)
Cmd(c) == Head(client[c].script)
Doing(c, op) == client[c].pc = "ready" /\ client[c].script # <<>> /\ Cmd(c).op = op
Ends(c, result) == [client[c] EXCEPT !.pc = "ready", !.script = Tail(@), !.launched = FALSE,
                                     !.results = Append(@, result)]
FinishCall(c, result) == client' = [client EXCEPT ![c] = Ends(c, result)]

\* A script may wait until another client's command has been launched.
After(c) ==
  /\ "after" \in DOMAIN Cmd(c)
     => \E p \in Pids : procs[p].client = Cmd(c).after /\ procs[p].state # "spawned"

\* start_server: status_check clears the timer, then spins until the enclave is loaded; if
\* nobody answers, the server is launched and asked again after a while.
StatusCheck(c) ==
  /\ Doing(c, "start")
  /\ Listening
  /\ stop_timer' = "none"
  /\ client' = [client EXCEPT ![c].pc = "spin"]
  /\ UNCHANGED <<main, starts, sock_file, status, firing, order, palVars, commands, procs>>
StatusSeen(c) ==
  /\ client[c].pc = "spin" /\ status = "Running"
  /\ FinishCall(c, 0)
  /\ UNCHANGED <<serverVars, palVars, commands, procs>>

Launch(c) ==
  /\ Doing(c, "start")
  /\ ~client[c].launched
  /\ Down
  /\ starts < MaxStarts
  /\ main' = "check"
  /\ starts' = starts + 1
  /\ status' = "Stopped"
  /\ order' = "none"
  /\ client' = [client EXCEPT ![c].launched = TRUE]
  /\ UNCHANGED <<sock_file, stop_timer, firing, palVars, commands, procs>>

\* Asked again and still nobody there: the client waits for the server to exit.
LaunchFailed(c) ==
  /\ Doing(c, "start")
  /\ client[c].launched
  /\ Down
  /\ FinishCall(c, -1)
  /\ UNCHANGED <<serverVars, palVars, commands, procs>>

\* exec_command: nobody there, or the handler begins and clears the timer.
ExecRefused(c) ==
  /\ Doing(c, "exec")
  /\ ~Listening
  /\ After(c)
  /\ FinishCall(c, -1)
  /\ UNCHANGED <<serverVars, palVars, commands, procs>>

ExecBegins(c) ==
  /\ Doing(c, "exec")
  /\ Listening
  /\ After(c)
  /\ stop_timer' = "none"
  /\ client' = [client EXCEPT ![c].pc = "exec_rpc"]
  /\ UNCHANGED <<main, starts, sock_file, status, firing, order, palVars, commands, procs>>

\* The client's descriptors are received.  If the server cannot connect to the client it
\* answers with process 0 and the status that stands for "running".
ConnectStdio(c) ==
  /\ client[c].pc = "exec_rpc"
  /\ Listening
  /\ client' = [client EXCEPT ![c].pc = IF Cmd(c).connect THEN "create_rpc" ELSE "stuck"]
  /\ UNCHANGED <<serverVars, palVars, commands, procs>>

\* occlum_pal_create_process: refused without an enclave, before /bin/init has set the
\* entry points (validate_program_path), or for a program that cannot be loaded.
EntryOpen == enclave /\ init_done
CanCreate(c) == EntryOpen /\ Cmd(c).ok
NewProcess(c) == [client |-> c, kind |-> Cmd(c).kind, state |-> "spawned", exit |-> -1,
                  kids |-> 0, killed |-> FALSE, late |-> FALSE]
CreateProcess(c) ==
  /\ client[c].pc = "create_rpc"
  /\ Listening
  /\ IF CanCreate(c)
     THEN LET p == Cardinality(Pids) + 1 IN
          /\ procs' = procs @@ (p :> NewProcess(c))
          /\ commands' = commands @@ (p :> [done |-> FALSE, value |-> -1])
          /\ client' = [client EXCEPT ![c].pc = "wait", ![c].pid = p, ![c].usr1 = FALSE,
                                      ![c].server = starts]
     ELSE /\ FinishCall(c, -1)
          /\ UNCHANGED <<procs, commands>>
  /\ UNCHANGED <<serverVars, palVars>>

\* get_result, after SIGUSR1: the entry is removed with the answer.
Answered(p) == p \in DOMAIN commands /\ commands[p].done
ResultOf(p) == IF p \in DOMAIN commands /\ commands[p].done THEN commands[p].value ELSE -1
GetResult(c) ==
  /\ client[c].pc = "wait"
  /\ client[c].usr1
  /\ LET p == client[c].pid IN
     IF Listening
     THEN /\ commands' = IF Answered(p) THEN Restrict(commands, DOMAIN commands \ {p}) ELSE commands
          /\ FinishCall(c, ResultOf(p))
     ELSE FinishCall(c, -1) /\ UNCHANGED commands
  /\ UNCHANGED <<serverVars, palVars, procs>>

\* A process the order reaches is killed when it next runs.
Unfinished(p) == procs[p].state \in {"spawned", "checked", "counted", "inside"}
KillAll(set) == [p \in Pids |-> IF p \in set /\ Unfinished(p)
                                THEN [procs[p] EXCEPT !.killed = TRUE] ELSE procs[p]]

\* The user interrupts the client, which has the process killed and does not wait.
UserKills(c) ==
  /\ client[c].pc = "wait"
  /\ ~client[c].usr1
  /\ Cmd(c).interrupted
  /\ procs' = IF Listening /\ enclave THEN KillAll({client[c].pid}) ELSE procs
  /\ FinishCall(c, -1)
  /\ UNCHANGED <<serverVars, palVars, commands>>

\* The client's side of it: an answer or none is the same to it.
AskStop(c) == Doing(c, "stop") /\ After(c)
\* stop_server: SIGTERM to all, which a process may ignore, and a new timer.
StopServer(c) ==
  /\ AskStop(c)
  /\ stop_timer' = IF Listening THEN "waiting" ELSE stop_timer
  /\ FinishCall(c, 0)
  /\ UNCHANGED <<main, starts, sock_file, status, firing, order, palVars, commands, procs>>

\* The callback of the timer: SIGKILL to all, /bin/init too, then the order to the main thread.
TimerFires ==
  /\ stop_timer = "waiting"
  /\ ~firing
  /\ stop_timer' = "none"
  /\ firing' = TRUE
  /\ order' = "none"
  /\ procs' = IF enclave THEN KillAll(Pids) ELSE procs
  /\ init' = IF enclave /\ init = "live" THEN "killed" ELSE init
  /\ UNCHANGED <<main, starts, sock_file, status, enclave, init_done, interrupt, counter, commands, client>>
SetStopped ==
  /\ firing
  /\ firing' = FALSE
  /\ status' = "Stopped"
  /\ order' = "given"
  /\ UNCHANGED <<main, starts, sock_file, stop_timer, palVars, commands, procs, client>>

MainStep ==
  \/ CheckSocket \/ Build \/ CreateEnclave \/ EcallInit \/ InterruptStart
  \/ CreateInit \/ ExecInit \/ InitMounts \/ InitExits
  \/ SetRunning \/ Woken \/ StopInterrupt \/ Join \/ DestroyEnclave \/ Leave \/ InitFailed
ProcStep(p) == PalExec(p) \/ CountThread(p) \/ EnterEnclave(p) \/ KidEnds(p) \/ PalExecReturns(p) \/ Report(p)
ClientStep(c) ==
  \/ StatusCheck(c) \/ StatusSeen(c) \/ Launch(c) \/ LaunchFailed(c)
  \/ ExecRefused(c) \/ ExecBegins(c) \/ ConnectStdio(c) \/ CreateProcess(c)
  \/ GetResult(c) \/ StopServer(c)

ExNext ==
  \/ MainStep \/ InterruptThread \/ TimerFires \/ SetStopped
  \/ \E p \in Pids : ProcStep(p) \/ SpawnKid(p)
  \/ \E c \in Clients : ClientStep(c) \/ UserKills(c)

\* The threads of the server and the clients keep running, timers fire, and commands that
\* are not daemons end.
ExFairness ==
  /\ WF_exVars(MainStep) /\ WF_exVars(InterruptThread)
  /\ WF_exVars(TimerFires) /\ WF_exVars(SetStopped)
  /\ \A p \in 1..MaxCommands : WF_exVars(p \in Pids /\ ProcStep(p))
  /\ \A c \in Clients : WF_exVars(ClientStep(c))

(***************************************************************************)
(* Properties                                                              *)
(***************************************************************************)
One(b) == IF b THEN 1 ELSE 0
InsideOf(p) == One(procs[p].state = "inside") + One(procs[p].kids = 1)
ThreadsOf(p) == InsideOf(p) + One(procs[p].state = "counted")
MainHolds ==
  One(main \in {"create_init", "exec_init", "in_init", "mounted", "serve", "waiting", "stop_interrupt",
                "undo_interrupt"}) + One(main \in {"in_init", "mounted"})

\* The counter of the platform layer counts the threads in the enclave and the hold the
\* interrupt thread has on it, and a thread that was counted while the interrupt thread ran
\* has left the enclave before it is destroyed.  The thread of a command finds the entry it
\* stores its result in, and a client that is signalled finds there the exit status of its
\* own command.
ExecExact ==
  /\ counter = FoldSet(LAMBDA p, n : n + ThreadsOf(p), MainHolds, Pids)
  /\ ~enclave => \A p \in Pids : InsideOf(p) = 0 \/ procs[p].late
  /\ \A p \in Pids : Unfinished(p) \/ procs[p].state = "left" => p \in DOMAIN commands
  /\ \A c \in Clients :
       client[c].pc = "wait" /\ client[c].usr1 /\ Listening /\ client[c].server = starts =>
         /\ client[c].pid \in DOMAIN commands
         /\ commands[client[c].pid] = [done |-> TRUE, value |-> client[c].due]

\* A client that has launched a command that ends comes back, unless the server exits.
ExecReturns ==
  \A c \in Clients :
    (client[c].pc = "wait" /\ Cmd(c).kind # "daemon" /\ client[c].server = starts)
      ~> (client[c].pc # "wait" \/ main = "exited")

\* "After that, the enclave would be destroyed" (stop_server): no command is in it then.
DestroyedEmpty == ~enclave => \A p \in Pids : InsideOf(p) = 0

\* "After that, the enclave would be destroyed and the server itself would exit"
\* (stop_server): once the timer has fired, the server exits, unless a command that does not
\* end was created after the SIGKILL or the main thread has overruled the order since.
Survivor == \E p \in Pids : procs[p].kind = "daemon" /\ ~procs[p].killed /\ Unfinished(p)
StopStops == firing ~> (main = "exited" \/ Survivor \/ order = "overruled")

\* Without the exceptions.
StopAlwaysStops == firing ~> (main = "exited")

\* Commands that end are reported and a stop stops.
ExecLive == ExecReturns /\ StopStops

\* "Notifies the client that the application stopped" (exec_command): whatever happens to
\* the server, a client does not sleep for ever.
ClientNotified ==
  \A c \in Clients :
    (client[c].pc = "wait" /\ Cmd(c).kind # "daemon") ~> (client[c].pc # "wait")
=============================================================================
