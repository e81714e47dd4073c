------------------------------- MODULE Signal -------------------------------
(***************************************************************************)
(* The signal subsystem, signal/*.rs: the queues of a process and of its   *)
(* threads, the masks, delivery on the way back to user mode, handlers and *)
(* sigreturn, sigtimedwait and sigsuspend, and the interrupts that make a  *)
(* thread look at its queues (interrupt/mod.rs).                           *)
(*                                                                         *)
(* One process.  A signal number is a natural; the standard signals come   *)
(* first, in the order of ORDERED_STD_SIGS, and the real-time ones follow, *)
(* so a smaller number is dequeued earlier.  What a signal carries in its  *)
(* siginfo is left out, so a queue of equal signals is its length.         *)
(***************************************************************************)
EXTENDS Naturals, Sequences, FiniteSets

CONSTANTS
    Threads,        \* the threads of the process
    NumStd, NumRt,  \* how many standard and real-time signals there are
    Unblockable,    \* SIGKILL and SIGSTOP
    Fatal,          \* signals whose default action is Term or Core; the others are ignored
    HandlerMask,    \* sa_mask of the user's handler for each signal, as given by the user
    NoDefer,        \* signals whose handler is registered with SA_NODEFER
    InitialMask,    \* the mask each thread starts with
    Masks,          \* sets of signals the program passes to its system calls
    Actions,        \* <<signal, disposition>> it passes to sigaction
    Programs,       \* per thread, the system calls a program makes, and whether it faults
    StackDepth,     \* how many handlers may be nested, 32 in the code
    MaxSent,        \* bound on the signals sent
    Process         \* the owner of the process-wide queue, not a thread

Sigs == 1 .. NumStd + NumRt
IsStd(s) == s <= NumStd
Owners == Threads \cup {Process}

ASSUME NumbersAssumption == NumStd \in Nat /\ NumRt \in Nat /\ StackDepth \in Nat /\ MaxSent \in Nat
ASSUME SetsAssumption ==
    /\ Unblockable \subseteq Sigs /\ Fatal \subseteq Sigs /\ NoDefer \subseteq Sigs
    /\ HandlerMask \in [Sigs -> SUBSET Sigs]
    /\ Masks \subseteq SUBSET Sigs
    /\ InitialMask \in [Threads -> SUBSET Sigs]
    /\ Actions \subseteq Sigs \X {"dfl", "ign", "user"}
    /\ \A calls \in Programs : DOMAIN calls = Threads
ASSUME ProcessAssumption == Process \notin Threads

VARIABLES
    pending,    \* pending[o][s]: how many signals s are in the owner's std_ or rt_queues
    count,      \* SigQueues::count
    disposition,\* "dfl", "ign" or "user" of each signal
    mask,       \* sig_mask
    tmp,        \* sig_tmp_mask
    frames,     \* PRE_UCONTEXTS: the signal, and uc_sigmask of the ucontext_t on the user stack
    forced,     \* the process is forced to exit
    vforking,   \* the thread that called vfork, while the others are stopped
    pc,
    interest,   \* of the thread's PendingSigWaiter
    observing,  \* its observer is registered with the two notifiers
    enqueued,   \* its Waiter is in the observer's WaiterQueue
    isWoken,    \* the Waiter's is_woken
    saved,      \* prev_mask of sigsuspend and pselect6
    base,       \* history: the mask the program last asked for outside any handler
    written,    \* history: the signals it ever wrote into a uc_sigmask
    sent,       \* signals sent so far
    program     \* the program that runs, one of Programs

queueVars == <<pending, count>>
maskVars == <<mask, tmp, frames>>
waiterVars == <<interest, observing, enqueued, isWoken, saved>>
vars == <<queueVars, disposition, maskVars, forced, vforking, pc, waiterVars, base, written, sent, program>>

Idle == {"user", "deliver", "deliver_thread", "sysret", "stopped", "exited", "panicked",
         "select", "vforking", "wait4"}

Labels == Idle \cup {
           "wait_try", "wait_try_thread", "wait_enqueue", "wait_sleep",
           "wait_last", "wait_last_thread", "wait_done",
           "suspend_check", "suspend_enqueue", "suspend_sleep", "suspend_done"}

TypeOK ==
    /\ pending \in [Owners -> [Sigs -> Nat]]
    /\ count \in [Owners -> Nat]
    /\ disposition \in [Sigs -> {"dfl", "ign", "user"}]
    /\ mask \in [Threads -> SUBSET Sigs]
    /\ tmp \in [Threads -> SUBSET Sigs]
    /\ frames \in [Threads -> Seq([sig : Sigs, saved : SUBSET Sigs])]
    /\ forced \in BOOLEAN
    /\ vforking \in SUBSET Threads
    /\ pc \in [Threads -> Labels]
    /\ interest \in [Threads -> SUBSET Sigs]
    /\ observing \in [Threads -> BOOLEAN]
    /\ enqueued \in [Threads -> BOOLEAN]
    /\ isWoken \in [Threads -> BOOLEAN]
    /\ saved \in [Threads -> SUBSET Sigs]
    /\ base \in [Threads -> SUBSET Sigs]
    /\ written \in [Threads -> SUBSET Sigs]
    /\ sent \in 0 .. MaxSent
    /\ program \in Programs
    \* A thread is registered exactly while it is in one of the two waits, and the
    \* temporary mask is clear after deliver_signal (its post-condition).
    /\ \A t \in Threads :
        /\ observing[t] <=> pc[t] \notin Idle
        /\ enqueued[t] => observing[t]
        /\ pc[t] \in {"user", "stopped"} => tmp[t] = {}

\* A process with its handlers set up: every signal that may have one has a handler.
Init ==
    /\ pending = [o \in Owners |-> [s \in Sigs |-> 0]]
    /\ count = [o \in Owners |-> 0]
    /\ disposition = [s \in Sigs |-> IF s \in Unblockable THEN "dfl" ELSE "user"]
    /\ mask = [t \in Threads |-> InitialMask[t] \ Unblockable]
    /\ base = mask
    /\ written = [t \in Threads |-> {}]
    /\ tmp = [t \in Threads |-> {}]
    /\ frames = [t \in Threads |-> <<>>]
    /\ forced = FALSE
    /\ vforking = {}
    /\ pc = [t \in Threads |-> "user"]
    /\ interest = [t \in Threads |-> {}]
    /\ observing = [t \in Threads |-> FALSE]
    /\ enqueued = [t \in Threads |-> FALSE]
    /\ isWoken = [t \in Threads |-> FALSE]
    /\ saved = [t \in Threads |-> {}]
    /\ sent = 0
    /\ program \in Programs

Goto(t, label) == pc' = [pc EXCEPT ![t] = label]

(***************************************************************************)
(* SigQueues                                                               *)
(***************************************************************************)
Pending(o) == {s \in Sigs : pending[o][s] > 0}

\* The observers registered with the queue's notifier are told; each wakes the
\* waiter that is in its waiter queue at that moment, if there is one.
broadcast(o, s) ==
    LET told == {t \in Threads : observing[t] /\ s \in interest[t] /\ enqueued[t]
                                 /\ o \in {t, Process}}
    IN  /\ isWoken' = [t \in Threads |-> isWoken[t] \/ t \in told]
        /\ enqueued' = [t \in Threads |-> enqueued[t] /\ t \notin told]

\* A standard signal that is already pending is dropped.
Accepts(o, s) == IsStd(s) => pending[o][s] = 0

enqueue(o, s) ==
    /\ sent < MaxSent
    /\ sent' = sent + 1
    /\ IF Accepts(o, s)
       THEN /\ pending' = [pending EXCEPT ![o][s] = @ + 1]
            /\ count' = [count EXCEPT ![o] = @ + 1]
            /\ broadcast(o, s)
       ELSE UNCHANGED <<queueVars, isWoken, enqueued>>
    /\ UNCHANGED <<disposition, maskVars, forced, pc, interest, observing, saved, base>>

\* What dequeue(blocked) chooses from: nothing by the fast path of an empty queue.
Dequeueable(o, blocked) == IF count[o] = 0 THEN {} ELSE Pending(o) \ blocked

\* The most urgent of them is taken.
dequeue(o, blocked, s) ==
    /\ s \in Dequeueable(o, blocked)
    /\ \A r \in Dequeueable(o, blocked) : s <= r
    /\ pending' = [pending EXCEPT ![o][s] = @ - 1]
    /\ count' = [count EXCEPT ![o] = @ - 1]

(***************************************************************************)
(* Sending.  do_kill and do_kill_from_outside_enclave enqueue with the     *)
(* process, unless it is a zombie; do_tgkill with a thread.  The sender is *)
(* any process; a sender of this process also returns to user mode, which  *)
(* the other system calls cover.                                           *)
(***************************************************************************)
do_kill(s) ==
    /\ \E t \in Threads : pc[t] # "exited"
    /\ enqueue(Process, s)

do_tgkill(t, s) ==
    /\ pc[t] # "exited"
    /\ enqueue(t, s)

(***************************************************************************)
(* Handling a signal: ignore it, force the process to exit, or set up the  *)
(* user context for the handler.                                           *)
(***************************************************************************)

SaMask(s) == HandlerMask[s] \ Unblockable

\* Mutant: the mask is saved after it was replaced.
HandleByUserSavingNew(t, s) ==
    LET new == SaMask(s) \cup ({s} \ NoDefer)
    IN  /\ mask' = [mask EXCEPT ![t] = new]
        /\ frames' = [frames EXCEPT ![t] = Append(@, [sig |-> s, saved |-> new])]

handle_signals_by_user(t, s) ==
    /\ mask' = [mask EXCEPT ![t] = SaMask(s) \cup ({s} \ NoDefer)]
    /\ frames' = [frames EXCEPT ![t] = Append(@, [sig |-> s, saved |-> mask[t]])]

Ignored(s) == disposition[s] = "ign" \/ (disposition[s] = "dfl" /\ s \notin Fatal)

\* A handler that cannot be set up, because its stack is too small, is a todo!.
HandlerFits(t, s) == disposition[s] = "user" => "no_stack" \notin program[t]

\* An ignored signal lets do_deliver_signal go on to the next one (label again).  The
\* nesting is checked first, whatever the action.
handle_signal(t, s, again, done) ==
    \/ /\ Len(frames[t]) = StackDepth \/ ~HandlerFits(t, s)
       /\ Goto(t, "panicked")
       /\ UNCHANGED <<mask, frames, forced>>
    \/ /\ Len(frames[t]) < StackDepth
       /\ Ignored(s)
       /\ Goto(t, again)
       /\ UNCHANGED <<mask, frames, forced>>
    \/ /\ Len(frames[t]) < StackDepth
       /\ disposition[s] = "dfl" /\ s \in Fatal
       /\ forced' = TRUE
       /\ Goto(t, done)
       /\ UNCHANGED <<mask, frames>>
    \/ /\ Len(frames[t]) < StackDepth
       /\ disposition[s] = "user" /\ HandlerFits(t, s)
       /\ handle_signals_by_user(t, s)
       /\ Goto(t, done)
       /\ UNCHANGED forced

\* Mutant: the temporary mask is left out.
BlockedByMaskOnly(t) == mask[t]

Blocked(t) == mask[t] \cup tmp[t]

(***************************************************************************)
(* The end of every system call: deliver_signal, handle_force_stop and     *)
(* handle_force_exit.  The process's queue is looked at first and the      *)
(* thread's after it, under different locks.                               *)
(***************************************************************************)
is_forced_to_stop(t) == vforking \ {t} # {}

deliver_signal(t) ==
    /\ pc[t] = "deliver"
    /\ \/ /\ ~forced /\ ~is_forced_to_stop(t)
          /\ \E s \in Sigs : dequeue(Process, Blocked(t), s) /\ handle_signal(t, s, "deliver", "sysret")
       \/ /\ ~forced /\ ~is_forced_to_stop(t) /\ Dequeueable(Process, Blocked(t)) = {}
          /\ Goto(t, "deliver_thread")
          /\ UNCHANGED <<queueVars, mask, frames, forced>>
       \/ /\ forced \/ is_forced_to_stop(t)
          /\ Goto(t, "sysret")
          /\ UNCHANGED <<queueVars, mask, frames, forced>>
    /\ UNCHANGED <<disposition, tmp, waiterVars, base, sent>>

deliver_thread_signal(t) ==
    /\ pc[t] = "deliver_thread"
    /\ \/ \E s \in Sigs : dequeue(t, Blocked(t), s) /\ handle_signal(t, s, "deliver", "sysret")
       \/ /\ Dequeueable(t, Blocked(t)) = {}
          /\ Goto(t, "sysret")
          /\ UNCHANGED <<queueVars, mask, frames, forced>>
    /\ UNCHANGED <<disposition, tmp, waiterVars, base, sent>>

sysret(t) ==
    /\ pc[t] = "sysret"
    /\ tmp' = [tmp EXCEPT ![t] = {}]
    /\ Goto(t, CASE is_forced_to_stop(t) -> "stopped"
                 [] ~is_forced_to_stop(t) /\ forced -> "exited"
                 [] OTHER -> "user")
    /\ UNCHANGED <<queueVars, disposition, mask, frames, forced, waiterVars, base, sent>>

\* The rest of handle_force_stop, and handle_force_exit.
Resume(t) ==
    /\ pc[t] = "stopped"
    /\ ~is_forced_to_stop(t)
    /\ Goto(t, IF forced THEN "exited" ELSE "user")
    /\ UNCHANGED <<queueVars, disposition, maskVars, forced, waiterVars, base, sent>>

(***************************************************************************)
(* System calls that change the masks or the dispositions.                 *)
(***************************************************************************)
SetMask(t, m) ==
    /\ mask' = [mask EXCEPT ![t] = m]
    /\ base' = IF frames[t] = <<>> THEN [base EXCEPT ![t] = m] ELSE base

do_rt_sigprocmask(t, given) ==
    /\ "sigprocmask" \in program[t] /\ pc[t] = "user"
    /\ LET set == given \ Unblockable
       IN  \/ SetMask(t, mask[t] \cup set)
           \/ SetMask(t, mask[t] \ set)
           \/ SetMask(t, set)
    /\ Goto(t, "deliver")
    /\ UNCHANGED <<queueVars, disposition, tmp, frames, forced, waiterVars, sent>>

do_rt_sigaction(t, s, action) ==
    /\ "sigaction" \in program[t] /\ pc[t] = "user"
    /\ disposition' = IF s \in Unblockable THEN disposition ELSE [disposition EXCEPT ![s] = action]
    /\ Goto(t, "deliver")
    /\ UNCHANGED <<queueVars, maskVars, forced, waiterVars, base, sent>>

\* The ucontext_t of a handler that has not returned is memory of the program, which may
\* write any mask into it.  In the outermost one this is the mask it asks for itself.
WriteUcontext(t, i, m) ==
    /\ "ucontext" \in program[t] /\ pc[t] = "user"
    /\ frames' = [frames EXCEPT ![t][i].saved = m]
    /\ base' = IF i = 1 THEN [base EXCEPT ![t] = m] ELSE base
    /\ written' = [written EXCEPT ![t] = @ \cup m]
    /\ UNCHANGED <<queueVars, disposition, mask, tmp, forced, pc, waiterVars, sent>>

\* The handler returns through the restorer: the mask is what the ucontext_t now holds,
\* SIGKILL and SIGSTOP included.  Outside a handler the call kills the process.
do_rt_sigreturn(t) ==
    /\ pc[t] = "user"
    /\ \/ /\ frames[t] # <<>>
          /\ mask' = [mask EXCEPT ![t] = frames[t][Len(frames[t])].saved]
          /\ frames' = [frames EXCEPT ![t] = SubSeq(@, 1, Len(@) - 1)]
          /\ UNCHANGED forced
       \/ /\ "sigreturn" \in program[t] /\ frames[t] = <<>>
          /\ forced' = TRUE
          /\ UNCHANGED <<mask, frames>>
    /\ Goto(t, "deliver")
    /\ UNCHANGED <<queueVars, disposition, tmp, waiterVars, base, sent>>

\* An exception the LibOS cannot resolve becomes a signal whatever the mask, and no
\* other signal is delivered before this "system call" ends.
force_signal(t, s) ==
    /\ "fault" \in program[t] /\ pc[t] = "user"
    /\ s \in Fatal \ Unblockable /\ IsStd(s)
    /\ sent < MaxSent /\ sent' = sent + 1
    /\ handle_signal(t, s, "deliver", "deliver")
    /\ tmp' = [tmp EXCEPT ![t] = Sigs]
    /\ UNCHANGED <<queueVars, disposition, waiterVars, base>>

(***************************************************************************)
(* Calls that no interrupt ends.  wait4 sleeps until a child exits.  vfork *)
(* waits until every other thread is stopped; its thread then goes on as   *)
(* the child, until the child exits or calls execve.                       *)
(***************************************************************************)
do_wait4(t) ==
    /\ "wait4" \in program[t]
    /\ \/ pc[t] = "user" /\ Goto(t, "wait4")
       \/ pc[t] = "wait4" /\ Goto(t, "deliver")
    /\ UNCHANGED <<queueVars, disposition, maskVars, forced, waiterVars, base, sent>>

do_vfork(t) ==
    /\ "vfork" \in program[t] /\ pc[t] = "user"
    /\ vforking = {}
    /\ vforking' = {t}
    /\ Goto(t, "vforking")
    /\ UNCHANGED <<queueVars, disposition, maskVars, forced, waiterVars, base, sent>>

vfork_stop_all_child_thread(t) ==
    /\ pc[t] = "vforking"
    /\ \A u \in Threads \ {t} : pc[u] \in {"stopped", "exited"}
    /\ Goto(t, "deliver")
    /\ UNCHANGED <<queueVars, disposition, maskVars, forced, waiterVars, base, sent>>

vfork_return_to_parent(t) ==
    /\ pc[t] = "user" /\ vforking = {t}
    /\ vforking' = {}
    /\ Goto(t, "deliver")
    /\ UNCHANGED <<queueVars, disposition, maskVars, forced, waiterVars, base, sent>>

(***************************************************************************)
(* pselect6 replaces the mask, validates its other arguments, polls and    *)
(* puts the mask back; the early returns of the validation do not.         *)
(***************************************************************************)
do_pselect6(t, m, valid) ==
    /\ pc[t] = "user"
    /\ (IF valid THEN "pselect" ELSE "pselect_invalid") \in program[t]
    /\ mask' = [mask EXCEPT ![t] = m \ Unblockable]
    /\ saved' = [saved EXCEPT ![t] = IF valid THEN mask[t] ELSE @]
    /\ Goto(t, IF valid THEN "select" ELSE "deliver")
    /\ UNCHANGED <<queueVars, disposition, tmp, frames, forced, interest, observing,
                   enqueued, isWoken, base, sent>>

\* The poll ends: a descriptor is ready, the timeout expired or it was interrupted.
SelectReturns(t) ==
    /\ pc[t] = "select"
    /\ mask' = [mask EXCEPT ![t] = saved[t]]
    /\ saved' = [saved EXCEPT ![t] = {}]
    /\ Goto(t, "deliver")
    /\ UNCHANGED <<queueVars, disposition, tmp, frames, forced, interest, observing,
                   enqueued, isWoken, base, sent>>

(***************************************************************************)
(* PendingSigWaiter.  Its two waits look at the queues, put their Waiter   *)
(* into the observer's queue and sleep, in this order.                     *)
(***************************************************************************)
Register(t, signals) ==
    /\ interest' = [interest EXCEPT ![t] = signals]
    /\ observing' = [observing EXCEPT ![t] = TRUE]

Unregister(t) ==
    /\ interest' = [interest EXCEPT ![t] = {}]
    /\ observing' = [observing EXCEPT ![t] = FALSE]
    /\ enqueued' = [enqueued EXCEPT ![t] = FALSE]
    /\ isWoken' = [isWoken EXCEPT ![t] = FALSE]

do_sigtimedwait(t, set) ==
    /\ "sigtimedwait" \in program[t] /\ pc[t] = "user"
    /\ Register(t, set \cap mask[t])
    /\ Goto(t, "wait_try")
    /\ UNCHANGED <<queueVars, disposition, maskVars, forced, enqueued, isWoken, saved, base, sent>>

Uninteresting(t) == Sigs \ interest[t]

\* dequeue_pending_signal, the process's queue and then the thread's; none leads on
\* to the label given.
dequeue_pending_signal(t, here, thread, none) ==
    /\ \/ /\ pc[t] = here
          /\ \/ /\ \E s \in Sigs : dequeue(Process, Uninteresting(t), s)
                /\ Goto(t, "wait_done")
             \/ /\ Dequeueable(Process, Uninteresting(t)) = {}
                /\ Goto(t, thread)
                /\ UNCHANGED queueVars
       \/ /\ pc[t] = thread
          /\ \/ /\ \E s \in Sigs : dequeue(t, Uninteresting(t), s)
                /\ Goto(t, "wait_done")
             \/ /\ Dequeueable(t, Uninteresting(t)) = {}
                /\ \E label \in none : Goto(t, label)
                /\ UNCHANGED queueVars
    /\ UNCHANGED <<disposition, maskVars, forced, waiterVars, base, sent>>

\* A timeout of zero returns at once; an error of the sleep is followed by a last try.
WaitTry(t) == dequeue_pending_signal(t, "wait_try", "wait_try_thread", {"wait_enqueue", "wait_done"})
WaitLast(t) == dequeue_pending_signal(t, "wait_last", "wait_last_thread", {"wait_done"})

reset_and_enqueue(t) ==
    /\ \/ pc[t] = "wait_enqueue" /\ Goto(t, "wait_sleep")
       \/ pc[t] = "suspend_enqueue" /\ Goto(t, "suspend_sleep")
    /\ isWoken' = [isWoken EXCEPT ![t] = FALSE]
    /\ enqueued' = [enqueued EXCEPT ![t] = TRUE]
    /\ UNCHANGED <<queueVars, disposition, maskVars, forced, interest, observing, saved, base, sent>>

\* Mutant: a forced exit is not a reason to interrupt.
ShouldInterruptForSignals(t) == is_forced_to_stop(t) \/ ~(Pending(Process) \cup Pending(t) \subseteq mask[t])

\* Mutant: a pending signal is no reason to interrupt.
ShouldInterruptIfForced(t) == forced \/ is_forced_to_stop(t)

\* broadcast_interrupts, for the thread t.
should_interrupt_thread(t) ==
    forced \/ is_forced_to_stop(t) \/ ~(Pending(Process) \cup Pending(t) \subseteq mask[t])

\* The Waiter returns: woken, or the poll failed with ETIMEDOUT or EINTR.
WaitWoken(t) ==
    /\ pc[t] = "wait_sleep"
    /\ isWoken[t]
    /\ Goto(t, "wait_try")
    /\ UNCHANGED <<queueVars, disposition, maskVars, forced, waiterVars, base, sent>>

WaitTimesOut(t) ==
    /\ pc[t] = "wait_sleep"
    /\ "timeout" \in program[t] \/ should_interrupt_thread(t)
    /\ Goto(t, "wait_last")
    /\ UNCHANGED <<queueVars, disposition, maskVars, forced, waiterVars, base, sent>>

WaitDone(t) ==
    /\ pc[t] = "wait_done"
    /\ Unregister(t)
    /\ Goto(t, "deliver")
    /\ UNCHANGED <<queueVars, disposition, maskVars, forced, saved, base, sent>>

do_sigsuspend(t, m) ==
    /\ "sigsuspend" \in program[t] /\ pc[t] = "user"
    /\ saved' = [saved EXCEPT ![t] = mask[t]]
    /\ mask' = [mask EXCEPT ![t] = m \ Unblockable]
    /\ Register(t, Sigs \ (m \ Unblockable))
    /\ Goto(t, "suspend_check")
    /\ UNCHANGED <<queueVars, disposition, tmp, frames, forced, enqueued, isWoken, base, sent>>

has_interest_signal(t) == (Pending(Process) \cup Pending(t)) \cap interest[t] # {}

SuspendCheck(t) ==
    /\ pc[t] = "suspend_check"
    /\ Goto(t, IF has_interest_signal(t) THEN "suspend_done" ELSE "suspend_enqueue")
    /\ UNCHANGED <<queueVars, disposition, maskVars, forced, waiterVars, base, sent>>

\* After an interrupt the queues are read again, but both outcomes end the call.
SuspendSleep(t) ==
    /\ pc[t] = "suspend_sleep"
    /\ \/ isWoken[t] /\ Goto(t, "suspend_check")
       \/ should_interrupt_thread(t) /\ Goto(t, "suspend_done")
    /\ UNCHANGED <<queueVars, disposition, maskVars, forced, waiterVars, base, sent>>

\* The mask is put back before the signal that ended the wait is delivered.
SuspendDone(t) ==
    /\ pc[t] = "suspend_done"
    /\ mask' = [mask EXCEPT ![t] = saved[t]]
    /\ saved' = [saved EXCEPT ![t] = {}]
    /\ Unregister(t)
    /\ Goto(t, "deliver")
    /\ UNCHANGED <<queueVars, disposition, tmp, frames, forced, base, sent>>

\* The interrupt reaches a thread in user mode: an empty system call.
do_handle_interrupt(t) ==
    /\ pc[t] = "user"
    /\ should_interrupt_thread(t)
    /\ Goto(t, "deliver")
    /\ UNCHANGED <<queueVars, disposition, maskVars, forced, waiterVars, base, sent>>

(***************************************************************************)
(* What a thread does by itself once a system call, an exception or an     *)
(* interrupt has begun, and what the program and the senders choose to do. *)
(***************************************************************************)
Kernel(t) ==
    \/ deliver_signal(t) \/ deliver_thread_signal(t) \/ sysret(t) \/ Resume(t)
    \/ vfork_stop_all_child_thread(t)
    \/ SelectReturns(t)
    \/ WaitTry(t) \/ WaitLast(t) \/ reset_and_enqueue(t) \/ WaitWoken(t) \/ WaitTimesOut(t) \/ WaitDone(t)
    \/ SuspendCheck(t) \/ SuspendSleep(t) \/ SuspendDone(t)
    \/ do_handle_interrupt(t)

Program(t) ==
    \/ do_rt_sigreturn(t) \/ do_wait4(t)
    \/ \E m \in Masks :
        \/ do_rt_sigprocmask(t, m)
        \/ do_sigtimedwait(t, m)
        \/ do_sigsuspend(t, m)
        \/ \E valid \in BOOLEAN : do_pselect6(t, m, valid)
    \/ \E s \in Sigs :
        \/ \E action \in {"dfl", "ign", "user"} :
               <<s, action>> \in Actions /\ do_rt_sigaction(t, s, action)
        \/ force_signal(t, s)

Next ==
    /\ \/ /\ \/ \E t \in Threads : Kernel(t) \/ Program(t)
             \/ \E s \in Sigs : do_kill(s) \/ \E t \in Threads : do_tgkill(t, s)
          /\ UNCHANGED <<vforking, written>>
       \/ /\ \E t \in Threads : do_vfork(t) \/ vfork_return_to_parent(t)
          /\ UNCHANGED written
       \/ /\ \E t \in Threads, m \in Masks : \E i \in 1 .. Len(frames[t]) : WriteUcontext(t, i, m)
          /\ UNCHANGED vforking
    /\ UNCHANGED program

Spec == Init /\ [][Next]_vars

\* A thread inside the LibOS goes on, and the interrupt thread of the PAL calls
\* broadcast_interrupts over and over.  A program promises nothing.
Fairness == \A t \in Threads : WF_vars(Kernel(t) /\ UNCHANGED <<vforking, written, program>>)

FairSpec == Spec /\ Fairness

-----------------------------------------------------------------------------

\* A mask blocks SIGKILL or SIGSTOP, now or after a return from a handler, from
\* sigsuspend or from pselect6, only if the thread wrote it into a ucontext_t itself: all
\* the other paths that set sig_mask strip the two.
KillBlockedOnlyByUcontext ==
    \A t \in Threads :
        /\ (mask[t] \cup saved[t] \cup base[t]) \cap Unblockable \subseteq written[t]
        /\ \A i \in 1 .. Len(frames[t]) : frames[t][i].saved \cap Unblockable \subseteq written[t]

\* SIGKILL and SIGSTOP are in no mask at all (do_sigprocmask.rs: "it is not possible to
\* block SIGKILL or SIGSTOP.  Attempts to do so are silently ignored").
KillNeverBlocked == \A t \in Threads : mask[t] \cap Unblockable = {}

\* A thread that is back in its program, outside any handler, has the mask it last
\* asked for there, or wrote into the ucontext_t of its outermost handler, however many
\* handlers, waits and mask changes inside handlers came between (do_sigreturn.rs, "Restore sigmask"; do_sigsuspend.rs and
\* do_pselect6, "Restore the original signal mask").
MaskRestored ==
    \A t \in Threads : pc[t] = "user" /\ frames[t] = <<>> => mask[t] = base[t]

\* The signals in the queues of an owner, each with its place among its equals.
Queued(o) == UNION {{s} \X (1 .. pending[o][s]) : s \in Sigs}

\* The count that lets deliver_signal and dequeue skip the queues is the number of
\* signals in them, and a standard signal is pending at most once.
CountExact ==
    \A o \in Owners :
        /\ count[o] = Cardinality(Queued(o))
        /\ \A s \in Sigs : IsStd(s) => pending[o][s] <= 1

\* The masks survive nested handlers and waits, SIGKILL is blocked only by a ucontext_t
\* the program wrote, and the count the queues are trusted by is exact.
MasksExact == TypeOK /\ MaskRestored /\ KillBlockedOnlyByUcontext /\ CountExact

\* Once an exception has forced a signal on the thread, nothing else is delivered to
\* it before that entry into the LibOS ends, although the handler's mask lets other
\* signals through (force_signal: "This avoids delivering two signals during one
\* execution of a syscall").
OneHandlerPerEntry ==
    [][\A t \in Threads : pc[t] # "user" /\ tmp[t] = Sigs => frames'[t] = frames[t]]_vars

\* SIGKILL ends the process: no mask the LibOS sets, no interruptible wait, handler or
\* concurrent sigtimedwait keeps it from being dequeued, and the forced exit then reaches
\* every thread, those that run in user mode and make no system call included.  What does
\* hold it up is stated: a thread asleep in wait4 is not woken, a vfork freezes the other
\* threads, a uc_sigmask may block it and too many handlers bring the enclave down.
KillTerminates ==
    \A k \in Fatal \cap Unblockable, o \in Owners :
        k \in Pending(o)
            ~> \/ \A t \in Threads : pc[t] \in {"exited", "wait4"}
               \/ o \in Threads /\ pc[o] = "wait4"
               \/ \E t \in Threads : pc[t] = "panicked" \/ k \in written[t]
               \/ vforking # {}

\* A signal sent to a thread that does not block it is dequeued, also when it arrives
\* between the look at the queues and the sleep of a wait: the interrupts that
\* broadcast_interrupts repeats make up for the notification that found no waiter.  Only
\* wait4 and vfork, which no interrupt ends, put it off.
UnblockedHandled ==
    \A t \in Threads, s \in Sigs :
        (s \in Pending(t) /\ s \notin mask[t])
            ~> \/ s \notin Pending(t) \/ s \in mask[t]
               \/ pc[t] \in {"exited", "panicked", "wait4"} \/ vforking # {}

\* Asleep in sigtimedwait, a thread has no interesting signal pending (do_sigtimedwait.rs,
\* before the sleep: "As there is no intersting signal to dequeue right now, let's wait").
WaitsOnlyWithoutSignal ==
    \A t \in Threads : pc[t] = "wait_sleep" /\ ~isWoken[t] => ~has_interest_signal(t)

\* A handler registered without SA_NODEFER is not entered again before it has returned,
\* in a program that changes no mask in handlers (handle_signals_by_user: "Block the
\* current signal while executing the signal handler").
HandlerNotReentered ==
    \A t \in Threads : \A i, j \in 1 .. Len(frames[t]) :
        i # j /\ frames[t][i].sig = frames[t][j].sig => frames[t][i].sig \in NoDefer
=============================================================================
