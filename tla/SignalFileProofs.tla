---------------------------- MODULE SignalFileProofs ----------------------------
(***************************************************************************)
(* Proofs about what a process keeps for its threads.  Signals: the masks  *)
(* are the ones the program asked for, SIGKILL is in none of them unless   *)
(* the program wrote it into a ucontext_t, the count of a queue is exact,  *)
(* and an exception's handler is the only one of its entry into the LibOS. *)
(* Files: the count of a file table is exact, so put always finds the free *)
(* entry it unwraps.                                                       *)
(***************************************************************************)
EXTENDS Signal, FileTable, SequenceTheorems, FiniteSetTheorems, TLAPS

USE ZenonT(40)

\* The calls that replace the mask put it back on their way out.
Restoring == {"select", "suspend_check", "suspend_enqueue", "suspend_sleep", "suspend_done"}
Waiting == {"wait_try", "wait_try_thread", "wait_enqueue", "wait_sleep", "wait_last",
            "wait_last_thread", "wait_done", "suspend_check", "suspend_enqueue",
            "suspend_sleep", "suspend_done"}

\* The mask the thread has once its call is over.
OwnMask(t) == IF pc[t] \in Restoring THEN saved[t] ELSE mask[t]

\* Idle a handler it is the one the program asked for, inside one that mask is in the
\* ucontext of the outermost handler.
MaskOwed ==
    \A t \in Threads :
        IF frames[t] = <<>> THEN OwnMask(t) = base[t] ELSE frames[t][1].saved = base[t]

\* SIGKILL and SIGSTOP have no handler.
KillByDefault == \A s \in Unblockable : disposition[s] = "dfl"

Frame == [sig : Sigs, saved : SUBSET Sigs]

QueueType == pending \in [Owners -> [Sigs -> Nat]] /\ count \in [Owners -> Nat]

MaskType ==
    /\ mask \in [Threads -> SUBSET Sigs]
    /\ frames \in [Threads -> Seq(Frame)]
    /\ saved \in [Threads -> SUBSET Sigs]
    /\ base \in [Threads -> SUBSET Sigs]
    /\ written \in [Threads -> SUBSET Sigs]

OtherType ==
    /\ disposition \in [Sigs -> {"dfl", "ign", "user"}]
    /\ forced \in BOOLEAN
    /\ vforking \in SUBSET Threads
    /\ sent \in 0 .. MaxSent
    /\ program \in Programs

WaiterType ==
    /\ pc \in [Threads -> Labels]
    /\ tmp \in [Threads -> SUBSET Sigs]
    /\ interest \in [Threads -> SUBSET Sigs]
    /\ observing \in [Threads -> BOOLEAN]
    /\ enqueued \in [Threads -> BOOLEAN]
    /\ isWoken \in [Threads -> BOOLEAN]
    /\ \A t \in Threads :
        /\ observing[t] <=> pc[t] \notin Idle
        /\ enqueued[t] => observing[t]
        /\ pc[t] \in {"user", "stopped"} => tmp[t] = {}

LEMMA TypeParts == TypeOK <=> QueueType /\ MaskType /\ OtherType /\ WaiterType
BY DEF TypeOK, QueueType, MaskType, OtherType, WaiterType, Frame

-----------------------------------------------------------------------------
(* The queues.                                                             *)

Put(o, s) ==
    /\ Accepts(o, s)
    /\ pending' = [pending EXCEPT ![o][s] = @ + 1]
    /\ count' = [count EXCEPT ![o] = @ + 1]

Got(o, s) ==
    /\ s \in Pending(o)
    /\ pending' = [pending EXCEPT ![o][s] = @ - 1]
    /\ count' = [count EXCEPT ![o] = @ - 1]

QueueMove ==
    \/ UNCHANGED queueVars
    \/ \E o \in Owners, s \in Sigs : Put(o, s) \/ Got(o, s)

LEMMA DequeueGets ==
    ASSUME NEW o \in Owners, NEW blocked, NEW s \in Sigs, dequeue(o, blocked, s)
    PROVE  Got(o, s) /\ QueueMove
BY DEF dequeue, Dequeueable, Got, QueueMove

LEMMA OwnersAre == Process \in Owners /\ \A t \in Threads : t \in Owners
BY DEF Owners

\* Every step leaves the queues alone, puts one signal into them or takes one out.
LEMMA QueuesMove ==
    ASSUME Next
    PROVE  QueueMove
<1>1. ASSUME NEW o \in Owners, NEW s \in Sigs, enqueue(o, s) PROVE QueueMove
  BY <1>1 DEF enqueue, Put, QueueMove
<1>2. ASSUME NEW t \in Threads, deliver_signal(t) PROVE QueueMove
  BY <1>2, DequeueGets, OwnersAre DEF deliver_signal, QueueMove
<1>3. ASSUME NEW t \in Threads, deliver_thread_signal(t) PROVE QueueMove
  BY <1>3, DequeueGets, OwnersAre DEF deliver_thread_signal, QueueMove
<1>4. ASSUME NEW t \in Threads, NEW a, NEW b, NEW c, dequeue_pending_signal(t, a, b, c) PROVE QueueMove
  BY <1>4, DequeueGets, OwnersAre DEF dequeue_pending_signal, QueueMove
<1>5. ASSUME NEW t \in Threads, Kernel(t) PROVE QueueMove
  <2>1. ASSUME \/ sysret(t) \/ SelectReturns(t) \/ reset_and_enqueue(t) \/ WaitWoken(t) \/ WaitTimesOut(t)
               \/ WaitDone(t) \/ SuspendCheck(t) \/ SuspendSleep(t) \/ SuspendDone(t)
               \/ do_handle_interrupt(t) \/ Resume(t) \/ vfork_stop_all_child_thread(t)
        PROVE  QueueMove
    BY <2>1 DEF QueueMove, Resume, vfork_stop_all_child_thread, sysret, SelectReturns, reset_and_enqueue, WaitWoken, WaitTimesOut,
                WaitDone, SuspendCheck, SuspendSleep, SuspendDone, do_handle_interrupt
  <2>2. QED
    BY <2>1, <1>2, <1>3, <1>4, <1>5 DEF Kernel, WaitTry, WaitLast
<1>6. ASSUME NEW t \in Threads, Program(t) PROVE QueueMove
  BY <1>6 DEF Program, QueueMove, do_rt_sigreturn, do_rt_sigprocmask, do_sigtimedwait,
              do_sigsuspend, do_pselect6, do_rt_sigaction, force_signal, do_wait4
<1>7. ASSUME NEW s \in Sigs, do_kill(s) \/ \E t \in Threads : do_tgkill(t, s) PROVE QueueMove
  BY <1>1, <1>7, OwnersAre DEF do_kill, do_tgkill
<1>8. ASSUME NEW t \in Threads,
             \/ do_vfork(t) \/ vfork_return_to_parent(t)
             \/ \E m \in Masks : \E i \in 1 .. Len(frames[t]) : WriteUcontext(t, i, m)
      PROVE  QueueMove
  BY <1>8 DEF QueueMove, do_vfork, vfork_return_to_parent, WriteUcontext
<1>9. QED
  BY <1>5, <1>6, <1>7, <1>8 DEF Next

\* The count and the at-most-once rule survive a move.
LEMMA QueueStep ==
    ASSUME QueueType, CountExact, \A o \in Owners : IsFiniteSet(Queued(o)), QueueMove
    PROVE  QueueType' /\ CountExact' /\ \A o \in Owners : IsFiniteSet(Queued(o))'
<1>1. CASE UNCHANGED queueVars
  <2>1. pending' = pending /\ count' = count
    BY <1>1 DEF queueVars
  <2>2. \A o : Queued(o)' = Queued(o)
    BY <2>1 DEF Queued
  <2>3. QED
    BY <2>1, <2>2 DEF QueueType, CountExact
<1>2. ASSUME NEW o \in Owners, NEW s \in Sigs, Put(o, s) \/ Got(o, s)
      PROVE  QueueType' /\ CountExact' /\ \A q \in Owners : IsFiniteSet(Queued(q))'
  <2> DEFINE n == pending[o][s]
  <2>0. n \in Nat /\ pending[o] \in [Sigs -> Nat] /\ count[o] \in Nat
    BY DEF QueueType
  <2>1. ASSUME NEW q \in Owners
        PROVE  \A e : e \in Queued(q) <=>
                      \E r \in Sigs, i \in Nat : e = <<r, i>> /\ 1 <= i /\ i <= pending[q][r]
    <3>1. \A r \in Sigs : pending[q][r] \in Nat
      BY DEF QueueType
    <3>2. \A e : e \in Queued(q) <=> \E r \in Sigs : e \in {r} \X (1 .. pending[q][r])
      BY DEF Queued
    <3>3. QED
      BY <3>1, <3>2, SMT
  <2>2. ASSUME NEW q \in Owners, q # o PROVE Queued(q)' = Queued(q) /\ count'[q] = count[q] /\ pending'[q] = pending[q]
    <3>1. pending'[q] = pending[q] /\ count'[q] = count[q]
      BY <1>2, <2>2 DEF QueueType, Put, Got
    <3>2. QED
      BY <3>1 DEF Queued
  <2>3. IsFiniteSet(Queued(o)) /\ count[o] = Cardinality(Queued(o))
    BY DEF CountExact
  <2>4. ASSUME Put(o, s)
        PROVE  /\ QueueType' /\ IsFiniteSet(Queued(o))' /\ count'[o] = Cardinality(Queued(o))'
               /\ \A r \in Sigs : IsStd(r) => pending'[o][r] <= 1
    <3>1. /\ pending' = [pending EXCEPT ![o][s] = n + 1] /\ count' = [count EXCEPT ![o] = count[o] + 1]
          /\ IsStd(s) => n = 0
      BY <2>4 DEF Put, Accepts
    <3>2. /\ QueueType' /\ pending'[o] = [pending[o] EXCEPT ![s] = n + 1] /\ count'[o] = count[o] + 1
      BY <2>0, <3>1, SMT DEF QueueType
    <3>3. Queued(o)' = Queued(o) \cup {<<s, n + 1>>} /\ <<s, n + 1>> \notin Queued(o)
      <4>1. \A e : e \in Queued(o)' <=>
                   \E r \in Sigs, i \in Nat : e = <<r, i>> /\ 1 <= i /\ i <= pending'[o][r]
        <5>1. \A r \in Sigs : pending'[o][r] \in Nat
          BY <3>2 DEF QueueType
        <5>2. \A e : e \in Queued(o)' <=> \E r \in Sigs : e \in {r} \X (1 .. pending'[o][r])
          BY DEF Queued
        <5>3. QED
          BY <5>1, <5>2, SMT
      <4>2. <<s, n + 1>> \notin Queued(o)
        BY <2>0, <2>1, SMT
      <4>3. ASSUME NEW r \in Sigs, NEW i \in Nat, 1 <= i
            PROVE  i <= pending'[o][r] <=> i <= pending[o][r] \/ (r = s /\ i = n + 1)
        BY <2>0, <3>2, SMT
      <4>4. \A e : e \in Queued(o)' <=> e \in Queued(o) \/ e = <<s, n + 1>>
        <5>1. n + 1 \in Nat /\ 1 <= n + 1
          BY <2>0, SMT
        <5>2. QED
          BY <4>1, <4>3, <2>1, <5>1
      <4>5. QED
        BY <4>2, <4>4
    <3>4. IsFiniteSet(Queued(o))' /\ Cardinality(Queued(o))' = Cardinality(Queued(o)) + 1
      BY <2>3, <3>3, FS_AddElement
    <3>5. \A r \in Sigs : IsStd(r) => pending'[o][r] <= 1
      BY <2>0, <3>1, <3>2, SMT DEF CountExact
    <3>6. QED
      BY <2>3, <3>2, <3>4, <3>5
  <2>5. ASSUME Got(o, s)
        PROVE  /\ QueueType' /\ IsFiniteSet(Queued(o))' /\ count'[o] = Cardinality(Queued(o))'
               /\ \A r \in Sigs : IsStd(r) => pending'[o][r] <= 1
    <3>0. n > 0
      BY <2>5 DEF Got, Pending
    <3>1. pending' = [pending EXCEPT ![o][s] = n - 1] /\ count' = [count EXCEPT ![o] = count[o] - 1]
      BY <2>5 DEF Got
    <3>2. /\ pending' \in [Owners -> [Sigs -> Nat]]
          /\ pending'[o] = [pending[o] EXCEPT ![s] = n - 1] /\ count'[o] = count[o] - 1
      BY <2>0, <3>0, <3>1, SMT DEF QueueType
    <3>3. Queued(o)' = Queued(o) \ {<<s, n>>} /\ <<s, n>> \in Queued(o)
      <4>1. \A e : e \in Queued(o)' <=>
                   \E r \in Sigs, i \in Nat : e = <<r, i>> /\ 1 <= i /\ i <= pending'[o][r]
        <5>1. \A r \in Sigs : pending'[o][r] \in Nat
          BY <3>2
        <5>2. \A e : e \in Queued(o)' <=> \E r \in Sigs : e \in {r} \X (1 .. pending'[o][r])
          BY DEF Queued
        <5>3. QED
          BY <5>1, <5>2, SMT
      <4>2. <<s, n>> \in Queued(o)
        BY <2>0, <2>1, <3>0, SMT
      <4>3. ASSUME NEW r \in Sigs, NEW i \in Nat, 1 <= i
            PROVE  i <= pending'[o][r] <=> i <= pending[o][r] /\ ~(r = s /\ i = n)
        BY <2>0, <3>0, <3>2, SMT
      <4>4. \A e : e \in Queued(o)' <=> e \in Queued(o) /\ e # <<s, n>>
        BY <4>1, <4>3, <2>1, SMT
      <4>5. QED
        BY <4>2, <4>4
    <3>4. /\ IsFiniteSet(Queued(o))' /\ Cardinality(Queued(o))' = Cardinality(Queued(o)) - 1
          /\ Cardinality(Queued(o))' \in Nat
      BY <2>3, <3>3, FS_RemoveElement, FS_CardinalityType, SMT
    <3>5. \A r \in Sigs : IsStd(r) => pending'[o][r] <= 1
      BY <2>0, <3>0, <3>2, SMT DEF CountExact
    <3>6. QueueType'
      BY <2>3, <3>1, <3>2, <3>4 DEF QueueType
    <3>7. QED
      BY <2>3, <3>2, <3>4, <3>5, <3>6
  <2>6. QED
    BY <1>2, <2>2, <2>4, <2>5 DEF CountExact
<1>3. QED
  BY <1>1, <1>2 DEF QueueMove

-----------------------------------------------------------------------------
(* The masks.  What a step of a thread can do to them:                     *)

ownVars == <<mask, frames, saved, base>>

\* nothing, and it stays on its side of the calls that replace the mask;
Stays(t, l) ==
    /\ UNCHANGED ownVars
    /\ pc[t] \in Restoring <=> l \in Restoring

\* sigprocmask;
Chooses(t, l) ==
    /\ \E m \in SUBSET Sigs : m \cap Unblockable \subseteq written[t] /\ SetMask(t, m)
    /\ UNCHANGED <<frames, saved>>
    /\ pc[t] \notin Restoring /\ l \notin Restoring

\* the entry of a handler;
Enters(t, l) ==
    /\ \E s \in Sigs \ Unblockable : handle_signals_by_user(t, s)
    /\ UNCHANGED <<saved, base>>
    /\ pc[t] \notin Restoring /\ l \notin Restoring

\* the return from a handler;
Leaves(t, l) ==
    /\ frames[t] # <<>>
    /\ mask' = [mask EXCEPT ![t] = frames[t][Len(frames[t])].saved]
    /\ frames' = [frames EXCEPT ![t] = SubSeq(@, 1, Len(@) - 1)]
    /\ UNCHANGED <<saved, base>>
    /\ pc[t] \notin Restoring /\ l \notin Restoring

\* the beginning of sigsuspend or of pselect6;
Replaces(t, l) ==
    /\ \E m \in SUBSET Sigs : mask' = [mask EXCEPT ![t] = m \ Unblockable]
    /\ saved' = [saved EXCEPT ![t] = mask[t]]
    /\ UNCHANGED <<frames, base>>
    /\ pc[t] \notin Restoring /\ l \in Restoring

\* and their end.
Restores(t, l) ==
    /\ mask' = [mask EXCEPT ![t] = saved[t]]
    /\ saved' = [saved EXCEPT ![t] = {}]
    /\ UNCHANGED <<frames, base>>
    /\ pc[t] \in Restoring /\ l \notin Restoring

MaskMove(t, l) ==
    /\ Goto(t, l)
    /\ \/ Stays(t, l) \/ Chooses(t, l) \/ Enters(t, l)
       \/ Leaves(t, l) \/ Replaces(t, l) \/ Restores(t, l)

\* No program makes a call of pselect6 that fails its validation: that one leaves the
\* replaced mask in place.
ValidSelects == \A calls \in Programs, t \in Threads : "pselect_invalid" \notin calls[t]

LEMMA HandleMoves ==
    ASSUME KillByDefault, NEW t \in Threads, NEW s \in Sigs, NEW again, NEW done,
           handle_signal(t, s, again, done), UNCHANGED <<saved, base>>,
           pc[t] \notin Restoring, again \notin Restoring, done \notin Restoring
    PROVE  MaskMove(t, again) \/ MaskMove(t, done) \/ MaskMove(t, "panicked")
<1>1. CASE Ignored(s) /\ Goto(t, again) /\ UNCHANGED <<mask, frames, forced>>
  BY <1>1 DEF MaskMove, Stays, ownVars
<1>2. CASE Goto(t, done) /\ UNCHANGED <<mask, frames>>
  BY <1>2 DEF MaskMove, Stays, ownVars
<1>3. CASE disposition[s] = "user" /\ handle_signals_by_user(t, s) /\ Goto(t, done)
  <2>1. s \in Sigs \ Unblockable
    BY <1>3 DEF KillByDefault
  <2>2. QED
    BY <1>3, <2>1 DEF MaskMove, Enters
<1>4. CASE Goto(t, "panicked") /\ UNCHANGED <<mask, frames, forced>>
  BY <1>4 DEF MaskMove, Stays, ownVars, Restoring
<1>5. QED
  BY <1>1, <1>2, <1>3, <1>4 DEF handle_signal

LEMMA KernelMasks ==
    ASSUME KillByDefault, NEW t \in Threads, Kernel(t)
    PROVE  \E l \in Labels : MaskMove(t, l)
<1>0. /\ "deliver" \in Labels /\ "sysret" \in Labels /\ "panicked" \in Labels
      /\ "deliver" \notin Restoring /\ "sysret" \notin Restoring
  BY DEF Labels, Idle, Restoring
<1>1. ASSUME deliver_signal(t) PROVE \E l \in Labels : MaskMove(t, l)
  <2>1. pc[t] \notin Restoring /\ UNCHANGED <<saved, base>>
    BY <1>1 DEF deliver_signal, waiterVars, Restoring
  <2>2. CASE \E s \in Sigs : handle_signal(t, s, "deliver", "sysret")
    BY <2>1, <2>2, <1>0, HandleMoves
  <2>3. ASSUME NEW l \in {"deliver_thread", "sysret"}, Goto(t, l), UNCHANGED <<mask, frames>>
        PROVE  \E k \in Labels : MaskMove(t, k)
    <3>1. l \in Labels /\ l \notin Restoring
      BY DEF Labels, Idle, Restoring
    <3>2. QED
      BY <3>1, <2>1, <2>3 DEF MaskMove, Stays, ownVars
  <2>4. QED
    BY <1>1, <2>2, <2>3 DEF deliver_signal
<1>2. ASSUME deliver_thread_signal(t) PROVE \E l \in Labels : MaskMove(t, l)
  <2>1. pc[t] \notin Restoring /\ UNCHANGED <<saved, base>>
    BY <1>2 DEF deliver_thread_signal, waiterVars, Restoring
  <2>2. CASE \E s \in Sigs : handle_signal(t, s, "deliver", "sysret")
    BY <2>1, <2>2, <1>0, HandleMoves
  <2>3. CASE Goto(t, "sysret") /\ UNCHANGED <<mask, frames>>
    BY <2>1, <2>3, <1>0 DEF MaskMove, Stays, ownVars
  <2>4. QED
    BY <1>2, <2>2, <2>3 DEF deliver_thread_signal
<1>3. ASSUME sysret(t) PROVE \E l \in Labels : MaskMove(t, l)
  <2>1. \E l \in {"stopped", "exited", "user"} : Goto(t, l)
    BY <1>3 DEF sysret
  <2>2. UNCHANGED ownVars /\ pc[t] = "sysret"
    BY <1>3 DEF sysret, ownVars, waiterVars
  <2>3. QED
    BY <2>1, <2>2 DEF MaskMove, Stays, Labels, Idle, Restoring
<1>4. ASSUME SelectReturns(t) \/ SuspendDone(t) PROVE \E l \in Labels : MaskMove(t, l)
  <2>1. Goto(t, "deliver") /\ Restores(t, "deliver")
    BY <1>4 DEF SelectReturns, SuspendDone, Restores, Restoring
  <2>2. QED
    BY <2>1, <1>0 DEF MaskMove
<1>5. ASSUME NEW from, NEW l, Goto(t, l), pc[t] = from, UNCHANGED ownVars, l \in Labels,
             from \in Restoring <=> l \in Restoring
      PROVE  \E k \in Labels : MaskMove(t, k)
  BY <1>5 DEF MaskMove, Stays
<1>6. ASSUME NEW here \in {"wait_try", "wait_last"}, NEW thread \in {"wait_try_thread", "wait_last_thread"},
             NEW none \in SUBSET {"wait_enqueue", "wait_done"},
             dequeue_pending_signal(t, here, thread, none)
      PROVE  \E l \in Labels : MaskMove(t, l)
  <2>1. UNCHANGED ownVars
    BY <1>6 DEF dequeue_pending_signal, ownVars, maskVars, waiterVars
  <2>2. PICK l \in {"wait_done", "wait_enqueue", "wait_try_thread", "wait_last_thread"} : Goto(t, l)
    BY <1>6 DEF dequeue_pending_signal
  <2>3. pc[t] = here \/ pc[t] = thread
    BY <1>6 DEF dequeue_pending_signal
  <2>4. l \in Labels /\ l \notin Restoring /\ pc[t] \notin Restoring
    BY <2>3 DEF Labels, Idle, Restoring
  <2>5. QED
    BY <2>1, <2>2, <2>4, <1>5
<1>7. ASSUME WaitTry(t) \/ WaitLast(t) PROVE \E l \in Labels : MaskMove(t, l)
  BY <1>6, <1>7 DEF WaitTry, WaitLast
<1>8. ASSUME reset_and_enqueue(t) PROVE \E l \in Labels : MaskMove(t, l)
  <2>1. UNCHANGED ownVars
    BY <1>8 DEF reset_and_enqueue, ownVars, maskVars
  <2>2. CASE pc[t] = "wait_enqueue" /\ Goto(t, "wait_sleep")
    BY <2>1, <2>2, <1>5 DEF Labels, Idle, Restoring
  <2>3. CASE pc[t] = "suspend_enqueue" /\ Goto(t, "suspend_sleep")
    BY <2>1, <2>3, <1>5 DEF Labels, Idle, Restoring
  <2>4. QED
    BY <1>8, <2>2, <2>3 DEF reset_and_enqueue
<1>9. ASSUME \/ WaitWoken(t) \/ WaitTimesOut(t) \/ WaitDone(t) \/ do_handle_interrupt(t)
             \/ Resume(t) \/ vfork_stop_all_child_thread(t)
      PROVE  \E l \in Labels : MaskMove(t, l)
  <2>1. UNCHANGED ownVars
    BY <1>9 DEF WaitWoken, WaitTimesOut, WaitDone, do_handle_interrupt, Resume,
                vfork_stop_all_child_thread, ownVars, maskVars, waiterVars
  <2>2. pc[t] \notin Restoring
    BY <1>9 DEF WaitWoken, WaitTimesOut, WaitDone, do_handle_interrupt, Resume,
                vfork_stop_all_child_thread, Restoring
  <2>3. PICK l \in {"wait_try", "wait_last", "deliver", "exited", "user"} : Goto(t, l)
    BY <1>9 DEF WaitWoken, WaitTimesOut, WaitDone, do_handle_interrupt, Resume,
                vfork_stop_all_child_thread
  <2>4. l \in Labels /\ l \notin Restoring
    BY DEF Labels, Idle, Restoring
  <2>5. QED
    BY <2>1, <2>2, <2>3, <2>4, <1>5
<1>10. ASSUME SuspendCheck(t) \/ SuspendSleep(t) PROVE \E l \in Labels : MaskMove(t, l)
  <2>1. UNCHANGED ownVars /\ pc[t] \in Restoring
    BY <1>10 DEF SuspendCheck, SuspendSleep, ownVars, maskVars, waiterVars, Restoring
  <2>2. PICK l \in {"suspend_done", "suspend_enqueue", "suspend_check"} : Goto(t, l)
    BY <1>10 DEF SuspendCheck, SuspendSleep
  <2>3. l \in Labels /\ l \in Restoring
    BY DEF Labels, Idle, Restoring
  <2>4. QED
    BY <2>1, <2>2, <2>3, <1>5
<1>11. QED
  BY <1>1, <1>2, <1>3, <1>4, <1>7, <1>8, <1>9, <1>10 DEF Kernel

LEMMA ProgramMasks ==
    ASSUME TypeOK, KillBlockedOnlyByUcontext, KillByDefault, ValidSelects, NEW t \in Threads, Program(t)
    PROVE  \E l \in Labels : MaskMove(t, l)
<1>0. /\ "deliver" \in Labels /\ "deliver" \notin Restoring /\ "user" \notin Restoring
      /\ "wait_try" \in Labels /\ "wait_try" \notin Restoring
      /\ "select" \in Labels /\ "select" \in Restoring
      /\ "suspend_check" \in Labels /\ "suspend_check" \in Restoring
      /\ "panicked" \in Labels /\ "wait4" \in Labels
  BY DEF Labels, Idle, Restoring
<1>1. ASSUME do_rt_sigreturn(t) PROVE MaskMove(t, "deliver")
  <2>1. pc[t] = "user" /\ Goto(t, "deliver") /\ UNCHANGED <<saved, base>>
    BY <1>1 DEF do_rt_sigreturn, waiterVars
  <2>2. CASE UNCHANGED <<mask, frames>>
    BY <2>1, <2>2, <1>0 DEF MaskMove, Stays, ownVars
  <2>3. CASE /\ frames[t] # <<>>
             /\ mask' = [mask EXCEPT ![t] = frames[t][Len(frames[t])].saved]
             /\ frames' = [frames EXCEPT ![t] = SubSeq(@, 1, Len(@) - 1)]
    BY <2>1, <2>3, <1>0 DEF MaskMove, Leaves
  <2>4. QED
    BY <1>1, <2>2, <2>3 DEF do_rt_sigreturn
<1>2. ASSUME NEW m \in Masks, do_rt_sigprocmask(t, m) PROVE MaskMove(t, "deliver")
  <2> DEFINE set == m \ Unblockable
  <2>1. pc[t] = "user" /\ Goto(t, "deliver") /\ UNCHANGED <<frames, saved>>
    BY <1>2 DEF do_rt_sigprocmask, waiterVars
  <2>2. /\ set \in SUBSET Sigs /\ mask[t] \in SUBSET Sigs /\ mask[t] \cap Unblockable \subseteq written[t]
        /\ set \cap Unblockable = {}
    BY SetsAssumption DEF TypeOK, KillBlockedOnlyByUcontext
  <2>3. \/ SetMask(t, mask[t] \cup set)
        \/ SetMask(t, mask[t] \ set)
        \/ SetMask(t, set)
    BY <1>2 DEF do_rt_sigprocmask
  <2> HIDE DEF set
  <2>4. \E n \in SUBSET Sigs : n \cap Unblockable \subseteq written[t] /\ SetMask(t, n)
    <3>1. /\ mask[t] \cup set \in SUBSET Sigs /\ (mask[t] \cup set) \cap Unblockable \subseteq written[t]
          /\ mask[t] \ set \in SUBSET Sigs /\ (mask[t] \ set) \cap Unblockable \subseteq written[t]
          /\ set \cap Unblockable \subseteq written[t]
      BY <2>2
    <3>2. QED
      BY <2>2, <2>3, <3>1, Zenon
  <2>5. QED
    BY <2>1, <2>4, <1>0 DEF MaskMove, Chooses
<1>3. ASSUME NEW m \in Masks, do_sigtimedwait(t, m) PROVE MaskMove(t, "wait_try")
  BY <1>0, <1>3 DEF do_sigtimedwait, MaskMove, Stays, ownVars, maskVars
<1>4. ASSUME NEW m \in Masks, do_sigsuspend(t, m) PROVE MaskMove(t, "suspend_check")
  <2>1. m \in SUBSET Sigs
    BY SetsAssumption
  <2>2. QED
    BY <2>1, <1>0, <1>4 DEF do_sigsuspend, MaskMove, Replaces
<1>5. ASSUME NEW m \in Masks, NEW valid \in BOOLEAN, do_pselect6(t, m, valid) PROVE MaskMove(t, "select")
  <2>1. m \in SUBSET Sigs
    BY SetsAssumption
  <2>2. valid
    <3>1. program \in Programs
      BY DEF TypeOK
    <3>2. "pselect_invalid" \notin program[t]
      BY <3>1 DEF ValidSelects
    <3>3. QED
      BY <3>2, <1>5 DEF do_pselect6
  <2>3. /\ pc[t] = "user" /\ mask' = [mask EXCEPT ![t] = m \ Unblockable]
        /\ saved' = [saved EXCEPT ![t] = mask[t]] /\ UNCHANGED <<frames, base>>
        /\ Goto(t, "select")
    BY <2>2, <1>5 DEF do_pselect6
  <2>4. QED
    BY <2>1, <2>3, <1>0 DEF MaskMove, Replaces
<1>6. ASSUME NEW s \in Sigs, NEW action, do_rt_sigaction(t, s, action) PROVE MaskMove(t, "deliver")
  BY <1>0, <1>6 DEF do_rt_sigaction, MaskMove, Stays, ownVars, maskVars, waiterVars
<1>7. ASSUME NEW s \in Sigs, force_signal(t, s) PROVE MaskMove(t, "deliver") \/ MaskMove(t, "panicked")
  <2>1. pc[t] = "user" /\ handle_signal(t, s, "deliver", "deliver") /\ UNCHANGED <<saved, base>>
    BY <1>7 DEF force_signal, waiterVars
  <2>2. QED
    BY <2>1, <1>0, HandleMoves
<1>8. ASSUME do_wait4(t) PROVE MaskMove(t, "wait4") \/ MaskMove(t, "deliver")
  BY <1>8 DEF do_wait4, MaskMove, Stays, ownVars, maskVars, waiterVars, Restoring
<1>9. QED
  BY <1>0, <1>1, <1>2, <1>3, <1>4, <1>5, <1>6, <1>7, <1>8 DEF Program

\* A sender moves no thread.
LEMMA SendersMove ==
    ASSUME NEW s \in Sigs, do_kill(s) \/ \E t \in Threads : do_tgkill(t, s)
    PROVE  UNCHANGED <<ownVars, pc>>
BY DEF do_kill, do_tgkill, enqueue, ownVars, maskVars

\* What the masks owe the program, and SIGKILL's place outside of them, survive a move.
LEMMA MaskStep ==
    ASSUME TypeOK, MaskOwed, KillBlockedOnlyByUcontext, NEW t \in Threads, NEW l \in Labels, MaskMove(t, l),
           written' = written
    PROVE  MaskType' /\ MaskOwed' /\ KillBlockedOnlyByUcontext'
<1> DEFINE Good(u) ==
               /\ mask'[u] \in SUBSET Sigs /\ saved'[u] \in SUBSET Sigs /\ base'[u] \in SUBSET Sigs
               /\ frames'[u] \in Seq(Frame)
               /\ IF frames'[u] = <<>> THEN (IF pc'[u] \in Restoring THEN saved'[u] ELSE mask'[u]) = base'[u]
                  ELSE frames'[u][1].saved = base'[u]
               /\ (mask'[u] \cup saved'[u] \cup base'[u]) \cap Unblockable \subseteq written[u]
               /\ \A i \in 1 .. Len(frames'[u]) : frames'[u][i].saved \cap Unblockable \subseteq written[u]
<1>1. /\ mask \in [Threads -> SUBSET Sigs] /\ saved \in [Threads -> SUBSET Sigs]
      /\ base \in [Threads -> SUBSET Sigs] /\ frames \in [Threads -> Seq(Frame)]
      /\ pc \in [Threads -> Labels]
  BY TypeParts DEF MaskType, WaiterType
<1>2. pc' = [pc EXCEPT ![t] = l] /\ pc'[t] = l
  BY <1>1 DEF MaskMove, Goto
<1>3. \A u \in Threads :
          /\ IF frames[u] = <<>> THEN (IF pc[u] \in Restoring THEN saved[u] ELSE mask[u]) = base[u]
             ELSE frames[u][1].saved = base[u]
          /\ (mask[u] \cup saved[u] \cup base[u]) \cap Unblockable \subseteq written[u]
          /\ \A i \in 1 .. Len(frames[u]) : frames[u][i].saved \cap Unblockable \subseteq written[u]
  BY DEF MaskOwed, OwnMask, KillBlockedOnlyByUcontext
<1>4. ASSUME NEW u \in Threads, u # t PROVE Good(u)
  <2>1. pc'[u] = pc[u]
    BY <1>1, <1>2, <1>4
  <2>2. mask'[u] = mask[u] /\ saved'[u] = saved[u] /\ base'[u] = base[u] /\ frames'[u] = frames[u]
    BY <1>1, <1>4 DEF MaskMove, Stays, Chooses, Enters, Leaves, Replaces, Restores, ownVars,
                      SetMask, handle_signals_by_user
  <2>3. QED
    BY <1>1, <1>3, <2>1, <2>2
<1>5. ASSUME Stays(t, l) PROVE Good(t)
  <2>1. mask' = mask /\ saved' = saved /\ base' = base /\ frames' = frames
    BY <1>5 DEF Stays, ownVars
  <2>2. QED
    BY <1>1, <1>2, <1>3, <1>5, <2>1 DEF Stays
<1>6. ASSUME Chooses(t, l) PROVE Good(t)
  <2>1. PICK m \in SUBSET Sigs : m \cap Unblockable \subseteq written[t] /\ SetMask(t, m)
    BY <1>6 DEF Chooses
  <2>2. frames' = frames /\ saved' = saved /\ l \notin Restoring
    BY <1>6 DEF Chooses
  <2>3. mask'[t] = m /\ base'[t] = IF frames[t] = <<>> THEN m ELSE base[t]
    BY <2>1, <1>1 DEF SetMask
  <2>4. QED
    BY <1>1, <1>2, <1>3, <2>1, <2>2, <2>3
<1>7. ASSUME Enters(t, l) PROVE Good(t)
  <2>1. PICK s \in Sigs \ Unblockable : handle_signals_by_user(t, s)
    BY <1>7 DEF Enters
  <2> DEFINE f == [sig |-> s, saved |-> mask[t]]
             new == SaMask(s) \cup ({s} \ NoDefer)
  <2>2. f \in Frame /\ f.saved = mask[t]
    BY <1>1 DEF Frame
  <2>3. new \in SUBSET Sigs /\ new \cap Unblockable = {}
    BY SetsAssumption DEF SaMask
  <2>4. mask'[t] = new /\ frames'[t] = Append(frames[t], f)
    BY <2>1, <1>1 DEF handle_signals_by_user
  <2>5. saved' = saved /\ base' = base /\ pc[t] \notin Restoring /\ l \notin Restoring
    BY <1>7 DEF Enters
  <2> HIDE DEF f, new
  <2>6. /\ Append(frames[t], f) \in Seq(Frame) /\ Append(frames[t], f) # <<>>
        /\ Len(Append(frames[t], f)) = Len(frames[t]) + 1 /\ Len(frames[t]) \in Nat
        /\ \A i \in 1 .. Len(frames[t]) : Append(frames[t], f)[i] = frames[t][i]
        /\ Append(frames[t], f)[Len(frames[t]) + 1] = f
    BY <1>1, <2>2, AppendProperties, LenProperties, SMT
  <2>7. frames'[t][1].saved = base'[t]
    <3>1. CASE frames[t] = <<>>
      <4>1. Len(frames[t]) = 0
        BY <3>1, SMT
      <4>2. QED
        BY <4>1, <3>1, <2>2, <2>4, <2>5, <2>6, <1>3, SMT
    <3>2. CASE frames[t] # <<>>
      <4>1. 1 \in 1 .. Len(frames[t])
        BY <3>2, <1>1, <2>6, EmptySeq, SMT
      <4>2. QED
        BY <4>1, <3>2, <2>4, <2>5, <2>6, <1>3
    <3>3. QED
      BY <3>1, <3>2
  <2>8. \A i \in 1 .. Len(frames'[t]) : frames'[t][i].saved \cap Unblockable \subseteq written[t]
    <3> SUFFICES ASSUME NEW i \in 1 .. Len(frames'[t]) PROVE frames'[t][i].saved \cap Unblockable \subseteq written[t]
      OBVIOUS
    <3>1. CASE i = Len(frames[t]) + 1
      BY <3>1, <2>2, <2>4, <2>6, <1>3
    <3>2. CASE i # Len(frames[t]) + 1
      <4>1. i \in 1 .. Len(frames[t])
        BY <3>2, <2>4, <2>6, SMT
      <4>2. QED
        BY <4>1, <2>4, <2>6, <1>3
    <3>3. QED
      BY <3>1, <3>2
  <2>9. frames'[t] # <<>>
    BY <2>4, <2>6
  <2>10. QED
    BY <1>1, <1>2, <1>3, <2>3, <2>4, <2>5, <2>6, <2>7, <2>8, <2>9
<1>8. ASSUME Leaves(t, l) PROVE Good(t)
  <2> DEFINE n == Len(frames[t])
             rest == SubSeq(frames[t], 1, n - 1)
  <2>1. /\ frames[t] # <<>> /\ mask'[t] = frames[t][n].saved /\ frames'[t] = rest
        /\ saved' = saved /\ base' = base /\ pc[t] \notin Restoring /\ l \notin Restoring
    BY <1>1, <1>8 DEF Leaves
  <2>2. n \in Nat /\ n >= 1 /\ n \in 1 .. n /\ frames[t] \in Seq(Frame) /\ 1 \in 1 .. n
    BY <1>1, <2>1, LenProperties, EmptySeq, SMT
  <2>3. /\ rest \in Seq(Frame) /\ Len(rest) = n - 1
        /\ \A i \in 1 .. n - 1 : rest[i] = frames[t][i]
    BY <2>2, SubSeqProperties, SMT
  <2>4. frames[t][n] \in Frame /\ frames[t][n].saved \in SUBSET Sigs
    <3>1. frames[t][n] \in Frame
      BY <2>2, ElementOfSeq
    <3>2. QED
      BY <3>1 DEF Frame
  <2>5. frames[t][n].saved \cap Unblockable \subseteq written[t] /\ frames[t][1].saved = base[t]
    BY <1>3, <2>1, <2>2
  <2> HIDE DEF rest, n
  <2>6. rest = <<>> => n = 1
    <3>1. rest = <<>> => Len(rest) = 0
      BY EmptySeq
    <3>2. QED
      BY <2>2, <2>3, <3>1, SMT
  <2>7. rest # <<>> => n # 1
    <3>1. rest # <<>> => Len(rest) \in Nat \ {0}
      BY <2>3, EmptySeq
    <3>2. QED
      BY <2>2, <2>3, <3>1, SMT
  <2>8. \A i \in 1 .. Len(frames'[t]) : frames'[t][i].saved \cap Unblockable \subseteq written[t]
    <3> SUFFICES ASSUME NEW i \in 1 .. Len(frames'[t]) PROVE frames'[t][i].saved \cap Unblockable \subseteq written[t]
      OBVIOUS
    <3>1. i \in 1 .. n - 1 /\ i \in 1 .. n
      BY <2>1, <2>2, <2>3, SMT
    <3>2. QED
      BY <3>1, <2>1, <2>3, <1>3 DEF n
  <2>9. IF frames'[t] = <<>> THEN mask'[t] = base'[t] ELSE frames'[t][1].saved = base'[t]
    <3>1. CASE rest = <<>>
      BY <3>1, <2>1, <2>5, <2>6
    <3>2. CASE rest # <<>>
      <4>1. 1 \in 1 .. n - 1
        BY <3>2, <2>2, <2>7, SMT
      <4>2. QED
        BY <4>1, <3>2, <2>1, <2>3, <2>5
    <3>3. QED
      BY <3>1, <3>2
  <2>10. QED
    BY <1>1, <1>2, <1>3, <2>1, <2>3, <2>4, <2>5, <2>8, <2>9
<1>9. ASSUME Replaces(t, l) PROVE Good(t)
  <2>1. PICK m \in SUBSET Sigs : mask' = [mask EXCEPT ![t] = m \ Unblockable]
    BY <1>9 DEF Replaces
  <2>2. /\ mask'[t] = m \ Unblockable /\ saved'[t] = mask[t] /\ frames' = frames /\ base' = base
        /\ pc[t] \notin Restoring /\ l \in Restoring
    BY <1>1, <1>9, <2>1 DEF Replaces
  <2>3. QED
    BY <1>1, <1>2, <1>3, <2>2
<1>10. ASSUME Restores(t, l) PROVE Good(t)
  <2>1. /\ mask'[t] = saved[t] /\ saved'[t] = {} /\ frames' = frames /\ base' = base
        /\ pc[t] \in Restoring /\ l \notin Restoring
    BY <1>1, <1>10 DEF Restores
  <2>2. QED
    BY <1>1, <1>2, <1>3, <2>1
<1>11. \A u \in Threads : Good(u)
  BY <1>4, <1>5, <1>6, <1>7, <1>8, <1>9, <1>10 DEF MaskMove
<1>12. /\ mask' = [u \in Threads |-> mask'[u]] /\ saved' = [u \in Threads |-> saved'[u]]
       /\ base' = [u \in Threads |-> base'[u]] /\ frames' = [u \in Threads |-> frames'[u]]
  BY <1>1 DEF MaskMove, Stays, Chooses, Enters, Leaves, Replaces, Restores, ownVars,
              SetMask, handle_signals_by_user
<1>13. MaskType'
  BY <1>11, <1>12, TypeParts DEF MaskType
<1>14. QED
  BY <1>11, <1>13 DEF MaskOwed, OwnMask, KillBlockedOnlyByUcontext

\* So they do when the program writes into a ucontext_t of its own.
LEMMA WriteStep ==
    ASSUME TypeOK, MaskOwed, KillBlockedOnlyByUcontext,
           NEW t \in Threads, NEW m \in Masks, NEW j \in 1 .. Len(frames[t]), WriteUcontext(t, j, m)
    PROVE  MaskType' /\ MaskOwed' /\ KillBlockedOnlyByUcontext' /\ WaiterType'
<1>1. /\ mask \in [Threads -> SUBSET Sigs] /\ saved \in [Threads -> SUBSET Sigs]
      /\ base \in [Threads -> SUBSET Sigs] /\ frames \in [Threads -> Seq(Frame)]
      /\ written \in [Threads -> SUBSET Sigs] /\ m \in SUBSET Sigs /\ WaiterType
  BY TypeParts, SetsAssumption DEF MaskType
<1>2. /\ mask' = mask /\ saved' = saved /\ pc' = pc /\ tmp' = tmp /\ interest' = interest
      /\ observing' = observing /\ enqueued' = enqueued /\ isWoken' = isWoken
      /\ base' = IF j = 1 THEN [base EXCEPT ![t] = m] ELSE base
      /\ written' = [written EXCEPT ![t] = written[t] \cup m]
      /\ frames' = [frames EXCEPT ![t] = [frames[t] EXCEPT ![j] = [frames[t][j] EXCEPT !.saved = m]]]
  BY DEF WriteUcontext, waiterVars
<1>3. /\ frames[t] \in Seq(Frame) /\ Len(frames[t]) \in Nat /\ DOMAIN frames[t] = 1 .. Len(frames[t])
      /\ frames[t][j] \in Frame
  BY <1>1, LenProperties, ElementOfSeq
<1> DEFINE g == [frames[t][j] EXCEPT !.saved = m]
           fs == [frames[t] EXCEPT ![j] = g]
<1>4. g \in Frame /\ g.saved = m
  BY <1>1, <1>3 DEF Frame
<1> HIDE DEF g
<1>5. /\ fs \in Seq(Frame) /\ Len(fs) = Len(frames[t]) /\ fs # <<>> /\ frames[t] # <<>>
      /\ \A i \in 1 .. Len(frames[t]) : fs[i] = IF i = j THEN g ELSE frames[t][i]
  <2>1. fs \in Seq(Frame) /\ Len(fs) = Len(frames[t])
    <3>1. [frames[t] EXCEPT ![j] = g] \in Seq(Frame) /\ Len([frames[t] EXCEPT ![j] = g]) = Len(frames[t])
      BY <1>3, <1>4, ExceptSeq, SMT
    <3>2. QED
      BY <3>1, Zenon DEF fs
  <2>2. Len(frames[t]) # 0
    BY <1>3, SMT
  <2>3. QED
    BY <1>3, <2>1, <2>2, EmptySeq
<1>6. frames' = [frames EXCEPT ![t] = fs]
  BY <1>2 DEF g
<1> HIDE DEF fs
<1>7. frames'[t] = fs /\ \A u \in Threads \ {t} : frames'[u] = frames[u] /\ base'[u] = base[u] /\ written'[u] = written[u]
  BY <1>1, <1>2, <1>6
<1>8. base'[t] = (IF j = 1 THEN m ELSE base[t]) /\ written'[t] = written[t] \cup m
  BY <1>1, <1>2
<1>9. MaskType'
  BY <1>1, <1>2, <1>5, <1>6, <1>8 DEF MaskType
<1>10. MaskOwed'
  <2>1. 1 \in 1 .. Len(frames[t])
    BY <1>3, SMT
  <2>2. fs[1].saved = base'[t]
    <3>1. CASE j = 1
      BY <3>1, <2>1, <1>4, <1>5, <1>8
    <3>2. CASE j # 1
      BY <3>2, <2>1, <1>5, <1>8 DEF MaskOwed
    <3>3. QED
      BY <3>1, <3>2
  <2>3. QED
    BY <2>2, <1>2, <1>5, <1>7 DEF MaskOwed, OwnMask
<1>11. KillBlockedOnlyByUcontext'
  <2>1. ASSUME NEW u \in Threads, u # t
        PROVE  /\ (mask'[u] \cup saved'[u] \cup base'[u]) \cap Unblockable \subseteq written'[u]
               /\ \A i \in 1 .. Len(frames'[u]) : frames'[u][i].saved \cap Unblockable \subseteq written'[u]
    BY <2>1, <1>2, <1>7 DEF KillBlockedOnlyByUcontext
  <2>2. (mask'[t] \cup saved'[t] \cup base'[t]) \cap Unblockable \subseteq written'[t]
    BY <1>2, <1>8 DEF KillBlockedOnlyByUcontext
  <2>3. ASSUME NEW i \in 1 .. Len(frames[t]) PROVE fs[i].saved \cap Unblockable \subseteq written'[t]
    <3>1. CASE i = j
      BY <3>1, <1>4, <1>5, <1>8
    <3>2. CASE i # j
      BY <3>2, <1>5, <1>8 DEF KillBlockedOnlyByUcontext
    <3>3. QED
      BY <3>1, <3>2
  <2>4. QED
    BY <2>1, <2>2, <2>3, <1>5, <1>7 DEF KillBlockedOnlyByUcontext
<1>12. WaiterType'
  BY <1>1, <1>2 DEF WaiterType
<1>13. QED
  BY <1>9, <1>10, <1>11, <1>12

-----------------------------------------------------------------------------
(* The rest of the state.                                                  *)

\* The dispositions of SIGKILL and SIGSTOP are never changed.
LEMMA OtherStep ==
    ASSUME OtherType, KillByDefault, Next
    PROVE  OtherType' /\ KillByDefault'
<1> DEFINE Kept == disposition' = disposition /\ sent' \in 0 .. MaxSent
<1>1. sent \in 0 .. MaxSent /\ forced \in BOOLEAN /\ disposition \in [Sigs -> {"dfl", "ign", "user"}]
  BY DEF OtherType
<1>2. ASSUME NEW o, NEW s, enqueue(o, s) PROVE Kept /\ forced' = forced
  BY <1>1, <1>2, NumbersAssumption, SMT DEF enqueue
<1>3. ASSUME NEW t, NEW s, NEW a, NEW b, handle_signal(t, s, a, b) PROVE forced' \in BOOLEAN
  BY <1>1, <1>3 DEF handle_signal
<1>4. ASSUME NEW t \in Threads, Kernel(t) PROVE Kept /\ forced' \in BOOLEAN
  <2>1. ASSUME deliver_signal(t) \/ deliver_thread_signal(t) PROVE Kept /\ forced' \in BOOLEAN
    BY <1>1, <1>3, <2>1 DEF deliver_signal, deliver_thread_signal
  <2>2. ASSUME \/ sysret(t) \/ SelectReturns(t) \/ reset_and_enqueue(t) \/ WaitWoken(t) \/ WaitTimesOut(t)
               \/ WaitDone(t) \/ SuspendCheck(t) \/ SuspendSleep(t) \/ SuspendDone(t)
               \/ do_handle_interrupt(t) \/ WaitTry(t) \/ WaitLast(t)
               \/ Resume(t) \/ vfork_stop_all_child_thread(t)
        PROVE  Kept /\ forced' \in BOOLEAN
    BY <1>1, <2>2 DEF Resume, vfork_stop_all_child_thread, sysret, SelectReturns, reset_and_enqueue, WaitWoken, WaitTimesOut,
                WaitDone, SuspendCheck, SuspendSleep, SuspendDone, do_handle_interrupt,
                WaitTry, WaitLast, dequeue_pending_signal
  <2>3. QED
    BY <1>4, <2>1, <2>2 DEF Kernel
<1>5. ASSUME NEW t \in Threads, Program(t)
      PROVE  /\ forced' \in BOOLEAN /\ sent' \in 0 .. MaxSent
             /\ \/ disposition' = disposition
                \/ \E s \in Sigs, action \in {"dfl", "ign", "user"} :
                      disposition' = IF s \in Unblockable THEN disposition
                                     ELSE [disposition EXCEPT ![s] = action]
  <2>1. ASSUME NEW s \in Sigs, force_signal(t, s) PROVE Kept /\ forced' \in BOOLEAN
    <3>1. sent < MaxSent /\ sent' = sent + 1 /\ disposition' = disposition
      BY <2>1 DEF force_signal
    <3>2. handle_signal(t, s, "deliver", "deliver")
      BY <2>1 DEF force_signal
    <3>3. sent' \in 0 .. MaxSent
      BY <1>1, <3>1, NumbersAssumption, SMT
    <3>4. QED
      BY <3>1, <3>2, <3>3, <1>3
  <2>2. ASSUME NEW m, do_rt_sigprocmask(t, m) \/ do_sigtimedwait(t, m) \/ do_sigsuspend(t, m)
                      \/ \E valid \in BOOLEAN : do_pselect6(t, m, valid)
        PROVE  Kept /\ forced' \in BOOLEAN
    BY <1>1, <2>2 DEF do_rt_sigprocmask, do_sigtimedwait, do_sigsuspend, do_pselect6
  <2>3. ASSUME do_rt_sigreturn(t) \/ do_wait4(t) PROVE Kept /\ forced' \in BOOLEAN
    BY <1>1, <2>3 DEF do_rt_sigreturn, do_wait4
  <2>4. ASSUME NEW s \in Sigs, NEW action \in {"dfl", "ign", "user"}, do_rt_sigaction(t, s, action)
        PROVE  /\ forced' \in BOOLEAN /\ sent' \in 0 .. MaxSent
               /\ disposition' = IF s \in Unblockable THEN disposition
                                 ELSE [disposition EXCEPT ![s] = action]
    BY <1>1, <2>4 DEF do_rt_sigaction
  <2>5. QED
    BY <1>5, <2>1, <2>2, <2>3, <2>4 DEF Program
<1>6. ASSUME NEW s \in Sigs, do_kill(s) \/ \E t \in Threads : do_tgkill(t, s)
      PROVE  Kept /\ forced' \in BOOLEAN
  BY <1>1, <1>2, <1>6 DEF do_kill, do_tgkill
<1>7. program' = program /\ vforking' \in SUBSET Threads
  BY DEF Next, do_vfork, vfork_return_to_parent, OtherType
<1>8. ASSUME NEW t \in Threads,
              \/ do_vfork(t) \/ vfork_return_to_parent(t)
              \/ \E m \in Masks : \E i \in 1 .. Len(frames[t]) : WriteUcontext(t, i, m)
       PROVE  Kept /\ forced' \in BOOLEAN
  BY <1>1, <1>8 DEF do_vfork, vfork_return_to_parent, WriteUcontext
<1>9. ASSUME forced' \in BOOLEAN, sent' \in 0 .. MaxSent, disposition' = disposition
      PROVE  OtherType' /\ KillByDefault'
  BY <1>1, <1>7, <1>9 DEF OtherType, KillByDefault
<1>10. ASSUME forced' \in BOOLEAN, sent' \in 0 .. MaxSent,
             NEW s \in Sigs, NEW action \in {"dfl", "ign", "user"},
             disposition' = IF s \in Unblockable THEN disposition ELSE [disposition EXCEPT ![s] = action]
      PROVE  OtherType' /\ KillByDefault'
  <2>1. CASE s \in Unblockable
    BY <2>1, <1>9, <1>10
  <2>2. CASE s \notin Unblockable
    <3>1. disposition' = [disposition EXCEPT ![s] = action]
      BY <2>2, <1>10
    <3>2. \A r \in Unblockable : r \in Sigs /\ r # s
      BY <2>2, SetsAssumption
    <3>3. KillByDefault'
      BY <3>1, <3>2, <1>1 DEF KillByDefault
    <3>4. QED
      BY <3>1, <3>3, <1>1, <1>7, <1>10 DEF OtherType
  <2>3. QED
    BY <2>1, <2>2
<1>11. QED
  BY <1>4, <1>5, <1>6, <1>9, <1>10, <1>8 DEF Next

\* A step to a label on the same side of the waits, not to user mode.
LEMMA WaiterStays ==
    ASSUME WaiterType, NEW t \in Threads, NEW l \in Labels, Goto(t, l),
           l \notin {"user", "stopped"}, UNCHANGED <<interest, observing, enqueued, isWoken>>,
           tmp' = tmp \/ tmp' = [tmp EXCEPT ![t] = Sigs],
           pc[t] \in Idle <=> l \in Idle
    PROVE  WaiterType'
BY DEF WaiterType, Goto, Idle

LEMMA KernelWaiter ==
    ASSUME WaiterType, NEW t \in Threads, Kernel(t)
    PROVE  WaiterType'
<1>0. /\ pc \in [Threads -> Labels] /\ tmp \in [Threads -> SUBSET Sigs]
      /\ interest \in [Threads -> SUBSET Sigs] /\ observing \in [Threads -> BOOLEAN]
      /\ enqueued \in [Threads -> BOOLEAN] /\ isWoken \in [Threads -> BOOLEAN]
      /\ \A u \in Threads : /\ observing[u] <=> pc[u] \notin Idle
                            /\ enqueued[u] => observing[u]
                            /\ pc[u] \in {"user", "stopped"} => tmp[u] = {}
  BY DEF WaiterType, Idle
<1>1. ASSUME deliver_signal(t) \/ deliver_thread_signal(t) PROVE WaiterType'
  <2>1. UNCHANGED <<interest, observing, enqueued, isWoken>> /\ tmp' = tmp /\ pc[t] \in Idle
    BY <1>1 DEF deliver_signal, deliver_thread_signal, waiterVars, Idle
  <2>2. \E l \in {"deliver", "deliver_thread", "sysret", "panicked"} : Goto(t, l)
    BY <1>1 DEF deliver_signal, deliver_thread_signal, handle_signal
  <2>3. \A l \in {"deliver", "deliver_thread", "sysret", "panicked"} : l \in Labels /\ l \in Idle /\ l \notin {"user", "stopped"}
    BY DEF Labels, Idle
  <2>4. QED
    BY <2>1, <2>2, <2>3, WaiterStays
<1>2. ASSUME sysret(t) PROVE WaiterType'
  <2>1. UNCHANGED <<interest, observing, enqueued, isWoken>> /\ tmp' = [tmp EXCEPT ![t] = {}] /\ pc[t] \in Idle
    BY <1>2 DEF sysret, waiterVars, Idle
  <2>2. PICK l \in {"stopped", "exited", "user"} : pc' = [pc EXCEPT ![t] = l]
    BY <1>2 DEF sysret, Goto
  <2>3. l \in Labels /\ l \in Idle
    BY DEF Labels, Idle
  <2>4. QED
    BY <1>0, <2>1, <2>2, <2>3 DEF WaiterType, Idle
<1>3. ASSUME SelectReturns(t) PROVE WaiterType'
  BY <1>3, WaiterStays DEF SelectReturns, Labels, Idle
<1>4. ASSUME WaitTry(t) \/ WaitLast(t) PROVE WaiterType'
  <2>1. UNCHANGED <<interest, observing, enqueued, isWoken>> /\ tmp' = tmp /\ pc[t] \notin Idle
    BY <1>4 DEF WaitTry, WaitLast, dequeue_pending_signal, maskVars, waiterVars, Idle
  <2>2. \E l \in {"wait_done", "wait_enqueue", "wait_try_thread", "wait_last_thread"} : Goto(t, l)
    BY <1>4 DEF WaitTry, WaitLast, dequeue_pending_signal
  <2>3. \A l \in {"wait_done", "wait_enqueue", "wait_try_thread", "wait_last_thread"} :
            l \in Labels /\ l \notin Idle /\ l \notin {"user", "stopped"}
    BY DEF Labels, Idle
  <2>4. QED
    BY <2>1, <2>2, <2>3, WaiterStays
<1>5. ASSUME reset_and_enqueue(t) PROVE WaiterType'
  <2>1. /\ isWoken' = [isWoken EXCEPT ![t] = FALSE] /\ enqueued' = [enqueued EXCEPT ![t] = TRUE]
        /\ tmp' = tmp /\ interest' = interest /\ observing' = observing /\ pc[t] \notin Idle
    BY <1>5 DEF reset_and_enqueue, maskVars, Idle
  <2>2. PICK l \in {"wait_sleep", "suspend_sleep"} : pc' = [pc EXCEPT ![t] = l]
    BY <1>5 DEF reset_and_enqueue, Goto
  <2>3. l \in Labels /\ l \notin Idle
    BY DEF Labels, Idle
  <2>4. QED
    BY <1>0, <2>1, <2>2, <2>3 DEF WaiterType, Idle
<1>6. ASSUME WaitWoken(t) \/ WaitTimesOut(t) \/ SuspendCheck(t) \/ SuspendSleep(t) PROVE WaiterType'
  <2>1. UNCHANGED <<interest, observing, enqueued, isWoken>> /\ tmp' = tmp /\ pc[t] \notin Idle
    BY <1>6 DEF WaitWoken, WaitTimesOut, SuspendCheck, SuspendSleep, maskVars, waiterVars, Idle
  <2>2. \E l \in {"wait_try", "wait_last", "suspend_done", "suspend_enqueue", "suspend_check"} : Goto(t, l)
    BY <1>6 DEF WaitWoken, WaitTimesOut, SuspendCheck, SuspendSleep
  <2>3. \A l \in {"wait_try", "wait_last", "suspend_done", "suspend_enqueue", "suspend_check"} :
            l \in Labels /\ l \notin Idle /\ l \notin {"user", "stopped"}
    BY DEF Labels, Idle
  <2>4. QED
    BY <2>1, <2>2, <2>3, WaiterStays
<1>7. ASSUME WaitDone(t) \/ SuspendDone(t) PROVE WaiterType'
  <2>1. Unregister(t) /\ tmp' = tmp /\ pc' = [pc EXCEPT ![t] = "deliver"]
    BY <1>7 DEF WaitDone, SuspendDone, maskVars, Goto
  <2>2. "deliver" \in Labels /\ "deliver" \in Idle
    BY DEF Labels, Idle
  <2>3. QED
    BY <1>0, <2>1, <2>2 DEF WaiterType, Unregister, Idle
<1>8. ASSUME do_handle_interrupt(t) PROVE WaiterType'
  BY <1>8, WaiterStays DEF do_handle_interrupt, Labels, Idle, maskVars, waiterVars
<1>9. ASSUME vfork_stop_all_child_thread(t) PROVE WaiterType'
  BY <1>9, WaiterStays DEF vfork_stop_all_child_thread, Labels, Idle, maskVars, waiterVars
<1>10. ASSUME Resume(t) PROVE WaiterType'
  <2>1. /\ UNCHANGED <<interest, observing, enqueued, isWoken>> /\ tmp' = tmp /\ pc[t] = "stopped"
    BY <1>10 DEF Resume, maskVars, waiterVars
  <2>2. PICK l \in {"exited", "user"} : pc' = [pc EXCEPT ![t] = l]
    BY <1>10 DEF Resume, Goto
  <2>3. tmp[t] = {}
    BY <1>0, <2>1
  <2>4. l \in Labels /\ l \in Idle /\ pc[t] \in Idle
    BY <2>1 DEF Labels, Idle
  <2>5. QED
    BY <1>0, <2>1, <2>2, <2>3, <2>4 DEF WaiterType
<1>11. QED
  BY <1>1, <1>2, <1>3, <1>4, <1>5, <1>6, <1>7, <1>8, <1>9, <1>10 DEF Kernel

LEMMA ProgramWaiter ==
    ASSUME WaiterType, MaskType, NEW t \in Threads, Program(t)
    PROVE  WaiterType'
<1>0. /\ pc \in [Threads -> Labels] /\ tmp \in [Threads -> SUBSET Sigs]
      /\ interest \in [Threads -> SUBSET Sigs] /\ observing \in [Threads -> BOOLEAN]
      /\ enqueued \in [Threads -> BOOLEAN] /\ isWoken \in [Threads -> BOOLEAN]
      /\ \A u \in Threads : /\ observing[u] <=> pc[u] \notin Idle
                            /\ enqueued[u] => observing[u]
                            /\ pc[u] \in {"user", "stopped"} => tmp[u] = {}
  BY DEF WaiterType, Idle
<1>1. ASSUME NEW l \in {"deliver", "select", "wait4", "panicked"}, Goto(t, l), pc[t] = "user",
             UNCHANGED <<interest, observing, enqueued, isWoken>>,
             tmp' = tmp \/ tmp' = [tmp EXCEPT ![t] = Sigs]
      PROVE  WaiterType'
  <2>1. l \in Labels /\ l \in Idle /\ l \notin {"user", "stopped"} /\ pc[t] \in Idle
    BY <1>1 DEF Labels, Idle
  <2>2. QED
    BY <1>1, <2>1, WaiterStays
<1>2. ASSUME NEW signals \in SUBSET Sigs, NEW l \in {"wait_try", "suspend_check"}, Register(t, signals),
             Goto(t, l), UNCHANGED <<enqueued, isWoken, tmp>>
      PROVE  WaiterType'
  <2>1. l \in Labels /\ l \notin Idle
    BY DEF Labels, Idle
  <2>2. /\ pc' = [pc EXCEPT ![t] = l] /\ interest' = [interest EXCEPT ![t] = signals]
        /\ observing' = [observing EXCEPT ![t] = TRUE]
        /\ enqueued' = enqueued /\ isWoken' = isWoken /\ tmp' = tmp
    BY <1>2 DEF Goto, Register
  <2>3. QED
    BY <1>0, <2>1, <2>2 DEF WaiterType, Idle
<1>3. ASSUME do_rt_sigreturn(t) PROVE WaiterType'
  BY <1>1, <1>3 DEF do_rt_sigreturn, waiterVars
<1>10. ASSUME do_wait4(t) PROVE WaiterType'
  <2>1. UNCHANGED <<interest, observing, enqueued, isWoken, tmp>>
    BY <1>10 DEF do_wait4, maskVars, waiterVars
  <2>2. CASE pc[t] = "user" /\ Goto(t, "wait4")
    BY <1>1, <2>1, <2>2
  <2>3. CASE pc[t] = "wait4" /\ Goto(t, "deliver")
    BY <2>1, <2>3, WaiterStays DEF Labels, Idle
  <2>4. QED
    BY <1>10, <2>2, <2>3 DEF do_wait4
<1>4. ASSUME NEW m \in Masks, do_rt_sigprocmask(t, m) PROVE WaiterType'
  BY <1>1, <1>4 DEF do_rt_sigprocmask, waiterVars
<1>5. ASSUME NEW m \in Masks, do_sigtimedwait(t, m) PROVE WaiterType'
  <2>1. m \cap mask[t] \in SUBSET Sigs
    BY SetsAssumption DEF MaskType
  <2>2. QED
    BY <2>1, <1>2, <1>5 DEF do_sigtimedwait, maskVars
<1>6. ASSUME NEW m \in Masks, do_sigsuspend(t, m) PROVE WaiterType'
  <2>1. Sigs \ (m \ Unblockable) \in SUBSET Sigs
    OBVIOUS
  <2>2. QED
    BY <2>1, <1>2, <1>6 DEF do_sigsuspend
<1>7. ASSUME NEW m \in Masks, NEW valid \in BOOLEAN, do_pselect6(t, m, valid) PROVE WaiterType'
  <2>1. /\ pc[t] = "user" /\ UNCHANGED <<interest, observing, enqueued, isWoken>> /\ tmp' = tmp
        /\ \E l \in {"deliver", "select"} : Goto(t, l)
    BY <1>7 DEF do_pselect6
  <2>2. QED
    BY <2>1, <1>1
<1>8. ASSUME NEW s \in Sigs, NEW action, do_rt_sigaction(t, s, action) PROVE WaiterType'
  BY <1>1, <1>8 DEF do_rt_sigaction, maskVars, waiterVars
<1>9. ASSUME NEW s \in Sigs, force_signal(t, s) PROVE WaiterType'
  <2>1. /\ pc[t] = "user" /\ UNCHANGED <<interest, observing, enqueued, isWoken>>
        /\ tmp' = [tmp EXCEPT ![t] = Sigs]
        /\ Goto(t, "deliver") \/ Goto(t, "panicked")
    BY <1>9 DEF force_signal, waiterVars, handle_signal
  <2>2. QED
    BY <2>1, <1>1
<1>11. QED
  BY <1>3, <1>4, <1>5, <1>6, <1>7, <1>8, <1>9, <1>10 DEF Program

LEMMA SenderWaiter ==
    ASSUME WaiterType, NEW s \in Sigs, do_kill(s) \/ \E t \in Threads : do_tgkill(t, s)
    PROVE  WaiterType'
<1>1. /\ pc' = pc /\ tmp' = tmp /\ interest' = interest /\ observing' = observing
      /\ \/ isWoken' = isWoken /\ enqueued' = enqueued
         \/ \E told : /\ isWoken' = [t \in Threads |-> isWoken[t] \/ t \in told]
                      /\ enqueued' = [t \in Threads |-> enqueued[t] /\ t \notin told]
  BY DEF do_kill, do_tgkill, enqueue, broadcast, maskVars
<1>2. CASE isWoken' = isWoken /\ enqueued' = enqueued
  BY <1>1, <1>2 DEF WaiterType
<1>3. ASSUME NEW told, isWoken' = [t \in Threads |-> isWoken[t] \/ t \in told],
             enqueued' = [t \in Threads |-> enqueued[t] /\ t \notin told]
      PROVE  WaiterType'
  <2>1. isWoken' \in [Threads -> BOOLEAN] /\ enqueued' \in [Threads -> BOOLEAN]
        /\ \A t \in Threads : enqueued'[t] => enqueued[t]
    BY <1>3, Zenon DEF WaiterType
  <2>2. QED
    BY <1>1, <2>1 DEF WaiterType
<1>4. QED
  BY <1>1, <1>2, <1>3

-----------------------------------------------------------------------------
SigInv ==
    /\ TypeOK /\ CountExact /\ \A o \in Owners : IsFiniteSet(Queued(o))
    /\ MaskOwed /\ KillBlockedOnlyByUcontext /\ KillByDefault

LEMMA SigInvInit == Init => SigInv
<1> SUFFICES ASSUME Init PROVE SigInv
  OBVIOUS
<1>1. TypeOK
  <2>1. QueueType
    BY DEF Init, QueueType
  <2>2. MaskType
    <3>1. \A t \in Threads : <<>> \in Seq(Frame) /\ InitialMask[t] \ Unblockable \in SUBSET Sigs
      BY SetsAssumption, EmptySeq
    <3>2. QED
      BY <3>1 DEF Init, MaskType
  <2>3. OtherType
    <3>0. sent = 0
      BY Zenon DEF Init
    <3>1. sent \in 0 .. MaxSent
      BY ONLY <3>0, NumbersAssumption
    <3>5. program \in Programs /\ forced \in BOOLEAN /\ vforking \in SUBSET Threads
      BY Zenon DEF Init
    <3>2. \A s \in Sigs : (IF s \in Unblockable THEN "dfl" ELSE "user") \in {"dfl", "ign", "user"}
      OBVIOUS
    <3>3. disposition \in [Sigs -> {"dfl", "ign", "user"}]
      BY <3>2 DEF Init
    <3>4. QED
      BY <3>1, <3>3, <3>5, Zenon DEF OtherType
  <2>4. WaiterType
    BY DEF Init, WaiterType, Labels, Idle
  <2>5. QED
    BY <2>1, <2>2, <2>3, <2>4, TypeParts
<1>2. ASSUME NEW o \in Owners PROVE Queued(o) = {} /\ count[o] = 0
  BY SMT DEF Init, Queued
<1>3. CountExact /\ \A o \in Owners : IsFiniteSet(Queued(o))
  <2>1. \A o \in Owners, s \in Sigs : pending[o][s] <= 1
    <3>1. \A o \in Owners, s \in Sigs : pending[o][s] = 0
      BY DEF Init
    <3>2. QED
      BY ONLY <3>1
  <2>2. IsFiniteSet({}) /\ Cardinality({}) = 0
    BY FS_EmptySet
  <2>3. QED
    BY <1>2, <2>1, <2>2 DEF CountExact
<1>4. MaskOwed
  BY DEF Init, MaskOwed, OwnMask, Restoring
<1>5. KillBlockedOnlyByUcontext
  <2>1. Len(<<>>) = 0
    OBVIOUS
  <2>2. \A t \in Threads :
            /\ frames[t] = <<>> /\ saved[t] = {}
            /\ mask[t] = InitialMask[t] \ Unblockable /\ base[t] = InitialMask[t] \ Unblockable
    BY DEF Init
  <2>3. QED
    BY <2>1, <2>2, SMT DEF KillBlockedOnlyByUcontext
<1>6. KillByDefault
  BY SetsAssumption DEF Init, KillByDefault
<1>7. QED
  BY <1>1, <1>3, <1>4, <1>5, <1>6 DEF SigInv

LEMMA SigInvNext ==
    ASSUME ValidSelects, SigInv, Next
    PROVE  SigInv'
<1>1. QueueType /\ MaskType /\ OtherType /\ WaiterType
  BY TypeParts DEF SigInv
<1>2. QueueType' /\ CountExact' /\ \A o \in Owners : IsFiniteSet(Queued(o))'
  BY <1>1, QueuesMove, QueueStep DEF SigInv
<1>3. OtherType' /\ KillByDefault'
  BY <1>1, OtherStep DEF SigInv
<1>4. ASSUME NEW t \in Threads, Kernel(t) \/ Program(t), written' = written
      PROVE  WaiterType' /\ MaskType' /\ MaskOwed' /\ KillBlockedOnlyByUcontext'
  <2>1. WaiterType'
    BY <1>1, <1>4, KernelWaiter, ProgramWaiter
  <2>2. PICK l \in Labels : MaskMove(t, l)
    BY <1>4, KernelMasks, ProgramMasks DEF SigInv
  <2>3. QED
    BY <2>1, <2>2, <1>4, MaskStep DEF SigInv
<1>5. ASSUME NEW s \in Sigs, do_kill(s) \/ \E t \in Threads : do_tgkill(t, s), written' = written
      PROVE  WaiterType' /\ MaskType' /\ MaskOwed' /\ KillBlockedOnlyByUcontext'
  <2>1. WaiterType'
    BY <1>1, <1>5, SenderWaiter
  <2>2. mask' = mask /\ frames' = frames /\ saved' = saved /\ base' = base /\ pc' = pc
    BY <1>5, SendersMove DEF ownVars
  <2>3. QED
    BY <1>1, <1>5, <2>1, <2>2 DEF SigInv, MaskType, MaskOwed, OwnMask, KillBlockedOnlyByUcontext
<1>6. ASSUME NEW t \in Threads, do_vfork(t) \/ vfork_return_to_parent(t), written' = written
      PROVE  WaiterType' /\ MaskType' /\ MaskOwed' /\ KillBlockedOnlyByUcontext'
  <2>1. /\ UNCHANGED ownVars /\ UNCHANGED <<interest, observing, enqueued, isWoken, tmp>>
        /\ pc[t] = "user"
    BY <1>6 DEF do_vfork, vfork_return_to_parent, ownVars, maskVars, waiterVars
  <2>2. PICK l \in {"vforking", "deliver"} : Goto(t, l)
    BY <1>6 DEF do_vfork, vfork_return_to_parent
  <2>3. l \in Labels /\ l \in Idle /\ l \notin {"user", "stopped"} /\ l \notin Restoring
        /\ pc[t] \notin Restoring /\ pc[t] \in Idle
    BY <2>1 DEF Labels, Idle, Restoring
  <2>4. WaiterType'
    BY <1>1, <2>1, <2>2, <2>3, WaiterStays
  <2>5. MaskMove(t, l)
    BY <2>1, <2>2, <2>3 DEF MaskMove, Stays
  <2>6. QED
    BY <1>6, <2>3, <2>4, <2>5, MaskStep DEF SigInv
<1>7. ASSUME NEW t \in Threads, NEW m \in Masks, NEW i \in 1 .. Len(frames[t]), WriteUcontext(t, i, m)
       PROVE  WaiterType' /\ MaskType' /\ MaskOwed' /\ KillBlockedOnlyByUcontext'
  BY <1>7, WriteStep DEF SigInv
<1>8. WaiterType' /\ MaskType' /\ MaskOwed' /\ KillBlockedOnlyByUcontext'
  BY <1>4, <1>5, <1>6, <1>7 DEF Next
<1>9. TypeOK'
  BY <1>2, <1>3, <1>8, TypeParts DEF TypeOK, QueueType, MaskType, OtherType, WaiterType, Frame
<1>10. QED
  BY <1>2, <1>3, <1>8, <1>9 DEF SigInv

\* For any threads, signals, handlers and programs that make no invalid call of pselect6:
\* back in its program a thread has the mask it asked for, a mask blocks SIGKILL or SIGSTOP only
\* if the thread wrote it into a ucontext_t, and the count by which the queues are skipped is the number of signals in them.
THEOREM MasksSafe ==
    ASSUME ValidSelects
    PROVE  Spec => []MasksExact
<1>1. SigInv /\ [Next]_vars => SigInv'
  <2> SUFFICES ASSUME SigInv, [Next]_vars PROVE SigInv'
    OBVIOUS
  <2>1. CASE Next
    BY <2>1, SigInvNext
  <2>2. CASE UNCHANGED vars
    <3>1. /\ pending' = pending /\ count' = count /\ disposition' = disposition /\ mask' = mask /\ tmp' = tmp
          /\ frames' = frames /\ forced' = forced /\ pc' = pc /\ interest' = interest
          /\ observing' = observing /\ enqueued' = enqueued /\ isWoken' = isWoken /\ saved' = saved
          /\ base' = base /\ sent' = sent /\ program' = program
          /\ written' = written /\ vforking' = vforking
      BY <2>2 DEF vars, queueVars, maskVars, waiterVars
    <3>2. QueueMove
      BY <3>1 DEF QueueMove, queueVars
    <3>3. QueueType' /\ CountExact' /\ \A o \in Owners : IsFiniteSet(Queued(o))'
      BY <3>2, QueueStep, TypeParts DEF SigInv
    <3>4. TypeOK'
      BY <3>1 DEF SigInv, TypeOK
    <3>5. MaskOwed' /\ KillBlockedOnlyByUcontext' /\ KillByDefault'
      BY <3>1 DEF SigInv, MaskOwed, OwnMask, KillBlockedOnlyByUcontext, KillByDefault
    <3>6. QED
      BY <3>3, <3>4, <3>5 DEF SigInv
  <2>3. QED
    BY <2>1, <2>2
<1>2. SigInv => MasksExact
  <2> SUFFICES ASSUME SigInv PROVE MasksExact
    OBVIOUS
  <2>1. MaskRestored
    BY DEF SigInv, MaskOwed, OwnMask, MaskRestored, Restoring
  <2>2. QED
    BY <2>1 DEF SigInv, MasksExact
<1>3. QED
  BY <1>1, <1>2, SigInvInit, PTL DEF Spec

-----------------------------------------------------------------------------
FramesOf == DOMAIN frames = Threads

\* A step changes the frames of one thread at most: of one in user mode, or of one in
\* deliver_signal that dequeues a signal it does not block.
LEMMA FramesMove ==
    ASSUME FramesOf, Next
    PROVE  /\ FramesOf'
           /\ \A u \in Threads : pc[u] # "user" /\ tmp[u] = Sigs => frames'[u] = frames[u]
<1> DEFINE Good == /\ FramesOf'
                   /\ \A u \in Threads : pc[u] # "user" /\ tmp[u] = Sigs => frames'[u] = frames[u]
<1>1. ASSUME frames' = frames PROVE Good
  BY <1>1 DEF FramesOf
<1>2. ASSUME NEW t \in Threads, NEW f, pc[t] = "user" \/ tmp[t] # Sigs, frames' = [frames EXCEPT ![t] = f]
      PROVE  Good
  BY <1>2 DEF FramesOf
<1>3. ASSUME NEW t \in Threads, NEW s, NEW a, NEW b, handle_signal(t, s, a, b),
             pc[t] = "user" \/ tmp[t] # Sigs
      PROVE  Good
  <2>1. CASE frames' = frames
    BY <2>1, <1>1
  <2>2. CASE handle_signals_by_user(t, s)
    BY <2>2, <1>2, <1>3 DEF handle_signals_by_user
  <2>3. QED
    BY <1>3, <2>1, <2>2 DEF handle_signal
<1>4. ASSUME NEW t \in Threads, NEW o, NEW s \in Sigs, dequeue(o, Blocked(t), s) PROVE tmp[t] # Sigs
  <2>1. s \notin Blocked(t)
    BY <1>4 DEF dequeue, Dequeueable
  <2>2. QED
    BY <2>1 DEF Blocked
<1>5. ASSUME NEW t \in Threads, Kernel(t) PROVE Good
  <2>1. ASSUME deliver_signal(t) PROVE Good
    <3>1. CASE \E s \in Sigs : dequeue(Process, Blocked(t), s) /\ handle_signal(t, s, "deliver", "sysret")
      BY <3>1, <1>3, <1>4
    <3>2. CASE frames' = frames
      BY <3>2, <1>1
    <3>3. QED
      BY <2>1, <3>1, <3>2 DEF deliver_signal
  <2>2. ASSUME deliver_thread_signal(t) PROVE Good
    <3>1. CASE \E s \in Sigs : dequeue(t, Blocked(t), s) /\ handle_signal(t, s, "deliver", "sysret")
      BY <3>1, <1>3, <1>4
    <3>2. CASE frames' = frames
      BY <3>2, <1>1
    <3>3. QED
      BY <2>2, <3>1, <3>2 DEF deliver_thread_signal
  <2>3. ASSUME \/ sysret(t) \/ SelectReturns(t) \/ reset_and_enqueue(t) \/ WaitWoken(t) \/ WaitTimesOut(t)
               \/ WaitDone(t) \/ SuspendCheck(t) \/ SuspendSleep(t) \/ SuspendDone(t)
               \/ do_handle_interrupt(t) \/ WaitTry(t) \/ WaitLast(t)
               \/ Resume(t) \/ vfork_stop_all_child_thread(t)
        PROVE  frames' = frames
    BY <2>3 DEF Resume, vfork_stop_all_child_thread, sysret, SelectReturns, reset_and_enqueue, WaitWoken, WaitTimesOut, maskVars,
                WaitDone, SuspendCheck, SuspendSleep, SuspendDone, do_handle_interrupt,
                WaitTry, WaitLast, dequeue_pending_signal
  <2>4. QED
    BY <1>5, <2>1, <2>2, <2>3, <1>1 DEF Kernel
<1>6. ASSUME NEW t \in Threads, Program(t) PROVE Good
  <2>1. ASSUME do_rt_sigreturn(t) PROVE Good
    <3>1. CASE frames' = frames
      BY <3>1, <1>1
    <3>2. CASE frames' # frames
      BY <2>1, <3>2, <1>2 DEF do_rt_sigreturn
    <3>3. QED
      BY <3>1, <3>2
  <2>2. ASSUME NEW s \in Sigs, force_signal(t, s) PROVE Good
    BY <2>2, <1>3 DEF force_signal
  <2>3. ASSUME NEW m, do_rt_sigprocmask(t, m) \/ do_sigtimedwait(t, m) \/ do_sigsuspend(t, m)
                      \/ \E valid \in BOOLEAN : do_pselect6(t, m, valid)
        PROVE  frames' = frames
    BY <2>3 DEF do_rt_sigprocmask, do_sigtimedwait, do_sigsuspend, do_pselect6, maskVars
  <2>4. ASSUME do_wait4(t) \/ \E s, action : do_rt_sigaction(t, s, action) PROVE frames' = frames
    BY <2>4 DEF do_rt_sigaction, do_wait4, maskVars
  <2>5. QED
    BY <1>6, <2>1, <2>2, <2>3, <2>4, <1>1 DEF Program
<1>7. ASSUME NEW s \in Sigs, do_kill(s) \/ \E t \in Threads : do_tgkill(t, s) PROVE Good
  BY <1>1, <1>7, SendersMove DEF ownVars
<1>8. ASSUME NEW t \in Threads, do_vfork(t) \/ vfork_return_to_parent(t) PROVE Good
  BY <1>1, <1>8 DEF do_vfork, vfork_return_to_parent, maskVars
<1>9. ASSUME NEW t \in Threads, NEW i, NEW m, WriteUcontext(t, i, m) PROVE Good
  <2>1. pc[t] = "user" /\ frames' = [frames EXCEPT ![t] = [frames[t] EXCEPT ![i] = [frames[t][i] EXCEPT !.saved = m]]]
    BY <1>9 DEF WriteUcontext
  <2>2. QED
    BY <2>1, <1>2
<1>10. Good
  BY <1>5, <1>6, <1>7, <1>8, <1>9 DEF Next
<1>11. QED
  BY <1>10

\* Once an exception has forced a signal on a thread, no other handler is entered before
\* that entry into the LibOS ends, whatever is sent to the process or the thread meanwhile.
THEOREM OneHandlerSafe == Spec => OneHandlerPerEntry
<1>1. Init => FramesOf
  BY DEF Init, FramesOf
<1>2. FramesOf /\ [Next]_vars => FramesOf'
  BY FramesMove DEF FramesOf, vars, maskVars
<1>3. FramesOf /\ [Next]_vars =>
          [\A t \in Threads : pc[t] # "user" /\ tmp[t] = Sigs => frames'[t] = frames[t]]_vars
  BY FramesMove
<1>4. QED
  BY <1>1, <1>2, <1>3, PTL DEF Spec, OneHandlerPerEntry

-----------------------------------------------------------------------------
(* The file tables                                                         *)

\* A set of numbers that has a member has a least one.
LEMMA LeastNat ==
    ASSUME NEW S \in SUBSET Nat, S # {}
    PROVE  \E n \in S : \A m \in S : n <= m
<1> DEFINE R == OpToRel(<, Nat)
<1>1. IsWellFoundedOn(R, Nat)
  BY NatLessThanWellFounded
<1>2. \A x, y \in Nat : x < y => <<x, y>> \in R
  BY DEF OpToRel
<1> HIDE DEF R
<1>3. PICK n \in S : \A m \in S : ~(<<m, n>> \in R)
  BY <1>1, WFMin
<1>4. \A m \in S : ~(m < n)
  BY <1>2, <1>3
<1>5. QED
  BY <1>4, SMT

\* A table of entries that counts the occupied ones.
Cells == [file : Files, close_on_spawn : BOOLEAN] \cup {NoFile}
Tables == [table : Seq(Cells), num_fds : Nat]
Counted(ft) == ft \in Tables /\ ft.num_fds = Cardinality(Occupied(ft))

\* The strengthening: tables whose entries are entries, files held by dup(2) that are files, and
\* calls that are calls.
FTInv ==
    /\ ~tpanic /\ Counted(files) /\ (parent_files # NoFile => Counted(parent_files))
    /\ dupped \in [FThreads -> Files \cup {NoFile}]
    /\ fcalls \in [FThreads -> Seq(FileCalls)]

\* The table with entry e at descriptor fd and the count n.
Filled(ft, fd, e, n) == [ft EXCEPT !.table[fd + 1] = e, !.num_fds = n]

\* The occupied descriptors are finitely many.
LEMMA OccupiedFinite ==
    ASSUME NEW ft \in Tables
    PROVE  /\ Len(ft.table) \in Nat /\ DOMAIN ft.table = 1 .. Len(ft.table)
           /\ Occupied(ft) \in SUBSET (0 .. Len(ft.table) - 1)
           /\ IsFiniteSet(Occupied(ft)) /\ Cardinality(Occupied(ft)) \in Nat
<1>1. Len(ft.table) \in Nat /\ DOMAIN ft.table = 1 .. Len(ft.table)
  BY SMT DEF Tables
<1>2. Occupied(ft) \in SUBSET (0 .. Len(ft.table) - 1)
  BY DEF Occupied
<1>3. IsFiniteSet(0 .. Len(ft.table) - 1)
  <2>1. 0 \in Int /\ Len(ft.table) - 1 \in Int
    BY <1>1, SMT
  <2>2. QED
    BY <2>1, FS_Interval
<1>4. QED
  BY <1>1, <1>2, <1>3, FS_Subset, FS_CardinalityType

\* A table that occupies one entry more, or the same, or one entry less.
LEMMA Recounted ==
    ASSUME NEW ft \in Tables, Counted(ft), NEW u \in Tables, NEW fd
    PROVE  /\ Occupied(u) = Occupied(ft) /\ u.num_fds = ft.num_fds => Counted(u)
           /\ Occupied(u) = Occupied(ft) \cup {fd} /\ fd \notin Occupied(ft) /\ u.num_fds = ft.num_fds + 1
                => Counted(u)
           /\ Occupied(u) = Occupied(ft) \ {fd} /\ fd \in Occupied(ft) /\ u.num_fds = ft.num_fds - 1
                => Counted(u)
<1>1. IsFiniteSet(Occupied(ft)) /\ ft.num_fds = Cardinality(Occupied(ft))
  BY OccupiedFinite DEF Counted
<1>2. /\ fd \notin Occupied(ft) => Cardinality(Occupied(ft) \cup {fd}) = Cardinality(Occupied(ft)) + 1
      /\ fd \in Occupied(ft) => Cardinality(Occupied(ft) \ {fd}) = Cardinality(Occupied(ft)) - 1
  BY <1>1, FS_AddElement, FS_RemoveElement
<1>3. QED
  BY <1>1, <1>2 DEF Counted

\* A new entry at a place the table has.
LEMMA CellFilled ==
    ASSUME NEW ft \in Tables, Counted(ft), NEW fd \in 0 .. Len(ft.table) - 1,
           NEW e \in Cells, e # NoFile, NEW n \in Nat,
           n = IF ft.table[fd + 1] = NoFile THEN ft.num_fds + 1 ELSE ft.num_fds
    PROVE  Counted(Filled(ft, fd, e, n))
<1> DEFINE u == Filled(ft, fd, e, n)
           s == [ft.table EXCEPT ![fd + 1] = e]
<1>1. ft.table \in Seq(Cells) /\ ft.num_fds \in Nat
  BY DEF Tables
<1>2. fd \in Nat /\ fd + 1 \in 1 .. Len(ft.table)
  BY <1>1, SMT
<1>3. /\ s \in Seq(Cells) /\ Len(s) = Len(ft.table)
      /\ \A i \in 1 .. Len(ft.table) : s[i] = IF i = fd + 1 THEN e ELSE ft.table[i]
  BY <1>1, <1>2, SMT
<1>4. u.table = s /\ u.num_fds = n /\ u \in Tables
  <2>1. u = [ft EXCEPT !.table = s, !.num_fds = n]
    BY DEF Filled
  <2> HIDE DEF u, s
  <2>2. QED
    BY <2>1, <1>3 DEF Tables
<1> HIDE DEF u, s
<1>5. ASSUME NEW x \in 0 .. Len(ft.table) - 1
      PROVE  s[x + 1] = IF x = fd THEN e ELSE ft.table[x + 1]
  BY <1>2, <1>3, SMT
<1>6. Occupied(u) = Occupied(ft) \cup {fd}
  BY <1>3, <1>4, <1>5 DEF Occupied
<1>7. fd \in Occupied(ft) <=> ft.table[fd + 1] # NoFile
  BY DEF Occupied
<1>8. CASE fd \in Occupied(ft)
  <2>1. Occupied(u) = Occupied(ft) /\ u.num_fds = ft.num_fds
    BY <1>4, <1>6, <1>7, <1>8
  <2>2. QED
    BY <1>4, <2>1, Recounted DEF u
<1>9. CASE fd \notin Occupied(ft)
  <2>1. u.num_fds = ft.num_fds + 1
    BY <1>4, <1>7, <1>9
  <2>2. QED
    BY <1>4, <1>6, <1>9, <2>1, Recounted DEF u
<1>10. QED
  BY <1>8, <1>9

\* An entry taken out.
LEMMA CellEmptied ==
    ASSUME NEW ft \in Tables, Counted(ft), NEW fd \in Occupied(ft), NEW n, n = ft.num_fds - 1
    PROVE  Counted(Filled(ft, fd, NoFile, n))
<1> DEFINE u == Filled(ft, fd, NoFile, n)
           s == [ft.table EXCEPT ![fd + 1] = NoFile]
<1>1. ft.table \in Seq(Cells) /\ ft.num_fds \in Nat /\ NoFile \in Cells
  BY DEF Tables, Cells
<1>2. fd \in Nat /\ fd \in 0 .. Len(ft.table) - 1 /\ fd + 1 \in 1 .. Len(ft.table)
  BY <1>1, SMT DEF Occupied
<1>3. /\ s \in Seq(Cells) /\ Len(s) = Len(ft.table)
      /\ \A i \in 1 .. Len(ft.table) : s[i] = IF i = fd + 1 THEN NoFile ELSE ft.table[i]
  BY <1>1, <1>2, SMT
<1>4. n \in Nat
  <2>1. ft.num_fds # 0
    BY OccupiedFinite, FS_EmptySet DEF Counted
  <2>2. QED
    BY <1>1, <2>1, SMT
<1>5. u.table = s /\ u.num_fds = n /\ u \in Tables
  <2>1. u = [ft EXCEPT !.table = s, !.num_fds = n]
    BY DEF Filled
  <2> HIDE DEF u, s
  <2>2. QED
    BY <2>1, <1>3, <1>4 DEF Tables
<1> HIDE DEF u, s
<1>6. ASSUME NEW x \in 0 .. Len(ft.table) - 1
      PROVE  s[x + 1] = IF x = fd THEN NoFile ELSE ft.table[x + 1]
  BY <1>2, <1>3, SMT
<1>7. Occupied(u) = Occupied(ft) \ {fd}
  BY <1>3, <1>5, <1>6 DEF Occupied
<1>8. QED
  BY <1>5, <1>7, Recounted DEF u

\* A table with empty entries at its end.
LEMMA TableGrown ==
    ASSUME NEW ft \in Tables, Counted(ft), NEW len \in Nat
    PROVE  /\ Counted(Grown(ft, len)) /\ Grown(ft, len).num_fds = ft.num_fds
           /\ Len(Grown(ft, len).table) = IF len > Len(ft.table) THEN len ELSE Len(ft.table)
           /\ Occupied(Grown(ft, len)) = Occupied(ft)
<1> DEFINE k == IF len > Len(ft.table) THEN len - Len(ft.table) ELSE 0
           e == [i \in 1 .. k |-> NoFile]
           s == ft.table \o e
           u == [ft EXCEPT !.table = s]
<1>1. ft.table \in Seq(Cells) /\ ft.num_fds \in Nat /\ NoFile \in Cells
  BY DEF Tables, Cells
<1>2. k \in Nat /\ Len(ft.table) + k = IF len > Len(ft.table) THEN len ELSE Len(ft.table)
  <2>1. Len(ft.table) \in Nat
    BY <1>1, LenProperties
  <2>2. \A l, m \in Nat : LET d == IF m > l THEN m - l ELSE 0
                          IN d \in Nat /\ l + d = IF m > l THEN m ELSE l
    BY SMT
  <2>3. QED
    BY <2>1, <2>2
<1> HIDE DEF k
<1>3. e \in Seq(Cells) /\ Len(e) = k /\ \A i \in 1 .. k : e[i] = NoFile
  BY <1>1, <1>2, SMT
<1> HIDE DEF e
<1>4. /\ s \in Seq(Cells) /\ Len(s) = Len(ft.table) + k
      /\ \A i \in 1 .. Len(ft.table) : s[i] = ft.table[i]
      /\ \A i \in 1 .. Len(s) : i > Len(ft.table) => s[i] = NoFile
  BY <1>1, <1>2, <1>3, SMT
<1> HIDE DEF s
<1>5. u.table = s /\ u.num_fds = ft.num_fds /\ u \in Tables
  BY <1>4 DEF Tables
<1> HIDE DEF u
<1>6. \A x \in Nat :
         /\ x \in 0 .. Len(u.table) - 1 /\ x \notin 0 .. Len(ft.table) - 1 => u.table[x + 1] = NoFile
         /\ x \in 0 .. Len(ft.table) - 1
              => x \in 0 .. Len(u.table) - 1 /\ u.table[x + 1] = ft.table[x + 1]
  BY <1>1, <1>2, <1>4, <1>5, SMT
<1>7. \A x : x \in Occupied(u) \/ x \in Occupied(ft) => x \in Nat
  BY <1>1, <1>2, <1>4, <1>5, SMT DEF Occupied
<1>8. Occupied(u) = Occupied(ft)
  BY <1>6, <1>7 DEF Occupied
<1>9. Grown(ft, len) = u
  BY DEF Grown, u, s, e, k
<1>10. Counted(u)
  BY <1>5, <1>8, Recounted
<1>11. QED
  BY <1>2, <1>4, <1>5, <1>8, <1>9, <1>10

\* put finds the free entry it unwraps.
LEMMA FreeFound ==
    ASSUME NEW ft \in Tables, Counted(ft), NEW fd \in Nat
    PROVE  /\ FreeFrom(ft, fd) # {} => /\ Least(FreeFrom(ft, fd)) \in 0 .. Len(ft.table) - 1
                                       /\ Least(FreeFrom(ft, fd)) \in FreeFrom(ft, fd)
           /\ ~PutPanics(ft)
<1>1. Len(ft.table) \in Nat /\ ft.num_fds \in Nat
  BY OccupiedFinite DEF Tables
<1>2. ASSUME FreeFrom(ft, fd) # {} PROVE Least(FreeFrom(ft, fd)) \in FreeFrom(ft, fd)
  <2>1. FreeFrom(ft, fd) \in SUBSET Nat
    BY <1>1, SMT DEF FreeFrom
  <2>2. PICK i \in FreeFrom(ft, fd) : \A j \in FreeFrom(ft, fd) : i <= j
    BY <1>2, <2>1, LeastNat
  <2>3. QED
    BY <2>2 DEF Least
<1>3. \A i \in FreeFrom(ft, fd) : i \in 0 .. Len(ft.table) - 1
  BY <1>1, SMT DEF FreeFrom
<1>4. ASSUME FreeFrom(ft, 0) = {} PROVE ft.num_fds = Len(ft.table)
  <2>1. Occupied(ft) = 0 .. Len(ft.table) - 1
    BY <1>4 DEF FreeFrom, Occupied
  <2>2. 0 \in Int /\ Len(ft.table) - 1 \in Int
    BY <1>1, SMT
  <2>3. Cardinality(0 .. Len(ft.table) - 1) = IF 0 > Len(ft.table) - 1 THEN 0 ELSE Len(ft.table) - 1 - 0 + 1
    BY <2>2, FS_Interval
  <2>4. Cardinality(0 .. Len(ft.table) - 1) = Len(ft.table)
    BY <1>1, <2>3, SMT
  <2>5. QED
    BY <2>1, <2>4 DEF Counted
<1>5. ~PutPanics(ft)
  BY <1>1, <1>4, SMT DEF PutPanics
<1>6. QED
  BY <1>2, <1>3, <1>5

\* An entry that holds a file is none of the empty ones.
LEMMA EntryCell == \A f \in Files, cos \in BOOLEAN : Entry(f, cos) \in Cells /\ Entry(f, cos) # NoFile
  BY FileTableAssumption DEF Entry, Cells

\* A file added at the first free entry, or at the end.
LEMMA PutCounted ==
    ASSUME NEW ft, Counted(ft), NEW f \in Files, NEW cos \in BOOLEAN
    PROVE  Counted(put(ft, f, cos)) /\ ~PutPanics(ft)
<1>1. ft \in Tables /\ Len(ft.table) \in Nat /\ ft.num_fds \in Nat
  BY OccupiedFinite DEF Counted, Tables
<1>2. ~PutPanics(ft)
  <2>1. 0 \in Nat
    BY SMT
  <2>2. QED
    BY <1>1, <2>1, FreeFound
<1>3. CASE ft.num_fds < Len(ft.table)
  <2> DEFINE fd == Least(FreeFrom(ft, 0))
  <2>1. fd \in 0 .. Len(ft.table) - 1 /\ ft.table[fd + 1] = NoFile
    <3>1. 0 \in Nat
      BY SMT
    <3>2. FreeFrom(ft, 0) # {}
      BY <1>2, <1>3 DEF PutPanics
    <3>3. QED
      BY <1>1, <3>1, <3>2, FreeFound DEF FreeFrom
  <2>2. ft.num_fds + 1 \in Nat
    BY <1>1, SMT
  <2>3. put(ft, f, cos) = Filled(ft, fd, Entry(f, cos), ft.num_fds + 1)
    BY <1>2, <1>3 DEF put, Filled
  <2> HIDE DEF fd
  <2>4. QED
    BY <1>1, <1>2, <2>1, <2>2, <2>3, EntryCell, CellFilled
<1>4. CASE ~(ft.num_fds < Len(ft.table))
  <2> DEFINE room == Grown(ft, Len(ft.table) + 1)
             fd == Len(ft.table)
  <2>1. Len(ft.table) + 1 \in Nat /\ Len(ft.table) + 1 > Len(ft.table) /\ ft.num_fds + 1 \in Nat
        /\ fd \in 0 .. (Len(ft.table) + 1) - 1 /\ fd \notin 0 .. Len(ft.table) - 1
    BY <1>1, SMT
  <2>2. /\ Counted(room) /\ room.num_fds = ft.num_fds /\ Len(room.table) = Len(ft.table) + 1
        /\ Occupied(room) = Occupied(ft)
    BY <1>1, <2>1, TableGrown
  <2>3. room.table[fd + 1] = NoFile
    BY <1>1, <2>1, <2>2 DEF Occupied
  <2>4. put(ft, f, cos) = Filled(room, fd, Entry(f, cos), room.num_fds + 1)
    BY <1>2, <1>4 DEF put, Filled
  <2>5. room \in Tables
    BY <2>2 DEF Counted
  <2> HIDE DEF fd, room
  <2>6. fd \in 0 .. Len(room.table) - 1 /\ room.num_fds + 1 \in Nat
    BY <2>1, <2>2
  <2>7. QED
    BY <1>2, <2>2, <2>3, <2>4, <2>5, <2>6, EntryCell, CellFilled
<1>5. QED
  BY <1>3, <1>4

\* A file put at a descriptor of the caller's choice.
LEMMA PutAtCounted ==
    ASSUME NEW ft, Counted(ft), NEW fd \in Nat, NEW f \in Files, NEW cos \in BOOLEAN
    PROVE  Counted(put_at(ft, fd, f, cos))
<1> DEFINE room == Grown(ft, fd + 1)
           n == IF room.table[fd + 1] = NoFile THEN room.num_fds + 1 ELSE room.num_fds
<1>1. ft \in Tables /\ Len(ft.table) \in Nat /\ fd + 1 \in Nat
  <2>1. fd + 1 \in Nat
    BY SMT
  <2>2. QED
    BY <2>1, OccupiedFinite DEF Counted
<1>2. Counted(room) /\ Len(room.table) = IF fd + 1 > Len(ft.table) THEN fd + 1 ELSE Len(ft.table)
  BY <1>1, TableGrown
<1>3. put_at(ft, fd, f, cos) = Filled(room, fd, Entry(f, cos), n)
  BY DEF put_at, Filled
<1>4. room \in Tables /\ room.num_fds \in Nat
  BY <1>2 DEF Counted, Tables
<1> HIDE DEF room
<1>5. fd \in 0 .. Len(room.table) - 1
  <2>1. \A l, m \in Nat : m \in 0 .. (IF m + 1 > l THEN m + 1 ELSE l) - 1
    BY SMT
  <2>2. QED
    BY <1>1, <1>2, <2>1
<1>6. n \in Nat
  <2>1. room.num_fds + 1 \in Nat
    BY <1>4, SMT
  <2>2. QED
    BY <1>4, <2>1
<1>7. QED
  BY <1>2, <1>3, <1>4, <1>5, <1>6, EntryCell, CellFilled

\* An occupied entry holds a file.
LEMMA EntryHeld ==
    ASSUME NEW ft, Counted(ft), NEW fd, get_entry(ft, fd) # NoFile
    PROVE  /\ fd \in Occupied(ft) /\ fd \in Nat /\ get_entry(ft, fd) = ft.table[fd + 1]
           /\ ft.table[fd + 1] \in [file : Files, close_on_spawn : BOOLEAN]
           /\ ft.table[fd + 1].file \in Files
<1>1. fd \in Occupied(ft) /\ get_entry(ft, fd) = ft.table[fd + 1]
  BY DEF get_entry
<1>2. ft.table \in Seq(Cells) /\ fd \in 0 .. Len(ft.table) - 1 /\ ft.table[fd + 1] # NoFile
  BY <1>1 DEF Counted, Tables, Occupied
<1>3. fd \in Nat /\ ft.table[fd + 1] \in Cells
  BY <1>2, SMT
<1>4. ft.table[fd + 1] \in [file : Files, close_on_spawn : BOOLEAN]
  BY <1>2, <1>3 DEF Cells
<1>5. QED
  BY <1>1, <1>3, <1>4

\* F_DUPFD.
LEMMA DupCounted ==
    ASSUME NEW ft, Counted(ft), NEW fd, get_entry(ft, fd) # NoFile, NEW min_fd \in Nat, NEW cos \in BOOLEAN
    PROVE  Counted(dup(ft, fd, min_fd, cos))
<1> DEFINE room == Grown(ft, min_fd + 1)
           free == FreeFrom(room, min_fd)
           to == IF free = {} THEN Len(room.table) ELSE Least(free)
<1>1. ft \in Tables /\ min_fd + 1 \in Nat
  <2>1. min_fd + 1 \in Nat
    BY SMT
  <2>2. QED
    BY <2>1 DEF Counted
<1>2. Counted(room) /\ room \in Tables
  BY <1>1, TableGrown DEF Counted
<1>3. dup(ft, fd, min_fd, cos) = put_at(room, to, ft.table[fd + 1].file, cos)
  BY DEF dup
<1> HIDE DEF room
<1>4. Len(room.table) \in Nat /\ (free # {} => Least(free) \in 0 .. Len(room.table) - 1)
  BY <1>2, OccupiedFinite, FreeFound
<1> HIDE DEF free
<1>5. to \in Nat
  <2>1. free # {} => Least(free) \in Nat
    BY <1>4, SMT
  <2>2. QED
    BY <1>4, <2>1
<1> HIDE DEF to
<1>6. QED
  BY <1>2, <1>3, <1>5, EntryHeld, PutAtCounted

\* A descriptor closed.
LEMMA DelCounted == ASSUME NEW ft, Counted(ft), NEW fd PROVE Counted(del(ft, fd))
<1>1. CASE get_entry(ft, fd) = NoFile
  BY <1>1 DEF del
<1>2. CASE get_entry(ft, fd) # NoFile
  <2>1. del(ft, fd) = Filled(ft, fd, NoFile, ft.num_fds - 1)
    BY <1>2 DEF del, Filled
  <2>2. ft \in Tables /\ fd \in Occupied(ft)
    BY <1>2, EntryHeld DEF Counted
  <2>3. QED
    BY <2>1, <2>2, CellEmptied
<1>3. QED
  BY <1>1, <1>2

\* The close-on-exec flag of a descriptor changed.
LEMMA FlagCounted ==
    ASSUME NEW ft, Counted(ft), NEW fd, get_entry(ft, fd) # NoFile, NEW cos \in BOOLEAN
    PROVE  Counted([ft EXCEPT !.table[fd + 1].close_on_spawn = cos])
<1> DEFINE e == [ft.table[fd + 1] EXCEPT !.close_on_spawn = cos]
           u == [ft EXCEPT !.table[fd + 1].close_on_spawn = cos]
<1>1. ft \in Tables /\ ft.num_fds \in Nat /\ fd \in 0 .. Len(ft.table) - 1 /\ ft.table[fd + 1] # NoFile
  BY EntryHeld DEF Counted, Tables, Occupied
<1>2. e \in Cells /\ e # NoFile
  <2>1. PICK f \in Files, c \in BOOLEAN : ft.table[fd + 1] = [file |-> f, close_on_spawn |-> c]
    BY EntryHeld
  <2>2. e = Entry(f, cos)
    BY <2>1, SMT DEF Entry
  <2>3. QED
    BY <2>2, EntryCell
<1> DEFINE s == [ft.table EXCEPT ![fd + 1] = e]
           w == Filled(ft, fd, e, ft.num_fds)
<1>3. u = [ft EXCEPT !.table = s] /\ w = [ft EXCEPT !.table = s, !.num_fds = ft.num_fds]
  BY DEF Filled
<1> HIDE DEF e, u, s, w
<1>4. /\ u.table = s /\ u.num_fds = ft.num_fds /\ w.table = s /\ w.num_fds = ft.num_fds
      /\ s \in Seq(Cells) => u \in Tables
  BY <1>1, <1>3 DEF Tables
<1>5. Counted(w)
  BY <1>1, <1>2, CellFilled DEF w
<1>6. s \in Seq(Cells)
  BY <1>4, <1>5 DEF Counted, Tables
<1>7. Occupied(u) = Occupied(w)
  BY <1>4 DEF Occupied
<1>8. QED
  BY <1>4, <1>5, <1>6, <1>7 DEF Counted, u

\* All descriptors closed.
LEMMA DelAllCounted == ASSUME NEW ft, Counted(ft) PROVE Counted(del_all(ft))
<1> DEFINE s == [i \in DOMAIN ft.table |-> NoFile]
           u == [table |-> s, num_fds |-> 0]
<1>1. ft.table \in Seq(Cells) /\ NoFile \in Cells
  BY DEF Counted, Tables, Cells
<1>2. s \in Seq(Cells) /\ Len(s) = Len(ft.table) /\ \A i \in 1 .. Len(s) : s[i] = NoFile
  BY <1>1, SMT
<1> HIDE DEF s
<1>3. \A x \in 0 .. Len(s) - 1 : s[x + 1] = NoFile
  BY <1>2, SMT
<1>4. Occupied(u) = {}
  BY <1>3 DEF Occupied
<1>5. 0 \in Nat
  BY SMT
<1>6. Counted(u)
  BY <1>2, <1>4, <1>5, FS_EmptySet DEF Counted, Tables
<1>7. QED
  BY <1>6 DEF del_all, s

\* The close-on-exec descriptors closed: their count is that of their places in the vector.
LEMMA CloseOnSpawnCounted == ASSUME NEW ft, Counted(ft) PROVE Counted(close_on_spawn(ft))
<1> DEFINE M == {i \in DOMAIN ft.table : MustClose(ft, ft.table[i])}
           C == {fd \in 0 .. Len(ft.table) - 1 : MustClose(ft, ft.table[fd + 1])}
           s == [i \in DOMAIN ft.table |-> IF MustClose(ft, ft.table[i]) THEN NoFile ELSE ft.table[i]]
           n == ft.num_fds - Cardinality(M)
           u == [table |-> s, num_fds |-> n]
<1>1. /\ ft \in Tables /\ ft.table \in Seq(Cells) /\ NoFile \in Cells
      /\ Len(ft.table) \in Nat /\ DOMAIN ft.table = 1 .. Len(ft.table)
      /\ IsFiniteSet(Occupied(ft)) /\ ft.num_fds = Cardinality(Occupied(ft))
  BY OccupiedFinite DEF Counted, Tables, Cells
<1>2. C \in SUBSET Occupied(ft)
  BY DEF MustClose, Occupied
<1>3. IsFiniteSet(C)
  BY <1>1, <1>2, FS_Subset
<1>4. \A x \in 0 .. Len(ft.table) - 1 : x \in Nat /\ x + 1 \in DOMAIN ft.table
  BY <1>1, SMT
<1>5. \A i \in DOMAIN ft.table : i - 1 \in 0 .. Len(ft.table) - 1 /\ (i - 1) + 1 = i
  BY <1>1, SMT
<1>6. ExistsBijection(C, M)
  <2> DEFINE g == [x \in C |-> x + 1]
  <2>1. g \in [C -> M]
    BY <1>4
  <2>2. \A a, b \in C : g[a] = g[b] => a = b
    <3>1. \A a, b \in Nat : a + 1 = b + 1 => a = b
      BY SMT
    <3>2. C \in SUBSET Nat
      BY <1>4
    <3>3. QED
      BY <3>1, <3>2
  <2>3. \A i \in M : \E x \in C : g[x] = i
    <3> SUFFICES ASSUME NEW i \in M PROVE \E x \in C : g[x] = i
      OBVIOUS
    <3>1. i - 1 \in C /\ (i - 1) + 1 = i
      BY <1>5
    <3>2. g[i - 1] = i
      BY <3>1
    <3>3. QED
      BY <3>1, <3>2
  <2>4. DOMAIN g = C
    OBVIOUS
  <2> HIDE DEF g, C, M
  <2>5. g \in Bijection(C, M)
    BY <2>1, <2>2, <2>3, <2>4 DEF Bijection, Injection, Surjection, IsInjective
  <2>6. QED
    BY <2>5 DEF ExistsBijection
<1>7. Cardinality(M) = Cardinality(C)
  <2> HIDE DEF M, C
  <2>1. QED
    BY <1>3, <1>6, FS_Bijection
<1>8. s \in Seq(Cells) /\ Len(s) = Len(ft.table)
  BY <1>1, SMT
<1>9. Occupied(u) = Occupied(ft) \ C
  <2>1. \A x \in 0 .. Len(ft.table) - 1 :
           s[x + 1] = IF MustClose(ft, ft.table[x + 1]) THEN NoFile ELSE ft.table[x + 1]
    BY <1>4
  <2> HIDE DEF s
  <2>2. QED
    BY <1>8, <2>1 DEF Occupied
<1> HIDE DEF s, M
<1>10. n = Cardinality(Occupied(u)) /\ IsFiniteSet(Occupied(u))
  <2>1. Occupied(ft) \cap C = C
    BY <1>2
  <2> HIDE DEF C
  <2>2. /\ IsFiniteSet(Occupied(ft) \ C)
        /\ Cardinality(Occupied(ft) \ C) = Cardinality(Occupied(ft)) - Cardinality(Occupied(ft) \cap C)
    BY <1>1, FS_Difference
  <2>3. QED
    BY <1>1, <1>7, <1>9, <2>1, <2>2
<1>11. n \in Nat
  BY <1>10, FS_CardinalityType
<1> HIDE DEF n
<1>12. Counted(u)
  BY <1>8, <1>10, <1>11 DEF Counted, Tables
<1>13. QED
  BY <1>12 DEF close_on_spawn, s, n, M

\* What a call carries.
LEMMA CallFields ==
    ASSUME NEW c \in FileCalls
    PROVE  /\ c.call \in {"open", "pipe"} => c.file \in Files /\ c.cos \in BOOLEAN
           /\ c.call = "dup2" => c.new \in Nat /\ c.cos \in BOOLEAN
           /\ c.call = "dupfd" => c.min \in Nat /\ c.cos \in BOOLEAN
           /\ c.call = "setfd" => c.cos \in BOOLEAN
  BY SMT DEF FileCalls

\* The calls left after a step, and the call made by it.
LEMMA CallTaken ==
    ASSUME FTInv, NEW t \in FThreads, NEW name, Calls(t, name)
    PROVE  /\ Head(fcalls[t]) \in FileCalls /\ Head(fcalls[t]).call = name
           /\ Done(t) => fcalls' \in [FThreads -> Seq(FileCalls)]
<1>1. fcalls[t] \in Seq(FileCalls) /\ fcalls[t] # <<>> /\ Head(fcalls[t]).call = name
  BY DEF FTInv, Calls
<1>2. Head(fcalls[t]) \in FileCalls /\ Tail(fcalls[t]) \in Seq(FileCalls)
  BY <1>1, HeadTailProperties
<1>3. QED
  BY <1>1, <1>2 DEF FTInv, Done

\* The table of the first process.
LEMMA TableInit == FTInit => FTInv
<1> SUFFICES ASSUME FTInit PROVE FTInv
  OBVIOUS
<1> DEFINE s == <<Entry("stdin", FALSE), Entry("stdout", FALSE)>>
<1>1. "stdin" \in Files /\ "stdout" \in Files
  BY FileTableAssumption
<1>2. s[1] \in Cells /\ s[2] \in Cells /\ s[1] # NoFile /\ s[2] # NoFile
  BY <1>1, EntryCell
<1>3. s \in Seq(Cells) /\ Len(s) = 2 /\ 2 \in Nat
  <2>1. \A a, b \in Cells : <<a, b>> \in Seq(Cells) /\ Len(<<a, b>>) = 2
    BY SMT
  <2>2. Entry("stdin", FALSE) \in Cells /\ Entry("stdout", FALSE) \in Cells
    BY <1>1, EntryCell
  <2>3. 2 \in Nat
    BY SMT
  <2>4. QED
    BY <2>1, <2>2, <2>3
<1>4. files.table = s /\ files.num_fds = 2 /\ files \in Tables
  BY <1>3 DEF FTInit, Tables
<1> HIDE DEF s
<1>5. 0 .. Len(s) - 1 = 0 .. 1 /\ 0 + 1 = 1 /\ 1 + 1 = 2
  BY <1>3, SMT
<1>6. Occupied(files) = 0 .. 1
  <2>1. \A x \in 0 .. 1 : x = 0 \/ x = 1
    BY SMT
  <2>2. QED
    BY <1>2, <1>4, <1>5, <2>1 DEF Occupied
<1>7. Cardinality(0 .. 1) = 2
  <2>1. 0 \in Int /\ 1 \in Int
    BY SMT
  <2>2. Cardinality(0 .. 1) = IF 0 > 1 THEN 0 ELSE 1 - 0 + 1
    BY <2>1, FS_Interval
  <2>3. QED
    BY <2>2, SMT
<1>8. Counted(files)
  BY <1>4, <1>6, <1>7 DEF Counted
<1>9. QED
  BY <1>8, FileTableAssumption DEF FTInit, FTInv

\* The calls that add a file: open and its kind, pipe2, and the two halves of dup(2).
LEMMA OpenSteps ==
    ASSUME FTInv, NEW t \in FThreads, do_open(t) \/ do_pipe2(t) \/ DupLookup(t) \/ DupAdd(t)
    PROVE  FTInv'
<1> DEFINE c == Head(fcalls[t])
<1>1. Counted(files) /\ ~tpanic /\ dupped \in [FThreads -> Files \cup {NoFile}]
  BY DEF FTInv
<1>2. CASE do_open(t)
  <2>1. c.file \in Files /\ c.cos \in BOOLEAN /\ fcalls' \in [FThreads -> Seq(FileCalls)]
    BY <1>2, CallTaken, CallFields DEF do_open
  <2>2. Counted(put(files, c.file, c.cos)) /\ ~PutPanics(files)
    BY <1>1, <2>1, PutCounted
  <2>3. QED
    BY <1>2, <2>1, <2>2 DEF do_open, FTInv
<1>3. CASE do_pipe2(t)
  <2> DEFINE first == put(files, c.file, c.cos)
  <2>1. c.file \in Files /\ c.cos \in BOOLEAN /\ fcalls' \in [FThreads -> Seq(FileCalls)]
    BY <1>3, CallTaken, CallFields DEF do_pipe2
  <2>2. Counted(first) /\ ~PutPanics(files)
    BY <1>1, <2>1, PutCounted
  <2>3. Counted(put(first, c.file, c.cos)) /\ ~PutPanics(first)
    BY <2>1, <2>2, PutCounted
  <2>4. QED
    BY <1>3, <2>1, <2>2, <2>3 DEF do_pipe2, FTInv
<1>4. CASE DupLookup(t)
  <2>1. Done(t) => fcalls' \in [FThreads -> Seq(FileCalls)]
    BY <1>4, CallTaken DEF DupLookup
  <2>2. get_entry(files, c.fd) # NoFile => get_entry(files, c.fd).file \in Files
    BY <1>1, EntryHeld
  <2>3. dupped' \in [FThreads -> Files \cup {NoFile}] /\ fcalls' \in [FThreads -> Seq(FileCalls)]
    BY <1>1, <1>4, <2>1, <2>2 DEF DupLookup, FTInv
  <2>4. QED
    BY <1>4, <2>3 DEF DupLookup, FTInv, Counted, Occupied
<1>5. CASE DupAdd(t)
  <2>1. fcalls' \in [FThreads -> Seq(FileCalls)]
    BY <1>5, CallTaken DEF DupAdd
  <2>2. dupped[t] \in Files /\ FALSE \in BOOLEAN
    BY <1>1, <1>5 DEF DupAdd
  <2>3. Counted(put(files, dupped[t], FALSE)) /\ ~PutPanics(files)
    BY <1>1, <2>2, PutCounted
  <2>4. dupped' \in [FThreads -> Files \cup {NoFile}]
    BY <1>1, <1>5 DEF DupAdd
  <2>5. QED
    BY <1>5, <2>1, <2>3, <2>4 DEF DupAdd, FTInv
<1>6. QED
  BY <1>2, <1>3, <1>4, <1>5

\* The calls on a descriptor of the caller's: dup2, fcntl, close.
LEMMA DescriptorSteps ==
    ASSUME FTInv, NEW t \in FThreads, do_dup2(t) \/ do_fcntl(t) \/ close_file(t)
    PROVE  FTInv'
<1> DEFINE c == Head(fcalls[t])
           e == get_entry(files, c.fd)
<1>1. Counted(files)
  BY DEF FTInv
<1>2. e # NoFile => e.file \in Files
  BY <1>1, EntryHeld
<1>3. CASE do_dup2(t)
  <2>1. c.new \in Nat /\ c.cos \in BOOLEAN /\ fcalls' \in [FThreads -> Seq(FileCalls)]
    BY <1>3, CallTaken, CallFields DEF do_dup2
  <2>2. e # NoFile => Counted(put_at(files, c.new, e.file, c.cos))
    BY <1>1, <1>2, <2>1, PutAtCounted
  <2>3. Counted(files)'
    BY <1>1, <1>3, <2>2 DEF do_dup2
  <2>4. QED
    BY <1>3, <2>1, <2>3 DEF do_dup2, FTInv
<1>4. CASE do_fcntl(t)
  <2>1. /\ fcalls' \in [FThreads -> Seq(FileCalls)]
        /\ c.cos \in BOOLEAN /\ (c.call # "setfd" => c.min \in Nat)
    <3>1. "dupfd" # "setfd"
      OBVIOUS
    <3>2. CASE Calls(t, "dupfd")
      BY <1>4, <3>1, <3>2, CallTaken, CallFields DEF do_fcntl
    <3>3. CASE Calls(t, "setfd")
      <4>1. c \in FileCalls /\ c.call = "setfd" /\ fcalls' \in [FThreads -> Seq(FileCalls)]
        BY <1>4, <3>3, CallTaken DEF do_fcntl
      <4>2. QED
        BY <4>1, CallFields
    <3>4. QED
      BY <1>4, <3>2, <3>3 DEF do_fcntl
  <2>2. e # NoFile /\ c.call = "setfd" => Counted([files EXCEPT !.table[c.fd + 1].close_on_spawn = c.cos])
    BY <1>1, <2>1, FlagCounted
  <2>3. e # NoFile /\ c.call # "setfd" => Counted(dup(files, c.fd, c.min, c.cos))
    BY <1>1, <2>1, DupCounted
  <2>4. CASE e = NoFile
    <3>1. files' = files
      BY <1>4, <2>4 DEF do_fcntl
    <3>2. QED
      BY <1>1, <1>4, <2>1, <3>1 DEF do_fcntl, FTInv
  <2>5. CASE e # NoFile /\ c.call = "setfd"
    <3>1. files' = [files EXCEPT !.table[c.fd + 1].close_on_spawn = c.cos]
      BY <1>4, <2>5 DEF do_fcntl
    <3>2. Counted(files')
      BY <2>2, <2>5, <3>1
    <3>3. QED
      BY <1>4, <2>1, <3>2 DEF do_fcntl, FTInv
  <2>6. CASE e # NoFile /\ c.call # "setfd"
    <3>1. files' = dup(files, c.fd, c.min, c.cos)
      BY <1>4, <2>6 DEF do_fcntl
    <3>2. Counted(files')
      BY <2>3, <2>6, <3>1
    <3>3. QED
      BY <1>4, <2>1, <3>2 DEF do_fcntl, FTInv
  <2>7. QED
    BY <2>4, <2>5, <2>6
<1>5. CASE close_file(t)
  <2>1. fcalls' \in [FThreads -> Seq(FileCalls)]
    BY <1>5, CallTaken DEF close_file
  <2>2. Counted(del(files, c.fd))
    BY <1>1, DelCounted
  <2>3. QED
    BY <1>5, <2>1, <2>2 DEF close_file, FTInv
<1>6. QED
  BY <1>3, <1>4, <1>5

\* The calls that make or change processes.
LEMMA TableSteps ==
    ASSUME FTInv, NEW t \in FThreads,
           \/ do_spawn(t) \/ do_exec(t) \/ close_all_files(t)
           \/ vfork_save_file_table(t) \/ restore_parent_process(t)
    PROVE  FTInv'
<1>1. Counted(files) /\ (parent_files # NoFile => Counted(parent_files))
  BY DEF FTInv
<1>2. CASE do_spawn(t)
  <2>1. fcalls' \in [FThreads -> Seq(FileCalls)]
    BY <1>2, CallTaken DEF do_spawn
  <2>2. QED
    BY <1>2, <2>1 DEF do_spawn, FTInv
<1>3. CASE do_exec(t)
  <2>1. fcalls' \in [FThreads -> Seq(FileCalls)]
    BY <1>3, CallTaken DEF do_exec
  <2>2. Counted(close_on_spawn(files))
    BY <1>1, CloseOnSpawnCounted
  <2>3. QED
    BY <1>3, <2>1, <2>2 DEF do_exec, FTInv
<1>4. CASE close_all_files(t)
  <2>1. fcalls' \in [FThreads -> Seq(FileCalls)]
    BY <1>4, CallTaken DEF close_all_files
  <2>2. Counted(del_all(files))
    BY <1>1, DelAllCounted
  <2>3. QED
    BY <1>4, <2>1, <2>2 DEF close_all_files, FTInv
<1>5. CASE vfork_save_file_table(t)
  <2>1. fcalls' \in [FThreads -> Seq(FileCalls)]
    BY <1>5, CallTaken DEF vfork_save_file_table
  <2>2. QED
    BY <1>1, <1>5, <2>1 DEF vfork_save_file_table, FTInv
<1>6. CASE restore_parent_process(t)
  <2>1. fcalls' \in [FThreads -> Seq(FileCalls)]
    BY <1>6, CallTaken DEF restore_parent_process
  <2>2. /\ files' = parent_files /\ parent_files # NoFile /\ parent_files' = NoFile
        /\ dupped' = dupped /\ tpanic' = tpanic
    BY <1>6 DEF restore_parent_process
  <2>3. QED
    BY <1>1, <2>1, <2>2 DEF FTInv
<1>7. QED
  BY <1>2, <1>3, <1>4, <1>5, <1>6

\* For any threads, programs, files and descriptors: the count of the table in use, and of the one
\* vfork put aside, is the number of its occupied entries, and FileTable::put never unwraps None.
THEOREM DescriptorsCounted == FTSpec => []TablesCounted
<1>1. FTInit => FTInv
  BY TableInit
<1>2. FTInv /\ [FTNext]_fileTableVars => FTInv'
  <2> SUFFICES ASSUME FTInv, [FTNext]_fileTableVars PROVE FTInv'
    OBVIOUS
  <2>1. CASE FTNext
    BY <2>1, OpenSteps, DescriptorSteps, TableSteps DEF FTNext
  <2>2. CASE UNCHANGED fileTableVars
    BY <2>2 DEF fileTableVars, FTInv
  <2>3. QED
    BY <2>1, <2>2
<1>3. FTInv => TablesCounted
  BY DEF FTInv, Counted, TablesCounted
<1>4. QED
  BY <1>1, <1>2, <1>3, PTL DEF FTSpec
=============================================================================
