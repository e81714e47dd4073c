------------------------------- MODULE Epoll -------------------------------
(***************************************************************************)
(* One epoll file, net/io_multiplexing/epoll: its interest list, its ready *)
(* list, the threads waiting on it, the notifiers of the files it observes *)
(* and the host epoll file that watches the host files among them.         *)
(*                                                                         *)
(* A file has one event, IN.  A LibOS file changes state and broadcasts; a *)
(* host file changes state on the host, and the LibOS learns of it only    *)
(* through the host epoll file.  The entries are numbered in the order in  *)
(* which they are created; an entry nobody refers to is dropped, and the   *)
(* subscriptions that still carry its number (a Weak) then do nothing.     *)
(***************************************************************************)
EXTENDS Naturals, FiniteSets, SequencesExt

CONSTANTS
    Waiters, Users, Drivers,    \* threads: epoll_wait; epoll_ctl and close; file events
    Fds, LibosFiles, HostFiles,
    FileAt,         \* the file behind each descriptor when the epoll file is made
    Flags,          \* of the entries: {}, {"et"}, {"oneshot"}, ...
    Scenarios,      \* what may happen: [waiters, fds, flags, ops] of which each is a set
    MaxCount,       \* length of the array given to epoll_wait
    MaxEntries,     \* bound on the entries made
    MaxEvents,      \* bound on the changes of the files' states
    None

Files == LibosFiles \cup HostFiles
Actors == Waiters \cup Users \cup Drivers

VARIABLES
    fds,        \* the file table: descriptor -> file or None
    epState,    \* the file has its event
    hostEvents, \* the host file's event as last told by the host
    entries,    \* the EpollEntry structs
    interest,   \* descriptor -> entry or 0
    ready,      \* the ready list
    subs,       \* subscriptions of this epoll file with each file's notifier
    hostSet,    \* host_files_and_events, with the host's own copy: file -> flags or None
    sleepers,   \* the waiter queue
    eventfd,    \* host eventfds that are readable
    events,     \* changes of the files' states so far
    epc, batch, found, reinsert, polled, todo,
    scenario    \* chosen at the start

epollVars == <<scenario, fds, epState, hostEvents, entries, interest, ready, subs, hostSet, sleepers, eventfd, events, epc, batch,
          found, reinsert, polled, todo>>

Init ==
    /\ scenario \in Scenarios
    /\ fds = FileAt
    /\ epState = [f \in Files |-> FALSE] /\ hostEvents = [f \in HostFiles |-> FALSE]
    /\ entries = <<>> /\ interest = [fd \in Fds |-> 0] /\ ready = <<>>
    /\ subs = [f \in Files |-> <<>>] /\ hostSet = [f \in HostFiles |-> None]
    /\ sleepers = {} /\ eventfd = {} /\ events = 0
    /\ epc = [t \in Actors |-> "user"]
    /\ batch = [t \in Actors |-> <<>>] /\ found = [t \in Actors |-> 0]
    /\ reinsert = [t \in Actors |-> <<>>] /\ polled = [t \in Actors |-> {}]
    /\ todo = [t \in Actors |-> <<>>]

Goto(t, label) == epc' = [epc EXCEPT ![t] = label]

\* The entry's Arc is still held: by a list, or by a thread that works on it.
Alive(e) ==
    \/ interest[entries[e].fd] = e
    \/ e \in ToSet(ready)
    \/ \E t \in Actors : e \in ToSet(batch[t]) \cup ToSet(reinsert[t])
    \/ \E t \in Users : e \in ToSet(todo[t])

(***************************************************************************)
(* push_ready, for the entries of todo[t] in turn: on the fast path        *)
(* nothing is locked; otherwise the entry is pushed under the lock of the  *)
(* ready list, unless it was meanwhile, and mark_ready wakes the waiters   *)
(* (all of them: the queue is drained).  Afterwards the thread goes on     *)
(* where its caller left it.                                               *)
(***************************************************************************)
AfterPush(t) == IF t \in Waiters THEN "update" ELSE "user"

PushNext(t) ==
    /\ todo' = [todo EXCEPT ![t] = Tail(@)]
    /\ Goto(t, IF Len(todo[t]) = 1 THEN AfterPush(t) ELSE "push")

push_ready(t) ==
    /\ epc[t] = "push"
    /\ LET e == Head(todo[t]) IN
       IF entries[e].is_ready \/ ~Alive(e)
       THEN PushNext(t)
       ELSE Goto(t, "locked") /\ UNCHANGED todo
    /\ UNCHANGED <<fds, epState, hostEvents, entries, interest, ready, subs, hostSet, sleepers, eventfd, events, batch,
                   found, reinsert, polled>>

\* Those of the entries that are not in the ready list, appended to it.
Listed(es) == SelectSeq(es, LAMBDA e : ~entries[e].is_ready)

push_ready_iter(t, es) ==
    /\ ready' = ready \o Listed(es)
    /\ entries' = [e \in DOMAIN entries |->
                     IF e \in ToSet(Listed(es)) THEN [entries[e] EXCEPT !.is_ready = TRUE] ELSE entries[e]]

PushLocked(t) ==
    /\ epc[t] = "locked"
    /\ push_ready_iter(t, <<Head(todo[t])>>)
    /\ IF Listed(<<Head(todo[t])>>) = <<>>
       THEN PushNext(t)
       ELSE Goto(t, "wake") /\ UNCHANGED todo
    /\ UNCHANGED <<fds, epState, hostEvents, interest, subs, hostSet, sleepers, eventfd, events, batch, found,
                   reinsert, polled>>

mark_ready == sleepers' = {} /\ eventfd' = eventfd \cup sleepers

PushWake(t) ==
    /\ epc[t] = "wake" /\ todo[t] # <<>>
    /\ mark_ready
    /\ PushNext(t)
    /\ UNCHANGED <<fds, epState, hostEvents, entries, interest, ready, subs, hostSet, events, batch, found, reinsert,
                   polled>>

(***************************************************************************)
(* The files.  A driver changes the state of a LibOS file and broadcasts;  *)
(* the state of a host file changes by itself.                             *)
(***************************************************************************)
Used(f) == \E fd \in scenario.fds : FileAt[fd] = f

FileEvent(t, f) ==
    /\ t \in Drivers /\ Used(f) /\ epc[t] = "user" /\ events < MaxEvents
    /\ events' = events + 1
    /\ epState' = [epState EXCEPT ![f] = ~@]
    /\ IF epState[f] \/ subs[f] = <<>>
       THEN UNCHANGED <<todo, epc>>
       ELSE todo' = [todo EXCEPT ![t] = subs[f]] /\ Goto(t, "push")
    /\ UNCHANGED <<fds, hostEvents, entries, interest, ready, subs, hostSet, sleepers, eventfd, batch, found, reinsert,
                   polled>>

HostEvent(f) ==
    /\ Used(f) /\ events < MaxEvents
    /\ events' = events + 1
    /\ epState' = [epState EXCEPT ![f] = ~@]
    /\ UNCHANGED <<fds, hostEvents, entries, interest, ready, subs, hostSet, sleepers, eventfd, epc, batch, found,
                   reinsert, polled, todo>>

\* What the host epoll file has to report (external): a level-triggered file always, another
\* one perhaps, since the host may have reported it already.
MayReport == {f \in HostFiles : hostSet[f] # None /\ epState[f]}
MustReport == {f \in MayReport : hostSet[f] = {}}

(***************************************************************************)
(* epoll_wait.                                                             *)
(***************************************************************************)
\* Every round starts with HostFileEpoller::poll_events: first the ocall, unless there are no
\* host files,
poll_events(t) ==
    /\ t \in scenario.waiters /\ epc[t] \in {"user", "host"}
    /\ \E fs \in {s \in SUBSET MayReport : Cardinality(s) <= MaxCount} :
          /\ fs = {} => MustReport = {}
          /\ polled' = [polled EXCEPT ![t] = fs]
    /\ Goto(t, IF \A f \in HostFiles : hostSet[f] = None THEN "enqueue" ELSE "update")
    /\ UNCHANGED <<fds, epState, hostEvents, entries, interest, ready, subs, hostSet, sleepers, eventfd, events, batch,
                   found, reinsert, todo>>

\* then every file reported that is still in the set is updated and broadcasts.
update_host_events(t) ==
    /\ epc[t] = "update"
    /\ IF polled[t] = {}
       THEN Goto(t, "enqueue") /\ UNCHANGED <<polled, hostEvents, todo>>
       ELSE \E f \in polled[t] :
              /\ polled' = [polled EXCEPT ![t] = @ \ {f}]
              /\ hostEvents' = [hostEvents EXCEPT ![f] = @ \/ hostSet[f] # None]
              /\ IF hostSet[f] = None \/ subs[f] = <<>>
                 THEN UNCHANGED <<todo, epc>>
                 ELSE todo' = [todo EXCEPT ![t] = subs[f]] /\ Goto(t, "push")
    /\ UNCHANGED <<fds, epState, entries, interest, ready, subs, hostSet, sleepers, eventfd, events, batch, found,
                   reinsert>>

reset_and_enqueue(t) ==
    /\ epc[t] = "enqueue"
    /\ sleepers' = sleepers \cup {t}
    /\ Goto(t, "pop")
    /\ UNCHANGED <<fds, epState, hostEvents, entries, interest, ready, subs, hostSet, eventfd, events, batch, found,
                   reinsert, polled, todo>>

Min2(a, b) == IF a < b THEN a ELSE b

\* Under the lock of the ready list.
pop_ready(t) ==
    LET n == Min2(MaxCount - found[t], Len(ready)) IN
    /\ epc[t] = "pop"
    /\ batch' = [batch EXCEPT ![t] = SubSeq(ready, 1, n)]
    /\ ready' = SubSeq(ready, n + 1, Len(ready))
    /\ entries' = [e \in DOMAIN entries |->
                     IF e \in ToSet(SubSeq(ready, 1, n)) THEN [entries[e] EXCEPT !.is_ready = FALSE]
                                                         ELSE entries[e]]
    /\ Goto(t, IF n = 0 THEN "finish" ELSE "batch")
    /\ UNCHANGED <<fds, epState, hostEvents, interest, subs, hostSet, sleepers, eventfd, events, found, reinsert,
                   polled, todo>>

\* poll_new of the entry's file, masked.
HasEvent(e) ==
    /\ entries[e].armed
    /\ IF entries[e].file \in HostFiles THEN hostEvents[entries[e].file] ELSE epState[entries[e].file]

\* Mutant: a level-triggered entry that was reported does not go back to the ready list.
ReinsertNever(e) == FALSE

\* Level-triggered entries of LibOS files go back to the ready list.
Reinserted(e) == entries[e].flags \cap {"et", "oneshot"} = {} /\ entries[e].file \in LibosFiles

PollEntry(t) ==
    LET e == Head(batch[t]) IN
    /\ epc[t] = "batch"
    /\ batch' = [batch EXCEPT ![t] = Tail(@)]
    /\ IF ~entries[e].is_deleted /\ HasEvent(e)
       THEN /\ found' = [found EXCEPT ![t] = @ + 1]
            /\ entries' = IF "oneshot" \in entries[e].flags THEN [entries EXCEPT ![e].armed = FALSE] ELSE entries
            /\ reinsert' = [reinsert EXCEPT ![t] = IF Reinserted(e) THEN Append(@, e) ELSE @]
       ELSE UNCHANGED <<found, entries, reinsert>>
    /\ Goto(t, IF Len(batch[t]) > 1 THEN "batch" ELSE IF found'[t] < MaxCount THEN "pop" ELSE "finish")
    /\ UNCHANGED <<fds, epState, hostEvents, interest, ready, subs, hostSet, sleepers, eventfd, events, polled, todo>>

\* The results are returned, what is still ready having been pushed back; or the thread waits.
Finish(t) ==
    /\ epc[t] = "finish"
    /\ IF found[t] = 0
       THEN Goto(t, "wait") /\ UNCHANGED <<found, reinsert, ready, entries, sleepers>>
       ELSE /\ found' = [found EXCEPT ![t] = 0]
            /\ reinsert' = [reinsert EXCEPT ![t] = <<>>]
            /\ push_ready_iter(t, reinsert[t])
            /\ sleepers' = sleepers \ {t}
            /\ Goto(t, IF Listed(reinsert[t]) = <<>> THEN "user" ELSE "wake")
    /\ UNCHANGED <<fds, epState, hostEvents, interest, subs, hostSet, eventfd, events, batch, polled, todo>>

WakeAndReturn(t) ==
    /\ t \in Waiters /\ epc[t] = "wake" /\ todo[t] = <<>>
    /\ mark_ready
    /\ Goto(t, "user")
    /\ UNCHANGED <<fds, epState, hostEvents, entries, interest, ready, subs, hostSet, events, batch, found, reinsert,
                   polled, todo>>

\* EpollWaiter::wait_mut: the thread polls its eventfd, which is read, and the host epoll file.
wait_mut(t) ==
    /\ epc[t] = "wait" /\ (t \in eventfd \/ MayReport # {})
    /\ eventfd' = eventfd \ {t}
    /\ Goto(t, "host")
    /\ UNCHANGED <<fds, epState, hostEvents, entries, interest, ready, subs, hostSet, sleepers, events, batch, found,
                   reinsert, polled, todo>>

\* A timeout or a signal.
GiveUp(t) ==
    /\ epc[t] = "wait"
    /\ sleepers' = sleepers \ {t}
    /\ Goto(t, "user")
    /\ UNCHANGED <<fds, epState, hostEvents, entries, interest, ready, subs, hostSet, eventfd, events, batch, found,
                   reinsert, polled, todo>>

(***************************************************************************)
(* epoll_ctl and close.  They register with the notifier of the file, or   *)
(* unregister, and so wait for a broadcast of it to end; and they wait for *)
(* the update of the host files, which holds host_files_and_events.        *)
(***************************************************************************)
Broadcasting(f) ==
    \E t \in Waiters \cup Drivers : todo[t] # <<>> /\ entries[Head(todo[t])].file = f

\* add_interest: the file is looked up in the file table,
AddLookup(t, fd, fl) ==
    /\ t \in Users /\ "add" \in scenario.ops /\ epc[t] = "user"
    /\ fds[fd] # None /\ Len(entries) < MaxEntries
    /\ entries' = Append(entries, [fd |-> fd, file |-> fds[fd], armed |-> TRUE, flags |-> fl,
                                   is_ready |-> FALSE, is_deleted |-> FALSE])
    /\ todo' = [todo EXCEPT ![t] = <<Len(entries) + 1>>]
    /\ Goto(t, "add")
    /\ UNCHANGED <<fds, epState, hostEvents, interest, ready, subs, hostSet, sleepers, eventfd, events, batch, found,
                   reinsert, polled>>

\* and then, with the interest list locked, the entry is inserted and observes the file.
add_interest(t) ==
    LET e == Head(todo[t])
        f == entries[e].file
    IN
    /\ epc[t] = "add" /\ ~Broadcasting(f)
    /\ IF interest[entries[e].fd] # 0
       THEN todo' = [todo EXCEPT ![t] = <<>>] /\ Goto(t, "user") /\ UNCHANGED <<interest, subs, hostSet>>
       ELSE /\ interest' = [interest EXCEPT ![entries[e].fd] = e]
            /\ subs' = [subs EXCEPT ![f] = Append(@, e)]
            /\ IF f \in HostFiles
               THEN /\ hostSet' = [hostSet EXCEPT ![f] = entries[e].flags]
                    /\ todo' = [todo EXCEPT ![t] = <<>>] /\ Goto(t, "user")
               ELSE Goto(t, "push") /\ UNCHANGED <<hostSet, todo>>
    /\ UNCHANGED <<fds, epState, hostEvents, entries, ready, sleepers, eventfd, events, batch, found, reinsert, polled>>

\* Notifier::unregister drops every subscription of this observer.
del_interest(fd) ==
    LET e == interest[fd]
        f == entries[e].file
    IN IF e = 0 THEN UNCHANGED <<interest, entries, subs, hostSet>> ELSE
       /\ ~Broadcasting(f)
       /\ interest' = [interest EXCEPT ![fd] = 0]
       /\ entries' = [entries EXCEPT ![e].is_deleted = TRUE]
       /\ subs' = [subs EXCEPT ![f] = <<>>]
       /\ hostSet' = IF f \in HostFiles THEN [hostSet EXCEPT ![f] = None] ELSE hostSet

Del(t, fd) ==
    /\ t \in Users /\ "del" \in scenario.ops /\ epc[t] = "user" /\ interest[fd] # 0
    /\ del_interest(fd)
    /\ UNCHANGED <<fds, epState, hostEvents, ready, sleepers, eventfd, events, epc, batch, found, reinsert, polled, todo>>

\* FileTable::del and its broadcast of FileTableEvent::Del.
Close(t, fd) ==
    /\ t \in Users /\ "close" \in scenario.ops /\ epc[t] = "user" /\ fds[fd] # None
    /\ fds' = [fds EXCEPT ![fd] = None]
    /\ del_interest(fd)
    /\ UNCHANGED <<epState, hostEvents, ready, sleepers, eventfd, events, epc, batch, found, reinsert, polled, todo>>

mod_interest(t, fd, fl) ==
    /\ t \in Users /\ "mod" \in scenario.ops /\ epc[t] = "user" /\ interest[fd] # 0
    /\ LET e == interest[fd] IN
       /\ entries' = [entries EXCEPT ![e].armed = TRUE, ![e].flags = fl]
       /\ IF entries[e].file \in HostFiles
          THEN hostSet' = [hostSet EXCEPT ![entries[e].file] = fl] /\ UNCHANGED <<todo, epc>>
          ELSE todo' = [todo EXCEPT ![t] = <<e>>] /\ Goto(t, "push") /\ UNCHANGED hostSet
    /\ UNCHANGED <<fds, epState, hostEvents, interest, ready, subs, sleepers, eventfd, events, batch, found, reinsert,
                   polled>>

EpollNext ==
    \/ \E t \in Actors :
        \/ push_ready(t) \/ PushLocked(t) \/ PushWake(t)
        \/ poll_events(t) \/ update_host_events(t) \/ reset_and_enqueue(t) \/ pop_ready(t)
        \/ PollEntry(t) \/ Finish(t) \/ WakeAndReturn(t) \/ wait_mut(t) \/ GiveUp(t)
        \/ add_interest(t)
        \/ \E f \in LibosFiles : FileEvent(t, f)
        \/ \E fd \in scenario.fds : Del(t, fd) \/ Close(t, fd)
        \/ \E fd \in scenario.fds, fl \in scenario.flags : AddLookup(t, fd, fl) \/ mod_interest(t, fd, fl)
    \/ \E f \in HostFiles : HostEvent(f)

Next == EpollNext /\ UNCHANGED scenario

Spec == Init /\ [][Next]_epollVars
-----------------------------------------------------------------------------
\* Each entry is in the ready list once if it is marked is_ready and not at all otherwise
\* (the two are changed under the lock of the list by push_ready_iter and pop_ready).
ReadyMarked ==
    \A e \in DOMAIN entries :
        Cardinality({i \in DOMAIN ready : ready[i] = e}) = IF entries[e].is_ready THEN 1 ELSE 0

\* Somebody works on an entry: has popped it and not yet looked at its file, holds it to push
\* it back, or is about to push it.
InHand(e) ==
    \E t \in Actors :
        e \in ToSet(batch[t]) \cup ToSet(reinsert[t]) \/ e \in ToSet(todo[t])

\* No event is missed (the concurrency note of push_ready): a level-triggered entry of the
\* interest list whose file has the event is in the ready list, or somebody has it in hand.
NoEventMissed ==
    \A fd \in Fds :
        LET e == interest[fd] IN
        e # 0 /\ entries[e].armed /\ entries[e].flags = {} /\ entries[e].file \in LibosFiles
            /\ epState[entries[e].file]
        => e \in ToSet(ready) \/ InHand(e)

\* Nobody sleeps while there is work: a thread waits without an event for it only if the ready
\* list is empty, or whoever filled it has still to wake the waiters.
SleepersWoken ==
    \A t \in Waiters :
        epc[t] = "wait" /\ t \notin eventfd /\ ready # <<>>
            => t \in sleepers /\ \E u \in Actors : epc[u] = "wake"
=============================================================================
