-------------------------------- MODULE Poll --------------------------------
(***************************************************************************)
(* poll and select, net/io_multiplexing/poll_new and select.rs: threads    *)
(* that monitor files through an EventMonitor, the notifiers of the files  *)
(* and the drivers that change the files and broadcast.  An epoll file     *)
(* that observes the same files and is dropped meanwhile is there for the  *)
(* sake of Notifier::broadcast.                                            *)
(***************************************************************************)
EXTENDS Naturals, FiniteSets, SequencesExt

CONSTANTS
    Pollers, Drivers,
    LibosFiles, HostFiles,
    Asked,          \* what each poller polls, in order, with the events it asks for: a file, or
                    \* "closed" or "negative" for a descriptor without one
    Changes,        \* event sets a file may change to
    EpollFiles,     \* epoll files that observe the LibOS files and are closed
    MaxChanges

Files == LibosFiles \cup HostFiles

VARIABLES
    fev,        \* events of each file
    cached,     \* events of each host file as last told by the host
    psubs,      \* observers registered with each file's notifier
    queue,      \* pollers whose waiter is in the WaiterQueueObserver of their monitor
    pevent,     \* pollers whose eventfd is readable
    freed,      \* epoll files whose last reference is gone
    changes,
    ppc, at, result, told

pollVars == <<fev, cached, psubs, queue, pevent, freed, changes, ppc, at, result, told>>

NoResult(t) == [i \in DOMAIN Asked[t] |-> {}]
NoTold == [file |-> CHOOSE f \in Files : TRUE, events |-> {}, left |-> <<>>]

Init ==
    /\ fev = [f \in Files |-> {}] /\ cached = [f \in HostFiles |-> {}]
    /\ psubs = [f \in LibosFiles |-> SetToSeq(EpollFiles)]
    /\ queue = {} /\ pevent = {} /\ freed = {} /\ changes = 0
    /\ ppc = [t \in Pollers |-> "user"] /\ at = [t \in Pollers |-> 1]
    /\ result = [t \in Pollers |-> NoResult(t)]
    /\ told = [d \in Drivers |-> NoTold]

Goto(t, label) == ppc' = [ppc EXCEPT ![t] = label]

\* The i-th file a poller polls, and the events: ERR and HUP are always among them.
FileOf(t, i) == Asked[t][i].file
add_default_events(t, i) == Asked[t][i].events \cup {"ERR", "HUP"}
Polled(t) == {FileOf(t, i) : i \in DOMAIN Asked[t]}

(***************************************************************************)
(* do_poll_new.                                                            *)
(***************************************************************************)
\* A descriptor that is not open makes the call return at once, with NVAL for every such one; a
\* negative one is ignored.
Invalid(t) == {i \in DOMAIN Asked[t] : FileOf(t, i) = "closed"}
RefuseFds(t) ==
    /\ ppc[t] = "user" /\ Invalid(t) # {}
    /\ result' = [result EXCEPT ![t] = [i \in DOMAIN Asked[t] |-> IF i \in Invalid(t) THEN {"NVAL"} ELSE {}]]
    /\ Goto(t, "refused")
    /\ UNCHANGED <<fev, cached, psubs, queue, pevent, freed, changes, at, told>>

\* register_files: one notifier after the other.
register_files(t) ==
    /\ ppc[t] \in {"user", "register"} /\ Invalid(t) = {}
    /\ IF at[t] > Len(Asked[t])
       THEN Goto(t, "host") /\ at' = [at EXCEPT ![t] = 1] /\ UNCHANGED psubs
       ELSE /\ psubs' = IF FileOf(t, at[t]) \in LibosFiles
                        THEN [psubs EXCEPT ![FileOf(t, at[t])] = Append(@, t)] ELSE psubs
            /\ at' = [at EXCEPT ![t] = @ + 1]
            /\ Goto(t, "register")
    /\ UNCHANGED <<fev, cached, queue, pevent, freed, changes, result, told>>

\* update_host_file_events: what the poll on the host has returned.
update_host_file_events(t) ==
    cached' = [f \in HostFiles |-> IF f \in Polled(t) THEN fev[f] ELSE cached[f]]

\* The poll with no timeout also reads the eventfd.
poll_host_files(t) ==
    /\ ppc[t] = "host"
    /\ update_host_file_events(t)
    /\ pevent' = pevent \ {t}
    /\ Goto(t, "reset")
    /\ UNCHANGED <<fev, psubs, queue, freed, changes, at, result, told>>

reset_events(t) ==
    /\ ppc[t] = "reset"
    /\ queue' = queue \cup {t}
    /\ Goto(t, "poll")
    /\ UNCHANGED <<fev, cached, psubs, pevent, freed, changes, at, result, told>>

poll_new(f) == IF f \in HostFiles THEN cached[f] ELSE fev[f]

\* The files are polled one after the other, which takes a step each.
PollFile(t) ==
    /\ ppc[t] = "poll"
    /\ IF at[t] <= Len(Asked[t])
       THEN /\ result' = IF FileOf(t, at[t]) \notin Files THEN result
                         ELSE [result EXCEPT ![t][at[t]] =
                                  poll_new(FileOf(t, at[t])) \cap add_default_events(t, at[t])]
            /\ at' = [at EXCEPT ![t] = @ + 1]
            /\ UNCHANGED <<ppc, queue>>
       ELSE /\ at' = [at EXCEPT ![t] = 1]
            /\ Goto(t, IF \E i \in DOMAIN Asked[t] : result[t][i] # {} THEN "drop" ELSE "wait")
            /\ UNCHANGED <<result, queue>>
    /\ UNCHANGED <<fev, cached, psubs, pevent, freed, changes, told>>

\* wait_events: the host polls the eventfd and the host files.
wait_events(t) ==
    /\ ppc[t] = "wait"
    /\ \/ t \in pevent
       \/ \E i \in DOMAIN Asked[t] : FileOf(t, i) \in HostFiles
                                     /\ fev[FileOf(t, i)] \cap add_default_events(t, i) # {}
    /\ update_host_file_events(t)
    /\ pevent' = pevent \ {t}
    /\ Goto(t, "reset")
    /\ UNCHANGED <<fev, psubs, queue, freed, changes, at, result, told>>

\* The time is up, or a signal has arrived.
TimedOut(t) ==
    /\ ppc[t] = "wait"
    /\ Goto(t, "drop")
    /\ UNCHANGED <<fev, cached, psubs, queue, pevent, freed, changes, at, result, told>>

\* The call returns.  The monitor is dropped, if there is one: its observer is unregistered
\* everywhere, which waits for broadcasts.
unregister_files(t) ==
    /\ ppc[t] \in {"drop", "refused"}
    /\ ppc[t] = "drop" => \A d \in Drivers : told[d].left # <<>> => told[d].file \notin Polled(t)
    /\ psubs' = [f \in LibosFiles |-> SelectSeq(psubs[f], LAMBDA o : o # t)]
    /\ queue' = queue \ {t}
    /\ result' = [result EXCEPT ![t] = NoResult(t)]
    /\ Goto(t, "user")
    /\ UNCHANGED <<fev, cached, pevent, freed, changes, at, told>>

(***************************************************************************)
(* The files, and Notifier::broadcast, which holds the notifier's lock     *)
(* until the last observer has been told.  Observer t's filter is the      *)
(* events it asked for; an epoll file asks for all.                        *)
(***************************************************************************)
Change(d, f, evs) ==
    /\ told[d].left = <<>> /\ changes < MaxChanges /\ fev[f] # evs
    /\ \A e \in Drivers : told[e].left # <<>> => told[e].file # f
    /\ changes' = changes + 1
    /\ fev' = [fev EXCEPT ![f] = evs]
    /\ told' = IF f \in LibosFiles
               THEN [told EXCEPT ![d] = [file |-> f, events |-> evs \ fev[f], left |-> psubs[f]]] ELSE told
    /\ UNCHANGED <<cached, psubs, queue, pevent, freed, ppc, at, result>>

Interested(o, f, evs) ==
    o \in Pollers => \E i \in DOMAIN Asked[o] : FileOf(o, i) = f /\ add_default_events(o, i) \cap evs # {}

SkipObserver(d) == Tail(told[d].left)

broadcast(d) ==
    LET o == Head(told[d].left) IN
    /\ told[d].left # <<>>
    /\ IF ~Interested(o, told[d].file, told[d].events)
       THEN told' = [told EXCEPT ![d].left = SkipObserver(d)] /\ UNCHANGED <<queue, pevent>>
       ELSE IF o \in freed
       THEN told' = [told EXCEPT ![d] = NoTold] /\ UNCHANGED <<queue, pevent>>
       ELSE /\ told' = [told EXCEPT ![d].left = Tail(@)]
            \* on_event of the poller's observer: dequeue_and_wake_all.
            /\ pevent' = pevent \cup (queue \cap {o})
            /\ queue' = queue \ {o}
    /\ UNCHANGED <<fev, cached, psubs, freed, changes, ppc, at, result>>

\* The last reference to an epoll file goes; then its drop unregisters it.
FreeEpollFile(o) ==
    /\ o \notin freed /\ \E f \in LibosFiles : o \in ToSet(psubs[f])
    /\ freed' = freed \cup {o}
    /\ UNCHANGED <<fev, cached, psubs, queue, pevent, changes, ppc, at, result, told>>

DropEpollFile(o) ==
    /\ o \in freed /\ \E f \in LibosFiles : o \in ToSet(psubs[f])
    /\ \A d \in Drivers : told[d].left = <<>>
    /\ psubs' = [f \in LibosFiles |-> SelectSeq(psubs[f], LAMBDA x : x # o)]
    /\ UNCHANGED <<fev, cached, queue, pevent, freed, changes, ppc, at, result, told>>

Next ==
    \/ \E t \in Pollers :
        \/ RefuseFds(t) \/ register_files(t) \/ poll_host_files(t) \/ reset_events(t) \/ PollFile(t)
        \/ wait_events(t) \/ TimedOut(t) \/ unregister_files(t)
    \/ \E d \in Drivers : broadcast(d) \/ \E f \in Files, evs \in Changes : Change(d, f, evs)

Spec == Init /\ [][Next]_pollVars

\* The same with epoll files that are dropped.
DropNext == Next \/ \E o \in EpollFiles : FreeEpollFile(o) \/ DropEpollFile(o)
DropSpec == Init /\ [][DropNext]_pollVars
-----------------------------------------------------------------------------
(***************************************************************************)
(* select.  The three sets become events to poll for, and the events found *)
(* become the three sets again.                                            *)
(***************************************************************************)
convert_rwe_to_events(rwe) ==
    (IF "r" \in rwe THEN {"IN"} ELSE {}) \cup (IF "w" \in rwe THEN {"OUT"} ELSE {})
        \cup (IF "e" \in rwe THEN {"PRI"} ELSE {})

convert_events_to_rwe(evs) ==
    (IF evs \cap {"IN", "HUP", "ERR"} # {} THEN {"r"} ELSE {})
        \cup (IF evs \cap {"OUT", "ERR"} # {} THEN {"w"} ELSE {})
        \cup (IF "PRI" \in evs THEN {"e"} ELSE {})

\* The sets of select that ask for events evs, and the sets the caller gives: those that hold a
\* descriptor at all.
SetsFor(evs) == {x \in {"r", "w", "e"} : convert_rwe_to_events({x}) \subseteq evs}
Given(t) == UNION {SetsFor(Asked[t][i].events) : i \in DOMAIN Asked[t]}

\* The sets do_select puts the i-th descriptor into, of those given, and the count it returns,
\* which is that of the sets it would put descriptors into.
do_select(t, i) == convert_events_to_rwe(result[t][i]) \cap Given(t)
num_events(t) ==
    FoldLeft(LAMBDA n, i : n + Cardinality(convert_events_to_rwe(result[t][i])), 0,
             [i \in DOMAIN Asked[t] |-> i])

\* A select that returns because of an event tells it: the count is not 0, which would mean that
\* the time is up, and a descriptor is in every set it was in whose event was found, whichever
\* events of other descriptors were found with it.
SelectTells ==
    \A t \in Pollers : ppc[t] = "drop" => \A i \in DOMAIN Asked[t] :
        /\ result[t][i] # {} => num_events(t) > 0
        /\ \A x \in SetsFor(Asked[t][i].events) :
              convert_rwe_to_events({x}) \subseteq result[t][i] => x \in do_select(t, i)

\* convert_events_to_rwe's "according to Linux's behavior": a descriptor is put into no set it
\* was not in.
SelectOnlyAsked ==
    \A t \in Pollers : \A i \in DOMAIN Asked[t] : do_select(t, i) \subseteq SetsFor(Asked[t][i].events)

\* A poller that waits with no event for it has seen every file without the events it asks
\* for; if one has them now, the broadcast that tells it is under way (reset_events comes
\* before the files are polled, and the observer is registered before both).
PollerWoken ==
    \A t \in Pollers : \A i \in DOMAIN Asked[t] :
        LET f == FileOf(t, i) IN
        ppc[t] = "wait" /\ t \notin pevent /\ f \in LibosFiles /\ fev[f] \cap add_default_events(t, i) # {}
            => t \in queue /\ \E d \in Drivers : told[d].file = f /\ t \in ToSet(told[d].left)
=============================================================================
