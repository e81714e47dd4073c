-------------------------------- MODULE MCIo --------------------------------
(***************************************************************************)
(* Waiting for files, for TLC: the channel behind pipes and Unix sockets,  *)
(* an epoll file, poll and select, an io_uring ring and the set of rings,  *)
(* and the clocks, read from the host's page.                              *)
(* They share no state, so comp picks the one whose steps a behaviour      *)
(* takes; the others stay in their initial state.  The channel and the     *)
(* rings are extended, the others are instances; Init, Next and vars are   *)
(* the channel's.                                                          *)
(***************************************************************************)
EXTENDS Channel, IoUring

CONSTANT Nothing   \* the model value for None

VARIABLES comp,
    scenario, fds, epState, hostEvents, entries, interest, ready, subs, hostSet, sleepers, eventfd,
    events, epc, batch, found, reinsert, polled, todo,
    fev, cached, psubs, queue, pevent, freed, changes, ppc, at, result, told,
    version, enabled, tsc, keeper, seq, page, unwritten, vdso, check, rd, nap, todoCalls

\* A producer and two consumers of a channel with room for one item.
MCSide == [t \in {"p1", "c1", "c2"} |-> IF t = "p1" THEN "producer" ELSE "consumer"]
MCCalls == "p1" :> {"transfer", "shutdown"} @@ "c1" :> {"transfer"} @@ "c2" :> {"shutdown", "nonblock"}

\* What may happen to an epoll file: two waiters; epoll_ctl and close; a host file; and two
\* descriptors of one file.
Scenario(waiters, descriptors, flags, ops) ==
    [waiters |-> waiters, fds |-> descriptors, flags |-> flags, ops |-> ops]
TwoWaiters == Scenario({"w1", "w2"}, {1}, {{}}, {"add"})
EpollScenarios == {
    TwoWaiters,
    Scenario({"w1"}, {1}, {{}, {"oneshot"}}, {"add", "mod", "del", "close"}),
    Scenario({"w1"}, {1, 2}, {{}}, {"add", "del"}),
    Scenario({"w1"}, {2}, {{}}, {"add", "mod"})}
TwoDescriptors == Scenario({"w1"}, {1, 3}, {{}}, {"add", "del"})

\* Two pollers with a file in common, one of them with a host file too, and one with
\* descriptors that are not open.
MCAsked ==
    "p1" :> <<[file |-> "f1", events |-> {"IN"}], [file |-> "h1", events |-> {"OUT"}]>> @@
    "p2" :> <<[file |-> "negative", events |-> {}], [file |-> "f1", events |-> {"IN", "OUT"}]>> @@
    "p3" :> <<[file |-> "f1", events |-> {"IN"}], [file |-> "closed", events |-> {"IN"}]>>

\* Calls made while the page is still to be checked, once it is, and without it.
Get(c) == [op |-> "get", clock |-> c]
Sleep(flags, req) == [op |-> "sleep", flags |-> flags, req |-> req]
ClockScenario(v, e, d, c) == [version |-> v, enabled |-> e, vdso |-> d, calls |-> <<c>>]
FirstClock == ClockScenario("V5_0", TRUE, "lazy", Get("RAW"))
MCClockScenarios == {
    FirstClock,
    ClockScenario("V5_3", TRUE, "some", Get("MONOTONIC")),
    ClockScenario("V5_3", TRUE, "some", Get("COARSE")),
    ClockScenario("V5_3", TRUE, "some", Get("RAW")),
    ClockScenario("V4", TRUE, "some", Get("RAW")),
    ClockScenario("V4", FALSE, "lazy", Get("RAW")),
    ClockScenario("V5_3", FALSE, "lazy", Sleep("relative", 2)),
    ClockScenario("V5_3", FALSE, "lazy", Sleep("absolute", 3))}

Ep == INSTANCE Epoll
    WITH Waiters <- {"w1", "w2"}, Users <- {"u1"}, Drivers <- {"d1"}, Fds <- {1, 2, 3},
         LibosFiles <- {"f1"}, HostFiles <- {"h1"}, FileAt <- (1 :> "f1" @@ 2 :> "h1" @@ 3 :> "f1"),
         Flags <- {{}, {"oneshot"}}, Scenarios <- EpollScenarios \cup {TwoDescriptors}, MaxCount <- 1,
         MaxEntries <- 2, MaxEvents <- 2, None <- Nothing
Polling == INSTANCE Poll
    WITH Pollers <- {"p1", "p2", "p3"}, Drivers <- {"d1", "d2"}, LibosFiles <- {"f1"}, HostFiles <- {"h1"},
         Asked <- MCAsked, Changes <- {{}, {"IN"}, {"OUT"}, {"HUP"}}, EpollFiles <- {"e1"}, MaxChanges <- 2
Time == INSTANCE Clock
    WITH ClockScenarios <- MCClockScenarios, Checked <- <<"MONOTONIC", "RAW">>, MaxTsc <- 3,
         MaxPeriod <- 2, Mults <- {2}, FirstMult <- 3, RawMult <- 2, Shift <- 1, NanosPerSec <- 3,
         U32Range <- 16, Boot <- 17, Skew <- 1, MaxInaccuracy <- 2, MaxRetry <- 2

epollVars == <<scenario, fds, epState, hostEvents, entries, interest, ready, subs, hostSet, sleepers,
               eventfd, events, epc, batch, found, reinsert, polled, todo>>
pollVars == <<fev, cached, psubs, queue, pevent, freed, changes, ppc, at, result, told>>
clockVars == <<version, enabled, tsc, keeper, seq, page, unwritten, vdso, check, rd, nap, todoCalls>>
ioVars == <<comp, vars, epollVars, pollVars, ringVars, uringSetVars, clockVars>>

AllInit ==
    /\ Init /\ Ep!Init /\ Polling!Init /\ RingInit /\ UringSetInit
    /\ comp # "epoll" => scenario = TwoWaiters
    /\ Time!ClockInit
    /\ comp # "clock" => version = FirstClock.version /\ enabled /\ vdso = "lazy" /\ todoCalls = FirstClock.calls

IoInit ==
    /\ comp \in {"channel", "epoll", "poll", "ring", "rings", "clock"} /\ AllInit
    /\ scenario \in EpollScenarios

IoNext ==
    \/ comp = "channel" /\ Next /\ UNCHANGED <<comp, epollVars, pollVars, ringVars, uringSetVars, clockVars>>
    \/ comp = "epoll" /\ Ep!Next /\ UNCHANGED <<comp, vars, pollVars, ringVars, uringSetVars, clockVars>>
    \/ comp = "poll" /\ Polling!Next /\ UNCHANGED <<comp, vars, epollVars, ringVars, uringSetVars, clockVars>>
    \/ comp = "ring" /\ RingNext /\ UNCHANGED <<comp, vars, epollVars, pollVars, uringSetVars, clockVars>>
    \/ comp = "rings" /\ UringSetNext /\ UNCHANGED <<comp, vars, epollVars, pollVars, ringVars, clockVars>>
    \/ comp = "clock" /\ Time!ClockNext /\ UNCHANGED <<comp, vars, epollVars, pollVars, ringVars, uringSetVars>>

IoSpec == IoInit /\ [][IoNext]_ioVars

\* Two descriptors of one file in the interest list.
DupSpec == comp = "epoll" /\ AllInit /\ scenario = TwoDescriptors /\ [][IoNext]_ioVars

\* An epoll file that observes the polled files is dropped meanwhile.
DropNext ==
    /\ comp = "poll" /\ Polling!DropNext
    /\ UNCHANGED <<comp, vars, epollVars, ringVars, uringSetVars, clockVars>>
DropSpec == comp = "poll" /\ AllInit /\ [][DropNext]_ioVars

\* Requests and cancellations alone.
CancelSpec == comp = "ring" /\ AllInit /\ [][IoNext]_ioVars

\* The kernel takes the TSC up again after the page was checked without it.
ReturningNext ==
    /\ comp = "clock" /\ Time!ReturningNext
    /\ UNCHANGED <<comp, vars, epollVars, pollVars, ringVars, uringSetVars>>
ReturningSpec == comp = "clock" /\ AllInit /\ [][ReturningNext]_ioVars

(***************************************************************************)
(* Properties.                                                             *)
(***************************************************************************)
\* Nobody misses an event of epoll or poll.  A thread in epoll_wait, poll or select is woken, or
\* about to be, once what it waits for is there.  An entry of the interest list whose file has
\* an event it asks for is in the ready list, or on its way there, and it is in the list once if
\* it is marked ready and not at all otherwise.  select tells every event poll has found for it.
NoEventMissed ==
    /\ comp = "epoll" => Ep!SleepersWoken /\ Ep!NoEventMissed /\ Ep!ReadyMarked
    /\ comp = "poll" => Polling!PollerWoken /\ Polling!SelectTells

\* A clock tells a time the host's clock had during the call, and a sleep lasts as long as
\* was asked: see Clock.tla.
ClocksExact == comp = "clock" => Time!TimeTold /\ Time!SleptEnough

\* poll's part of NoEventMissed, for the behaviours of DropSpec.
PollerWoken == Polling!PollerWoken
=============================================================================
