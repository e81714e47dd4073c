---------------------------- MODULE StreamStates ----------------------------
(***************************************************************************)
(* The states of a TCP socket before it is connected and while it listens  *)
(* (net/socket/uring/stream/mod.rs, states/connect.rs, states/listen.rs).  *)
(* A socket is in one of them at a time, so the two parts of the module    *)
(* share nothing.                                                          *)
(***************************************************************************)
EXTENDS Naturals, Sequences, FiniteSets

(***************************************************************************)
(* The way from Init through Connect to Connected: connect, blocking or    *)
(* not, its request at the host, and the calls that notice an asynchronous *)
(* connect has succeeded and switch the state.                             *)
(*                                                                         *)
(* Every ConnectingStream shares the pollee of the socket; they are        *)
(* numbered in the order they are made.                                    *)
(***************************************************************************)
CONSTANTS
    Connectors,     \* threads that use the socket
    Scripts,        \* records: calls (of each thread: "connect", "use", "nonblock", "block",
                    \* "close"), nonblocking (initially), timeout (a send timeout is set)
    MaxAttempts     \* bound on ConnectingStreams

VARIABLES
    state,      \* StreamSocket.state: [kind, obj], obj the ConnectingStream in Connect
    tries,      \* the ConnectingStreams: handle, errno, connected, cancelled
    cevents,    \* Pollee.events
    cnonblock,  \* Common.nonblocking
    hostConn,   \* the host socket is connected
    streams,    \* ConnectedStreams made for the host socket
    cpc,
    cobj,       \* the ConnectingStream a thread works on
    ccalls,     \* calls each thread has still to make
    overlap,    \* history: the state was switched or joined during a connect of another thread
    stray,      \* history: a connect took the event of another request for its own
    script

connVars == <<state, tries, cevents, cnonblock, hostConn, streams, cpc, cobj, ccalls, overlap, stray,
              script>>

ConnectInit ==
    /\ state = [kind |-> "Init", obj |-> 0] /\ tries = <<>>
    /\ cevents = {"HUP", "OUT"} /\ hostConn = FALSE /\ streams = 0
    /\ overlap = FALSE /\ stray = FALSE
    /\ cpc = [t \in Connectors |-> "user"] /\ cobj = [t \in Connectors |-> 0]
    /\ script \in Scripts /\ ccalls = script.calls /\ cnonblock = script.nonblocking

CGoto(t, label) == cpc' = [cpc EXCEPT ![t] = label]
Calling(t, c) == cpc[t] = "user" /\ ccalls[t] # <<>> /\ Head(ccalls[t]) = c /\ state.kind # "Closed"
CReturn(t) == CGoto(t, "user") /\ ccalls' = [ccalls EXCEPT ![t] = Tail(@)]

\* ConnectedStream::new: the events start anew, and a recv request is started.
NewConnected == streams' = streams + 1 /\ cevents' = {"OUT"}

\* A connect that may still make a ConnectedStream.
Connecting(t) == cpc[t] \in {"initiate", "wait", "made", "set"}
Overlaps(t) ==
    overlap' = (overlap \/ (state.kind = "Connect" /\ \E u \in Connectors \ {t} : Connecting(u)))

\* As if the state was switched without asking whether the request has succeeded.
SwitchAlways(i) == TRUE

\* try_switch_to_connected_state: the asynchronous connect has succeeded.
CanSwitch(i) == tries[i].connected

\* connect, with the state locked: a ConnectingStream is made or found.
ConnectBegin(t) ==
    /\ Calling(t, "connect") /\ Len(tries) < MaxAttempts
    /\ CASE state.kind = "Init" ->
              /\ tries' = Append(tries, [handle |-> FALSE, errno |-> FALSE, connected |-> FALSE,
                                         cancelled |-> FALSE])
              /\ state' = [kind |-> "Connect", obj |-> Len(tries) + 1]
              /\ cobj' = [cobj EXCEPT ![t] = Len(tries) + 1] /\ CGoto(t, "initiate")
              /\ UNCHANGED <<cevents, streams, ccalls>>
         [] state.kind = "Connect" /\ CanSwitch(state.obj) ->
              /\ NewConnected /\ state' = [state EXCEPT !.kind = "Connected"] /\ CReturn(t)
              /\ UNCHANGED <<tries, cobj>>
         [] state.kind = "Connect" /\ ~CanSwitch(state.obj) ->
              /\ cobj' = [cobj EXCEPT ![t] = state.obj] /\ CGoto(t, "initiate")
              /\ UNCHANGED <<state, tries, cevents, streams, ccalls>>
         [] state.kind = "Connected" ->
              CReturn(t) /\ UNCHANGED <<state, tries, cevents, streams, cobj>>
    /\ Overlaps(t)
    /\ UNCHANGED <<cnonblock, hostConn, stray, script>>

\* ConnectingStream::connect up to its wait: the events are reset and a request is
\* started, unless one is under way.  A nonblocking connect ends here.
initiate_async_connect(t) ==
    /\ cpc[t] = "initiate"
    /\ cevents' = {}
    /\ tries' = [tries EXCEPT ![cobj[t]].handle = TRUE]
    /\ CGoto(t, IF cnonblock THEN "failed" ELSE "wait")
    /\ UNCHANGED <<state, cnonblock, hostConn, streams, cobj, ccalls, overlap, stray, script>>

\* The wait ends with the first event, whichever request it comes from.
ConnectWaited(t) ==
    /\ cpc[t] = "wait" /\ {"OUT", "ERR", "HUP"} \cap cevents # {}
    /\ CGoto(t, IF tries[cobj[t]].errno THEN "failed" ELSE "made")
    /\ stray' = (stray \/ (tries[cobj[t]].handle /\ ~tries[cobj[t]].errno))
    /\ UNCHANGED <<state, tries, cevents, cnonblock, hostConn, streams, cobj, ccalls, overlap, script>>

\* The timeout: the request is cancelled and not waited for.
ConnectTimedOut(t) ==
    /\ cpc[t] = "wait" /\ script.timeout
    /\ tries' = [tries EXCEPT ![cobj[t]].cancelled = @ \/ tries[cobj[t]].handle]
    /\ CGoto(t, "failed")
    /\ UNCHANGED <<state, cevents, cnonblock, hostConn, streams, cobj, ccalls, overlap, stray, script>>

\* Success: a ConnectedStream is made, and then put into the state.
MakeConnected(t) ==
    /\ cpc[t] = "made" /\ NewConnected /\ CGoto(t, "set")
    /\ UNCHANGED <<state, tries, cnonblock, hostConn, cobj, ccalls, overlap, stray, script>>

SetConnected(t) ==
    /\ cpc[t] = "set" /\ state' = [state EXCEPT !.kind = "Connected"] /\ CReturn(t)
    /\ UNCHANGED <<tries, cevents, cnonblock, hostConn, streams, cobj, overlap, stray, script>>

\* Failure: a blocking socket is back in its initial state.
AfterFailure == IF cnonblock THEN state ELSE [kind |-> "Init", obj |-> 0]

ConnectFailed(t) ==
    /\ cpc[t] = "failed" /\ state' = AfterFailure /\ CReturn(t)
    /\ UNCHANGED <<tries, cevents, cnonblock, hostConn, streams, cobj, overlap, stray, script>>

\* sendmsg, recvmsg, shutdown, getpeername, ioctl and epoll_ctl first switch the state.
Use(t) ==
    /\ Calling(t, "use")
    /\ IF state.kind = "Connect" /\ CanSwitch(state.obj)
       THEN NewConnected /\ state' = [state EXCEPT !.kind = "Connected"]
       ELSE UNCHANGED <<state, streams, cevents>>
    /\ Overlaps(t) /\ CReturn(t)
    /\ UNCHANGED <<tries, cnonblock, hostConn, cobj, stray, script>>

set_status_flags(t) ==
    /\ Calling(t, "nonblock") \/ Calling(t, "block")
    /\ cnonblock' = (Head(ccalls[t]) = "nonblock") /\ CReturn(t)
    /\ UNCHANGED <<state, tries, cevents, hostConn, streams, cobj, overlap, stray, script>>

\* close, with the last reference: a request of the Connect state is cancelled and waited for.
Close(t) ==
    /\ Calling(t, "close") /\ \A u \in Connectors : cpc[u] = "user"
    /\ IF state.kind = "Connect" /\ tries[state.obj].handle
       THEN tries' = [tries EXCEPT ![state.obj].cancelled = TRUE] /\ CGoto(t, "cancel")
            /\ UNCHANGED <<state, ccalls>>
       ELSE state' = [state EXCEPT !.kind = "Closed"] /\ CReturn(t) /\ UNCHANGED tries
    /\ UNCHANGED <<cevents, cnonblock, hostConn, streams, cobj, overlap, stray, script>>

CancelWaited(t) ==
    /\ cpc[t] = "cancel" /\ ~tries[state.obj].handle
    /\ state' = [state EXCEPT !.kind = "Closed"] /\ CReturn(t)
    /\ UNCHANGED <<tries, cevents, cnonblock, hostConn, streams, cobj, overlap, stray, script>>

\* The callback of the request of ConnectingStream i.
ConnectDone(i) ==
    /\ tries[i].handle /\ ~hostConn
    /\ hostConn' = TRUE
    /\ tries' = [tries EXCEPT ![i].handle = FALSE, ![i].connected = TRUE]
    /\ cevents' = cevents \cup {"OUT"}
    /\ UNCHANGED <<state, cnonblock, streams, cpc, cobj, ccalls, overlap, stray, script>>

ConnectFails(i) ==
    /\ tries[i].handle
    /\ tries' = [tries EXCEPT ![i].handle = FALSE, ![i].connected = FALSE, ![i].errno = TRUE]
    /\ \E new \in {{"ERR"}, {"HUP", "IN", "ERR"}} : cevents' = cevents \cup new
    /\ UNCHANGED <<state, cnonblock, hostConn, streams, cpc, cobj, ccalls, overlap, stray, script>>

ConnectorNext(t) ==
    \/ ConnectBegin(t) \/ initiate_async_connect(t) \/ ConnectWaited(t) \/ ConnectTimedOut(t)
    \/ MakeConnected(t) \/ SetConnected(t) \/ ConnectFailed(t) \/ Use(t) \/ set_status_flags(t)
    \/ Close(t) \/ CancelWaited(t)

ConnectNext ==
    \/ \E t \in Connectors : ConnectorNext(t)
    \/ \E i \in DOMAIN tries : ConnectDone(i) \/ ConnectFails(i)

(***************************************************************************)
(* Properties.                                                             *)
(***************************************************************************)
\* "If success, then the state is switched to connected": a socket in the Connected state
\* has a host socket that is connected.
ConnectedIsConnected == state.kind = "Connected" => hostConn

\* The same of a connect that waits for its own request: no sequence of timeouts, retries and
\* switches of the flag takes the state to Connected on a host socket that is not, unless the
\* event that ended the wait was that of another request.
ConnectedByOwnRequest == state.kind = "Connected" => hostConn \/ stray

\* One ConnectedStream per host socket: with two, the one that is replaced keeps its recv
\* request and swallows what the peer sends first.
OneConnected == streams <= 1

\* The same as long as no thread uses the socket or connects it while another one is inside
\* connect: an asynchronous connect that several calls may find finished is switched once.
OneConnectedAlone == streams <= 1 \/ overlap

\* A socket whose host socket is connected is not taken back to the initial state.
NeverForgotten == hostConn => state.kind # "Init"

-----------------------------------------------------------------------------
(***************************************************************************)
(* A listening socket: the backlog of accept requests it keeps at the      *)
(* host, the callers of accept that block on its pollee, and the shutdown  *)
(* that cancels the requests so that the socket can listen again.          *)
(*                                                                         *)
(* A host connection is only counted; addresses are left out.              *)
(***************************************************************************)
CONSTANTS
    Acceptors,      \* threads that call accept
    Closer,         \* the thread that calls shutdown
    Entries,        \* indexes of the backlog: 1 .. libos_backlog
    Cases,          \* records: conns (connections that arrive), calls (accept calls of each
                    \* thread), fails (accept may fail), shuts (shutdown is called)
    Timeouts        \* a receive timeout is set

VARIABLES
    entry,      \* Backlog.entries
    completed,  \* Backlog.completed
    numFree,    \* Backlog.num_free
    lfatal,     \* Inner.fatal
    lclosed,    \* Common.is_closed
    levents,    \* Pollee.events
    lpoller,    \* the poller of each acceptor: none, armed or told
    lpc,
    accepts,    \* accept calls each acceptor has still to make
    conns,      \* connections that have still to arrive
    accepted,   \* connections accept has returned
    spinning,   \* a thread loops in initiate_async_accepts and keeps the mutex
    lerrors,    \* history: requests that failed since requests were last started
    lcase

listenerVars == <<entry, completed, numFree, lfatal, lclosed, levents, lpoller, lpc, accepts,
                  conns, accepted, spinning, lerrors, lcase>>

Free == {i \in Entries : entry[i] = "Free"}
Pending == {i \in Entries : entry[i] = "Pending"}

\* Backlog::with_capacity: all entries are free.
with_capacity == [i \in Entries |-> "Free"]
start_new_reqs(e) == [i \in Entries |-> IF e[i] = "Free" THEN "Pending" ELSE e[i]]
\* The first completed entry is free again.
pop_completed_req == [entry EXCEPT ![Head(completed)] = "Free"]

\* ListenerStream::new starts a request for every entry.
ListenInit ==
    /\ entry = start_new_reqs(with_capacity) /\ completed = <<>> /\ numFree = 0
    /\ lfatal = FALSE /\ lclosed = FALSE /\ levents = {} /\ spinning = FALSE /\ lerrors = 0
    /\ lpoller = [t \in Acceptors |-> "none"]
    /\ lpc = [t \in Acceptors \cup {Closer} |-> "user"]
    /\ accepted = 0
    /\ lcase \in Cases /\ accepts = lcase.calls /\ conns = lcase.conns

AcceptMask == {"IN", "ERR", "HUP"}

add_events(new) ==
    /\ levents' = levents \cup new
    /\ lpoller' = [t \in Acceptors |-> IF lpoller[t] # "none" /\ AcceptMask \cap new # {}
                                       THEN "told" ELSE lpoller[t]]

LGoto(t, label) == lpc' = [lpc EXCEPT ![t] = label]

AcceptReturn(t) ==
    /\ LGoto(t, "user")
    /\ accepts' = [accepts EXCEPT ![t] = @ - 1]
    /\ lpoller' = [lpoller EXCEPT ![t] = "none"]

\* As if num_free was not decremented for the requests started.
InitiateUncounted(e, free) ==
    /\ entry' = [i \in Entries |-> IF e[i] = "Free" /\ ~lclosed THEN "Pending" ELSE e[i]]
    /\ numFree' = free /\ UNCHANGED <<spinning, lerrors>>

\* while has_free_entries { start_new_req }: nothing is started on a closed socket.
initiate_async_accepts(e, free) ==
    IF lclosed
    THEN entry' = e /\ numFree' = free /\ spinning' = (free > 0) /\ UNCHANGED lerrors
    ELSE /\ entry' = start_new_reqs(e)
         /\ numFree' = 0 /\ lerrors' = 0 /\ UNCHANGED spinning

\* accept takes the listener out of the socket, which shutdown keeps locked.
Accept(t) ==
    /\ lpc[t] = "user" /\ accepts[t] > 0 /\ lpc[Closer] = "user"
    /\ LGoto(t, "try")
    /\ UNCHANGED <<entry, completed, numFree, lfatal, lclosed, levents, lpoller, accepts, conns,
                   accepted, spinning, lerrors, lcase>>

\* IN stays as long as there are completed requests.
ReadyAfter(c) == IF c = <<>> THEN levents \ {"IN"} ELSE levents

try_accept(t) ==
    /\ lpc[t] = "try" /\ ~spinning
    /\ CASE lfatal ->
              /\ lfatal' = FALSE /\ levents' = levents \ {"ERR"} /\ AcceptReturn(t)
              /\ UNCHANGED <<entry, completed, numFree, spinning, lerrors, accepted>>
         [] ~lfatal /\ completed # <<>> ->
              /\ completed' = Tail(completed)
              /\ levents' = ReadyAfter(Tail(completed))
              /\ initiate_async_accepts(pop_completed_req, numFree + 1)
              /\ accepted' = accepted + 1 /\ AcceptReturn(t) /\ UNCHANGED lfatal
         [] ~lfatal /\ completed = <<>> ->
              /\ levents' = levents \ {"IN"}
              /\ LGoto(t, IF lpoller[t] = "none" THEN "connect" ELSE "poll")
              /\ UNCHANGED <<entry, completed, numFree, lfatal, spinning, lerrors, accepted, accepts, lpoller>>
    /\ UNCHANGED <<lclosed, conns, lcase>>

\* The rest of accept's loop.
connect_poller(t) ==
    /\ lpc[t] = "connect"
    /\ lpoller' = [lpoller EXCEPT ![t] = "armed"] /\ LGoto(t, "poll")
    /\ UNCHANGED <<entry, completed, numFree, lfatal, lclosed, levents, accepts, conns, accepted,
                   spinning, lerrors, lcase>>

poll(t) ==
    /\ lpc[t] = "poll"
    /\ LGoto(t, IF AcceptMask \cap levents = {} THEN "wait" ELSE "try")
    /\ UNCHANGED <<entry, completed, numFree, lfatal, lclosed, levents, lpoller, accepts, conns,
                   accepted, spinning, lerrors, lcase>>

wait_timeout(t) ==
    /\ lpc[t] = "wait"
    /\ \/ lpoller[t] = "told" /\ lpoller' = [lpoller EXCEPT ![t] = "armed"] /\ LGoto(t, "try")
          /\ UNCHANGED accepts
       \/ Timeouts /\ AcceptReturn(t)
    /\ UNCHANGED <<entry, completed, numFree, lfatal, lclosed, levents, conns, accepted, spinning,
                   lerrors, lcase>>

(***************************************************************************)
(* The callback of an accept request.                                      *)
(***************************************************************************)
AcceptDone(i) ==
    /\ entry[i] = "Pending" /\ conns > 0 /\ ~spinning
    /\ conns' = conns - 1
    /\ completed' = Append(completed, i)
    /\ initiate_async_accepts([entry EXCEPT ![i] = "Completed"], numFree)
    /\ add_events({"IN"})
    /\ UNCHANGED <<lfatal, lclosed, lpc, accepts, accepted, lcase>>

\* An error, or the request was cancelled: no request takes its place.
AcceptFails(i) ==
    /\ entry[i] = "Pending" /\ (lcase.fails \/ lclosed) /\ ~spinning
    /\ entry' = [entry EXCEPT ![i] = "Free"] /\ numFree' = numFree + 1
    /\ lfatal' = TRUE /\ lerrors' = lerrors + 1 /\ add_events({"ERR"})
    /\ UNCHANGED <<completed, lclosed, lpc, accepts, conns, accepted, spinning, lcase>>

(***************************************************************************)
(* shutdown for reading: the host is told, the requests are cancelled and  *)
(* waited for, and the socket is back in its initial state.                *)
(***************************************************************************)
Shutdown ==
    /\ lpc[Closer] = "user" /\ lcase.shuts
    /\ add_events({"IN"}) /\ LGoto(Closer, "cancel")
    /\ UNCHANGED <<entry, completed, numFree, lfatal, lclosed, accepts, conns, accepted, spinning,
                   lerrors, lcase>>

cancel_accept_requests ==
    /\ lpc[Closer] = "cancel" /\ ~spinning
    /\ lclosed' = TRUE /\ LGoto(Closer, "wait_cancel")
    /\ UNCHANGED <<entry, completed, numFree, lfatal, levents, lpoller, accepts, conns, accepted,
                   spinning, lerrors, lcase>>

AcceptsCancelled ==
    /\ lpc[Closer] = "wait_cancel" /\ ~spinning /\ Pending = {}
    /\ lclosed' = FALSE /\ LGoto(Closer, "init")
    /\ UNCHANGED <<entry, completed, numFree, lfatal, levents, lpoller, accepts, conns, accepted,
                   spinning, lerrors, lcase>>

AcceptorNext(t) == Accept(t) \/ try_accept(t) \/ connect_poller(t) \/ poll(t) \/ wait_timeout(t)

ListenNext ==
    \/ \E t \in Acceptors : AcceptorNext(t)
    \/ \E i \in Entries : AcceptDone(i) \/ AcceptFails(i)
    \/ Shutdown \/ cancel_accept_requests \/ AcceptsCancelled

(***************************************************************************)
(* Properties.                                                             *)
(***************************************************************************)
\* The backlog's books agree: num_free counts the free entries, so start_new_req finds
\* one, and every completed entry is queued once, so no connection is lost or taken twice.
BacklogConsistent ==
    /\ numFree = Cardinality(Free)
    /\ {completed[k] : k \in DOMAIN completed} = {i \in Entries : entry[i] = "Completed"}
    /\ Len(completed) = Cardinality({i \in Entries : entry[i] = "Completed"})
    /\ accepted + Len(completed) + conns = lcase.conns

AcceptorAsleep(t) == lpc[t] = "wait" /\ lpoller[t] # "told"

\* A caller of accept that sleeps, not told of anything, leaves no connection behind and can
\* still be woken: the host holds an accept request of the socket, unless as many requests in
\* a row as there are entries have failed or were cancelled.
AcceptorArmed ==
    \A t \in Acceptors :
        AcceptorAsleep(t) => completed = <<>> /\ (Pending # {} \/ lerrors >= Cardinality(Entries))

\* "we simply ignore the errno code and try again": errors do not leave a caller of accept
\* asleep with no request at the host.
AcceptRetried == \A t \in Acceptors : AcceptorAsleep(t) => Pending # {}

\* "Set the listener stream as closed to prevent submitting new request in the callback
\* fn": the callback then submits nothing and ends.
NeverSpins == ~spinning
=============================================================================
