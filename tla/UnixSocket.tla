----------------------------- MODULE UnixSocket -----------------------------
(***************************************************************************)
(* Unix stream sockets (net/socket/unix/stream): the status of each socket *)
(* and the global ADDRESS_SPACE that maps an address to nothing, to a      *)
(* binder or to a listener, each under a lock of its own. A listener is    *)
(* named by its socket, which listens at most once in its life; a socket   *)
(* that was accepted is not used further there.  Then two connected        *)
(* sockets: the endpoints over two channels, whose bytes are those of      *)
(* Channel.tla, and the notifier that relays the channels' events.         *)
(***************************************************************************)
EXTENDS Integers, Sequences

CONSTANTS
    UThreads, USockets, UAddrs,
    UCalls,         \* the calls of each thread, one function for each case
    EThreads,       \* threads that use the two connected sockets
    ECalls,         \* their calls
    ECapacity       \* bytes a channel has room for

VARIABLES
    status,     \* Stream.inner: the Status, its address and, while idle, whether it is nonblocking
    space,      \* ADDRESS_SPACE: of each address, the binders and listeners that are there
    listener,   \* the Listener of each socket that listens: cap, items, shut, nonblocking
    inner,      \* thread that keeps the lock of Stream.inner between two steps
    spaceLock,  \* thread that keeps the lock of the address space between two steps
    unpc,
    found,      \* reference to a listener each thread has looked up
    uncalls,
    unpanic     \* an unwrap of a missing listener

unixVars == <<status, space, listener, inner, spaceLock, unpc, found, uncalls, unpanic>>

Nobody == "nobody"
NoAddr == "unnamed"
Absent == "absent"
Binder == "binder"

Init ==
    /\ status = [s \in USockets |-> [is |-> "Idle", addr |-> NoAddr, nonblocking |-> FALSE]]
    /\ space = [a \in UAddrs |-> Absent]
    /\ listener = [s \in USockets |-> [cap |-> 0, items |-> <<>>, shut |-> FALSE, nonblocking |-> FALSE]]
    /\ inner = [s \in USockets |-> Nobody] /\ spaceLock = Nobody
    /\ unpc = [t \in UThreads |-> "user"] /\ found = [t \in UThreads |-> Nobody]
    /\ uncalls \in UCalls /\ unpanic = FALSE

Op(t) == Head(uncalls[t])
Sock(t) == Op(t).sock

\* A call on a socket that is open and whose status no other call has locked.
Calling(t, c) ==
    /\ unpc[t] = "user" /\ uncalls[t] # <<>> /\ Op(t).call = c
    /\ inner[Sock(t)] = Nobody /\ status[Sock(t)].is # "Dropped"

Goto(t, label) == unpc' = [unpc EXCEPT ![t] = label]
Return(t) == Goto(t, "user") /\ uncalls' = [uncalls EXCEPT ![t] = Tail(@)]
Lock(t, s) == inner' = [inner EXCEPT ![s] = t]
Unlock(s) == inner' = [inner EXCEPT ![s] = Nobody]

get_listener_ref(a) == IF space[a] \in USockets THEN space[a] ELSE Nobody

add_binder(a) == space[a] = Absent

bind(t) ==
    LET s == Sock(t) a == Op(t).addr
        ok == status[s].is # "Listening" /\ status[s].addr = NoAddr /\ add_binder(a)
    IN
    /\ Calling(t, "bind") /\ spaceLock = Nobody
    /\ space' = IF ok THEN [space EXCEPT ![a] = Binder] ELSE space
    /\ status' = IF ok THEN [status EXCEPT ![s].addr = a] ELSE status
    /\ Return(t) /\ UNCHANGED <<listener, inner, spaceLock, found, unpanic>>

\* A negative backlog is refused, before the status is locked.
RefuseListen(t) ==
    /\ unpc[t] = "user" /\ uncalls[t] # <<>> /\ Op(t).call = "listen" /\ Op(t).cap < 0
    /\ status[Sock(t)].is # "Dropped"
    /\ Return(t) /\ UNCHANGED <<status, space, listener, inner, spaceLock, found, unpanic>>

\* A second listen resizes the backlog: the capacity is compared first, then the channel is
\* locked for writing with the lock of the status and of the whole address space held.
listen(t) ==
    LET s == Sock(t) a == status[s].addr IN
    /\ Calling(t, "listen") /\ Op(t).cap >= 0 /\ spaceLock = Nobody
    /\ \/ /\ status[s].is = "Idle" /\ a # NoAddr /\ space[a] = Binder
          /\ space' = [space EXCEPT ![a] = s]
          /\ listener' = [listener EXCEPT ![s].cap = Op(t).cap, ![s].nonblocking = status[s].nonblocking]
          /\ status' = [status EXCEPT ![s].is = "Listening"]
          /\ Return(t) /\ UNCHANGED <<inner, spaceLock>>
       \/ /\ status[s].is = "Listening" /\ listener[s].cap # Op(t).cap
          /\ Lock(t, s) /\ spaceLock' = t /\ Goto(t, "resize")
          /\ UNCHANGED <<status, space, listener, uncalls>>
       \/ /\ \/ status[s].is = "Connected" \/ (status[s].is = "Idle" /\ ~(a # NoAddr /\ space[a] = Binder))
             \/ status[s].is = "Listening" /\ listener[s].cap = Op(t).cap
          /\ Return(t) /\ UNCHANGED <<status, space, listener, inner, spaceLock>>
    /\ UNCHANGED <<found, unpanic>>

Popping(s) == {t \in UThreads : unpc[t] = "popping" /\ found[t] = s}

\* The connections that do not fit into the new channel are dropped.
resize(t) ==
    LET s == Sock(t) l == listener[s] n == IF Len(l.items) < Op(t).cap THEN Len(l.items) ELSE Op(t).cap IN
    /\ unpc[t] = "resize" /\ Popping(s) = {}
    /\ listener' = [listener EXCEPT ![s] = [l EXCEPT !.cap = Op(t).cap, !.items = SubSeq(@, 1, n)]]
    /\ Unlock(s) /\ spaceLock' = Nobody /\ Return(t)
    /\ UNCHANGED <<status, space, found, unpanic>>

\* The status stays locked until the connection is made or refused.
connect(t) ==
    LET s == Sock(t) l == get_listener_ref(Op(t).addr) IN
    /\ Calling(t, "connect") /\ spaceLock = Nobody
    /\ IF status[s].is = "Idle" /\ status[s].addr # Op(t).addr /\ l # Nobody
       THEN Lock(t, s) /\ found' = [found EXCEPT ![t] = l] /\ Goto(t, "push") /\ UNCHANGED uncalls
       ELSE Return(t) /\ UNCHANGED <<inner, found>>
    /\ UNCHANGED <<status, space, listener, spaceLock, unpanic>>

\* The producer never blocks: a full backlog refuses the connection.
push_incoming(t) ==
    LET l == found[t] IN
    /\ unpc[t] = "push"
    /\ IF listener[l].shut \/ Len(listener[l].items) >= listener[l].cap
       THEN Unlock(Sock(t)) /\ Return(t) /\ UNCHANGED listener
       ELSE /\ listener' = [listener EXCEPT ![l].items = Append(@, Sock(t))]
            /\ Goto(t, "notify") /\ UNCHANGED <<inner, uncalls>>
    /\ UNCHANGED <<status, space, spaceLock, found, unpanic>>

\* connect looks the listener up again, to broadcast IN, before it sets its own status.
Connected(t) ==
    /\ unpc[t] = "notify" /\ spaceLock = Nobody
    /\ status' = [status EXCEPT ![Sock(t)].is = "Connected"]
    /\ Unlock(Sock(t)) /\ Return(t)
    /\ UNCHANGED <<space, listener, spaceLock, found, unpanic>>

\* accept copies the status and lets its lock go.
accept(t) ==
    LET s == Sock(t) IN
    /\ Calling(t, "accept")
    /\ IF status[s].is # "Listening"
       THEN Return(t) /\ UNCHANGED found
       ELSE /\ spaceLock = Nobody /\ found' = [found EXCEPT ![t] = get_listener_ref(status[s].addr)]
            /\ Goto(t, "popping") /\ UNCHANGED uncalls
    /\ UNCHANGED <<status, space, listener, inner, spaceLock, unpanic>>

\* pop waits, with the channel locked for reading, unless the listener is nonblocking; it is
\* woken when that is set.
pop_incoming(t) ==
    LET l == found[t] IN
    /\ unpc[t] = "popping"
    /\ \/ /\ listener[l].items # <<>>
          /\ listener' = [listener EXCEPT ![l].items = Tail(@)]
       \/ /\ listener[l].items = <<>> /\ (listener[l].shut \/ listener[l].nonblocking) /\ UNCHANGED listener
    /\ Return(t) /\ UNCHANGED <<status, space, inner, spaceLock, found, unpanic>>

set_nonblocking(t) ==
    LET s == Sock(t) IN
    /\ Calling(t, "set_nonblocking") /\ spaceLock = Nobody
    /\ unpanic' = (unpanic \/ (status[s].is = "Listening" /\ get_listener_ref(status[s].addr) = Nobody))
    /\ IF status[s].is = "Listening"
       THEN listener' = [listener EXCEPT ![s].nonblocking = Op(t).on] /\ UNCHANGED status
       ELSE status' = [status EXCEPT ![s].nonblocking = Op(t).on] /\ UNCHANGED listener
    /\ Return(t) /\ UNCHANGED <<space, inner, spaceLock, found>>

\* As if Drop only shut the listener down and left its address in the space.
RemoveIdleOnly(s) == status[s].is = "Idle" /\ status[s].addr # NoAddr

\* Drop takes the address of an idle or listening socket out of the space.
Removes(s) == status[s].is \in {"Idle", "Listening"} /\ status[s].addr # NoAddr

\* Drop, with the last reference to the socket.
Drop(t) ==
    LET s == Sock(t) a == status[s].addr IN
    /\ Calling(t, "close") /\ spaceLock = Nobody
    /\ \A u \in UThreads \ {t} : unpc[u] # "user" => Sock(u) # s
    /\ unpanic' = (unpanic \/ (status[s].is = "Listening" /\ get_listener_ref(a) = Nobody))
    /\ space' = IF Removes(s) THEN [space EXCEPT ![a] = Absent] ELSE space
    /\ status' = [status EXCEPT ![s].is = "Dropped"]
    /\ IF status[s].is = "Listening" THEN Goto(t, "shutdown") /\ UNCHANGED uncalls ELSE Return(t)
    /\ UNCHANGED <<listener, inner, spaceLock, found>>

\* Listener::shutdown, then the listener and the connections in its channel are freed.
Shutdown(t) ==
    /\ unpc[t] = "shutdown"
    /\ listener' = [listener EXCEPT ![Sock(t)].shut = TRUE]
    /\ Return(t) /\ UNCHANGED <<status, space, inner, spaceLock, found, unpanic>>

UThreadNext(t) ==
    \/ bind(t) \/ RefuseListen(t) \/ listen(t) \/ resize(t) \/ connect(t) \/ push_incoming(t) \/ Connected(t)
    \/ accept(t) \/ pop_incoming(t) \/ set_nonblocking(t) \/ Drop(t) \/ Shutdown(t)

Next == \E t \in UThreads : UThreadNext(t)

(***************************************************************************)
(* Two connected sockets.  Each reads one channel and writes the other's.  *)
(* What a call does to a channel is one step, since it holds the lock of   *)
(* the channel's end; then it triggers the peer's events, and the peer's   *)
(* RelayNotifier polls its endpoint and broadcasts to the observers.       *)
(***************************************************************************)
Pair == {"x", "y"}
Other(s) == IF s = "x" THEN "y" ELSE "x"

VARIABLES
    chan,       \* socket -> the channel it reads: len; wshut, rshut: its producer, its consumer is shut down
    nonblock,   \* socket -> is_nonblocking of its reader and of its writer
    opened,     \* the sockets that are not closed
    streamLock, \* socket -> the thread that keeps Stream.inner locked
    enpc, encalls,
    toTell,     \* thread -> the event it triggers, and at which socket
    relayLock,  \* socket -> the thread in on_event of its RelayNotifier
    seen,       \* thread -> what on_event has found at the reader
    unnoticed,  \* history: socket -> events it shows since a step of the peer, with nothing broadcast since
    untold,     \* history: socket -> events it shows since a step of the peer that were not broadcast
    asserted    \* no assertion has failed

pairVars == <<chan, nonblock, opened, streamLock, enpc, encalls, toTell, relayLock, seen, unnoticed, untold, asserted>>

EOp(t) == Head(encalls[t])
ESock(t) == EOp(t).sock
ECalling(t, c) == enpc[t] = "user" /\ encalls[t] # <<>> /\ EOp(t).call = c /\ ESock(t) \in opened
EGoto(t, label) == enpc' = [enpc EXCEPT ![t] = label]
EReturn(t) == EGoto(t, "user") /\ encalls' = [encalls EXCEPT ![t] = Tail(@)]

\* With channels c: Consumer::poll and Producer::poll; then Inner::poll, from what they return.
ReaderPoll(c, s) == (IF c[s].len > 0 \/ c[s].rshut THEN {"IN"} ELSE {}) \cup (IF c[s].wshut THEN {"HUP"} ELSE {})
WriterPoll(c, s) ==
    LET w == c[Other(s)]
    IN (IF w.len < ECapacity \/ w.wshut THEN {"OUT"} ELSE {}) \cup (IF w.rshut THEN {"ERR"} ELSE {})
EndpointPoll(c, s, reader, writer) ==
    LET hup == "HUP" \in reader \/ c[s].rshut
        err == "ERR" \in writer \/ c[Other(s)].wshut
    IN (IF hup THEN {"RDHUP", "IN"} ELSE {}) \cup (IF hup /\ err THEN {"HUP", "OUT"} ELSE {})
       \cup (reader \cap {"IN"}) \cup (writer \cap {"OUT"})
Shows(c, s) == EndpointPoll(c, s, ReaderPoll(c, s), WriterPoll(c, s))

\* The channels become c by a step at s.
SetChannels(s, c) ==
    LET o == Other(s)
        Noted(h) == [h EXCEPT ![s] = @ \cap Shows(c, s),
                              ![o] = (@ \cup (Shows(c, o) \ Shows(chan, o))) \cap Shows(c, o)]
    IN chan' = c /\ unnoticed' = Noted(unnoticed) /\ untold' = Noted(untold)
Trigger(t, event) == toTell' = [toTell EXCEPT ![t] = [at |-> Other(ESock(t)), event |-> event]] /\ EGoto(t, "tell")

\* Inner::read and write, of one byte and without waiting for it.
ERead(t) ==
    LET s == ESock(t) IN
    /\ ECalling(t, "read")
    /\ IF ~chan[s].rshut /\ chan[s].len > 0
       THEN SetChannels(s, [chan EXCEPT ![s].len = @ - 1]) /\ Trigger(t, "OUT") /\ UNCHANGED encalls
       ELSE EReturn(t) /\ UNCHANGED <<chan, unnoticed, untold, toTell>>
    /\ UNCHANGED <<nonblock, opened, streamLock, relayLock, seen, asserted>>
EWrite(t) ==
    LET s == ESock(t) c == chan[Other(s)] IN
    /\ ECalling(t, "write")
    /\ IF ~c.wshut /\ ~c.rshut /\ c.len < ECapacity
       THEN SetChannels(s, [chan EXCEPT ![Other(s)].len = @ + 1]) /\ Trigger(t, "IN") /\ UNCHANGED encalls
       ELSE EReturn(t) /\ UNCHANGED <<chan, unnoticed, untold, toTell>>
    /\ UNCHANGED <<nonblock, opened, streamLock, relayLock, seen, asserted>>

\* Stream::shutdown, which keeps the status locked, and the drop of the last reference to the
\* socket, on_event has one too: its reader, then its writer.
EShutdown(t) ==
    LET s == ESock(t) IN
    /\ ECalling(t, "shutdown") /\ streamLock[s] = Nobody
    /\ IF Other(s) \in opened
       THEN streamLock' = [streamLock EXCEPT ![s] = t] /\ EGoto(t, "reader") /\ UNCHANGED encalls
       ELSE EReturn(t) /\ UNCHANGED streamLock
    /\ UNCHANGED <<chan, nonblock, opened, toTell, relayLock, seen, unnoticed, untold, asserted>>
EClose(t) ==
    /\ ECalling(t, "close") /\ relayLock[ESock(t)] = Nobody
    /\ \A u \in EThreads \ {t} : enpc[u] # "user" => ESock(u) # ESock(t)
    /\ opened' = opened \ {ESock(t)} /\ EGoto(t, "reader")
    /\ UNCHANGED <<chan, nonblock, streamLock, encalls, toTell, relayLock, seen, unnoticed, untold, asserted>>

ShutReader(t) ==
    LET s == ESock(t) IN
    /\ enpc[t] = "reader"
    /\ IF "RD" \in EOp(t).how /\ ~chan[s].rshut
       THEN SetChannels(s, [chan EXCEPT ![s].rshut = TRUE]) /\ Trigger(t, "ERR")
       ELSE EGoto(t, "writer") /\ UNCHANGED <<chan, unnoticed, untold, toTell>>
    /\ UNCHANGED <<nonblock, opened, streamLock, encalls, relayLock, seen, asserted>>
EUnlock(t) == streamLock' = [s \in Pair |-> IF streamLock[s] = t THEN Nobody ELSE streamLock[s]]
ShutWriter(t) ==
    LET s == ESock(t) IN
    /\ enpc[t] = "writer"
    /\ IF "WR" \in EOp(t).how /\ ~chan[Other(s)].wshut
       THEN /\ SetChannels(s, [chan EXCEPT ![Other(s)].wshut = TRUE]) /\ Trigger(t, "HUP")
            /\ UNCHANGED <<encalls, streamLock>>
       ELSE EReturn(t) /\ EUnlock(t) /\ UNCHANGED <<chan, unnoticed, untold, toTell>>
    /\ UNCHANGED <<nonblock, opened, relayLock, seen, asserted>>

\* RelayNotifier::on_event, unless the socket of the notifier is gone: it polls the reader, then
\* the writer, and broadcasts what it has found of the event.
AfterTelling(t) ==
    CASE toTell[t].event = "ERR" -> EGoto(t, "writer") /\ UNCHANGED <<encalls, streamLock>>
      [] toTell[t].event # "ERR" -> EReturn(t) /\ EUnlock(t)
on_event(t) ==
    LET s == toTell[t].at IN
    /\ enpc[t] = "tell"
    /\ IF s \in opened
       THEN /\ relayLock[s] = Nobody /\ relayLock' = [relayLock EXCEPT ![s] = t]
            /\ seen' = [seen EXCEPT ![t] = ReaderPoll(chan, s)]
            /\ EGoto(t, "relay") /\ UNCHANGED <<encalls, streamLock>>
       ELSE AfterTelling(t) /\ UNCHANGED <<relayLock, seen>>
    /\ UNCHANGED <<chan, nonblock, opened, toTell, unnoticed, untold, asserted>>

\* As if the channel's HUP went to the observers under its own name.
RelayedAsIs(event) == {event}
Relayed(event) == {CASE event = "HUP" -> "RDHUP" [] event = "ERR" -> "HUP" [] OTHER -> event}
Broadcast(t) ==
    LET s == toTell[t].at
        told == EndpointPoll(chan, s, seen[t], WriterPoll(chan, s)) \cap Relayed(toTell[t].event)
    IN
    /\ enpc[t] = "relay"
    /\ relayLock' = [relayLock EXCEPT ![s] = Nobody]
    /\ unnoticed' = IF told # {} THEN [unnoticed EXCEPT ![s] = {}] ELSE unnoticed
    /\ untold' = [untold EXCEPT ![s] = @ \ told]
    /\ AfterTelling(t)
    /\ UNCHANGED <<chan, nonblock, opened, toTell, seen, asserted>>

\* Inner::set_nonblocking and nonblocking, called with the status locked.
SetReaderFlag(t) ==
    LET s == ESock(t) IN
    /\ ECalling(t, "set_nonblocking") /\ streamLock[s] = Nobody
    /\ streamLock' = [streamLock EXCEPT ![s] = t]
    /\ nonblock' = [nonblock EXCEPT ![s].reader = EOp(t).on]
    /\ EGoto(t, "flag")
    /\ UNCHANGED <<chan, opened, encalls, toTell, relayLock, seen, unnoticed, untold, asserted>>
SetWriterFlag(t) ==
    /\ enpc[t] = "flag"
    /\ nonblock' = [nonblock EXCEPT ![ESock(t)].writer = EOp(t).on]
    /\ EUnlock(t) /\ EReturn(t)
    /\ UNCHANGED <<chan, opened, toTell, relayLock, seen, unnoticed, untold, asserted>>
nonblocking(t) ==
    LET s == ESock(t) IN
    /\ ECalling(t, "nonblocking") /\ streamLock[s] = Nobody
    /\ asserted' = (asserted /\ nonblock[s].reader = nonblock[s].writer)
    /\ EReturn(t)
    /\ UNCHANGED <<chan, nonblock, opened, streamLock, toTell, relayLock, seen, unnoticed, untold>>

PairInit ==
    /\ chan = [s \in Pair |-> [len |-> 0, wshut |-> FALSE, rshut |-> FALSE]]
    /\ nonblock = [s \in Pair |-> [reader |-> FALSE, writer |-> FALSE]]
    /\ opened = Pair /\ streamLock = [s \in Pair |-> Nobody]
    /\ enpc = [t \in EThreads |-> "user"] /\ encalls \in ECalls
    /\ toTell = [t \in EThreads |-> [at |-> "x", event |-> "none"]]
    /\ relayLock = [s \in Pair |-> Nobody] /\ seen = [t \in EThreads |-> {}]
    /\ unnoticed = [s \in Pair |-> {}] /\ untold = [s \in Pair |-> {}]
    /\ asserted = TRUE

PairNext == \E t \in EThreads :
    \/ ERead(t) \/ EWrite(t) \/ EShutdown(t) \/ EClose(t) \/ ShutReader(t) \/ ShutWriter(t)
    \/ on_event(t) \/ Broadcast(t) \/ SetReaderFlag(t) \/ SetWriterFlag(t) \/ nonblocking(t)

(***************************************************************************)
(* Properties.                                                             *)
(***************************************************************************)
\* "The consitency of Status with that data structure should be carefully maintained": the
\* address of every open socket that did not connect is in the space, as its listener if it
\* listens and as a binder otherwise; no two of them share an address; a listener in the
\* space is a socket that listens; and no unwrap of a listener fails.
SpaceConsistent ==
    LET Open == {s \in USockets : status[s].is \in {"Idle", "Listening"} /\ status[s].addr # NoAddr} IN
    /\ \A s \in Open : space[status[s].addr] = IF status[s].is = "Listening" THEN s ELSE Binder
    /\ \A s, u \in Open : s # u => status[s].addr # status[u].addr
    /\ \A a \in UAddrs : space[a] \in USockets =>
           status[space[a]].is = "Listening" /\ status[space[a]].addr = a
    /\ ~unpanic

\* The address of a socket is free again once the socket is dropped.
AddressReleased ==
    \A a \in UAddrs : space[a] # Absent => \E s \in USockets : status[s].addr = a /\ status[s].is # "Dropped"

\* A thread that waits for a connection does not keep the address space locked for others.
SpaceNotBlocked ==
    spaceLock # Nobody => \A t \in UThreads : unpc[t] = "popping" => listener[found[t]].items # <<>>

\* Somebody is about to tell the observers of a socket.
BeingTold(s) == \E t \in EThreads : enpc[t] \in {"tell", "relay"} /\ toTell[t].at = s

\* When a socket shows an event because of what its peer did, its observers are told something,
\* after which they poll it; and its two halves agree on O_NONBLOCK whenever they are asked.
PeerNoticed == asserted /\ \A s \in opened : unnoticed[s] # {} => BeingTold(s)

\* "The event transformation should be consistant with poll": they are told of that event.
EventsTold == \A s \in opened : untold[s] # {} => BeingTold(s)
==============================================================================
