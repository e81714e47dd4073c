---------------------------- MODULE StreamSocket ----------------------------
(***************************************************************************)
(* A connected TCP socket on io_uring (net/socket/uring/stream): the       *)
(* sender and receiver of ConnectedStream, each with a buffer and at most  *)
(* one request at the host, the completions that arrive on the io_uring    *)
(* poll thread, and the pollee (events/poller.rs) both sides share.        *)
(*                                                                         *)
(* Buffers are numbers of bytes.  Every step that holds a side's mutex is  *)
(* atomic; the pollee's events and pollers are touched under no common     *)
(* lock, so what a call does outside the mutex is a step of its own.       *)
(***************************************************************************)
EXTENDS Naturals, Sequences

CONSTANTS
    Callers,    \* threads that use the socket
    Programs,   \* records: calls (the calls of each thread), faults, wire (bytes the peer sends)
    Cap         \* initial capacity of the two buffers

\* What the threads may call: setsockopt lets no size below a minimum through, and a send or
\* receive of no bytes returns at once.
StreamCalls ==
    [call : {"send"}, len : Nat \ {0}, dontwait : BOOLEAN]
    \cup [call : {"recv"}, len : Nat \ {0}, dontwait : BOOLEAN, waitall : BOOLEAN]
    \cup [call : {"shutdown"}, how : SUBSET {"read", "write"}]
    \cup [call : {"sndbuf", "rcvbuf"}, size : Nat \ {0}]
    \cup [call : {"close"}]

ASSUME StreamAssumption ==
    /\ Cap \in Nat \ {0}
    /\ \A p \in Programs : p.calls \in [Callers -> Seq(StreamCalls)] /\ p.wire \in Nat

VARIABLES
    snd,        \* the Sender's Inner: buf, cap, req, shut, fatal, need
    rcv,        \* the Receiver's Inner: buf, cap, req, shut, eof, fatal, need
    bufSize,    \* SEND_BUF_SIZE and RECV_BUF_SIZE
    uevents,    \* Pollee.events
    upoller,    \* the poller of each thread: none, armed or told
    upc,
    ucalls,     \* calls each thread has still to make
    left,       \* bytes of the call still to transfer
    hostShut,   \* directions the host socket is shut down for
    wire,       \* bytes the peer has still to send; then it closes
    cancelled,  \* requests the socket asked io_uring to cancel
    closed,     \* Common.is_closed
    sawEmpty,   \* shutdown: the send buffer was empty when it was looked at
    outrun,     \* history: threads whose event another thread has withdrawn since their last try
    faults      \* the failures that happen in this behaviour

streamVars == <<snd, rcv, bufSize, uevents, upoller, upc, ucalls, left, hostShut, wire, cancelled,
                closed, sawEmpty, outrun, faults>>

ALWAYS_POLL == {"ERR", "HUP"}

NewSender == [buf |-> 0, cap |-> Cap, req |-> 0, shut |-> "Running", fatal |-> FALSE,
              need |-> FALSE]
NewReceiver == [buf |-> 0, cap |-> Cap, req |-> FALSE, shut |-> FALSE, eof |-> FALSE,
                fatal |-> FALSE, need |-> FALSE]

\* ConnectedStream::new starts the first recv request.
StreamInit ==
    /\ snd = NewSender
    /\ rcv = [NewReceiver EXCEPT !.req = TRUE]
    /\ bufSize = [send |-> Cap, recv |-> Cap]
    /\ uevents = {"OUT"}
    /\ upoller = [t \in Callers |-> "none"]
    /\ upc = [t \in Callers |-> "user"]
    /\ left = [t \in Callers |-> 0]
    /\ hostShut = {} /\ cancelled = {} /\ closed = FALSE /\ sawEmpty = FALSE /\ outrun = {}
    /\ \E p \in Programs : ucalls = p.calls /\ wire = p.wire /\ faults = p.faults

Current(t) == Head(ucalls[t])
Mask(t) == ALWAYS_POLL \cup (IF Current(t).call = "send" THEN {"OUT"} ELSE {"IN"})

\* Pollee::add_events wakes the pollers whose mask holds one of the events.
add_events(new) ==
    /\ uevents' = uevents \cup new
    /\ upoller' = [t \in Callers |-> IF upoller[t] # "none" /\ Mask(t) \cap new # {}
                                     THEN "told" ELSE upoller[t]]

SGoto(t, label) == upc' = [upc EXCEPT ![t] = label]

\* The call of t returns and its poller is dropped.
SReturn(t) ==
    /\ SGoto(t, "user")
    /\ ucalls' = [ucalls EXCEPT ![t] = Tail(@)]
    /\ left' = [left EXCEPT ![t] = 0]
    /\ upoller' = [upoller EXCEPT ![t] = "none"]

StreamCall(t) ==
    /\ upc[t] = "user" /\ ucalls[t] # <<>> /\ ~closed
    /\ Current(t).call \in {"send", "recv"}
    /\ left' = [left EXCEPT ![t] = Current(t).len]
    /\ SGoto(t, "try")
    /\ UNCHANGED <<snd, rcv, bufSize, uevents, upoller, ucalls, hostShut, wire, cancelled, closed,
                   sawEmpty, faults>>

\* The other threads in the same call.
Beside(t) == {u \in Callers \ {t} : upc[u] # "user" /\ Current(u).call = Current(t).call}
Outruns(t, withdrawn) == outrun' = (outrun \ {t}) \cup (IF withdrawn THEN Beside(t) ELSE {})

Lesser(a, b) == IF a < b THEN a ELSE b

(***************************************************************************)
(* Sending.                                                                *)
(***************************************************************************)
\* The iovecs of a request cover everything that is in the buffer.
new_send_req(s) == s.buf
do_send(s) == [s EXCEPT !.req = new_send_req(s)]

\* As if a send that finds the buffer full left the flushing to somebody else.
SubmitIfRoom(s, n) == IF s.req = 0 /\ n > 0 THEN do_send(s) ELSE s

\* The end of try_sendmsg, after n bytes were produced into the buffer.
Flushed(s, n) == IF s.req = 0 THEN do_send(s) ELSE s

\* OUT is withdrawn when the buffer is full.
OutAfter(s) == IF s.buf = s.cap THEN uevents \ {"OUT"} ELSE uevents

\* One round of the loop of sendmsg: try_sendmsg and what is done with its result.
try_sendmsg(t) ==
    /\ upc[t] = "try" /\ Current(t).call = "send"
    /\ IF snd.shut # "Running"
       THEN SReturn(t) /\ UNCHANGED <<snd, uevents>>
       ELSE IF snd.fatal
       THEN /\ snd' = [snd EXCEPT !.fatal = FALSE] /\ uevents' = uevents \ {"ERR"} /\ SReturn(t)
       ELSE LET n == Lesser(left[t], snd.cap - snd.buf)
                s == [snd EXCEPT !.buf = @ + n]
            IN /\ snd' = Flushed(s, n) /\ uevents' = OutAfter(s)
               /\ IF n = left[t] \/ Current(t).dontwait
                  THEN SReturn(t)
                  ELSE /\ left' = [left EXCEPT ![t] = @ - n]
                       /\ SGoto(t, IF upoller[t] = "none" THEN "connect" ELSE "poll")
                       /\ UNCHANGED <<ucalls, upoller>>
    /\ Outruns(t, snd.shut = "Running" /\ snd.fatal)
    /\ UNCHANGED <<rcv, bufSize, hostShut, wire, cancelled, closed, sawEmpty, faults>>

\* The completion of a send request: n bytes went out.
SendDone ==
    /\ snd.req > 0
    /\ \E n \in 1 .. snd.req :
          LET s == [snd EXCEPT !.buf = @ - n, !.req = 0] IN
          CASE s.buf > 0 -> snd' = do_send(s) /\ UNCHANGED hostShut
            [] s.buf = 0 /\ s.shut = "PreShutdown" ->
                  snd' = [s EXCEPT !.shut = "PostShutdown"] /\ hostShut' = hostShut \cup {"write"}
            [] s.buf = 0 /\ s.shut # "PreShutdown" ->
                  /\ snd' = IF s.need THEN [s EXCEPT !.need = FALSE, !.cap = bufSize.send] ELSE s
                  /\ UNCHANGED hostShut
    /\ add_events({"OUT"})
    /\ cancelled' = cancelled \ {"send"}
    /\ UNCHANGED <<rcv, bufSize, upc, ucalls, left, wire, closed, sawEmpty, faults>>

\* What an error completion signals: more when the connection is gone.
ErrorEvents(lost, dir) == IF lost THEN {"HUP", "ERR", dir} ELSE {"ERR"}

SendFails ==
    /\ snd.req > 0 /\ ("send" \in cancelled \/ "send" \in faults)
    /\ snd' = [snd EXCEPT !.req = 0, !.fatal = TRUE]
    /\ \E lost \in {FALSE} \cup {"lost" \in faults} : add_events(ErrorEvents(lost, "OUT"))
    /\ cancelled' = cancelled \ {"send"}
    /\ UNCHANGED <<rcv, bufSize, upc, ucalls, left, hostShut, wire, closed, sawEmpty, faults>>

(***************************************************************************)
(* Receiving.                                                              *)
(***************************************************************************)
Armable(r) == r.buf < r.cap /\ ~r.shut /\ ~r.req /\ ~r.eof /\ ~closed

\* The iovecs of a request cover all the room in the buffer.
new_recv_req(r) == r.cap - r.buf

\* do_recv, on the receiver and on the events.
do_recv(r) == [r EXCEPT !.req = @ \/ Armable(r)]
EventsAfterRecv(r, ev) == IF ~Armable(r) /\ r.req THEN ev \ {"ERR"} ELSE ev

\* As if IN was withdrawn after every read.
ReadableAfterAlways(r) == uevents \ {"IN"}

\* IN is withdrawn when the buffer is empty.
ReadableAfter(r) == IF r.buf = 0 THEN uevents \ {"IN"} ELSE uevents

\* A read that found nothing makes sure a request is under way.
Restarted(r) == do_recv(r)

Resized(r) == IF r.need /\ r.buf = 0 /\ ~r.req
              THEN [r EXCEPT !.need = FALSE, !.cap = bufSize.recv] ELSE r

\* One round of the loop of recvmsg: try_recvmsg and what is done with its result.
try_recvmsg(t) ==
    LET n == Lesser(left[t], rcv.buf)
        r == Resized([rcv EXCEPT !.buf = @ - n])
        ev == ReadableAfter(r)
        Got(m) == IF ~Current(t).waitall \/ m = left[t] \/ Current(t).dontwait
                  THEN SReturn(t)
                  ELSE /\ left' = [left EXCEPT ![t] = @ - m]
                       /\ SGoto(t, IF upoller[t] = "none" THEN "connect" ELSE "poll")
                       /\ UNCHANGED <<ucalls, upoller>>
    IN
    /\ upc[t] = "try" /\ Current(t).call = "recv"
    /\ CASE r.eof -> rcv' = r /\ UNCHANGED uevents /\ Got(n)
         [] ~r.eof /\ n > 0 -> rcv' = do_recv(r) /\ uevents' = EventsAfterRecv(r, ev) /\ Got(n)
         [] ~r.eof /\ n = 0 /\ r.shut -> rcv' = r /\ uevents' = ev /\ SReturn(t)
         [] ~r.eof /\ n = 0 /\ ~r.shut /\ r.fatal ->
               rcv' = [r EXCEPT !.fatal = FALSE] /\ uevents' = ev \ {"ERR"} /\ SReturn(t)
         [] ~r.eof /\ n = 0 /\ ~r.shut /\ ~r.fatal ->
               /\ rcv' = Restarted(r) /\ uevents' = EventsAfterRecv(r, ev)
               /\ IF Current(t).dontwait
                  THEN SReturn(t)
                  ELSE /\ SGoto(t, IF upoller[t] = "none" THEN "connect" ELSE "poll")
                       /\ UNCHANGED <<ucalls, left, upoller>>
    /\ Outruns(t, ~r.eof /\ (r.shut \/ (n = 0 /\ r.fatal)))
    /\ UNCHANGED <<snd, bufSize, hostShut, wire, cancelled, closed, sawEmpty, faults>>

\* The completion of a recv request with data, at the end of the stream, or with an error.
RecvDone ==
    /\ rcv.req /\ wire > 0
    /\ \E n \in 1 .. Lesser(wire, new_recv_req(rcv)) :
          LET r == [rcv EXCEPT !.buf = @ + n, !.req = FALSE] IN
          /\ rcv' = IF r.need THEN r ELSE do_recv(r)
          /\ wire' = wire - n
    /\ add_events({"IN"})
    /\ cancelled' = cancelled \ {"recv"}
    /\ UNCHANGED <<snd, bufSize, upc, ucalls, left, hostShut, closed, sawEmpty, faults>>

RecvEof ==
    /\ rcv.req /\ (wire = 0 \/ "read" \in hostShut)
    /\ rcv' = [rcv EXCEPT !.req = FALSE, !.eof = TRUE]
    /\ add_events({"IN"})
    /\ cancelled' = cancelled \ {"recv"}
    /\ UNCHANGED <<snd, bufSize, upc, ucalls, left, hostShut, wire, closed, sawEmpty, faults>>

RecvFails ==
    /\ rcv.req /\ ("recv" \in cancelled \/ "recv" \in faults)
    /\ rcv' = [rcv EXCEPT !.req = FALSE, !.fatal = TRUE]
    /\ \E lost \in {FALSE} \cup {"lost" \in faults} : add_events(ErrorEvents(lost, "IN"))
    /\ cancelled' = cancelled \ {"recv"}
    /\ UNCHANGED <<snd, bufSize, upc, ucalls, left, hostShut, wire, closed, sawEmpty, faults>>

(***************************************************************************)
(* Blocking: the rest of the loops of sendmsg and recvmsg.                 *)
(***************************************************************************)
connect_poller(t) ==
    /\ upc[t] = "connect"
    /\ upoller' = [upoller EXCEPT ![t] = "armed"] /\ SGoto(t, "poll")
    /\ UNCHANGED <<snd, rcv, bufSize, uevents, ucalls, left, hostShut, wire, cancelled, closed,
                   sawEmpty, faults>>

\* The events are looked at without any lock.
poll(t) ==
    /\ upc[t] = "poll"
    /\ SGoto(t, IF Mask(t) \cap uevents = {} THEN "wait" ELSE "try")
    /\ UNCHANGED <<snd, rcv, bufSize, uevents, upoller, ucalls, left, hostShut, wire, cancelled,
                   closed, sawEmpty, faults>>

\* The waiter of a poller is edge triggered: a wakeup since the last wait ends this one.
wait_timeout(t) ==
    /\ upc[t] = "wait" /\ upoller[t] = "told"
    /\ upoller' = [upoller EXCEPT ![t] = "armed"] /\ SGoto(t, "try")
    /\ UNCHANGED <<snd, rcv, bufSize, uevents, ucalls, left, hostShut, wire, cancelled, closed,
                   sawEmpty, faults>>

\* The timeout of the call runs out: a send cancels the request under way, whoever's it is.
TimedOut(t) ==
    /\ upc[t] = "wait" /\ "timeout" \in faults
    /\ cancelled' = IF Current(t).call = "send" /\ snd.req > 0
                    THEN cancelled \cup {"send"} ELSE cancelled
    /\ SReturn(t)
    /\ UNCHANGED <<snd, rcv, bufSize, uevents, hostShut, wire, closed, sawEmpty, faults>>

(***************************************************************************)
(* ConnectedStream::shutdown, setsockopt and close.                        *)
(***************************************************************************)
\* The sender's buffer is looked at, then the host is told.
ShutdownLook(t) ==
    /\ upc[t] = "user" /\ ucalls[t] # <<>> /\ Current(t).call = "shutdown" /\ ~closed
    /\ sawEmpty' = (snd.buf = 0) /\ SGoto(t, "host_shutdown")
    /\ UNCHANGED <<snd, rcv, bufSize, uevents, upoller, ucalls, left, hostShut, wire, cancelled,
                   closed, faults>>

\* The directions the host is shut down for at once.
HostHow(how, empty) == IF empty THEN how ELSE how \ {"write"}

host_shutdown(t) ==
    /\ upc[t] = "host_shutdown"
    /\ hostShut' = hostShut \cup HostHow(Current(t).how, sawEmpty)
    /\ SGoto(t, "set_shutdown")
    /\ UNCHANGED <<snd, rcv, bufSize, uevents, upoller, ucalls, left, wire, cancelled, closed,
                   sawEmpty, faults>>

\* The internal state of the receiver is set, and the event that wakes the blocked callers;
\* then that of the sender.
ShutdownRead(t) ==
    /\ upc[t] = "set_shutdown"
    /\ rcv' = [rcv EXCEPT !.shut = @ \/ "read" \in Current(t).how]
    /\ add_events(IF "read" \in Current(t).how THEN {"IN"} ELSE {})
    /\ SGoto(t, "set_write")
    /\ UNCHANGED <<snd, bufSize, ucalls, left, hostShut, wire, cancelled, closed, sawEmpty, faults>>

ShutdownWrite(t) ==
    LET how == Current(t).how
        new == (IF "write" \in how THEN {"OUT"} ELSE {})
               \cup (IF {"read", "write"} \subseteq how THEN {"HUP"} ELSE {})
    IN
    /\ upc[t] = "set_write"
    /\ snd' = [snd EXCEPT !.shut = IF "write" \in how THEN "PreShutdown" ELSE @]
    /\ add_events(new)
    /\ SGoto(t, "user") /\ ucalls' = [ucalls EXCEPT ![t] = Tail(@)]
    /\ UNCHANGED <<rcv, bufSize, left, hostShut, wire, cancelled, closed, sawEmpty, faults>>

\* set_kernel_send_buf_size and set_kernel_recv_buf_size, to another size: at once when
\* the send buffer is idle, else when it has been emptied.
UpdateSendBuf(t) ==
    /\ upc[t] = "user" /\ ucalls[t] # <<>> /\ Current(t).call = "sndbuf" /\ ~closed
    /\ Current(t).size # bufSize.send
    /\ bufSize' = [bufSize EXCEPT !.send = Current(t).size]
    /\ IF snd.buf = 0 /\ snd.req = 0
       THEN snd' = [snd EXCEPT !.cap = Current(t).size] /\ SReturn(t)
       ELSE SGoto(t, "need_update") /\ UNCHANGED <<snd, ucalls, left, upoller>>
    /\ UNCHANGED <<rcv, uevents, hostShut, wire, cancelled, closed, sawEmpty, faults>>

\* The flag is set after the lock was left.
SendNeedUpdate(t) ==
    /\ upc[t] = "need_update"
    /\ snd' = [snd EXCEPT !.need = TRUE] /\ SReturn(t)
    /\ UNCHANGED <<rcv, bufSize, uevents, hostShut, wire, cancelled, closed, sawEmpty, faults>>

UpdateRecvBuf(t) ==
    /\ upc[t] = "user" /\ ucalls[t] # <<>> /\ Current(t).call = "rcvbuf" /\ ~closed
    /\ Current(t).size # bufSize.recv
    /\ bufSize' = [bufSize EXCEPT !.recv = Current(t).size]
    /\ rcv' = [rcv EXCEPT !.need = TRUE] /\ SReturn(t)
    /\ UNCHANGED <<snd, uevents, hostShut, wire, cancelled, closed, sawEmpty, faults>>

\* The last reference to the file is dropped: no other call is in progress.
Close(t) ==
    /\ upc[t] = "user" /\ ucalls[t] # <<>> /\ Current(t).call = "close"
    /\ \A u \in Callers : upc[u] = "user"
    /\ closed' = TRUE
    /\ rcv' = [rcv EXCEPT !.shut = TRUE] /\ snd' = [snd EXCEPT !.shut = "PreShutdown"]
    /\ cancelled' = IF rcv.req THEN cancelled \cup {"recv"} ELSE cancelled
    /\ SGoto(t, "cancel_recv")
    /\ UNCHANGED <<bufSize, uevents, upoller, ucalls, left, hostShut, wire, sawEmpty, faults>>

\* cancel_recv_requests waits for the request it cancelled, and looks again every 10 seconds.
CancelWaited(t) ==
    /\ upc[t] = "cancel_recv" /\ ~rcv.req
    /\ SGoto(t, "linger")
    /\ UNCHANGED <<snd, rcv, bufSize, uevents, upoller, ucalls, left, hostShut, wire, cancelled,
                   closed, sawEmpty, faults>>

\* try_empty_send_buf_when_close: until no request is under way; one that does not
\* complete within the linger time is cancelled.
Linger(t) ==
    /\ upc[t] = "linger"
    /\ \/ snd.req = 0 /\ SReturn(t) /\ UNCHANGED cancelled
       \/ /\ snd.req > 0 /\ "send" \notin cancelled
          /\ cancelled' = cancelled \cup {"send"} /\ UNCHANGED <<upc, ucalls, left, upoller>>
    /\ UNCHANGED <<snd, rcv, bufSize, uevents, hostShut, wire, closed, sawEmpty, faults>>

CallerNext(t) ==
    \/ try_sendmsg(t) \/ try_recvmsg(t)
    \/ /\ \/ StreamCall(t) \/ connect_poller(t) \/ poll(t) \/ wait_timeout(t) \/ TimedOut(t)
          \/ ShutdownLook(t) \/ host_shutdown(t) \/ ShutdownRead(t) \/ ShutdownWrite(t)
          \/ UpdateSendBuf(t) \/ SendNeedUpdate(t) \/ UpdateRecvBuf(t)
          \/ Close(t) \/ CancelWaited(t) \/ Linger(t)
       /\ UNCHANGED outrun

Completion == SendDone \/ SendFails \/ RecvDone \/ RecvEof \/ RecvFails

StreamNext == (\E t \in Callers : CallerNext(t)) \/ (Completion /\ UNCHANGED outrun)

StreamSpec == StreamInit /\ [][StreamNext]_streamVars

(***************************************************************************)
(* Properties.                                                             *)
(***************************************************************************)
SleepsUntold(t) == upc[t] = "wait" /\ upoller[t] # "told"
Served(t) == IF Current(t).call = "send" THEN snd.req > 0 ELSE rcv.req

\* Nobody waits for an event no one will signal: a sender that sleeps in poller.wait, not
\* told of anything, has a send request under way, and a receiver a recv request, unless
\* another thread in the same call was given the error, or the last bytes before a shutdown,
\* and withdrew the event.
NobodyStuck == \A t \in Callers : SleepsUntold(t) => Served(t) \/ t \in outrun

\* "If we don't start recv requests early, the poll() might block forever": a caller that
\* sleeps, not told of anything, has a request under way that will wake it.
SleeperServed == \A t \in Callers : SleepsUntold(t) => Served(t)

\* A poller or an epoll file never misses readiness: data or an end of file to read shows
\* as IN, and room in the send buffer as OUT.
ReadinessShown ==
    /\ rcv.buf > 0 \/ rcv.eof => "IN" \in uevents
    /\ snd.buf < snd.cap => "OUT" \in uevents

\* "poll() might block forever when user just invokes poll(Event::In) without read()": a
\* receiver with nothing to report has a request under way.
ReceiverArmed ==
    rcv.buf = 0 /\ "IN" \notin uevents /\ ~rcv.shut => rcv.req \/ rcv.fatal

\* "don't call host_shutdown until the content in the pending buffer is sent": once the
\* write side is shut down and everything is sent, the host has been shut down.
ShutdownReachesHost ==
    snd.shut # "Running" /\ snd.buf = 0 /\ ~closed => "write" \in hostShut

\* The host's write side is shut down only after what sendmsg accepted was sent.
PendingSentFirst == "write" \in hostShut => snd.buf = 0
==============================================================================
