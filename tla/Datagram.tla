------------------------------ MODULE Datagram ------------------------------
(***************************************************************************)
(* A UDP socket on io_uring (net/socket/uring/datagram): binding and       *)
(* connecting, the queue of messages of the sender, the receiver that      *)
(* holds one datagram at a time, and the completions of their requests.    *)
(* Arriving datagrams are numbered; the messages sent are only counted,    *)
(* each one unit of MAX_BUF_SIZE.                                          *)
(***************************************************************************)
EXTENDS Naturals, Sequences

CONSTANTS
    DCallers,       \* threads that use the socket
    DPrograms,      \* records: calls (of each thread), faults, arrivals
    QueueSize       \* MAX_BUF_SIZE, in messages

VARIABLES
    dstate,     \* State: bound, connected
    dsnd,       \* Sender's Inner: queue, req, error, shut
    drcv,       \* Receiver's Inner: msg (0: recv_len is None), req, error, shut
    devents,    \* Pollee.events
    dpoller,    \* the poller of each thread: none, armed or told
    dpc,
    dcalls,     \* calls each thread has still to make
    dhost,      \* of the host socket: whether it is bound, directions it is shut down for
    arrived,    \* datagrams the host has put into the receiver's buffer
    received,   \* datagrams recvmsg has returned
    early,      \* history: datagrams that arrived before binding had started the receiver
    robbed,     \* history: threads in a call whose error another thread has been given
    dclosed,    \* Common.is_closed
    dcancel,    \* requests the socket asked io_uring to cancel
    dprogram

dgramVars == <<dstate, dsnd, drcv, devents, dpoller, dpc, dcalls, dhost, arrived, received,
               early, robbed, dclosed, dcancel, dprogram>>

NewDgramSender == [queue |-> 0, req |-> FALSE, error |-> FALSE, shut |-> "Running"]
NewDgramReceiver == [msg |-> 0, req |-> FALSE, error |-> FALSE, shut |-> FALSE]

DgramInit ==
    /\ dstate = [bound |-> FALSE, connected |-> FALSE]
    /\ dsnd = NewDgramSender /\ drcv = NewDgramReceiver
    /\ devents = {"OUT"} /\ dhost = {} /\ arrived = 0 /\ received = {} /\ dclosed = FALSE
    /\ early = {} /\ robbed = {} /\ dcancel = {}
    /\ dpoller = [t \in DCallers |-> "none"] /\ dpc = [t \in DCallers |-> "user"]
    /\ dprogram \in DPrograms /\ dcalls = dprogram.calls

DCurrent(t) == Head(dcalls[t])
Calling(t, c) == dpc[t] = "user" /\ dcalls[t] # <<>> /\ DCurrent(t).call = c /\ ~dclosed
DMask(t) == {"ERR", "HUP", IF DCurrent(t).call = "send" THEN "OUT" ELSE "IN"}

Told(new) == [t \in DCallers |-> IF dpoller[t] # "none" /\ DMask(t) \cap new # {}
                                 THEN "told" ELSE dpoller[t]]

dgram_add_events(new) == devents' = devents \cup new /\ dpoller' = Told(new)

DGoto(t, label) == dpc' = [dpc EXCEPT ![t] = label]
DReturn(t) ==
    /\ DGoto(t, "user") /\ dcalls' = [dcalls EXCEPT ![t] = Tail(@)]
    /\ dpoller' = [dpoller EXCEPT ![t] = "none"]
Block(t) == DGoto(t, IF dpoller[t] = "none" THEN "connect" ELSE "poll") /\ UNCHANGED <<dcalls, dpoller>>

\* do_recv clears the datagram that was there before a new request is made.
dgram_new_recv_req(r) == [r EXCEPT !.req = ~r.shut]
dgram_do_recv(r) ==
    IF r.req \/ dclosed THEN r
    ELSE dgram_new_recv_req([r EXCEPT !.msg = 0, !.error = FALSE])

\* As if the first use of a socket always started a request, bound or not.
StartAlways(r) == dgram_do_recv(r)

\* Binding starts the first recv request: the socket is bound once.
StartIfUnbound(r) == IF dstate.bound THEN r ELSE dgram_do_recv(r)

\* bind and connect hold the lock of the state from the host's call to the end.
StateFree == \A u \in DCallers : dpc[u] \notin {"binding", "reset", "associate"}

\* The host refuses to bind a socket it has bound for a message sent meanwhile.
bind(t) ==
    /\ Calling(t, "bind") /\ StateFree
    /\ IF dstate.bound \/ "bound" \in dhost
       THEN DReturn(t) /\ UNCHANGED dhost
       ELSE dhost' = dhost \cup {"bound"} /\ DGoto(t, "binding") /\ UNCHANGED <<dcalls, dpoller>>
    /\ UNCHANGED <<dstate, dsnd, drcv, devents, arrived, received, dclosed, dcancel, dprogram>>

mark_explicit_bind(t) ==
    /\ dpc[t] = "binding"
    /\ drcv' = StartIfUnbound(drcv)
    /\ dstate' = [dstate EXCEPT !.bound = TRUE] /\ DReturn(t)
    /\ UNCHANGED <<dsnd, devents, dhost, arrived, received, dclosed, dcancel, dprogram>>

\* connect to a peer binds the host's socket and undoes a shutdown; to nobody, it dissolves the
\* association, and so does an address that is the default one.
connect(t) ==
    /\ Calling(t, "connect") /\ StateFree
    /\ \/ "connect" \in dprogram.faults /\ DReturn(t) /\ UNCHANGED <<dstate, dhost>>
       \/ /\ DCurrent(t).peer = "none"
          /\ dstate' = [dstate EXCEPT !.connected = FALSE] /\ DReturn(t) /\ UNCHANGED dhost
       \/ /\ DCurrent(t).peer # "none"
          /\ dhost' = dhost \cup {"bound"} /\ DGoto(t, "reset") /\ UNCHANGED <<dstate, dcalls, dpoller>>
    /\ UNCHANGED <<dsnd, drcv, devents, arrived, received, dclosed, dcancel, dprogram>>

reset_shutdown(t) ==
    /\ dpc[t] = "reset"
    /\ dsnd' = [dsnd EXCEPT !.shut = "Running"]
    /\ drcv' = [drcv EXCEPT !.shut = FALSE]
    /\ DGoto(t, "associate")
    /\ UNCHANGED <<dstate, devents, dpoller, dcalls, dhost, arrived, received, dclosed, dcancel, dprogram>>

mark_connected(t) ==
    /\ dpc[t] = "associate"
    /\ drcv' = StartIfUnbound(drcv)
    /\ dstate' = [bound |-> TRUE, connected |-> DCurrent(t).peer # "default"] /\ DReturn(t)
    /\ UNCHANGED <<dsnd, devents, dhost, arrived, received, dclosed, dcancel, dprogram>>

(***************************************************************************)
(* Sending.                                                                *)
(***************************************************************************)
\* MsgQueue::push_msg, refused when the queue is full, and MsgQueue::pop_msg.
CanPush(s) == s.queue < QueueSize
push_msg(s) == [s EXCEPT !.queue = @ + 1]
pop_msg(s) == [s EXCEPT !.queue = @ - 1]

SendCall(t) ==
    /\ Calling(t, "send") /\ StateFree
    /\ IF DCurrent(t).addr \/ dstate.connected
       THEN DGoto(t, "try_send") /\ UNCHANGED <<dcalls, dpoller>> ELSE DReturn(t)
    /\ robbed' = robbed \ {t}
    /\ UNCHANGED <<dstate, dsnd, drcv, devents, dhost, arrived, received, dclosed, dcancel, dprogram>>

\* The threads in a call like that of t: an error is given to one of them.
Others(t) == {u \in DCallers \ {t} : dpc[u] # "user" /\ DCurrent(u).call = DCurrent(t).call}

dgram_try_sendmsg(t) ==
    /\ dpc[t] = "try_send"
    /\ robbed' = IF dsnd.shut = "Running" /\ dsnd.error THEN robbed \cup Others(t) ELSE robbed
    /\ CASE dsnd.shut # "Running" -> DGoto(t, "sent") /\ UNCHANGED <<dsnd, devents, dcalls, dpoller>>
         [] dsnd.shut = "Running" /\ dsnd.error ->
               /\ dsnd' = [dsnd EXCEPT !.error = FALSE] /\ devents' = devents \ {"ERR"}
               /\ DGoto(t, "sent") /\ UNCHANGED <<dcalls, dpoller>>
         [] dsnd.shut = "Running" /\ ~dsnd.error /\ ~CanPush(dsnd) ->
               /\ devents' = devents \ {"OUT"} /\ UNCHANGED dsnd
               /\ IF DCurrent(t).dontwait THEN DGoto(t, "sent") /\ UNCHANGED <<dcalls, dpoller>>
                                         ELSE Block(t)
         [] dsnd.shut = "Running" /\ ~dsnd.error /\ CanPush(dsnd) ->
               /\ dsnd' = [push_msg(dsnd) EXCEPT !.req = TRUE]
               /\ DGoto(t, "sent") /\ UNCHANGED <<devents, dcalls, dpoller>>
    /\ UNCHANGED <<dstate, drcv, dhost, arrived, received, dclosed, dcancel, dprogram>>

\* sendmsg, whatever came of it, binds an unbound socket.
Sent(t) ==
    /\ dpc[t] = "sent" /\ StateFree
    /\ drcv' = StartIfUnbound(drcv)
    /\ dstate' = [dstate EXCEPT !.bound = TRUE] /\ DReturn(t)
    /\ UNCHANGED <<dsnd, devents, dhost, arrived, received, dclosed, dcancel, dprogram>>

\* The host binds the socket of a message it sends, unless it is bound.
HostBinds ==
    /\ dsnd.req /\ "bound" \notin dhost
    /\ dhost' = dhost \cup {"bound"}
    /\ UNCHANGED <<dstate, dsnd, drcv, devents, dpoller, dpc, dcalls, arrived, received, dclosed,
                   dcancel, dprogram>>

DgramSendDone ==
    LET s == [pop_msg(dsnd) EXCEPT !.req = dsnd.queue > 1] IN
    /\ dsnd.req /\ "bound" \in dhost
    /\ IF s.queue = 0 /\ s.shut = "PreShutdown"
       THEN dsnd' = [s EXCEPT !.shut = "PostShutdown"] /\ dhost' = dhost \cup {"write"}
       ELSE dsnd' = s /\ UNCHANGED dhost
    /\ dgram_add_events({"OUT"}) /\ dcancel' = dcancel \ {"send"}
    /\ UNCHANGED <<dstate, drcv, dpc, dcalls, arrived, received, dclosed, dprogram>>

\* The message is dropped, and the rest of the queue is left for the next sendmsg.
DgramSendFails ==
    /\ dsnd.req /\ ("send" \in dprogram.faults \/ "send" \in dcancel)
    /\ dsnd' = [pop_msg(dsnd) EXCEPT !.req = FALSE, !.error = TRUE]
    /\ dgram_add_events({"ERR"}) /\ dcancel' = dcancel \ {"send"}
    /\ UNCHANGED <<dstate, drcv, dpc, dcalls, dhost, arrived, received, dclosed, dprogram>>

(***************************************************************************)
(* Receiving.                                                              *)
(***************************************************************************)
RecvCall(t) ==
    /\ Calling(t, "recv") /\ DGoto(t, "try_recv")
    /\ robbed' = robbed \ {t}
    /\ UNCHANGED <<dstate, dsnd, drcv, devents, dpoller, dcalls, dhost, arrived, received, dclosed,
                   dcancel, dprogram>>

dgram_try_recvmsg(t) ==
    /\ dpc[t] = "try_recv"
    /\ robbed' = IF drcv.msg = 0 /\ drcv.error THEN robbed \cup Others(t) ELSE robbed
    /\ CASE drcv.msg # 0 ->
               /\ received' = IF DCurrent(t).peek THEN received ELSE received \cup {drcv.msg}
               /\ drcv' = IF DCurrent(t).peek THEN drcv ELSE dgram_do_recv(drcv)
               /\ devents' = devents \ {"IN"} /\ DReturn(t)
         [] drcv.msg = 0 /\ drcv.error ->
               /\ drcv' = [drcv EXCEPT !.error = FALSE]
               /\ devents' = devents \ {"IN", "ERR"} /\ DReturn(t) /\ UNCHANGED received
         [] drcv.msg = 0 /\ ~drcv.error /\ drcv.shut ->
               devents' = devents \ {"IN"} /\ DReturn(t) /\ UNCHANGED <<drcv, received>>
         [] drcv.msg = 0 /\ ~drcv.error /\ ~drcv.shut ->
               /\ drcv' = dgram_do_recv(drcv)
               /\ devents' = devents \ {"IN"} /\ UNCHANGED received
               /\ IF DCurrent(t).dontwait THEN DReturn(t) ELSE Block(t)
    /\ UNCHANGED <<dstate, dsnd, dhost, arrived, dclosed, dcancel, dprogram>>

\* A datagram may arrive as soon as the host has bound the socket.
DgramRecvDone ==
    /\ drcv.req /\ arrived < dprogram.arrivals /\ "bound" \in dhost
    /\ arrived' = arrived + 1
    /\ early' = IF dstate.bound THEN early ELSE early \cup {arrived + 1}
    /\ drcv' = [drcv EXCEPT !.req = FALSE, !.msg = arrived + 1]
    /\ dgram_add_events({"IN"}) /\ dcancel' = dcancel \ {"recv"}
    /\ UNCHANGED <<dstate, dsnd, dpc, dcalls, dhost, received, dclosed, dprogram>>

DgramRecvFails ==
    /\ drcv.req /\ ("recv" \in dprogram.faults \/ "recv" \in dcancel)
    /\ drcv' = [drcv EXCEPT !.req = FALSE, !.error = TRUE]
    /\ dgram_add_events({"ERR"}) /\ dcancel' = dcancel \ {"recv"}
    /\ UNCHANGED <<dstate, dsnd, dpc, dcalls, dhost, arrived, received, dclosed, dprogram>>

(***************************************************************************)
(* The blocking part of sendmsg and recvmsg, shutdown and close.           *)
(***************************************************************************)
Retry(t) == IF DCurrent(t).call = "send" THEN "try_send" ELSE "try_recv"

dgram_connect_poller(t) ==
    /\ dpc[t] = "connect"
    /\ dpoller' = [dpoller EXCEPT ![t] = "armed"] /\ DGoto(t, "poll")
    /\ UNCHANGED <<dstate, dsnd, drcv, devents, dcalls, dhost, arrived, received, dclosed, dcancel,
                   dprogram>>

dgram_poll(t) ==
    /\ dpc[t] = "poll"
    /\ DGoto(t, IF DMask(t) \cap devents = {} THEN "wait" ELSE Retry(t))
    /\ UNCHANGED <<dstate, dsnd, drcv, devents, dpoller, dcalls, dhost, arrived, received, dclosed,
                   dcancel, dprogram>>

dgram_wait_timeout(t) ==
    /\ dpc[t] = "wait"
    /\ \/ /\ dpoller[t] = "told" /\ dpoller' = [dpoller EXCEPT ![t] = "armed"]
          /\ DGoto(t, Retry(t)) /\ UNCHANGED dcalls
       \/ "timeout" \in dprogram.faults /\ DReturn(t)
    /\ UNCHANGED <<dstate, dsnd, drcv, devents, dhost, arrived, received, dclosed, dcancel, dprogram>>

\* The host is told first, about the write side only when the queue is empty.
ShutdownCall(t) ==
    /\ Calling(t, "shutdown") /\ StateFree
    /\ IF dstate.connected
       THEN /\ dhost' = dhost \cup {d \in DCurrent(t).how : d = "read" \/ dsnd.queue = 0}
            /\ DGoto(t, "set_shutdown") /\ UNCHANGED <<dcalls, dpoller>>
       ELSE DReturn(t) /\ UNCHANGED dhost
    /\ UNCHANGED <<dstate, dsnd, drcv, devents, arrived, received, dclosed, dcancel, dprogram>>

DgramShutdownSet(t) ==
    LET how == DCurrent(t).how IN
    /\ dpc[t] = "set_shutdown"
    /\ drcv' = [drcv EXCEPT !.shut = @ \/ "read" \in how]
    /\ dsnd' = [dsnd EXCEPT !.shut = IF "write" \in how THEN "PreShutdown" ELSE @]
    /\ dgram_add_events((IF "read" \in how THEN {"IN"} ELSE {}) \cup (IF "write" \in how THEN {"OUT"} ELSE {})
                  \cup (IF {"read", "write"} \subseteq how THEN {"HUP"} ELSE {}))
    /\ DGoto(t, "user") /\ dcalls' = [dcalls EXCEPT ![t] = Tail(@)]
    /\ UNCHANGED <<dstate, dhost, arrived, received, dclosed, dcancel, dprogram>>

\* close, with the last reference: the recv request is cancelled and waited for, then the
\* send request, which is cancelled when it does not complete within the linger time.
DgramClose(t) ==
    /\ Calling(t, "close") /\ \A u \in DCallers : dpc[u] = "user"
    /\ dclosed' = TRUE
    /\ dsnd' = [dsnd EXCEPT !.shut = "PreShutdown"] /\ drcv' = [drcv EXCEPT !.shut = TRUE]
    /\ dcancel' = IF drcv.req THEN dcancel \cup {"recv"} ELSE dcancel
    /\ DGoto(t, "cancel")
    /\ UNCHANGED <<dstate, devents, dpoller, dcalls, dhost, arrived, received, dprogram>>

try_clear_msg_queue_when_close(t) ==
    \/ ~dsnd.req /\ DReturn(t) /\ UNCHANGED dcancel
    \/ /\ dsnd.req /\ "send" \notin dcancel
       /\ dcancel' = dcancel \cup {"send"} /\ UNCHANGED <<dpc, dcalls, dpoller>>

DgramCancelWaited(t) ==
    /\ dpc[t] = "cancel" /\ ~drcv.req
    /\ try_clear_msg_queue_when_close(t)
    /\ UNCHANGED <<dstate, dsnd, drcv, devents, dhost, arrived, received, dclosed, dprogram>>

DCallerNext(t) ==
    \/ SendCall(t) \/ dgram_try_sendmsg(t) \/ RecvCall(t) \/ dgram_try_recvmsg(t)
    \/ /\ \/ bind(t) \/ mark_explicit_bind(t) \/ connect(t) \/ reset_shutdown(t) \/ mark_connected(t)
          \/ Sent(t) \/ dgram_connect_poller(t) \/ dgram_poll(t) \/ dgram_wait_timeout(t)
          \/ ShutdownCall(t) \/ DgramShutdownSet(t) \/ DgramClose(t) \/ DgramCancelWaited(t)
       /\ UNCHANGED robbed

DgramNext ==
    \/ (\E t \in DCallers : DCallerNext(t)) /\ UNCHANGED early
    \/ (HostBinds \/ DgramSendDone \/ DgramSendFails \/ DgramRecvFails) /\ UNCHANGED <<early, robbed>>
    \/ DgramRecvDone /\ UNCHANGED robbed

DgramSpec == DgramInit /\ [][DgramNext]_dgramVars

(***************************************************************************)
(* Properties.                                                             *)
(***************************************************************************)
\* The datagrams that have arrived and are neither in the buffer nor returned.
Missing == {d \in 1 .. arrived : d \notin received /\ d # drcv.msg}

\* The receiver's one buffer is handed to the host again only after its datagram was returned
\* by recvmsg: no datagram that arrived is overwritten.  The exception is one that arrives, for a
\* recvmsg of another thread, when the host has bound the socket and the LibOS has not yet
\* started the receiver for it (initiate_async_recv): of these one at most is lost, and none
\* before the receiver is started.
NoDatagramLost ==
    /\ Missing \subseteq early
    /\ \A d, e \in Missing : d = e
    /\ Missing # {} => dstate.bound

\* try_recvmsg's remark that a request "may flush the data in recv buffer" and is therefore made
\* only once the data has been taken: no datagram is lost, early or not.
DatagramsAllKept == Missing = {}

\* A caller that sleeps, not told of anything, has a request of its side under way, unless an
\* error has ended the request and another thread in the same call was given the error.
DatagramNobodyStuck ==
    \A t \in DCallers : dpc[t] = "wait" /\ dpoller[t] # "told" =>
        \/ IF DCurrent(t).call = "send" THEN dsnd.req ELSE drcv.req
        \/ t \in robbed

\* try_recvmsg's "it is time to send blocking request to iouring for notifying events": a caller
\* that sleeps, not told of anything, has a request under way that will wake it.
DatagramSleeperServed ==
    \A t \in DCallers : dpc[t] = "wait" /\ dpoller[t] # "told" =>
        IF DCurrent(t).call = "send" THEN dsnd.req ELSE drcv.req

\* A datagram that waits to be read shows as IN.
DatagramShown == drcv.msg # 0 => "IN" \in devents
==============================================================================
