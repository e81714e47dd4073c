-------------------------------- MODULE MCNet --------------------------------
(***************************************************************************)
(* The sockets for TLC: a connected TCP socket, a listening one, one on    *)
(* its way to be connected, a UDP socket, Unix sockets, a connected pair   *)
(* of them, and the system calls on a table of sockets.  They share no     *)
(* state, so comp picks the one whose steps a behaviour takes; the others  *)
(* stay in one of their initial states.                                    *)
(***************************************************************************)
EXTENDS Integers, Sequences, FiniteSets, TLC, StreamSocket, Datagram

VARIABLES comp,
    entry, completed, numFree, lfatal, lclosed, levents, lpoller, lpc, accepts, conns, accepted,
    spinning, lerrors, lcase,
    state, tries, cevents, cnonblock, hostConn, streams, cpc, cobj, ccalls, overlap, stray, script,
    status, space, listener, inner, spaceLock, unpc, found, uncalls, unpanic,
    stable, sockets, SEND_BUF_SIZE, smask, signals, spc, scalls, sheld, sret, arriving, resets,
    chan, nonblock, opened, streamLock, enpc, encalls, toTell, relayLock, seen, unnoticed, untold, asserted

\* Programs for a connected TCP socket with buffers of two bytes: calls of the threads a, b
\* and c, bytes the peer sends, and the faults that may happen.
Send(n) == [call |-> "send", len |-> n, dontwait |-> FALSE]
SendNow(n) == [call |-> "send", len |-> n, dontwait |-> TRUE]
Recv(n) == [call |-> "recv", len |-> n, dontwait |-> FALSE, waitall |-> FALSE]
RecvNow(n) == [call |-> "recv", len |-> n, dontwait |-> TRUE, waitall |-> FALSE]
RecvAll(n, dontwait) == [call |-> "recv", len |-> n, dontwait |-> dontwait, waitall |-> TRUE]
Shut(how) == [call |-> "shutdown", how |-> how]
SendBuf(n) == [call |-> "sndbuf", size |-> n]
RecvBuf(n) == [call |-> "rcvbuf", size |-> n]
CloseIt == [call |-> "close"]
Three(a, b, c) == [t \in {"a", "b", "c"} |-> CASE t = "a" -> a [] t = "b" -> b [] t = "c" -> c]
StreamProgram(a, b, c, bytes, f) == [calls |-> Three(a, b, c), wire |-> bytes, faults |-> f]

FirstStream == StreamProgram(<<Send(3)>>, <<Recv(2), RecvNow(1)>>, <<SendBuf(1), RecvBuf(1)>>, 2, {})
StreamPrograms == {
    FirstStream,
    StreamProgram(<<Send(3)>>, <<Send(3)>>, <<CloseIt>>, 0, {}),
    StreamProgram(<<Shut({"write"}), Send(1)>>, <<Recv(1)>>, <<CloseIt>>, 1, {}),
    StreamProgram(<<Send(3), SendNow(2), Send(3)>>, <<>>, <<CloseIt>>, 1, {"send", "lost", "timeout"}),
    StreamProgram(<<Recv(1), RecvAll(2, FALSE)>>, <<>>, <<RecvBuf(3), CloseIt>>, 3, {"recv", "lost", "timeout"}),
    StreamProgram(<<Send(3)>>, <<Recv(1)>>, <<Shut({"read", "write"}), CloseIt>>, 1, {}),
    StreamProgram(<<RecvAll(2, TRUE)>>, <<Recv(1)>>, <<Shut({"read"})>>, 2, {}),
    StreamProgram(<<Send(3)>>, <<Send(3)>>, <<>>, 0, {"send"}),
    StreamProgram(<<Recv(1)>>, <<Recv(1)>>, <<>>, 1, {"recv"})}

\* Connections that arrive, accept calls of the two threads, and what else may happen.
ListenCase(n, a, b, fails, shuts) ==
    [conns |-> n, calls |-> [t \in {"a", "b"} |-> IF t = "a" THEN a ELSE b], fails |-> fails, shuts |-> shuts]
FirstListen == ListenCase(4, 2, 2, FALSE, FALSE)
ListenCases == {FirstListen, ListenCase(2, 1, 0, FALSE, TRUE), ListenCase(1, 2, 1, TRUE, FALSE),
                ListenCase(1, 1, 1, TRUE, TRUE)}

ConnectScript(a, b, nonblocking, timeout) ==
    [calls |-> [t \in {"a", "b"} |-> IF t = "a" THEN a ELSE b], nonblocking |-> nonblocking,
     timeout |-> timeout]
FirstScript == ConnectScript(<<"connect", "use", "close">>, <<>>, FALSE, TRUE)
ConnectScripts == {
    FirstScript,
    ConnectScript(<<"connect", "use", "connect", "close">>, <<"use", "connect", "use">>, TRUE, FALSE),
    ConnectScript(<<"nonblock", "connect", "block", "use">>, <<"use">>, TRUE, FALSE),
    ConnectScript(<<"connect", "use">>, <<"use", "connect">>, FALSE, FALSE),
    ConnectScript(<<"connect", "connect">>, <<"use">>, FALSE, TRUE)}

SendTo(dontwait) == [call |-> "send", addr |-> TRUE, dontwait |-> dontwait]
SendPeer == [call |-> "send", addr |-> FALSE, dontwait |-> FALSE]
RecvFrom(dontwait) == [call |-> "recv", peek |-> FALSE, dontwait |-> dontwait]
Peek == [call |-> "recv", peek |-> TRUE, dontwait |-> FALSE]
ConnectTo(peer) == [call |-> "connect", peer |-> peer]
Bind == [call |-> "bind"]
DgramProgram(a, b, n, f) ==
    [calls |-> [t \in {"a", "b"} |-> IF t = "a" THEN a ELSE b], arrivals |-> n, faults |-> f]
FirstDgram == DgramProgram(<<Bind, Peek, RecvFrom(FALSE)>>, <<>>, 2, {})
DgramPrograms == {
    FirstDgram,
    DgramProgram(<<SendTo(FALSE), SendTo(TRUE), ConnectTo("peer"), SendPeer>>,
                 <<SendTo(FALSE), RecvFrom(FALSE), RecvFrom(FALSE)>>, 2, {}),
    DgramProgram(<<ConnectTo("peer"), SendPeer, Shut({"read", "write"}), ConnectTo("none")>>,
                 <<RecvFrom(FALSE), CloseIt>>, 1, {}),
    DgramProgram(<<ConnectTo("peer"), Shut({"write"}), SendPeer, SendTo(FALSE)>>, <<RecvFrom(FALSE)>>, 1, {}),
    DgramProgram(<<Bind, RecvFrom(FALSE)>>, <<RecvFrom(FALSE), Shut({"read"}), ConnectTo("default"), SendPeer>>, 2,
                 {"connect"}),
    DgramProgram(<<Bind, SendTo(FALSE), SendTo(FALSE), CloseIt>>, <<SendTo(FALSE)>>, 0, {"send", "timeout"}),
    DgramProgram(<<Bind, RecvFrom(FALSE), RecvFrom(TRUE), RecvFrom(FALSE)>>, <<RecvFrom(FALSE), CloseIt>>, 2,
                 {"recv", "timeout"})}

UBind(s, a) == [call |-> "bind", sock |-> s, addr |-> a]
Listen(s, n) == [call |-> "listen", sock |-> s, cap |-> n]
UConnect(s, a) == [call |-> "connect", sock |-> s, addr |-> a]
Accept(s) == [call |-> "accept", sock |-> s]
SetNonblocking(s, on) == [call |-> "set_nonblocking", sock |-> s, on |-> on]
UClose(s) == [call |-> "close", sock |-> s]
FirstUnix ==
    Three(<<UBind("s1", "x"), Listen("s1", 1), Accept("s1"), SetNonblocking("s1", TRUE), UClose("s1")>>,
          <<UConnect("s2", "x"), UBind("s2", "y"), UClose("s2")>>,
          <<UBind("s3", "x"), UConnect("s3", "x"), Listen("s3", 1), UClose("s3")>>)
UnixCalls == {
    FirstUnix,
    Three(<<UBind("s1", "x"), SetNonblocking("s1", TRUE), Listen("s1", 2), Accept("s1"), Listen("s1", 1), UClose("s1")>>,
          <<UBind("s2", "y"), UConnect("s2", "x"), UClose("s2")>>,
          <<SetNonblocking("s1", FALSE), Accept("s1"), UConnect("s3", "x"), Listen("s3", -1), UBind("s3", "x")>>)}

\* Calls of three threads on two connected Unix sockets.
At(c, s) == [call |-> c, sock |-> s]
EShut(s, how) == [call |-> "shutdown", sock |-> s, how |-> how]
EClosing(s) == [call |-> "close", sock |-> s, how |-> {"RD", "WR"}]
SetFlag(s, on) == [call |-> "set_nonblocking", sock |-> s, on |-> on]
FirstPair ==
    Three(<<At("write", "x"), At("write", "x"), EShut("x", {"WR"})>>, <<At("read", "y"), At("write", "y"), At("read", "y")>>,
          <<At("read", "x"), EShut("x", {"RD", "WR"}), EClosing("x")>>)
PairCalls == {
    FirstPair,
    Three(<<EShut("x", {"RD"}), EClosing("x")>>, <<EShut("y", {"RD", "WR"}), At("write", "y")>>,
          <<At("write", "y"), At("read", "y"), EShut("y", {"WR"})>>),
    Three(<<SetFlag("x", TRUE), SetFlag("x", FALSE)>>, <<At("nonblocking", "x"), At("write", "x"), At("nonblocking", "x")>>,
          <<EClosing("y")>>)}

\* System calls of two threads on one table of sockets, the connections that arrive and the
\* resets the peers send.
Socket(d, ty, p) == [op |-> "socket", domain |-> d, type |-> ty, protocol |-> p]
Tcp == Socket("INET", "STREAM", "TCP")
Udp == Socket("INET", "DGRAM", "IP")
Pair(d) == [op |-> "socketpair", domain |-> d, type |-> "STREAM", protocol |-> "IP"]
On(op, fd) == [op |-> op, fd |-> fd]
ShutOn(fd, how) == [op |-> "shutdown", fd |-> fd, how |-> how]
BadAddr(c) == [bad |-> TRUE] @@ c
ListenOn(fd, n) == [op |-> "listen", fd |-> fd, backlog |-> n]
AcceptOn(fd, len) == [op |-> "accept", fd |-> fd, len |-> len]
GetName(fd, len, peer) == [op |-> "getname", fd |-> fd, len |-> len, peer |-> peer]
SetSndBuf(fd, len, v) == [op |-> "setsockopt", fd |-> fd, len |-> len, value |-> v]
SetTimeout(fd, len, s, us) == [op |-> "timeout", fd |-> fd, len |-> len, value |-> s, usec |-> us]
SendMmsg(fd, m) == [op |-> "sendmmsg", fd |-> fd, msgs |-> m, nosignal |-> FALSE]
SendOn(op, fd, nosignal) == [op |-> op, fd |-> fd, nosignal |-> nosignal]
RecvOn(op, fd, len) == [op |-> op, fd |-> fd, len |-> len]
Pselect(set, mask, n) == [op |-> "pselect6", set |-> set, mask |-> mask, nfds |-> n]
CallProgram(a, b, arrive, reset) ==
    [calls |-> ("a" :> a) @@ ("b" :> b), conns |-> arrive, resets |-> reset]
FirstCalls == CallProgram(
    <<Tcp, On("connect", 0), SendMmsg(0, <<"m", "m">>), Pselect(TRUE, {"PIPE", "KILL"}, 2),
      SendOn("sendto", 0, TRUE)>>,
    <<On("close", 0), Udp, On("connect", 0), SendMmsg(0, <<"m", "m">>), ShutOn(0, {"WR"})>>, 0, 1)
CallPrograms == {
    FirstCalls,
    CallProgram(<<Tcp, On("bind", 0), ListenOn(0, -3), AcceptOn(0, 1), RecvOn("recvmsg", 1, 2),
                  GetName(1, 9, TRUE)>>,
                <<AcceptOn(0, 9), ListenOn(0, 0), ShutOn(0, {"WR"}), ShutOn(0, {"RD", "WR"}), On("close", 0), ListenOn(0, 2)>>, 2, 0),
    CallProgram(<<Pair("LOCAL"), Pair("INET"), SendMmsg(0, <<"m">>), SendOn("sendto", 1, FALSE),
                  On("close", 1), Socket("INET", "STREAM", "UDP"), Socket("INET", "RAW", "IP"),
                  Socket("LOCAL", "DGRAM", "IP")>>,
                <<SendOn("sendto", 0, FALSE), On("bind", 2), BadAddr(On("bind", 2)),
                  RecvOn("recvfrom", 0, 1), RecvOn("recvfrom", 2, 1), ListenOn(2, 1)>>, 0, 0),
    CallProgram(<<Tcp, On("connect", 0), SetSndBuf(0, 2, 2), SendOn("sendto", 0, FALSE),
                  SetSndBuf(0, 1, 2), Pselect(FALSE, {}, 0), Pselect(FALSE, {}, 9)>>,
                <<SetSndBuf(0, 2, 3), Udp, On("connect", 1), RecvOn("recvfrom", 1, 1), ListenOn(1, 1),
                  GetName(1, 1, FALSE)>>, 0, 1),
    CallProgram(<<Tcp, SetTimeout(0, 2, -1, 3), SetTimeout(0, 1, 0, 0), On("getsockopt", 0),
                  SendOn("sendmsg", 0, FALSE)>>,
                <<SetTimeout(0, 2, 1, 4), SetTimeout(0, 2, 1, 5), SetTimeout(0, 2, 1, -1), Udp,
                  SetTimeout(1, 2, 0, 0), RecvOn("recvmsg", 1, 3), SendMmsg(0, <<"bad">>)>>, 0, 0)}
\* pselect6 with a mask and a bad number of descriptors; a size another socket has set before.
BadPselect == {CallProgram(<<Pselect(TRUE, {"USR1"}, 9)>>, <<>>, 0, 0)}
SharedSize == {CallProgram(<<Tcp, On("connect", 0), SetSndBuf(0, 2, 2)>>, <<Tcp, SetSndBuf(1, 2, 2)>>, 0, 0)}

States == INSTANCE StreamStates
    WITH Connectors <- {"a", "b"}, Scripts <- ConnectScripts, MaxAttempts <- 3,
         Acceptors <- {"a", "b"}, Closer <- "c", Entries <- {1, 2}, Cases <- ListenCases, Timeouts <- TRUE
Unix == INSTANCE UnixSocket
    WITH UThreads <- {"a", "b", "c"}, USockets <- {"s1", "s2", "s3"}, UAddrs <- {"x", "y"}, UCalls <- UnixCalls,
         EThreads <- {"a", "b", "c"}, ECalls <- PairCalls, ECapacity <- 1
Calls == INSTANCE SocketCalls
    WITH SThreads <- {"a", "b"}, SPrograms <- CallPrograms \cup BadPselect \cup SharedSize, Fds <- 0..3,
         MaxSockets <- 4, Width <- 16, SOMAXCONN <- 4, SOCONN_DEFAULT <- 2, Word <- 16, MinBuf <- 3,
         MaxBuf <- 4, Million <- 4, AddrLen <- 2

listenerVars == <<entry, completed, numFree, lfatal, lclosed, levents, lpoller, lpc, accepts, conns,
                  accepted, spinning, lerrors, lcase>>
connVars == <<state, tries, cevents, cnonblock, hostConn, streams, cpc, cobj, ccalls, overlap, stray,
              script>>
unixVars == <<status, space, listener, inner, spaceLock, unpc, found, uncalls, unpanic>>
callVars == <<stable, sockets, SEND_BUF_SIZE, smask, signals, spc, scalls, sheld, sret, arriving, resets>>
pairVars == <<chan, nonblock, opened, streamLock, enpc, encalls, toTell, relayLock, seen, unnoticed, untold,
              asserted>>
vars == <<comp, streamVars, listenerVars, connVars, dgramVars, unixVars, callVars, pairVars>>

AllInit ==
    /\ StreamInit /\ (comp # "stream" => ucalls = FirstStream.calls)
    /\ States!ListenInit /\ (comp # "listen" => lcase = FirstListen)
    /\ States!ConnectInit /\ (comp # "connect" => script = FirstScript)
    /\ DgramInit /\ (comp # "dgram" => dprogram = FirstDgram)
    /\ Unix!Init /\ (comp # "unix" => uncalls = FirstUnix)
    /\ Unix!PairInit /\ (comp # "pair" => encalls = FirstPair)
    /\ Calls!SCInit /\ (comp # "calls" => scalls = FirstCalls.calls)

NetInit ==
    /\ comp \in {"stream", "listen", "connect", "dgram", "unix", "pair", "calls"} /\ AllInit
    /\ \E p \in CallPrograms : scalls = p.calls

NetNext ==
    \/ /\ comp = "stream" /\ StreamNext
       /\ UNCHANGED <<comp, listenerVars, connVars, dgramVars, unixVars, callVars, pairVars>>
    \/ /\ comp = "listen" /\ States!ListenNext
       /\ UNCHANGED <<comp, streamVars, connVars, dgramVars, unixVars, callVars, pairVars>>
    \/ /\ comp = "connect" /\ States!ConnectNext
       /\ UNCHANGED <<comp, streamVars, listenerVars, dgramVars, unixVars, callVars, pairVars>>
    \/ /\ comp = "dgram" /\ DgramNext
       /\ UNCHANGED <<comp, streamVars, listenerVars, connVars, unixVars, callVars, pairVars>>
    \/ /\ comp = "unix" /\ Unix!Next
       /\ UNCHANGED <<comp, streamVars, listenerVars, connVars, dgramVars, callVars, pairVars>>
    \/ /\ comp = "calls" /\ Calls!SCNext
       /\ UNCHANGED <<comp, streamVars, listenerVars, connVars, dgramVars, unixVars, pairVars>>
    \/ /\ comp = "pair" /\ Unix!PairNext
       /\ UNCHANGED <<comp, streamVars, listenerVars, connVars, dgramVars, unixVars, callVars>>

NetSpec == NetInit /\ [][NetNext]_vars

\* The connected Unix sockets alone.
PairSpec == comp = "pair" /\ AllInit /\ [][NetNext]_vars

\* The two programs that show what pselect6 and setsockopt leave behind.
PselectSpec == comp = "calls" /\ AllInit /\ (\E p \in BadPselect : scalls = p.calls) /\ [][NetNext]_vars
SharedSizeSpec == comp = "calls" /\ AllInit /\ (\E p \in SharedSize : scalls = p.calls) /\ [][NetNext]_vars

(***************************************************************************)
(* Properties.                                                             *)
(***************************************************************************)
\* Nobody sleeps in sendmsg, recvmsg or accept for an event that no one will signal: the
\* host holds a request whose completion tells the sleeper, and accept leaves no completed
\* connection behind.
SocketSleepersServed ==
    NobodyStuck /\ DatagramNobodyStuck /\ States!AcceptorArmed

\* The books of the backlog of accept requests agree, the status of the Unix sockets agrees
\* with the address space, the observers of a connected one are told of what its peer does, and
\* the Connected state means a connected host socket, with one such state object, where a
\* connect waits for its own request and nobody interferes: see StreamStates.tla and
\* UnixSocket.tla.
ConnectionsExact ==
    /\ States!BacklogConsistent /\ Unix!SpaceConsistent
    /\ States!ConnectedByOwnRequest /\ States!OneConnectedAlone
    /\ Unix!PeerNoticed

\* The system calls act on the socket their descriptor named when they looked it up, and
\* leave the signal mask and the limits as they must: see SocketCalls.tla.
CallsExact == Calls!CallsExact

\* The send buffer of a socket has the size setsockopt was asked for: see SocketCalls.tla.
BufferAsSet == Calls!BufferAsSet

\* The observers of a connected Unix socket are told of the events its peer causes: see
\* UnixSocket.tla.
EventsTold == Unix!EventsTold
==============================================================================
