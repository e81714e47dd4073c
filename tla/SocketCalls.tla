----------------------------- MODULE SocketCalls -----------------------------
(***************************************************************************)
(* The socket system calls (net/syscalls.rs) and the file that dispatches  *)
(* them to a stream or datagram socket (socket/uring/socket_file.rs).      *)
(* Threads of one process share the file table.  A call looks its          *)
(* descriptor up once and works on the file it found, which lives until    *)
(* the last table entry and the last call are done with it; another thread *)
(* may close the descriptor and have it reused in between.                 *)
(*                                                                         *)
(* What one send or accept does inside a socket is the business of         *)
(* StreamSocket, Listener and Datagram; here it is one step.  Integers are *)
(* scaled: Width values of a C unsigned integer, Word values of the half   *)
(* of a usize that an int option fills.                                    *)
(***************************************************************************)
EXTENDS Integers, FiniteSets, Sequences

CONSTANTS
    SThreads,        \* threads of the process
    SPrograms,       \* records: calls of each thread, conns (connections that arrive), resets
    Fds,             \* descriptors 0..n
    MaxSockets,
    Width, SOMAXCONN, SOCONN_DEFAULT,
    Word, MinBuf, MaxBuf, Million,
    AddrLen          \* length of a socket address

VARIABLES
    stable,     \* the file table: Fds -> socket number, or 0
    sockets,    \* every socket ever created
    SEND_BUF_SIZE,
    smask,      \* signals each thread blocks
    signals,    \* signals pending for each thread
    spc,
    scalls,     \* calls each thread has still to make
    sheld,      \* the call's file_ref, accepted connection, send_count, msg_namelen and prev_mask;
                \* start: the socket the descriptor named when the call looked it up
    sret,       \* what the last call of each thread returned
    arriving, resets

scVars == <<stable, sockets, SEND_BUF_SIZE, smask, signals, spc, scalls, sheld, sret, arriving, resets>>

NoCall == [file |-> 0, start |-> 0, conn |-> 0, count |-> 0, named |-> 0, prev |-> {}]
Uring == {"stream", "dgram"}

SCInit ==
    /\ stable = [f \in Fds |-> 0]
    /\ sockets = <<>>
    /\ SEND_BUF_SIZE = 2 * MaxBuf
    /\ smask = [t \in SThreads |-> {}]
    /\ signals = [t \in SThreads |-> {}]
    /\ spc = [t \in SThreads |-> "user"]
    /\ sheld = [t \in SThreads |-> NoCall]
    /\ sret = [t \in SThreads |-> [ret |-> [value |-> 0], call |-> [op |-> "none"], held |-> NoCall]]
    /\ \E p \in SPrograms : scalls = p.calls /\ arriving = p.conns /\ resets = p.resets

\* A StreamSocket, DatagramSocket, unix Stream or HostSocket as `new` makes it.
NewSocket(kind) ==
    [kind |-> kind, st |-> "init", backlog |-> 0, incoming |-> 0, buf |-> 0, data |-> 0,
     need |-> FALSE, asked |-> 0, shut |-> FALSE, open |-> TRUE, got |-> {},
     timeout |-> 0, named |-> FALSE]

\* ConnectedStream::new allocates a send buffer of the size the static holds; the connect of a
\* datagram socket undoes a shutdown.
Connected(k) == [k EXCEPT !.st = "connected", !.buf = SEND_BUF_SIZE, !.shut = FALSE]

Doing(t, op) == spc[t] = "user" /\ scalls[t] # <<>> /\ Head(scalls[t]).op = op
Arg(t) == Head(scalls[t])
FdFree(tbl) == {f \in Fds : tbl[f] = 0}
Lowest(S) == CHOOSE f \in S : \A g \in S : f <= g

\* current!().add_file: the lowest free descriptor.
AddFile(tbl, k) == [tbl EXCEPT ![Lowest(FdFree(tbl))] = k]

\* The files that calls in progress refer to.
HeldBy(held) == UNION {{held[t].file, held[t].conn} : t \in SThreads}

\* SocketFile::drop closes the socket with the last reference to it.
Drop(socks, tbl, held) ==
    [k \in 1..Len(socks) |->
        [socks[k] EXCEPT !.open = @ /\ k \in {tbl[f] : f \in Fds} \cup HeldBy(held)]]

\* The call of t returns ret; its file_ref is dropped.
Returns(t, ret, tbl, socks) ==
    /\ spc' = [spc EXCEPT ![t] = "user"]
    /\ scalls' = [scalls EXCEPT ![t] = Tail(@)]
    /\ sret' = [sret EXCEPT ![t] = [ret |-> ret, call |-> Arg(t), held |-> sheld[t]]]
    /\ sheld' = [sheld EXCEPT ![t] = NoCall]
    /\ stable' = tbl
    /\ sockets' = Drop(socks, tbl, sheld')
    /\ UNCHANGED <<arriving, resets>>

Fails(t, errno) == Returns(t, [errno |-> errno], stable, sockets) /\ UNCHANGED <<SEND_BUF_SIZE, smask, signals>>
Answers(t, ret, socks) == Returns(t, ret, stable, socks) /\ UNCHANGED <<SEND_BUF_SIZE, smask, signals>>

------------------------------------------------------------------------------
\* unix_socket and socketpair (socket/unix/mod.rs).
LocalKind(c) ==
    CASE c.protocol \notin {"IP", "LOCAL"} -> "EPROTONOSUPPORT"
      [] c.type # "STREAM" -> "ESOCKTNOSUPPORT"
      [] OTHER -> "unix"

\* do_socket: which implementation serves the domain, type and protocol, or the error.
KindOf(c) ==
    IF c.domain = "INET"
    THEN CASE c.type = "STREAM" /\ c.protocol \in {"IP", "TCP"} -> "stream"
           [] c.type = "DGRAM" /\ c.protocol \in {"IP", "UDP"} -> "dgram"
           [] c.type \in {"STREAM", "DGRAM"} -> "EPROTONOSUPPORT"
           [] OTHER -> "host"
    ELSE IF c.domain = "LOCAL" THEN LocalKind(c) ELSE "host"

do_socket(t) ==
    /\ Doing(t, "socket")
    /\ FdFree(stable) # {} /\ Len(sockets) < MaxSockets
    /\ IF KindOf(Arg(t)) \in Uring \cup {"unix", "host"}
       THEN /\ Returns(t, [value |-> 0], AddFile(stable, Len(sockets) + 1), Append(sockets, NewSocket(KindOf(Arg(t)))))
            /\ UNCHANGED <<SEND_BUF_SIZE, smask, signals>>
       ELSE Fails(t, KindOf(Arg(t)))

\* do_socketpair: both ends enter the table under one lock.
do_socketpair(t) ==
    /\ Doing(t, "socketpair")
    /\ Cardinality(FdFree(stable)) >= 2 /\ Len(sockets) + 2 <= MaxSockets
    /\ IF Arg(t).domain # "LOCAL" THEN Fails(t, "EAFNOSUPPORT")
       ELSE IF LocalKind(Arg(t)) # "unix" THEN Fails(t, LocalKind(Arg(t)))
       ELSE LET n == Len(sockets)
                end == [NewSocket("unix") EXCEPT !.st = "connected"]
            IN /\ Returns(t, [value |-> 0], AddFile(AddFile(stable, n + 1), n + 2), sockets \o <<end, end>>)
               /\ UNCHANGED <<SEND_BUF_SIZE, smask, signals>>

\* Checks a call makes before it looks the descriptor up: pointers and lengths that do not match.
BadArgs(c) == "bad" \in DOMAIN c /\ c.bad

\* current!().file(fd): the call keeps the file it finds.
Lookup(t) ==
    /\ spc[t] = "user" /\ scalls[t] # <<>> /\ "fd" \in DOMAIN Arg(t) /\ Arg(t).op # "close"
    /\ IF BadArgs(Arg(t)) THEN Fails(t, "EINVAL")
       ELSE IF stable[Arg(t).fd] = 0 THEN Fails(t, "EBADF")
       ELSE /\ sheld' = [sheld EXCEPT ![t] = [NoCall EXCEPT !.file = stable[Arg(t).fd],
                                                           !.start = stable[Arg(t).fd]]]
            /\ spc' = [spc EXCEPT ![t] = Arg(t).op]
            /\ UNCHANGED <<stable, sockets, SEND_BUF_SIZE, smask, signals, scalls, sret, arriving, resets>>

File(t) == sockets[sheld[t].file]
In(t, op) == spc[t] = op
Set(t, k) == [sockets EXCEPT ![sheld[t].file] = k]

do_bind(t) ==
    /\ In(t, "bind")
    /\ IF File(t).st = "init" THEN Answers(t, [value |-> 0], Set(t, [File(t) EXCEPT !.st = "bound", !.named = TRUE]))
       ELSE Fails(t, "EINVAL")

\* do_listen: the backlog is an int read as an unsigned one.
Backlog(backlog) ==
    LET u == backlog % Width IN
    IF u > SOMAXCONN THEN SOMAXCONN ELSE IF backlog = 0 THEN SOCONN_DEFAULT ELSE u

do_listen(t) ==
    /\ In(t, "listen")
    /\ CASE File(t).kind = "dgram" -> Fails(t, "EOPNOTSUPP")
         [] File(t).kind = "unix" /\ (Arg(t).backlog < 0 \/ File(t).st # "bound") -> Fails(t, "EINVAL")
         [] File(t).st \notin {"init", "bound"} -> Fails(t, "EINVAL")
         [] OTHER -> Answers(t, [value |-> 0], Set(t, [File(t) EXCEPT !.st = "listening",
                          !.backlog = IF File(t).kind = "stream" THEN Backlog(Arg(t).backlog) ELSE SOMAXCONN]))

\* do_connect: the peer accepts or refuses.
do_connect(t) ==
    /\ In(t, "connect")
    /\ CASE File(t).kind # "dgram" /\ File(t).st = "connected" -> Fails(t, "EISCONN")
         [] File(t).st = "listening" -> Fails(t, "EINVAL")
         [] OTHER -> \/ Fails(t, "ECONNREFUSED")
                     \/ Answers(t, [value |-> 0], Set(t, Connected(File(t))))

\* do_accept4 waits for a connection; a shutdown meanwhile ends the wait.
do_accept4(t) ==
    /\ In(t, "accept")
    /\ CASE File(t).kind = "dgram" -> Fails(t, "EOPNOTSUPP")
         [] File(t).st # "listening" -> Fails(t, "EINVAL")
         [] OTHER ->
              /\ File(t).incoming > 0 /\ Len(sockets) < MaxSockets
              /\ sockets' = Append(Set(t, [File(t) EXCEPT !.incoming = @ - 1]),
                                   Connected(NewSocket(File(t).kind)))
              /\ sheld' = [sheld EXCEPT ![t].conn = Len(sockets')]
              /\ spc' = [spc EXCEPT ![t] = "accepted"]
              /\ UNCHANGED <<stable, SEND_BUF_SIZE, smask, signals, scalls, sret, arriving, resets>>

\* copy_sock_addr_to_user: how many bytes are written, and the length that is reported.
CopyAddr(len) == [written |-> IF len < AddrLen THEN len ELSE AddrLen, reported |-> AddrLen]

\* The second half of do_accept4: the connection gets a descriptor and the peer's address is copied out.
AcceptedAdd(t) ==
    /\ In(t, "accepted") /\ FdFree(stable) # {}
    /\ Returns(t, CopyAddr(Arg(t).len), AddFile(stable, sheld[t].conn), sockets)
    /\ UNCHANGED <<SEND_BUF_SIZE, smask, signals>>

\* InitStream::new_with_common: bound if the socket has an address.
Relisten(k) == [k EXCEPT !.st = IF k.named THEN "bound" ELSE "init", !.backlog = 0, !.incoming = 0]

\* do_shutdown.  Shut down for reading, a listening stream can be used again afterwards; shut
\* down for writing it goes on listening.
do_shutdown(t) ==
    /\ In(t, "shutdown")
    /\ CASE File(t).st = "connected" ->
              Answers(t, [value |-> 0], Set(t, [File(t) EXCEPT !.shut = @ \/ "WR" \in Arg(t).how]))
         [] File(t).st = "listening" /\ File(t).kind = "stream" ->
              Answers(t, [value |-> 0], IF "RD" \in Arg(t).how THEN Set(t, Relisten(File(t))) ELSE sockets)
         [] OTHER -> Fails(t, "ENOTCONN")

\* do_getsockname, which keeps the address the host gives, and do_getpeername.
do_getname(t) ==
    /\ In(t, "getname")
    /\ IF Arg(t).peer /\ File(t).st # "connected" THEN Fails(t, "ENOTCONN")
       ELSE Answers(t, CopyAddr(Arg(t).len),
                    Set(t, [File(t) EXCEPT !.named = @ \/ (~Arg(t).peer /\ File(t).kind = "stream")]))

------------------------------------------------------------------------------
\* new_uring_setsockopt_cmd: the option's bytes fill the end of a usize, the value is limited and doubled.
OptionSize(c) ==
    LET given == IF c.len = 1 THEN c.value * Word ELSE c.value IN
    2 * (IF given > MaxBuf THEN MaxBuf ELSE given)

KernelSize(size) == IF size > MinBuf THEN size ELSE MinBuf

\* try_update_send_buf_size, on a connected socket k.
TryUpdate(k, size) ==
    CASE SEND_BUF_SIZE = size -> k
      [] k.data = 0 -> [k EXCEPT !.buf = size]
      [] OTHER -> [k EXCEPT !.need = TRUE]

\* new_uring_setsockopt_cmd(SO_SNDTIMEO): negative seconds count as none; a bad microsecond part is refused.
TimeoutOf(c) ==
    CASE c.len < 2 -> [errno |-> "EINVAL"]
      [] c.usec \notin 0..Million -> [errno |-> "EDOM"]
      [] OTHER -> [timeout |-> Million * (IF c.value < 0 THEN 0 ELSE c.value) + c.usec]

\* do_setsockopt with a timeout, and do_getsockopt of the same option (the timeout in microseconds).
do_timeout(t) ==
    /\ In(t, "timeout")
    /\ LET r == TimeoutOf(Arg(t)) IN
       CASE File(t).kind \notin Uring -> Answers(t, [value |-> 0], sockets)
         [] File(t).kind \in Uring /\ "errno" \in DOMAIN r -> Fails(t, r.errno)
         [] OTHER -> Answers(t, [value |-> 0], Set(t, [File(t) EXCEPT !.timeout = r.timeout]))

do_getsockopt(t) ==
    /\ In(t, "getsockopt")
    /\ Answers(t, [timeout |-> File(t).timeout], sockets)

\* do_setsockopt(SO_SNDBUF).  asked is what the caller is entitled to find on a connected socket.
do_setsockopt(t) ==
    /\ In(t, "setsockopt")
    /\ LET size == KernelSize(OptionSize(Arg(t))) IN
       IF File(t).kind # "stream" THEN Answers(t, [value |-> 0], sockets)
       ELSE IF Arg(t).len \notin {1, 2} THEN Fails(t, "EINVAL")
       ELSE /\ Returns(t, [value |-> 0], stable, IF File(t).st # "connected" THEN sockets
                     ELSE Set(t, [TryUpdate(File(t), size) EXCEPT !.asked = size]))
            /\ SEND_BUF_SIZE' = size
            /\ UNCHANGED <<smask, signals>>

\* The last send request completes; a size that was put off is taken from the static.
SendCompletes(k) ==
    /\ k \in 1..Len(sockets) /\ sockets[k].data > 0
    /\ sockets' = [sockets EXCEPT ![k].data = 0, ![k].need = FALSE,
                                  ![k].buf = IF sockets[k].need /\ ~sockets[k].shut THEN SEND_BUF_SIZE ELSE @]
    /\ UNCHANGED <<stable, SEND_BUF_SIZE, smask, signals, spc, scalls, sheld, sret, arriving, resets>>

------------------------------------------------------------------------------
\* What sending one message on socket k gives.
SendResult(k) ==
    CASE k.kind = "host" -> "ok"
      [] k.kind = "dgram" /\ k.st # "connected" -> "EDESTADDRREQ"
      [] k.st = "connected" -> IF k.shut THEN "EPIPE" ELSE "ok"
      [] OTHER -> IF k.kind = "unix" THEN "ENOTCONN" ELSE "EPIPE"

\* Message n of the call of t is on its way in socket k.
Sent(t, k, n) ==
    [sockets EXCEPT ![k].got = @ \cup {<<t, Len(scalls[t]), n>>},
                    ![k].data = IF sockets[k].kind = "stream" THEN 1 ELSE @]

\* SocketFile::sendmsg: the sender is sent SIGPIPE.
Pipes(t, result) ==
    IF result = "EPIPE" /\ File(t).kind \in Uring /\ ~Arg(t).nosignal THEN {"PIPE"} ELSE {}

SendOne(t) ==
    /\ LET result == SendResult(File(t)) IN
       /\ signals' = [signals EXCEPT ![t] = @ \cup Pipes(t, result)]
       /\ IF result = "ok" THEN Returns(t, [value |-> 1], stable, Sent(t, sheld[t].file, 1))
          ELSE Returns(t, [errno |-> result], stable, sockets)
    /\ UNCHANGED <<SEND_BUF_SIZE, smask>>

do_sendto(t) == In(t, "sendto") /\ SendOne(t)

do_sendmsg(t) == In(t, "sendmsg") /\ SendOne(t)

\* extract_msghdr_from_user: a name, control buffer or vector without a length, or the reverse.
BadHeader(msg) == msg = "bad"

\* Mutant: the descriptor is looked up again for every message.
SendTargetByFd(t) == IF stable[Arg(t).fd] # 0 THEN stable[Arg(t).fd] ELSE sheld[t].file

SendTarget(t) == sheld[t].file

\* do_sendmmsg, one message of the vector at a time.
do_sendmmsg(t) ==
    /\ In(t, "sendmmsg")
    /\ LET n == sheld[t].count
           result == SendResult(sockets[SendTarget(t)])
       IN CASE File(t).kind = "unix" -> Fails(t, "EOPNOTSUPP")
            [] n = Len(Arg(t).msgs) -> Answers(t, [value |-> n], sockets)
            [] n < Len(Arg(t).msgs) /\ BadHeader(Arg(t).msgs[n + 1]) -> Fails(t, "EINVAL")
            [] n < Len(Arg(t).msgs) /\ ~BadHeader(Arg(t).msgs[n + 1]) /\ result # "ok" ->
                 /\ Returns(t, [value |-> n], stable, sockets)
                 /\ signals' = [signals EXCEPT ![t] = @ \cup Pipes(t, result)]
                 /\ UNCHANGED <<SEND_BUF_SIZE, smask>>
            [] OTHER ->
                 /\ sockets' = Sent(t, SendTarget(t), n + 1)
                 /\ sheld' = [sheld EXCEPT ![t].count = n + 1]
                 /\ UNCHANGED <<stable, SEND_BUF_SIZE, smask, signals, spc, scalls, sret, arriving, resets>>

\* recvmsg of a socket: a stream has no address to give.
NoAddressYet(t) == File(t).kind \in {"stream", "unix"} /\ File(t).st # "connected"

\* do_recvfrom reports length 0 when there is no address.
do_recvfrom(t) ==
    /\ In(t, "recvfrom")
    /\ CASE NoAddressYet(t) -> Fails(t, "ENOTCONN")
         [] File(t).kind = "dgram" -> Answers(t, CopyAddr(Arg(t).len), sockets)
         [] OTHER -> Answers(t, [written |-> 0, reported |-> 0], sockets)

\* do_recvmsg leaves msg_namelen as the caller set it when there is no address.
do_recvmsg(t) ==
    /\ In(t, "recvmsg")
    /\ CASE NoAddressYet(t) -> Fails(t, "ENOTCONN")
         [] File(t).kind = "dgram" -> Answers(t, CopyAddr(Arg(t).len), sockets)
         [] OTHER -> Answers(t, [written |-> 0, reported |-> Arg(t).len], sockets)

do_close(t) ==
    /\ Doing(t, "close")
    /\ IF stable[Arg(t).fd] = 0 THEN Fails(t, "EBADF")
       ELSE /\ Returns(t, [value |-> 0], [stable EXCEPT ![Arg(t).fd] = 0], sockets)
            /\ UNCHANGED <<SEND_BUF_SIZE, smask, signals>>

------------------------------------------------------------------------------
\* do_pselect6: the mask is replaced first, then the other arguments are checked.
do_pselect6(t) ==
    /\ Doing(t, "pselect6")
    /\ smask' = IF Arg(t).set THEN [smask EXCEPT ![t] = Arg(t).mask \ {"KILL", "STOP"}] ELSE smask
    /\ IF Arg(t).nfds \notin 0..Cardinality(Fds)
       THEN Returns(t, [errno |-> "EINVAL"], stable, sockets) /\ UNCHANGED <<SEND_BUF_SIZE, signals>>
       ELSE /\ sheld' = [sheld EXCEPT ![t].prev = smask[t]]
            /\ spc' = [spc EXCEPT ![t] = "selecting"]
            /\ UNCHANGED <<stable, sockets, SEND_BUF_SIZE, signals, scalls, sret, arriving, resets>>

Restored(t) == IF Arg(t).set THEN [smask EXCEPT ![t] = sheld[t].prev] ELSE smask

\* The wait ends with descriptors ready, with a signal or with a timeout; the mask is put back.
SelectEnds(t) ==
    /\ In(t, "selecting")
    /\ smask' = Restored(t)
    /\ \/ Returns(t, [value |-> 0], stable, sockets)
       \/ ~(signals[t] \subseteq smask[t]) /\ Returns(t, [errno |-> "EINTR"], stable, sockets)
    /\ UNCHANGED <<SEND_BUF_SIZE, signals>>

\* The handler of a signal that is not blocked runs on the way to user mode.
Handled(t) ==
    /\ spc[t] = "user" /\ ~(signals[t] \subseteq smask[t])
    /\ signals' = [signals EXCEPT ![t] = @ \cap smask[t]]
    /\ UNCHANGED <<stable, sockets, SEND_BUF_SIZE, smask, spc, scalls, sheld, sret, arriving, resets>>

\* A connection reaches a listening socket whose backlog has room.
Arrives(k) ==
    /\ arriving > 0 /\ k \in 1..Len(sockets)
    /\ sockets[k].open /\ sockets[k].st = "listening" /\ sockets[k].incoming < sockets[k].backlog
    /\ arriving' = arriving - 1
    /\ sockets' = [sockets EXCEPT ![k].incoming = @ + 1]
    /\ UNCHANGED <<stable, SEND_BUF_SIZE, smask, signals, spc, scalls, sheld, sret, resets>>

\* The peer of a connected stream resets it.
Reset(k) ==
    /\ resets > 0 /\ k \in 1..Len(sockets)
    /\ sockets[k].kind = "stream" /\ sockets[k].st = "connected" /\ ~sockets[k].shut
    /\ resets' = resets - 1
    /\ sockets' = [sockets EXCEPT ![k].shut = TRUE]
    /\ UNCHANGED <<stable, SEND_BUF_SIZE, smask, signals, spc, scalls, sheld, sret, arriving>>

SCNext ==
    \/ \E t \in SThreads :
        \/ do_socket(t) \/ do_socketpair(t) \/ Lookup(t) \/ do_bind(t) \/ do_listen(t) \/ do_connect(t)
        \/ do_accept4(t) \/ AcceptedAdd(t) \/ do_shutdown(t) \/ do_getname(t) \/ do_setsockopt(t)
        \/ do_timeout(t) \/ do_getsockopt(t) \/ do_sendto(t) \/ do_sendmsg(t) \/ do_sendmmsg(t) \/ do_recvfrom(t) \/ do_recvmsg(t) \/ do_close(t) \/ do_pselect6(t)
        \/ SelectEnds(t) \/ Handled(t)
    \/ \E k \in 1..MaxSockets : SendCompletes(k) \/ Arrives(k) \/ Reset(k)

------------------------------------------------------------------------------
\* Messages of the last call of t, over all sockets.
MessagesOf(t) == {<<k, n>> \in (1..Len(sockets)) \X (1..3) : <<t, Len(scalls[t]) + 1, n>> \in sockets[k].got}

\* A socket is open exactly while the table or a call in progress refers to it.
OpenExact ==
    \A k \in 1..Len(sockets) : sockets[k].open <=> k \in {stable[f] : f \in Fds} \cup HeldBy(sheld)

\* sendmmsg reports as many messages as it sent, and all of them went to the socket its
\* descriptor named when it was called, whatever other threads close and open meanwhile.
SentThere ==
    \A t \in SThreads :
        spc[t] = "user" /\ sret[t].call.op \in {"sendmmsg", "sendto", "sendmsg"} /\ "value" \in DOMAIN sret[t].ret =>
            MessagesOf(t) = {sret[t].held.start} \X (1..sret[t].ret.value)

\* Between calls a thread blocks the signals it blocked before them.
MaskRestored == \A t \in SThreads : spc[t] = "user" => smask[t] = {}

\* Backlogs and send buffers stay within their limits whatever number the caller gives.
WithinLimits ==
    \A k \in 1..Len(sockets) :
        /\ sockets[k].st = "listening" => sockets[k].backlog \in 1..SOMAXCONN
        /\ sockets[k].kind = "stream" /\ sockets[k].st = "connected" =>
              sockets[k].buf \in MinBuf..(2 * MaxBuf)
        /\ sockets[k].timeout >= 0

\* The socket system calls keep descriptors, messages, masks and limits exact.
CallsExact == OpenExact /\ SentThere /\ MaskRestored /\ WithinLimits

\* A connected socket whose size was set and whose buffer has drained has a buffer of that size
\* ("If the kernel buf is currently empty, the size will be updated immediately").
BufferAsSet ==
    \A k \in 1..Len(sockets) :
        sockets[k].asked # 0 /\ sockets[k].data = 0 => sockets[k].buf = sockets[k].asked
=============================================================================
