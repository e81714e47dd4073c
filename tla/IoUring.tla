------------------------------- MODULE IoUring -------------------------------
(***************************************************************************)
(* io_uring-callback: one ring shared by the threads that push requests    *)
(* and cancellations and by the thread that polls for completions.  A      *)
(* request is known to the host by its key, the slot of its token in a     *)
(* slab; the slot is vacant again, and may be given to another request,    *)
(* once the completion has been polled.  The ring and the host behind it   *)
(* are external: a queue of submitted entries, the requests in work, and   *)
(* the queue of completions.                                               *)
(***************************************************************************)
EXTENDS Integers, Sequences, FiniteSets, FiniteSetsExt, TLC

CONSTANTS
    Requests,    \* requests that may be made, each once
    Slots,       \* slots of the token table
    SqEntries,   \* capacity of the submission queue
    NoRequest,   \* a vacant slot
    CancelKey    \* the user data of cancellations

Results == {"done", "ECANCELED"}

ASSUME IoUringAssumption ==
    /\ CancelKey \notin Slots
    /\ NoRequest \notin Requests /\ NoRequest \notin [req : Requests, result : Results]

VARIABLES
    token_table, \* slot -> the request whose token is there, or NoRequest
    iostate,     \* request -> IoState, or "New"
    keyOf,       \* request -> the slot its token was put in
    sq,          \* submitted entries the host has not taken: user data, or a cancellation's target
    working,     \* keys of the requests the host works on
    cq,          \* completions: [key, result]
    pushing,     \* entries whose pusher is between the token table and the queue
    taken,       \* the completion the polling thread has taken from the table, or NoRequest
    called,      \* history: request -> how often its callback has run
    wronged      \* history: requests cancelled on behalf of another one's handle

ringVars == <<token_table, iostate, keyOf, sq, working, cq, pushing, taken, called, wronged>>

OpEntry(k) == [op |-> "request", key |-> k]
CancelEntry(k, r) == [op |-> "cancel", key |-> k, for |-> r]

\* push_entry, first half: a token is put into a vacant slot.
InsertToken(r) ==
    /\ iostate[r] = "New"
    /\ \E k \in Slots :
          /\ token_table[k] = NoRequest
          /\ token_table' = [token_table EXCEPT ![k] = r]
          /\ keyOf' = [keyOf EXCEPT ![r] = k]
          /\ pushing' = pushing \cup {OpEntry(k)}
    /\ iostate' = [iostate EXCEPT ![r] = "Submitted"]
    /\ UNCHANGED <<sq, working, cq, taken, called, wronged>>

\* push: the entry goes into the submission queue, and the host is told.
Push(e) ==
    /\ e \in pushing /\ Len(sq) < SqEntries
    /\ sq' = Append(sq, e)
    /\ pushing' = pushing \ {e}
    /\ UNCHANGED <<token_table, iostate, keyOf, working, cq, taken, called, wronged>>

\* cancel, first half: the state becomes Cancelling and the key is taken from the token.
transit_to_cancelling(r) ==
    /\ iostate[r] = "Submitted"
    /\ iostate' = [iostate EXCEPT ![r] = "Cancelling"]
    /\ pushing' = pushing \cup {CancelEntry(keyOf[r], r)}
    /\ UNCHANGED <<token_table, keyOf, sq, working, cq, taken, called, wronged>>

\* The host takes an entry.  A cancellation finds its target by the key alone, if it is still
\* in work, and completes itself under the magic key.
HostTakes ==
    /\ sq # <<>> /\ sq' = Tail(sq)
    /\ LET e == Head(sq)
       IN IF e.op = "request"
          THEN working' = working \cup {e.key} /\ UNCHANGED <<cq, wronged>>
          ELSE /\ working' = working \ {e.key}
               /\ cq' = cq \o (IF e.key \in working THEN <<[key |-> e.key, result |-> "ECANCELED"]>> ELSE <<>>)
                           \o <<[key |-> CancelKey, result |-> "done"]>>
               /\ wronged' = IF e.key \in working /\ token_table[e.key] # e.for
                             THEN wronged \cup {token_table[e.key]} ELSE wronged
    /\ UNCHANGED <<token_table, iostate, keyOf, pushing, taken, called>>

HostCompletes(k) ==
    /\ k \in working
    /\ working' = working \ {k}
    /\ cq' = Append(cq, [key |-> k, result |-> "done"])
    /\ UNCHANGED <<token_table, iostate, keyOf, sq, pushing, taken, called, wronged>>

\* poll_completions takes an entry off the queue and its token off the table; the completion
\* of a cancellation is dropped.
KeepSlot(tt, k) == tt
RemoveToken(tt, k) == [tt EXCEPT ![k] = NoRequest]
PollEntry ==
    /\ cq # <<>> /\ taken = NoRequest
    /\ cq' = Tail(cq)
    /\ LET e == Head(cq)
       IN IF e.key = CancelKey THEN UNCHANGED <<token_table, taken>>
          ELSE /\ taken' = [req |-> token_table[e.key], result |-> e.result]
               /\ token_table' = RemoveToken(token_table, e.key)
    /\ UNCHANGED <<iostate, keyOf, sq, working, pushing, called, wronged>>

\* IoToken::complete: the state changes, then the callback is called.
Completed(s, result) == IF s = "Cancelling" /\ result = "ECANCELED" THEN "Cancelled" ELSE "Processed"
Complete ==
    /\ taken # NoRequest
    /\ iostate' = [iostate EXCEPT ![taken.req] = Completed(@, taken.result)]
    /\ called' = [called EXCEPT ![taken.req] = @ + 1]
    /\ taken' = NoRequest
    /\ UNCHANGED <<token_table, keyOf, sq, working, cq, pushing, wronged>>

RingInit ==
    /\ token_table = [k \in Slots |-> NoRequest]
    /\ iostate = [r \in Requests |-> "New"]
    /\ keyOf = [r \in Requests |-> NoRequest]
    /\ sq = <<>> /\ working = {} /\ cq = <<>> /\ pushing = {} /\ taken = NoRequest
    /\ called = [r \in Requests |-> 0]
    /\ wronged = {}

RingNext ==
    \/ \E r \in Requests : InsertToken(r) \/ transit_to_cancelling(r)
    \/ \E e \in pushing : Push(e)
    \/ HostTakes
    \/ \E k \in Slots : HostCompletes(k)
    \/ PollEntry \/ Complete

RingSpec == RingInit /\ [][RingNext]_ringVars

-----------------------------------------------------------------------------
InFlight ==
    {e.key : e \in {f \in pushing : f.op = "request"}}
      \cup {sq[i].key : i \in {j \in 1..Len(sq) : sq[j].op = "request"}}
      \cup working \cup {cq[i].key : i \in {j \in 1..Len(cq) : cq[j].key # CancelKey}}

\* A request that is under way, and no other, has its token in the table, under the key the
\* host knows it by: a completion always finds the token of the request it completes, whose
\* callback runs exactly once.  (Slab::remove panics on a vacant slot, and complete on a state
\* that is final.)
TokenMatchesRequest ==
    /\ \A k \in Slots : (k \in InFlight) = (token_table[k] # NoRequest)
    /\ \A k \in Slots : token_table[k] # NoRequest =>
          keyOf[token_table[k]] = k /\ iostate[token_table[k]] \in {"Submitted", "Cancelling"}
    /\ \A r \in Requests : called[r] = IF iostate[r] \in {"Processed", "Cancelled"} THEN 1 ELSE 0

\* cancel cancels the request of the handle it is given, and no other.
CancelHitsItsTarget == wronged = {}

(***************************************************************************)
(* The set of io_uring instances (io_uring.rs).  poll_completions builds   *)
(* them all when the enclave is initialised.  A socket has a descriptor of *)
(* the host and is registered with one of the rings when it is created:    *)
(* the one with the fewest sockets, and among those the one with the least *)
(* load.  The map is locked for each call; the load of a ring is the sum   *)
(* of the operations its fd_map counts by host descriptor.  A socket that  *)
(* is dropped closes the descriptor, which the host may then give to       *)
(* another socket, before it is unregistered and removed from fd_map.      *)
(***************************************************************************)
CONSTANTS
    Sockets,       \* sockets that may be opened, each once
    HostFds,       \* descriptors the host gives out
    UringLimit,    \* URING_LIMIT
    Threshold,     \* SOCKET_THRESHOLD_PER_URING
    MaxOps,        \* bound on the operations of a socket
    NoRing         \* not attached

VARIABLES
    registered,    \* ring -> registered_num, for the rings that exist
    fd_map,        \* ring -> host descriptor -> operations counted, 0 where there is no entry
    life,          \* socket -> how far it has come, from "new" to "dropped"
    hostFd,        \* socket -> its descriptor, or NoRing
    attached,      \* socket -> its ring, or NoRing
    opsOf          \* history: socket -> operations pushed through it

uringSetVars == <<registered, fd_map, life, hostFd, attached, opsOf>>

Running == Cardinality(DOMAIN registered)
Fewest == {u \in DOMAIN registered : \A v \in DOMAIN registered : registered[u] <= registered[v]}
task_load(u) == FoldSet(LAMBDA fd, n : n + fd_map[u][fd], 0, HostFds)
NoEntries == [fd \in HostFds |-> 0]

\* A new ring is built while there are no more rings than the sockets call for: never, since
\* poll_completions has built all of them.
ShouldBuild ==
    LET total == FoldSet(LAMBDA u, n : n + registered[u], 0, DOMAIN registered)
    IN Running < UringLimit /\ Running < total \div Threshold + 1

Chosen(u) ==
    /\ u \in Fewest
    /\ Running = UringLimit => \A v \in Fewest : task_load(u) <= task_load(v)

\* (RegisterOnce: only the first socket of a ring is counted.)
RegisterOnce(u, n) == IF n = 0 THEN 1 ELSE n
register_one_socket(u, n) == n + 1

\* Common::new: the host gives a descriptor, then a ring is chosen.
do_socket(s) ==
    /\ life[s] = "new"
    /\ \E fd \in HostFds :
          /\ \A o \in Sockets : hostFd[o] = fd => life[o] \in {"closed", "unregistered", "dropped"}
          /\ hostFd' = [hostFd EXCEPT ![s] = fd]
    /\ life' = [life EXCEPT ![s] = "made"]
    /\ UNCHANGED <<registered, fd_map, attached, opsOf>>

get_uring(s) ==
    /\ life[s] = "made"
    /\ \E u \in 1..Running + 1 :
          /\ IF ShouldBuild
             THEN /\ u = Running + 1
                  /\ registered' = registered @@ (u :> register_one_socket(u, 0))
                  /\ fd_map' = fd_map @@ (u :> NoEntries)
             ELSE /\ u \in DOMAIN registered /\ Chosen(u)
                  /\ registered' = [registered EXCEPT ![u] = register_one_socket(u, @)]
                  /\ UNCHANGED fd_map
          /\ attached' = [attached EXCEPT ![s] = u]
    /\ life' = [life EXCEPT ![s] = "open"]
    /\ UNCHANGED <<hostFd, opsOf>>

\* A request on the socket's descriptor.
op_fetch_add(s) ==
    /\ life[s] = "open" /\ opsOf[s] < MaxOps
    /\ fd_map' = [fd_map EXCEPT ![attached[s]][hostFd[s]] = @ + 1]
    /\ opsOf' = [opsOf EXCEPT ![s] = @ + 1]
    /\ UNCHANGED <<registered, life, hostFd, attached>>

\* Drop for Common: the descriptor is closed, the count goes down under the lock, and the
\* descriptor's entry is removed once the lock is released.
do_close(s) ==
    /\ life[s] = "open"
    /\ life' = [life EXCEPT ![s] = "closed"]
    /\ UNCHANGED <<registered, fd_map, hostFd, attached, opsOf>>
unregister_one_socket(s) ==
    /\ life[s] = "closed"
    /\ registered' = [registered EXCEPT ![attached[s]] = @ - 1]
    /\ life' = [life EXCEPT ![s] = "unregistered"]
    /\ UNCHANGED <<fd_map, hostFd, attached, opsOf>>
disattach_fd(s) ==
    /\ life[s] = "unregistered"
    /\ fd_map' = [fd_map EXCEPT ![attached[s]][hostFd[s]] = 0]
    /\ life' = [life EXCEPT ![s] = "dropped"]
    /\ UNCHANGED <<registered, hostFd, attached, opsOf>>

UringSetInit ==
    /\ registered = [u \in 1..UringLimit |-> 0]
    /\ fd_map = [u \in 1..UringLimit |-> NoEntries]
    /\ life = [s \in Sockets |-> "new"]
    /\ hostFd = [s \in Sockets |-> NoRing]
    /\ attached = [s \in Sockets |-> NoRing]
    /\ opsOf = [s \in Sockets |-> 0]

UringSetNext == \E s \in Sockets :
    \/ do_socket(s) \/ get_uring(s) \/ op_fetch_add(s)
    \/ do_close(s) \/ unregister_one_socket(s) \/ disattach_fd(s)

UringSetSpec == UringSetInit /\ [][UringSetNext]_uringSetVars

-----------------------------------------------------------------------------
\* The sockets fd_map may still count under a descriptor of a ring.
Counted(u, fd) ==
    {s \in Sockets : attached[s] = u /\ hostFd[s] = fd /\ life[s] # "dropped"}

\* The rings tell sockets apart although the host gives a closed socket's descriptor to another
\* before the first is removed from the rings.  Every ring counts exactly the sockets that are
\* registered with it; fd_map counts no operation but those of sockets not yet removed from the
\* ring, so that nothing of a dropped socket weighs on its load (get_uring, disattach_uring);
\* and while one socket has a descriptor of a ring for itself, and none had it before, all of
\* its operations are counted.  The sockets of two rings differ in number by more than one only
\* once some have been closed.
RegisteredExact ==
    /\ \A u \in DOMAIN registered :
          registered[u] = Cardinality({s \in Sockets : attached[s] = u /\ life[s] \in {"open", "closed"}})
    /\ \A u \in DOMAIN registered, fd \in HostFds :
          /\ fd_map[u][fd] <= FoldSet(LAMBDA s, n : n + opsOf[s], 0, Counted(u, fd))
          /\ \A s \in Counted(u, fd) :
                (\A o \in Sockets \ {s} : attached[o] = u => hostFd[o] # fd) => fd_map[u][fd] = opsOf[s]
    /\ (\A s \in Sockets : life[s] \in {"new", "made", "open"}) =>
          \A u, v \in DOMAIN registered : registered[u] <= registered[v] + 1
=============================================================================
