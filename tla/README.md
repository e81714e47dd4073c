# A TLA+ model of the Occlum LibOS

Occlum is a library operating system for SGX enclaves. All processes of an enclave live in one address space and are
run by host threads that enter the enclave; the LibOS (`src/src/libos/src`, in Rust) gives them processes, signals,
futexes, memory, files and sockets. Paths below are relative to that directory unless they begin with `src/`
or `crates/` (which is `src/src/libos/crates/`).

The project models the parts in which several threads meet: what may interleave, be lost, come too late or be left
half done. It consists of specifications (one per component), MC modules and `.cfg` files for TLC, and proofs for TLAPS.
`PROJECT.json` has the components, the runs, the mutants, the source lines of every definition, the hazards and the findings.

- [1. The parts and their modules](#1-the-parts-and-their-modules)
- [2. Modules](#2-modules)
- [3. Runs](#3-runs)
- [4. Proofs](#4-proofs)
- [5. Disagreements between the code and what it says](#5-disagreements-between-the-code-and-what-it-says)
- [6. What is not modelled](#6-what-is-not-modelled)

## 1. The parts and their modules

| part | modules | run |
|---|---|---|
| futexes (`process/do_futex.rs`) | `Futex`, `WaitProofs` | `futex_wake`, `futex_requeue` |
| life cycle of processes and threads (`process/`) | `Process`, `ProcessSteps`, `ProcessTree`, `ProcessProofs` | `process`, `process_reap` |
| vfork, process groups, robust futexes, affinity, priority, limits, the profiler of system calls (`process/`, `sched/`, `misc/`, `time/profiler.rs`) | `ProcessRelations`, `Settings` | `tasks` |
| the LibOS's own locks (`util/sync/`) | `Sync`, `SyncProofs` | `tasks` |
| exec server, client and platform layer (`src/src/exec`, `src/src/pal`, `entry.rs`) | `ExecServer` | `tasks` |
| signals and interrupts (`signal/`, `interrupt/`) | `Signal`, `SignalFileProofs` | `signal` |
| virtual memory (`vm/`) | `VirtualMemory`, `AddressSpaces` | `vm` |
| free lists, committed pages, shared memory, memory outside the enclave (`vm/`, `ipc/`, `untrusted/`, `crates/sgx-untrusted-alloc`) | `FreeSpace`, `Allocator`, `PageAllocator`, `AllocatorProofs`, `Epc`, `SharedMemory` | `memory`, `memory_race` |
| channels, epoll, poll and select, io_uring, clocks (`fs/channel.rs`, `events/`, `net/io_multiplexing/`, `io_uring.rs`, `time/`, `crates/`) | `Channel`, `Epoll`, `Poll`, `IoUring`, `IoProofs`, `Clock` | `io` |
| TCP, UDP and Unix sockets, socket calls (`net/`) | `StreamSocket`, `StreamStates`, `WaitProofs`, `Datagram`, `IoProofs`, `UnixSocket`, `SocketCalls` | `net` |
| file tables, open files, locks, mounts, paths, storage (`fs/`) | `FileTable`, `InodeFile`, `FileLocks`, `RootFs`, `FsPaths`, `SignalFileProofs` | `files` |

How the parts interact: a system call that sleeps (futex, `wait4`, `sigtimedwait`, poll, a socket, a lock) is ended by
another thread, by a signal through an interrupt, or by a timeout. The sockets submit requests to an io_uring; the
completions run on its polling thread, change the socket and signal its pollee, where poll and the blocked calls wait.
An exit touches most parts: it hands on the children, wakes waiters, walks the robust list, closes the files, leaves
the process group, frees the chunks and flushes the file systems. Where two parts meet, the module of one has the
other's steps that it depends on: `Signal` has the waiter queue of `events/`, `StreamSocket` the pollee, `FileTable` and `ProcessRelations`
each their half of a vfork, `Epc` the locks of the memory manager's chunks.

## 2. Modules

### Futex

One action per step between two points where another thread can see a difference: `Enter` (with the store that precedes
a wake in a program), taking one or two bucket locks (`LockBucket`, `LockSecondBucket`), the value check (`WaitMismatch`,
`WaitMatch`), `WaitEnqueue`, the wake in two halves (`dequeue_and_wake_items` marks the waiters, `set_events` makes the
OCall that sets their events), `requeue_items`, and the loop of a waiter (`CheckWoken`, `EventArrives`, `EventFails`, `GiveUp`,
`Relock`, `dequeue_item`). The host event is external: set, consumed by a wait, and possibly set by somebody else
(`SpuriousEvent`), since the enclave's mutexes use the same event.

A queue item is identified with its `Waiter`. The deque of a bucket is a set with the relation `ahead`, which spares the
proofs all reasoning about sequences: "the first n of a selection" is a condition on cardinalities (`First`).

### Process

A process is an object, not a pid, because `execve` builds a second object with the pid of the first. A step is a critical
section of a process's inner lock; `exit_process` and `exit_process_for_execve` hold the locks of IDLE, the parent and the
process together and are one step each. The order of `children` matters (`swap_remove`) and is kept. A failed `expect`,
`unwrap` or `debug_assert` puts its name into `panicked`.

Actions: `do_spawn`, `do_clone`; `Wait4Reap`, `Wait4Sleep`, `Wait4Woken`; `do_exit`, `do_exit_group`, `del_and_wake_all_waiters`,
`handle_fatal_signal`, `handle_force_exit`, `thread_exit`, `exit_thread`, `ExitToIdle`, `ExitToParent`; `do_exec`,
`new_process_for_exec`, `exit_process_for_execve`, `exec_replace`; `idle_reap_zombie_children`.

### Signal

One process and its threads. Signals are numbers in the order in which they are dequeued; of the queued signals only the
number of each is kept. Senders are `do_kill` and `do_tgkill`. On its way to user mode a thread looks at the queue of the
process, then at its own (`deliver_signal`, `deliver_thread_signal`, `sysret`), unless it is to exit or to stop for a vfork. A handler
pushes a frame with the mask to put back, and `do_rt_sigreturn` pops it. That mask lies in the `ucontext_t` on the user's stack: the program may change it
(`WriteUcontext`, external), and `do_rt_sigreturn` takes what it finds. With `StackDepth` handlers on top of each other, or no room for the
handler's frame, `handle_signal` panics. `do_wait4` is the sleep no interrupt ends, and `do_vfork` freezes the other threads. `force_signal` is the exception that becomes a signal. The three calls that wait or
replace the mask are `do_pselect6`, `do_sigtimedwait` with its waiter (look, enqueue, sleep, last look) and `do_sigsuspend`.
`do_handle_interrupt` is the interrupt that `broadcast_interrupts` sends to threads with something to handle. `base` is a
history variable: the mask the program last asked for outside any handler, or wrote into the `ucontext_t` of its outermost handler; `written` has the signals it ever wrote there.

### FreeSpace, Allocator, PageAllocator

`FreeSpace` has the operators of `vm_range.rs` and `free_space_manager.rs` on lists of page ranges: the three searches, the
update of the list, and giving a range back with its joins. `Allocator` puts a list to use, and `PageAllocator` says what
that means without a list: the lowest aligned run of free pages, or an error only if there is none.

### VirtualMemory, AddressSpaces

The manager of `vm/`. What happens under one hold of a lock is an operator from one memory to the next; actions are the
sections between two lock acquisitions. A thread keeps a reference to a chunk between sections and the chunk may be replaced
meanwhile, so chunks are objects in a heap. `Become` ends every step: it drops objects nobody refers to and numbers the
others canonically, which leaves fewer states to explore and changes nothing else.

- mmap: `MmapAddr` (a hint, a needed or a fixed address), `MmapFast` (default chunks of the process), `mmap_chunk_default` and
  `MmapInNewChunk` (a new default chunk; the manager's lock is held across both), `MmapSlow` (default chunks of anybody),
  `MmapGlobal` (a chunk of its own).
- munmap: the lookup without the lock (`munmap`), then `MunmapHeld`, `MunmapLocked` or `MunmapSingle`. mprotect likewise.
- mremap: `MremapMerge`, `MremapFind`, `MremapParseMulti` or `MremapParseSingle`, followed by the steps of an mmap and a munmap.
- `build`, `handle_error_when_init` and `free_chunks_when_exit` begin and end a process.

`dirty` is the set of pages whose contents may differ from zero. A thread has written to all its writable pages when it makes
its next call. `AddressSpaces` is the promise: every page belongs to one process at most, and a step changes the space of
one process, on one set of pages and to one permission.

Abstractions: memory is private and anonymous; an address is a page; permissions are read-write or read-only. The locks of
the chunks are not variables. A section that holds only a chunk's lock is atomic, which is exact. A munmap across chunks
holds the manager's lock and takes the chunk locks one after the other; it is one step here, so another thread's
fast-path mmap falls before or after it and not between two of its chunks.

### Epc, SharedMemory

`Epc` has the two records of committed pages, the tracker of each area and the global ones per page chunk, and what is
really committed; mmap, munmap, mprotect and the page fault are the actions, one per critical section. `panicked` tells an `EACCEPT` of a
committed page and other failed unwraps from an assertion of the trackers and from a page fault of the LibOS itself that finds no area, which ends in an `expect`. `SharedMemory` has two parts. The first has the System V segments with their counts and
the shared file mappings with the table of their users; every call runs under one lock and is one action. The second is memory shared
with the host: the list of chunks outside the enclave with its trees and free lists, the ring buffer that wraps, and the slices of one OCall.

### Channel, Epoll, Poll, IoUring, Clock

`Channel` follows a push or a pop through its loop: lock and look, transfer, or enqueue a waker, look again and sleep; the
waking side drains the queue, marks each waiter and writes its host event. `Epoll` has interest list, ready list, waiters
and the notifiers of the files; an event, `epoll_ctl` and `epoll_wait` are cut where they release a lock. `Poll` has the
event monitor with its observers, and what select makes of the events found. Host files change on the host, and the LibOS learns of it through the host's epoll or poll.
`IoUring` has the slab of tokens, the two queues, handles and cancellation (the ring itself is external), and beside it the set
of rings and the sockets attached to each: enclave init builds all rings, a socket goes to one with the fewest sockets, by the load of its entries where several have as few,
and the host's descriptor of a closed socket is used again before the socket is removed from its ring. `Clock` has the kernel's vDSO page, written field by field between two odd and
even sequence numbers (external), the reader with its retries and overflow in 32 bits, the check before the first use, and
`clock_nanosleep`.

### StreamSocket, StreamStates, Datagram, UnixSocket, SocketCalls

A step holds one mutex of the socket; the pollee's events and pollers are changed under none, so what a call does between two
locks is a step of its own. Completions are steps of the host. `StreamSocket` is a connected stream: send and receive buffer, at most one
request each, shutdown, close, cancellation, time-outs, `MSG_WAITALL`. `StreamStates` has two parts: the states of
a socket from Init to Connected, and a listening socket with its backlog of accept requests. `Datagram` has the queue of messages and the single receive buffer; bind, connect and a send that binds the socket
are cut between the host's call and the start of the receiver, so a request that another thread has at the host may complete in between. `UnixSocket` has the status of
sockets and the address space, and in a second part two connected sockets: two channels, the relay by which an endpoint turns the events of its
channels into its own, read, write, shutdown in its two halves, and close. `SocketCalls` has the system calls on a file table that two threads share; what one send or
accept does in a socket is one step there, and integers are scaled to a few values with the same wrap-around.

### FileTable, InodeFile, FileLocks, RootFs, FsPaths

`FileTable` keeps the vector with holes, its count of open files, and the copies that spawn, execve and vfork make; a failed
`unwrap` sets `tpanic`. `InodeFile` has the shared offset behind its mutex; the inode is external and not locked between two of its operations. Its second part is the standard files (`fs/stdio.rs`): the
line buffer of standard output behind its lock, and the reader of standard input.
`FileLocks` has the list of record locks of an inode with its splitting, merging and waiters, and the flock locks with their weak
references to owners. `RootFs` opens, mounts, replaces and flushes file systems; SEFS, UnionFS and MountFS are libraries and external:
a file system is a record with the writes still in its cache. Its second part is the protected files under SEFS, which can neither be cut nor written past their end. `FsPaths` resolves paths over an external tree of
inodes, with the lookup and the use of a directory in separate steps.

### ProcessRelations, Settings, Sync, ExecServer

`ProcessRelations` has vfork, the process groups and the robust list. The first follows one process: the calling thread, the threads it stops and resumes, the child on its parent's thread. The second changes the
table, the members of a group and a process's reference to its group in separate steps, as the locks do; `unsettled` is a history variable, the groups
that were entered while their last member was leaving. The third is the walk of a dying thread over a list in
user memory, which may be circular or end in a bad pointer, against the C library's lock and unlock (external). `Settings`
has the affinity a thread inherits through its agent and its host thread, nice values and limits, and the profiler that the feature
`syscall_timing` puts around every system call. `Sync` has the LibOS's mutex and readers-writer lock,
compare-and-swap loops over a futex word whose queue is external. `ExecServer` has clients, server, commands, `/bin/init`, the interrupt thread and the thread
counter that decides when the enclave may be destroyed. A command enters the enclave in three steps, as `occlum_pal_exec` does: it looks at the enclave's id, counts its thread, and makes the ECall.

## 3. Runs

| run | properties | instance |
|---|---|---|
| `futex_wake` | `NoMissedWake`; `WokenReturns` under fairness | three threads wait on and broadcast to one word with two values; timeouts and spurious events everywhere |
| `futex_requeue` | `NoSleeperLost`, `StaleItemsWoken`; `WakersFinish` under fairness (two locks) | two words in two buckets, requeues in both directions, an item that outlives its wait |
| `process` | `ProcessesConsistent` (types, tree, tables, assertions), `NoMissedExit`; `WaitReturns` under fairness | three process objects beside IDLE, up to two threads each; spawn, clone, wait4, exit_group, a fatal signal, execve |
| `signal` | `MasksExact` (types, restored masks, SIGKILL blocked only by a `ucontext_t`, exact counts), `OneHandlerPerEntry`; `KillTerminates`, `UnblockedHandled` under fairness | two threads, SIGKILL, one standard and one real-time signal, two signals sent or forced, handlers that block others or edit their `ucontext_t`, at most two nested, `wait4`, vfork |
| `memory` | `FreeListExact`, `ImplementsPageAllocator`, `PagesExact`, `SharedMemoryExact` | six pages of a chunk; eight EPC pages in units of two; three processes with segments and shared files; a few blocks outside |
| `vm` | `SpaceDivided`, `AnswersTrue`, `ContentsKept`, `ImplementsAddressSpaces` | five pages, default chunks of two, two processes with two and one threads |
| `io` | `NoLostWakeup`, `NoEventMissed`, `TokenMatchesRequest`, `RegisteredExact`, `ClocksExact` | two or three threads and files per component |
| `net` | `SocketSleepersServed`, `ReadinessShown`, `ConnectionsExact`, `NoDatagramLost`, `CallsExact` | one or two sockets, two threads, buffers of a few bytes |
| `files` | `OpenFilesExact`, `LocksExact`, `FileSystemsExact`, `PathsExact` | two or three threads with short programs of calls on a small tree |
| `tasks` | `MutexCorrect`, `RwLockCorrect`, `ExecExact`, `VforkGroupsRobustExact`, `SettingsExact`; `TasksProgress` under fairness | two or three threads, processes or clients per component |
| `process_reap` | violates `AssertionsHold` | section 5 |
| `memory_race` | violates `PagesExact` | section 5 |

`ImplementsPageAllocator` and `ImplementsAddressSpaces` are refinements: the free list implements an allocator that only
knows the set of free pages, and the memory manager implements one private address space per process.

**Components side by side.** The modules of `memory`, `io`, `net`, `files` and `tasks` share no state with each other. Their MC modules
extend or instantiate several of them, and a variable `comp`, chosen in `Init`, says whose steps a behaviour takes. The state space is
then the sum and not the product of the components', and a property of a component that does not run says nothing. These runs are
therefore checks of single components, collected; nothing is claimed about two of them at once.

**Programs.** Where threads that make any call at any time are too many states, `Init` chooses what each thread calls from a small set of
programs, one for each situation of interest; every interleaving of the chosen calls is explored. The MC modules list and explain them.

**Why the bounds are enough.** A race of the futex needs a waiter, a waker and a third thread to disturb them. Three process
objects beside IDLE are a parent, a child and either a grandchild to adopt or the process that `execve` builds. Six pages
give three free ranges, so a returned range meets a neighbour on each side, on one or on none. In `vm` five
pages hold the two starting chunks, a default chunk and a single-VMA chunk, or a chunk that is cut in two; `Init` chooses one of
seven scenarios: one thread makes any sequence of calls of a kind (`Unmapping`, `Protecting`, `Remapping`, `Moving`, `Fixed`), or the
threads make a few calls in every order (`Sharing`, `Racing`). `MaxStale` bounds the chunk objects that are referenced though
the manager has dropped them; TLC stops with an error if they did not suffice. In the other runs two actors are the two sides of a
race (reader and writer, caller and completion, caller and closer) and the third, where there is one, disturbs them. Integers that wrap (clock arithmetic, lengths, counts of readers) are
scaled to a small width, named by a constant.

**What the passing runs step around.** Where section 5 says that the code breaks a property, the passing runs deal with it in one of two ways.

Most often the situation happens in the run and the property names it as its exception; the statement without the exception stands beside it in the module and is refuted (section 5):

- `KillTerminates` and `UnblockedHandled` except a thread asleep in `wait4`, a vfork under way, and for SIGKILL a full stack of handlers and a mask that was written into a `ucontext_t`; `MasksExact` excepts the last, too.
- `PagesExact` allows the assertion on a tracker to fail while the thread that has filled it is between its two locks.
- `SocketSleepersServed` excepts a caller whose event another thread in the same call has withdrawn (`outrun` in `StreamSocket`, `robbed` in `Datagram`), and an acceptor after as many errors in a row as the backlog has entries.
- `ConnectionsExact` allows a second `ConnectedStream` when another thread uses or connects the socket during a connect (`overlap`), and a connect that another request's event ended (`stray`).
- `NoDatagramLost` allows one lost datagram, of those that arrive between the host's bind and the start of the receiver (`early`).
- `PathsExact` leaves out the directories that a rename has moved below themselves without the text of the paths showing it (`looped`).
- `VforkGroupsRobustExact` allows a group to be missing in the table after it was entered while its last member left it (`unsettled`).
- `ExecExact` allows a thread in a destroyed enclave if it was counted after the interrupt thread had ended (`late`); `TasksProgress` excepts a stop that `set_running` overrules, a daemon created after the SIGKILL, and a
  vfork child that makes the system call exit.

For the others the situation is left out of the passing run and has a specification of its own. So there are no two descriptors of one file in an interest list, no drop of an epoll file
beside a poll, no cancellation of a request whose slot is reused, no host that takes up the TSC again, no first use of a page chunk by
two threads, no invalid arguments of `pselect6`, no send buffer sizes of several sockets, no
second mount and no exit during a mount, no clone during a vfork, no second thread that waits for
children of its process, no `execve` but of the first process, and no second process started by the host meanwhile (`Settings`). In `vm` only one thread of a process takes memory away (otherwise `NoPanic` fails, see
section 5); where a fixed mmap reaches from a chunk into free pages `AnswersTrue` asks only that nothing old is left there; and
a process that shares a chunk with an exiting one does not unmap its areas.

**Deadlock** is checked for the futexes. The other systems may stop: all processes exit, or all calls have been made.
The invariants about sleepers say that a thread which sleeps is one somebody will wake.

**Fairness.** `Futex`: threads that can run do run (weak), and a mutex that is released again and again is obtained
in the end (strong; the queue locks are held for a few steps only). Nothing is assumed of programs, timeouts or spurious events.
`Process` and `Signal`: a thread inside the LibOS goes on, and a thread in user mode is interrupted when there is something
to do, because the interrupt thread of the PAL (`src/src/pal/src/pal_interrupt_thread.c`) calls `broadcast_interrupts`
periodically. A handler may run forever. `tasks`: the steps of server, clients, processes, interrupt thread and timer of
`ExecServer`, and the steps inside the LibOS of vfork, are weakly fair; they wait for nothing but what their guards say.

**Mutants.** Every property has one: a change of one definition, as a plausible mistake in that code would be, under which
TLC finds the property violated. Further ones stand in the modules, for parts of a property the listed one does not reach:
`RemoveIdleOnly`, `AddBackLeft`, `EndsLate`, `GrowOnly`, `MayMove`, `DiedAlone`, `MembersKept`, `SwitchAlways`,
`OffsetFreeAlways`, `KeepRem`, `RelayedAsIs`, `SetStartQuietly`.

## 4. Proofs

Eight modules hold theorems and lemmas, each for every value of the constants that the named assumptions of its component allow. The runs check the same properties on
small instances (`TablesCounted` as a part of `OpenFilesExact`), but for `TypeCorrect`; TLC has also checked every inductive invariant on them before it was proved.

| module | theorem | states | under |
|---|---|---|---|
| `WaitProofs` | `TypeCorrect` | `TypeOK`: which local variables a thread has at which point | |
| | `SleeperReachable` | `NoSleeperLost`: who sleeps and is not woken is in the bucket of its item's key | |
| | `StaleNeverSignalled` | `StaleItemsWoken`: an item left behind by a wait that is over is marked woken | |
| | `WakeNotMissed` | `NoMissedWake` | `Broadcasts` |
| | `ReadinessKept` | `ReadinessShown`: what a TCP socket has to read shows as IN, room to write as OUT | |
| `SyncProofs` | `MutexSafe` | `MutexCorrect`: exclusion, an exact word, no sleeper without somebody who will wake | |
| | `RwLockSafe` | `RwLockCorrect`: readers or a writer, an exact status word, no sleeper left alone | |
| `SignalFileProofs` | `MasksSafe` | `MasksExact`: restored masks, SIGKILL and SIGSTOP blocked only by what was written into a `ucontext_t`, exact counts | `ValidSelects` |
| | `OneHandlerSafe` | the action property `OneHandlerPerEntry` | |
| | `DescriptorsCounted` | `TablesCounted`: the count of a file table is exact, and `put` finds the entry it unwraps | |
| `AllocatorProofs` | `FreeListSafe` | `FreeListExact`: sorted, joined, and exactly the pages nobody has | |
| | `FreeListRefines` | the refinement `ImplementsPageAllocator` | |
| `ProcessProofs` | `ProcessesSafe` | `ProcessesConsistent`: tree and tables agree, no assertion fails | `OnlyMainWaits`, `OnlyFirstExecs` |
| | `ExitNotMissed` | `NoMissedExit` | the same |
| `IoProofs` | `WakeupsKept` | `NoLostWakeup`: who sleeps in a channel though it could go on is about to be woken | |
| | `TokensKept` | `TokenMatchesRequest`: a completion finds the token of its request, and each callback runs once | |
| | `DatagramsKept` | `NoDatagramLost`: a datagram that arrived is in the UDP socket's buffer or was received, but for one that came before the receiver was started | |

**The hypotheses.** Each marks where the statement stops being true of the code, and TLC shows the behaviour beyond it.
`Broadcasts`: programs wait and broadcast, without requeues, and a wake reaches more waiters than there are, as `INT_MAX` does; a wake of one waiter rightly leaves the others asleep.
`ValidSelects`: no call of `pselect6` has an invalid argument, after which the caller's mask stays installed (section 5).
`OnlyMainWaits`: one thread of a process calls `wait4`. With two, one may be woken for a zombie that the other has reaped, and `free_zombie_child` panics (run `process_reap`).
`OnlyFirstExecs`: only the first process, the child of IDLE, calls `execve`. While a process is replaced its parent has two children with its pid, and `exit_process_for_execve` removes the
first one it finds. If the parent exits meanwhile, its children go to IDLE in an order that `swap_remove` may have changed, and the new process is removed in place of the old one (section 5).
The first process cannot meet this: it stays at the head of IDLE's children as long as it lives.

**Futexes.** `IInv` is `TypeOK`, `WaiterInv`, `NoSleeperLost` and `StaleItemsWoken`. `WaiterInv` is the strengthening: a waiter belongs to the thread that waits on it, so that `dequeue_item`,
which compares threads and not waiters, removes nothing of another thread; and it is marked on the error path before its item is looked for, so that an
item that has moved away meanwhile is stale but marked. For `WakeNotMissed`, `BInv` says that the lock is held from the value check to
the enqueue, and by a waker that dequeues, and that an item keeps the key of its wait; `MInv` extends `NoMissedWake` to the
waiter that has checked the value and is about to enqueue. `FirstAll` shows that a broadcast selects all matching items.

**Locks.** `MutexInv` and `RWInv` say that the queue of the futex lists exactly the sleepers, each once (`Lists`), that the word is that of the holders, and that somebody attends to the sleepers: the lock is held, or a thread
is between its unlock and its wake, or on its way to try again, which ends with the lock or with its own name in the queue. For the readers-writer lock the number of
waiters is the number of threads counted (`CountedExactly`), and nobody goes to sleep on a word it has seen free. The sum in the status word does not overflow because `try_read` refuses before it would.

**Signals.** Every step leaves the queues alone, puts one signal in or takes one out (`QueueMove`), and is one of six moves of a thread's masks and frames (`MaskMove`), so the invariant is proved
for the moves and not for two dozen actions. `SigInv` relates the mask to `base`: outside a handler the mask the thread has once its call is over is the one the program asked for, and inside one it is in the frame of the
outermost handler (`MaskOwed`). That SIGKILL is blocked only by what was written needs that it has no handler (`KillByDefault`), since the mask of a handler is the program's choice,
and that every mask a thread may come back to is of that kind: the current one, those in its frames, and the one a wait has saved.

**File tables.** `FTInv` says that the table in use and the one vfork put aside are tables of entries whose `num_fds` is the number of the occupied ones (`Counted`). `put` trusts the count: if it is
below the length of the vector there is a free entry, because otherwise all descriptors were occupied, and there are as many of them as the vector is long (`FreeFound`). `close_on_spawn` subtracts the number of places it empties, which are the descriptors shifted by one.
The tables made for children go through a loop over file actions or over descriptors; their counts are left to TLC.

**Free lists.** `FreeListExact` is inductive. The work is in what an insertion does: the result is the old list with a range of entries replaced by one (`Spliced`), for each of the four cases of joining. For
the refinement, the three searches are shown to find the lowest page that fits, if there is one (`StartsIn`, `Hits`); an alignment step is arithmetic on multiples. Least elements come from the
well-foundedness of the naturals (`WFMin`), which stands in for induction.

**Processes.** `ProcInv` is `TypeOK` with `ThreadsInv` (which threads run, and that the last to leave a process finds no other), `ExecInv` (the successors of the first process are children of IDLE that have not started, and
when it has exited there is one), `TreeInv` (children and parents agree, each child once, a live process is a child of a live one, and the first process is at the head of IDLE's children),
`TablesInv` (the table of pids holds the processes that run or wait to be reaped), `WaitInv` (the queue of a process holds its main thread while that sleeps in `wait4`; a thread woken for a child finds it a zombie) and
`panicked = {}`. None of these is inductive alone: that `free_zombie_child` finds the process in the table needs the tree, that the tree has no zombie without a parent needs the threads, and that an exit wakes
the parent needs the queue. Lemmas on the vectors (`swap_remove`, `push`, `append`, `position`) carry the reasoning about order.
The proof is spread over three modules: `ProcessSteps` has the invariant and the steps of a thread in and out of calls and of `wait4`, `ProcessTree` the steps that build a process or end one, and `ProcessProofs`
the two last steps of `execve` and the theorems. The model takes the first free object and the first matching child; that a set of numbers has a least one is the hypothesis `LeastNumbers` of the lemmas,
which `ProcessProofs` discharges from the well-foundedness of the naturals (`LeastNumber`).

**Channels.** `ChanInv` is `TypeOK` with `LoopInv` (which thread holds the lock of its end, and where a waiter exists) and `WakeInv`. The last extends `NoLostWakeup` from the sleeper to everybody whose waiter is enqueued and not
woken (`Armed`): its waker is in the queue, or in the hands of a thread that has drained the queue (`Reachable`), and if what it waits for has come about since (`Missed`) somebody is on the way to it. That is what makes the
second look after `reset_and_enqueue` matter: a transfer before it is seen by the look, one after it finds the waiter in the queue.

**Rings.** `RingInv` is `RingTypeOK` with `OnePlace`, `TokenInv` and `CallInv`. The entry of a request is in one place at a time: being pushed, in the submission queue, with the host or in the completion queue
(`OnePlace`), and it is somewhere exactly as long as its slot holds the request's token (`TokenInv`). A slot is therefore not given to another request while the host may still complete the first one, although
nothing in the completion but the slot's number says whose it is. `CallInv` counts the callbacks, also of the request that has left the table and is not called yet.

**TCP sockets.** `StreamInv` says that a request covers bytes that are in the send buffer, that the buffer is never overfull and that OUT is set while it has room (`SenderInv`); that IN is set while there is something to
read (`ReceiverInv`); and that a thread inside a call has that call to return from (`CallersInv`). IN and OUT are withdrawn only by the two `try_` functions under the lock under which they have seen the buffer empty or full, and every step
that fills or empties it adds them; a buffer is resized only when it is empty, and then OUT was set already. `StreamAssumption` has the sizes of buffers positive, which `set_kernel_send_buf_size` ensures with its minimum of 128 KB.

**UDP sockets.** A new request clears the buffer, so it must be made only when the datagram there has been returned: by a receive that has taken it (not one that peeked) or found nothing, or by the bind, connect or send that first
binds the socket. These start the receiver after the host has bound the socket, and in between a request of another thread may have put a datagram into the buffer, which is then lost. `DgramInv` adds to `NoDatagramLost`
that the buffer is empty while the host has it, and that what is in it before the LibOS takes the socket for bound is in `early`. Until then nothing is missing; the first bind is the only step that clears
a buffer nobody has read, so what it overwrites, if anything, is the one datagram that may be lost.

**Backends.** Steps name Zenon unless they need arithmetic or sequences. What an update of a record with many fields leaves in the other fields is stated once (`SenderUpdates`, `ReceiverUpdates`, `DgramUpdates`).

**Only model-checked.** All liveness (`WokenReturns`, `WakersFinish`, `WaitReturns`, `KillTerminates`, `UnblockedHandled`, `TasksProgress`), which needs fairness and `ENABLED`. The refinement `ImplementsAddressSpaces` and the invariants of
`vm`: a step folds over the chunks and areas it touches, and what a fold computes is known only by induction. For the same reason `RegisteredExact` (the sockets of a ring are counted), `ExecExact` (threads are counted),
`SharedMemoryExact` and `SettingsExact` (sums of sizes and of call counts). `LocksExact` and `PathsExact`, whose modules use recursive operators. `NoEventMissed`, `SocketSleepersServed`, `ClocksExact`, `PagesExact`, `ConnectionsExact`, `CallsExact`, `OpenFilesExact` beyond `TablesCounted`, `FileSystemsExact` and `VforkGroupsRobustExact` have no
inductive invariant yet; most of them are conjunctions over several components.

## 5. Disagreements between the code and what it says

In each, TLC finds a behaviour of the model that contradicts a comment, an assertion, an error message or a test, quoted in `PROJECT.json`. The first
two have a run. For the others the last column says how to see it: a specification of the MC module, or "run" for the property
put into the `.cfg` of that run.

| what happens | property | see it |
|---|---|---|
| Two threads wait for any child; one is woken with a pid, the other reaps that child first, and an `expect` fails | `AssertionsHold` | run `process_reap` |
| Two threads create the global tracker of one page chunk; the second replaces what the first has recorded | `PagesExact` | run `memory_race` |
| `execve` while the parent exits removes the new process, which has the same pid | `ExecRemovesCurrent` | `process`, `MaxThread = 1`, `Executors = {2}` |
| A thread that enters `wait4` after `exit_group` has woken the sleepers stays until a child exits | `ForcedExitHappens` | `process`, `MaxProcess = 2`, `WaitFilters <- AllWait` |
| A signal between the look at the queues and `reset_and_enqueue` in `sigtimedwait` wakes nobody | `WaitsOnlyWithoutSignal` | run `signal` |
| A mask that a handler writes into its `ucontext_t` blocks SIGKILL after the return | `KillNeverBlocked` | run `signal` |
| A thread records its pages in a tracker that another has just filled, and an assertion fails | `Paged!RecordsAccepted` | run `memory` |
| A fixed mmap over the end of a chunk succeeds without mapping the free pages after it | `FixedMapped` | run `vm` |
| An exit frees a default chunk without areas that another process still lists | `Registered` | `vm`, `Scenarios <- Emptying`, `CanExit` with both |
| `MSG_PEEK` hides a datagram from poll | `DatagramShown` | run `net` |
| Bytes accepted while `shutdown` is under way end up behind the end of the stream | `PendingSentFirst` | run `net` |
| `shutdown` leaves the host's shutdown to a completion that has already run | `ShutdownReachesHost` | run `net` |
| After a receive error was reported no request is started, and a poller waits | `ReceiverArmed` | run `net` |
| Accepts that complete after the listener was closed loop forever | `States!NeverSpins` | run `net` |
| Of two threads in one call the first withdraws the event, or takes the error, that the second sleeps for | `SleeperServed`, `DatagramSleeperServed` | run `net` |
| Failed accepts leave a caller of accept asleep with no request at the host | `States!AcceptRetried` | run `net` |
| The late completion of a connect that timed out makes the next one succeed | `States!ConnectedIsConnected` | run `net` |
| A thread that uses the socket during another's connect makes a second stream of it | `States!OneConnected` | run `net` |
| A datagram that arrives between the host's bind and the start of the receiver is lost | `DatagramsAllKept` | run `net` |
| The address of a connected Unix socket is never released | `Unix!AddressReleased` | run `net` |
| `pselect6` with an invalid argument leaves the caller's mask installed | `CallsExact` | `net`, `PselectSpec` |
| The size of send buffers is one static for all sockets | `BufferAsSet` | `net`, `SharedSizeSpec` |
| Deleting one of two descriptors of a file from an interest list silences the other | `NoEventMissed` | `io`, `DupSpec` |
| `broadcast` stops at the first observer that is gone | `PollerWoken` | `io`, `DropSpec` |
| `cancel` cancels the request that got the slot of the one it meant | `CancelHitsItsTarget` | `io`, `CancelSpec` |
| A consumer reports the end of a stream that still has items | `EofOnlyWhenDrained` | run `io` |
| select puts a descriptor with HUP or ERR into sets it was not in | `Polling!SelectOnlyAsked` | run `io` |
| A clock that could not be read at the first check is never checked | `ClocksExact` | `io`, `ReturningSpec` |
| `sched_getaffinity` of a cloned thread tells CPUs its host thread may not run on | `AffinityTold` | run `tasks`; also `ReuseSpec` |
| `F_SETLKW` sleeps with the lock of the file table held | `NoLockHeldWhileWaiting` | run `files` |
| Two mounts of the root both pass the test that allows one | `FileSystemsExact` | `files`, `TwoMountsSpec` |
| An exit during the mount of the root flushes the new file systems and not the old ones | `FileSystemsExact` | `files`, `ExitSpec` |
| A rename through a link or `..`, or two renames, move a directory below itself | `Paths!NeverBelowItself` | run `files` |
| More than one empty chunk outside the enclave is kept | `Shared!OneEmptyChunk` | run `memory` |
| A thread cloned during a vfork runs beside the child | `VforkGroupsRobustExact` | `tasks`, `CloneSpec` |
| A vfork child that makes the system call exit ends its parent's thread, and the others stay stopped | `Re!VforkEnds` (temporal) | run `tasks`, as `comp = "vfork" => ...` |
| A process is spawned into a group whose last member leaves it, and an `unwrap` fails | `Re!PgrpExists` | run `tasks` |
| `setpgid(0, 0)` twice, or entering a group that empties, leaves a group with a member out of the table | `Re!GroupsListed` | run `tasks` |
| Group 0 is dropped from the table when the first process leaves it | `Re!IdleGroupKept` | run `tasks` |
| A command enters the enclave while it is destroyed | `Ex!DestroyedEmpty` | run `tasks` |
| A stop is overruled by `set_running`, or outlived by a command created after its SIGKILL | `Ex!StopAlwaysStops` (temporal) | run `tasks` |
| A client is not told of the end of its command when the server is stopped | `Ex!ClientNotified` | run `tasks` |
| With profiling, a successful `execve` ends in a call of the profiler that is refused, and an `expect` fails | `Se!ProfilerAccepts` | run `tasks` |
| A peer that hangs up makes a Unix socket readable, but only RDHUP is broadcast | `EventsTold` | run `net` |

Not contradicted by anything the repository says, but worth knowing, and stated in the modules: `mprotect` that meets an unmapping by another thread
reaches an `unreachable!` (`NoPanic`, scenario `Contending` of `MCVirtualMemory`); a handler is entered again because the mask of a handler replaces
that of the one it interrupts (`HandlerNotReentered` in `Signal`); releasing a flock lock may wait for the list the same thread has locked (`NoSelfDeadlock`
in `FileLocks`); a socket whose host socket is connected may be taken back to the initial state (`NeverForgotten` in `StreamStates`); a thread that waits
for a Unix connection keeps the address space locked (`SpaceNotBlocked` in `UnixSocket`).

Smaller observations from the code, without a property:

- File table: `del_all` numbers the closed descriptors after filtering, so it announces others (`filter().enumerate()`).
- Open files: appends through two opens of a file may overwrite each other; the lock belongs to the open file.
- Shared memory: a failing `do_shmat` has already raised the number of attachments; a shared chunk unmapped while others
  use it stays in the process's list.
- vfork: a child that calls vfork spins.
- Exec server: `start_server` waits forever if the server takes over 100 ms to bind; a failed connection is
  answered with "running" and pid 0.

## 6. What is not modelled

- Whole parts: eventfd and timerfd; host sockets, which forward each call; procfs, devfs and hostfs; the block devices; prctl, credentials
  and the attributes of spawn; configuration, logging and the utilities. They keep no state several threads contend for, or format, parse and forward.
- Process: ELF loading and the initial stack, failures of spawn and execve that change nothing.
- Signal: siginfo, the alternate stack, the layout of the user stack, more than one process.
- Memory: brk, msync and private file mappings; the emulation of instructions in the exception handler.
- Sockets: options that store one field, ioctls, `sendfile`.
- Files: `getdents`, `stat`, access checks, extended attributes; SEFS, UnionFS and MountFS are not in `src/src/libos` and appear as external.
- Time: CPU clocks, timer slack.
- OCalls as such: what the host does in one is a step of the environment.
- Two components of one collected run at once (section 3). A composition that would matter is the file table with vfork and exit,
  and the ring with the sockets; each module has the steps of the other it depends on instead.
