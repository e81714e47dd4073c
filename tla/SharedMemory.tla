---------------------------- MODULE SharedMemory ----------------------------
(***************************************************************************)
(* Memory that a process does not have to itself: what it shares with      *)
(* other processes, and what the LibOS shares with the host.               *)
(***************************************************************************)
EXTENDS Integers, Sequences, FiniteSets, SequencesExt, FiniteSetsExt, Functions

(***************************************************************************)
(* Memory shared by processes: System V segments (ipc/shm.rs) and file     *)
(* mappings made with MAP_SHARED (vm/shm_manager.rs, the shared half of    *)
(* vm/vm_manager.rs).  Both take chunks of user space from the VM manager. *)
(*                                                                         *)
(* A System V segment counts its attachments (shm_nattach) and knows the   *)
(* attached processes (process_set); it is destroyed when it is marked and *)
(* nobody is attached.  A shared chunk knows how often each process has    *)
(* mapped it (the table of VMAccess::Shared), and each process knows its   *)
(* chunks (mem_chunks); the chunk is freed when the table is empty.  Every *)
(* call runs under one lock (shm_segments, VMManager.internal), so a call  *)
(* is one action.                                                          *)
(***************************************************************************)
CONSTANTS
  ShmProcesses,  \* processes
  ShmPages,      \* pages of user space, 0 .. ShmPages - 1
  SHMMNI,        \* number of segment identifiers
  ShmPrograms    \* the sets of calls from which the processes draw, with bounds

VARIABLES
  segments,      \* shm_segments: shmid -> [key, lo, hi, dest, nattach, procs]
  id_manager,    \* ShmIdManager: [free_num, last_alloc_id]
  free_pages,    \* pages the VM manager has to give
  chunks,        \* shared chunks ever made: [lo, hi, inode, offset, perms, table, live]
  shared_chunks, \* ShmManager.shared_chunks: inode -> index into chunks
  mem_chunks,    \* the chunks in each process's list
  running,       \* processes that have not exited
  shm_calls,     \* the calls each process has still to make
  asserted       \* an assertion of the code has failed

shmVars == <<segments, id_manager, free_pages, chunks, shared_chunks, mem_chunks,
             running, shm_calls, asserted>>

\* find_free_range: the start of the lowest free run of n pages.
Fits(n) == {p \in free_pages : p..(p + n - 1) \subseteq free_pages}

ShmInit ==
  /\ segments = <<>>
  /\ id_manager = [free_num |-> SHMMNI, last_alloc_id |-> SHMMNI - 1]
  /\ free_pages = 0..(ShmPages - 1)
  /\ chunks = <<>>
  /\ shared_chunks = <<>>
  /\ mem_chunks = [p \in ShmProcesses |-> {}]
  /\ running = ShmProcesses
  /\ \E program \in ShmPrograms : shm_calls = program
  /\ asserted = TRUE

(***************************************************************************)
(* Calls                                                                   *)
(***************************************************************************)
Doing(p, op) == /\ p \in running
                /\ shm_calls[p] # <<>>
                /\ Head(shm_calls[p]).op = op
Arg(p) == Head(shm_calls[p])
Done(p) == shm_calls' = [shm_calls EXCEPT ![p] = Tail(@)]
OnlySegments == UNCHANGED <<chunks, shared_chunks, mem_chunks, running>>
OnlyChunks == UNCHANGED <<segments, id_manager, running, asserted>>

(***************************************************************************)
(* System V segments                                                       *)
(***************************************************************************)
\* get_new_shmid: the next identifier that is not in used_id, a set nothing is ever put
\* into.
NextShmid == (id_manager.last_alloc_id + 1) % SHMMNI

\* Dropping a segment asserts that nobody is attached and unmaps its chunk.
DropOk(s) == s.nattach = 0 /\ s.procs = {}
PagesIn(s) == s.lo..(s.hi - 1)

\* ShmSegment::new and the insertion, which drops a segment with the same identifier.
CreateSegment(p) ==
  LET c == Arg(p)
      id == NextShmid
      lo == Min(Fits(c.size))
      fresh == [key |-> c.key, lo |-> lo, hi |-> lo + c.size, dest |-> FALSE,
                nattach |-> 0, procs |-> {}]
      dropped == IF id \in DOMAIN segments THEN {segments[id]} ELSE {}
  IN /\ id_manager.free_num > 0
     /\ Fits(c.size) # {}
     /\ id_manager' = [free_num |-> id_manager.free_num - 1, last_alloc_id |-> id]
     /\ segments' = (id :> fresh) @@ segments
     /\ free_pages' = (free_pages \ PagesIn(fresh)) \cup UNION {PagesIn(s) : s \in dropped}
     /\ asserted' = (asserted /\ \A s \in dropped : DropOk(s))

\* The segment a key names, if it is not marked for destruction.
Named(key) == {id \in DOMAIN segments : ~segments[id].dest /\ segments[id].key = key}
MustCreate(c) == c.key = 0 \/ Named(c.key) = {}

do_shmget(p) ==
  /\ Doing(p, "shmget")
  /\ MustCreate(Arg(p))
  /\ CreateSegment(p)
  /\ Done(p)
  /\ OnlySegments

\* The ways shmget changes no segment: the key is taken and found (or EEXIST, EINVAL),
\* the identifiers have run out (ENOSPC), or there is no memory, which still uses up an
\* identifier: free_num is decremented before the chunk is allocated.
ShmgetNothing(p) ==
  /\ Doing(p, "shmget")
  /\ \/ /\ ~MustCreate(Arg(p))
        /\ UNCHANGED id_manager
     \/ /\ MustCreate(Arg(p))
        /\ id_manager.free_num = 0
        /\ UNCHANGED id_manager
     \/ /\ MustCreate(Arg(p))
        /\ id_manager.free_num > 0
        /\ Fits(Arg(p).size) = {}
        /\ id_manager' = [free_num |-> id_manager.free_num - 1, last_alloc_id |-> NextShmid]
  /\ Done(p)
  /\ UNCHANGED <<segments, free_pages, asserted>>
  /\ OnlySegments

\* do_shmat counts the attachment before it looks whether the process is attached; a
\* second attachment by the same process fails with the count raised.
Attached(s, p) == [s EXCEPT !.nattach = @ + 1, !.procs = @ \cup {p}]
do_shmat(p) ==
  /\ Doing(p, "shmat")
  /\ segments' = IF Arg(p).id \in DOMAIN segments
                 THEN [segments EXCEPT ![Arg(p).id] = Attached(@, p)] ELSE segments
  /\ Done(p)
  /\ UNCHANGED <<id_manager, free_pages, asserted>>
  /\ OnlySegments

\* A segment is taken out of the table, its identifier is free again and it is dropped.
RemoveSegments(ids) ==
  /\ segments' = Restrict(segments, DOMAIN segments \ ids)
  /\ id_manager' = [id_manager EXCEPT !.free_num = @ + Cardinality(ids)]
  /\ free_pages' = free_pages \cup UNION {PagesIn(segments[id]) : id \in ids}
  /\ asserted' = (asserted /\ \A id \in ids : segments[id].procs \subseteq {})

\* A process leaves a segment; whether that ends the segment.
DetachedFrom(s, p) == [s EXCEPT !.nattach = @ - 1, !.procs = @ \ {p}]
\* The last detachment looked for after the count is lowered.
EndsLate(s, p) == s.dest /\ s.nattach = 0
Ends(s, p) == s.dest /\ s.nattach = 1

\* do_shmdt: the segment that starts at the address must have the process attached.
do_shmdt(p) ==
  /\ Doing(p, "shmdt")
  /\ LET at == {id \in DOMAIN segments : id = Arg(p).id /\ p \in segments[id].procs}
         ended == {id \in at : Ends(segments[id], p)}
     IN /\ segments' = [id \in DOMAIN segments \ ended |->
                          IF id \in at THEN DetachedFrom(segments[id], p) ELSE segments[id]]
        /\ id_manager' = [id_manager EXCEPT !.free_num = @ + Cardinality(ended)]
        /\ free_pages' = free_pages \cup UNION {PagesIn(segments[id]) : id \in ended}
        /\ asserted' = (asserted /\ \A id \in ended : segments[id].procs = {p})
  /\ Done(p)
  /\ OnlySegments

\* shmctl_rmshm: mark the segment; destroy it when nobody is attached.
shmctl_rmshm(p) ==
  /\ Doing(p, "rmid")
  /\ LET marked == {id \in DOMAIN segments : id = Arg(p).id}
         ended == {id \in marked : segments[id].nattach = 0}
     IN IF ended # {} THEN RemoveSegments(ended)
        ELSE /\ segments' = [id \in DOMAIN segments |->
                               IF id \in marked THEN [segments[id] EXCEPT !.dest = TRUE]
                               ELSE segments[id]]
             /\ UNCHANGED <<id_manager, free_pages, asserted>>
  /\ Done(p)
  /\ OnlySegments

(***************************************************************************)
(* Shared file mappings                                                    *)
(***************************************************************************)
Size(k) == k.hi - k.lo
Held(k, p) == p \in DOMAIN k.table
\* A process that joins is not entered.
AttachKnown(k, p) == [k EXCEPT !.table = IF Held(k, p) THEN [@ EXCEPT ![p] = @ + 1] ELSE @]
AttachTo(k, p) == [k EXCEPT !.table = IF Held(k, p) THEN [@ EXCEPT ![p] = @ + 1]
                                     ELSE (p :> 1) @@ @]

\* Where in the chunk of its file a request without an address lies.
Inside(k, c) == c.offset >= k.offset /\ c.offset - k.offset + c.size <= Size(k)
\* A request for an address is the chunk itself, or continues it in memory and in the
\* file with the same permissions (can_expand_shared_vma).
AtStart(k, c) == c.addr = k.lo /\ c.offset = k.offset /\ c.size <= Size(k)
Expands(k, c) ==
  /\ c.addr = k.hi
  /\ c.perms = k.perms
  /\ c.offset - k.offset = Size(k)
Reuses(k, c) == IF c.addr = -1 THEN Inside(k, c) ELSE AtStart(k, c)

\* mmap_shared_chunk, NeedCreate: a chunk of its own for the file.
CreateShared(p) ==
  /\ Doing(p, "mmap")
  /\ Arg(p).inode \notin DOMAIN shared_chunks
  /\ LET c == Arg(p)
         at == IF c.addr = -1 THEN Fits(c.size) ELSE Fits(c.size) \cap {c.addr}
     IN /\ at # {}
        /\ chunks' = Append(chunks, [lo |-> Min(at), hi |-> Min(at) + c.size, inode |-> c.inode,
                                     offset |-> c.offset, perms |-> c.perms,
                                     table |-> (p :> 1), live |-> TRUE])
        /\ free_pages' = free_pages \ PagesIn(chunks'[Len(chunks')])
        /\ shared_chunks' = (c.inode :> Len(chunks')) @@ shared_chunks
        /\ mem_chunks' = [mem_chunks EXCEPT ![p] = @ \cup {Len(chunks')}]
  /\ Done(p)
  /\ OnlyChunks

\* Success: the process joins the chunk of the file, whose permissions can only grow
\* (apply_new_perms_if_higher).
JoinShared(p) ==
  /\ Doing(p, "mmap")
  /\ Arg(p).inode \in DOMAIN shared_chunks
  /\ LET i == shared_chunks[Arg(p).inode]
         k == chunks[i]
     IN /\ Reuses(k, Arg(p))
        /\ chunks' = [chunks EXCEPT ![i] = [AttachTo(k, p) EXCEPT !.perms = @ \cup Arg(p).perms]]
        /\ mem_chunks' = IF Held(k, p) THEN mem_chunks
                         ELSE [mem_chunks EXCEPT ![p] = @ \cup {i}]
  /\ Done(p)
  /\ UNCHANGED <<free_pages, shared_chunks>>
  /\ OnlyChunks

\* The vma of the left chunk, up to the end of the right one.
merge_two_single_vma_chunks(k, c) == [k EXCEPT !.hi = @ + c.size]

\* NeedExpand: a chunk over both ranges replaces the old one in the VM manager, in the
\* table of the file and in the list of the calling process, with the old access table.
ExpandShared(p) ==
  /\ Doing(p, "mmap")
  /\ Arg(p).inode \in DOMAIN shared_chunks
  /\ LET c == Arg(p)
         i == shared_chunks[c.inode]
         k == chunks[i]
     IN /\ c.addr # -1
        /\ ~Reuses(k, c)
        /\ Expands(k, c)
        /\ c.addr \in Fits(c.size)
        /\ chunks' = Append([chunks EXCEPT ![i].live = FALSE],
                             merge_two_single_vma_chunks(k, c))
        /\ free_pages' = free_pages \ (k.hi..(k.hi + c.size - 1))
        /\ shared_chunks' = [shared_chunks EXCEPT ![c.inode] = Len(chunks')]
        /\ mem_chunks' = [mem_chunks EXCEPT ![p] = (@ \ {i}) \cup {Len(chunks')}]
  /\ Done(p)
  /\ OnlyChunks

\* Anything else is EINVAL (NeedReplace is not supported), and mmap goes on with a
\* private mapping, which is not followed here.
RefuseShared(p) ==
  /\ Doing(p, "mmap")
  /\ LET c == Arg(p) IN
     IF c.inode \in DOMAIN shared_chunks
     THEN LET k == chunks[shared_chunks[c.inode]] IN
          /\ ~Reuses(k, c)
          /\ ~(c.addr # -1 /\ Expands(k, c) /\ c.addr \in Fits(c.size))
     ELSE (IF c.addr = -1 THEN Fits(c.size) ELSE Fits(c.size) \cap {c.addr}) = {}
  /\ Done(p)
  /\ UNCHANGED <<free_pages, chunks, shared_chunks, mem_chunks>>
  /\ OnlyChunks

\* detach_shared_process.
DetachTable(k, p, force) ==
  IF ~Held(k, p) THEN k.table
  ELSE IF k.table[p] = 1 \/ force THEN Restrict(k.table, DOMAIN k.table \ {p})
  ELSE [k.table EXCEPT ![p] = @ - 1]

\* ShmManager::munmap_shared_chunk: whether the chunk is left with nobody.
Freeable(k, p, force) == DOMAIN DetachTable(k, p, force) = {}

\* munmap_shared_chunk over the whole chunk: an empty table frees the chunk, its entry in
\* the table of files and its entry in the caller's list; otherwise only the access table
\* changes.  Part of a chunk is never unmapped.
munmap_shared_chunk(p) ==
  /\ Doing(p, "munmap")
  /\ LET hit == {i \in mem_chunks[p] : chunks[i].inode = Arg(p).inode} IN
     IF hit = {} \/ Arg(p).partial
     THEN UNCHANGED <<free_pages, chunks, shared_chunks, mem_chunks>>
     ELSE \E i \in hit :
            LET k == chunks[i]
                table == DetachTable(k, p, FALSE)
                freed == Freeable(k, p, FALSE)
            IN /\ chunks' = [chunks EXCEPT ![i].table = table, ![i].live = @ /\ ~freed]
               /\ free_pages' = IF freed THEN free_pages \cup PagesIn(k) ELSE free_pages
               /\ shared_chunks' = IF freed
                                   THEN Restrict(shared_chunks, DOMAIN shared_chunks \ {k.inode})
                                   ELSE shared_chunks
               /\ mem_chunks' = IF freed THEN [mem_chunks EXCEPT ![p] = @ \ {i}] ELSE mem_chunks
  /\ Done(p)
  /\ OnlyChunks

\* mprotect of a shared chunk: the permissions can only grow.
mprotect_shared_chunk(p) ==
  /\ Doing(p, "mprotect")
  /\ \E i \in mem_chunks[p] :
       /\ chunks[i].inode = Arg(p).inode
       /\ chunks' = [chunks EXCEPT ![i].perms = @ \cup Arg(p).perms]
  /\ Done(p)
  /\ UNCHANGED <<free_pages, shared_chunks, mem_chunks>>
  /\ OnlyChunks

(***************************************************************************)
(* Process exit (do_exit.rs)                                               *)
(***************************************************************************)
\* detach_shm_when_process_exit, then free_chunks_when_exit: every chunk of the list is
\* detached by force and freed when nobody holds it.
ExitProcess(p) ==
  /\ p \in running
  /\ shm_calls[p] = <<>>
  /\ running' = running \ {p}
  /\ LET at == {id \in DOMAIN segments : p \in segments[id].procs}
         ended == {id \in at : Ends(segments[id], p)}
         left == {i \in mem_chunks[p] : Freeable(chunks[i], p, TRUE)}
     IN /\ segments' = [id \in DOMAIN segments \ ended |->
                          IF id \in at THEN DetachedFrom(segments[id], p) ELSE segments[id]]
        /\ id_manager' = [id_manager EXCEPT !.free_num = @ + Cardinality(ended)]
        /\ chunks' = [i \in DOMAIN chunks |->
                        IF i \in mem_chunks[p]
                        THEN [chunks[i] EXCEPT !.table = DetachTable(chunks[i], p, TRUE),
                                               !.live = @ /\ i \notin left]
                        ELSE chunks[i]]
        /\ free_pages' = free_pages \cup UNION {PagesIn(segments[id]) : id \in ended}
                                    \cup UNION {PagesIn(chunks[i]) : i \in left}
        /\ shared_chunks' = Restrict(shared_chunks,
                              DOMAIN shared_chunks \ {chunks[i].inode : i \in left})
        /\ asserted' = (asserted /\ \A id \in ended : segments[id].procs = {p})
  /\ mem_chunks' = [mem_chunks EXCEPT ![p] = {}]
  /\ UNCHANGED shm_calls

ShmNext ==
  \E p \in ShmProcesses :
    \/ do_shmget(p) \/ ShmgetNothing(p) \/ do_shmat(p) \/ do_shmdt(p) \/ shmctl_rmshm(p)
    \/ CreateShared(p) \/ JoinShared(p) \/ ExpandShared(p) \/ RefuseShared(p)
    \/ munmap_shared_chunk(p) \/ mprotect_shared_chunk(p)
    \/ ExitProcess(p)

(***************************************************************************)
(* Properties                                                              *)
(***************************************************************************)
\* The count of attachments is the number of attached processes, a marked segment is
\* there only as long as somebody is attached, no more identifiers are counted free than
\* are, and no segment is dropped under a process that has it (the assertions of Drop).
SegmentsExact ==
  /\ asserted
  /\ \A id \in DOMAIN segments :
       LET s == segments[id] IN
       /\ s.nattach = Cardinality(s.procs)
       /\ s.procs \subseteq running
       /\ s.dest => s.nattach > 0
  /\ id_manager.free_num + Cardinality(DOMAIN segments) <= SHMMNI

\* Pages belong to one segment, one live shared chunk or the free pool; the chunk
\* registered for a file is live and the only live one of that file; its table holds
\* exactly the running processes that have it in their list, and no process has in its
\* list a chunk that has been freed.
SharedExact ==
  /\ \A i, j \in DOMAIN chunks :
       chunks[i].live /\ chunks[j].live /\ i # j =>
         PagesIn(chunks[i]) \cap PagesIn(chunks[j]) = {} /\ chunks[i].inode # chunks[j].inode
  /\ \A i \in DOMAIN chunks : chunks[i].live =>
       /\ PagesIn(chunks[i]) \cap free_pages = {}
       /\ chunks[i].inode \in DOMAIN shared_chunks /\ shared_chunks[chunks[i].inode] = i
       /\ DOMAIN chunks[i].table = {p \in running : i \in mem_chunks[p]}
       /\ \A id \in DOMAIN segments : PagesIn(segments[id]) \cap PagesIn(chunks[i]) = {}
  /\ \A inode \in DOMAIN shared_chunks : chunks[shared_chunks[inode]].live
  /\ \A p \in running : \A i \in mem_chunks[p] : chunks[i].live

-----------------------------------------------------------------------------
(***************************************************************************)
(* Memory outside the enclave: the allocator behind UntrustedBox           *)
(* (crates/sgx-untrusted-alloc), the byte ring in such a box that the      *)
(* stream sockets use (untrusted/untrusted_circular_buf.rs) and the slices *)
(* of one OCall (untrusted/slice_alloc.rs).                                *)
(*                                                                         *)
(* The allocator keeps a list of chunks mapped from the host; a chunk has  *)
(* a tree of the ranges in use, keyed by their start, and an ordered list  *)
(* of free ranges, searched first fit.  A block is freed by its address    *)
(* alone.  Addresses are counted from the start of the chunk, and a chunk  *)
(* is named by a number.                                                   *)
(***************************************************************************)
CONSTANTS
  UThreads,      \* threads
  ChunkSize,     \* DEFAULT_CHUNK_SIZE
  Align,         \* DEFAULT_ALIGNMENT
  RingLen,       \* length of the ring's buffer
  SliceBuf,      \* size of the buffer behind the slices
  UPrograms      \* [THREAD -> sequence of calls]

VARIABLES
  chunk_list,    \* the allocator's chunks, in list order: [id, size, used, free]
  next_chunk,    \* chunks mapped so far
  boxes,         \* what each thread has allocated, in order: [chunk, lo, hi, live]
  missed,        \* threads that have found no room and are mapping a new chunk
  ring,          \* the ring: [buf, head, tail]
  unread,        \* the bytes written to the ring and not read
  written,       \* number of bytes written to the ring
  slices,        \* the slices handed out since the last reset, and buf_pos
  u_calls        \* the calls each thread has still to make

uVars == <<chunk_list, next_chunk, boxes, missed, ring, unread, written, slices, u_calls>>
allocVars == <<chunk_list, next_chunk, boxes, missed>>
ringVars == <<ring, unread, written>>

UCall(t) == Head(u_calls[t])
UDoing(t, op) == u_calls[t] # <<>> /\ UCall(t).op = op
UDone(t) == u_calls' = [u_calls EXCEPT ![t] = Tail(@)]

(***************************************************************************)
(* The list of free ranges, pairs <<start, end>>                           *)
(***************************************************************************)
AlignUp(a) == ((a + Align - 1) \div Align) * Align

\* find_free_range_internal: the index of the first free range in which an aligned
\* block of the size fits.
FitsIn(r, size) == r[2] - r[1] >= size /\ AlignUp(r[1]) + size <= r[2]
FirstFit(free, size) == SelectInSeq(free, LAMBDA r : FitsIn(r, size))

\* free_list_update_range: what is left of the range around the block.
Subtract(r, lo, hi) ==
  (IF r[1] < lo THEN <<<<r[1], lo>>>> ELSE <<>>) \o (IF hi < r[2] THEN <<<<hi, r[2]>>>> ELSE <<>>)
Without(free, i, lo, hi) ==
  SubSeq(free, 1, i - 1)
    \o (IF lo = hi THEN <<free[i]>> ELSE Subtract(free[i], lo, hi))
    \o SubSeq(free, i + 1, Len(free))

\* The middle of the list: the gap the range lies in, joined with its neighbours.
Between(free, d) ==
  LET gaps == {i \in 1..(Len(free) - 1) : free[i][2] <= d[1] /\ d[2] <= free[i + 1][1]}
      i == Min(gaps)
      left == d[1] = free[i][2]
      right == d[2] = free[i + 1][1]
      joined == <<IF left THEN free[i][1] ELSE d[1], IF right THEN free[i + 1][2] ELSE d[2]>>
  IN IF gaps = {} THEN free
     ELSE SubSeq(free, 1, IF left THEN i - 1 ELSE i) \o <<joined>>
            \o SubSeq(free, IF right THEN i + 2 ELSE i + 1, Len(free))

\* The neighbour on the right is forgotten.
AddBackLeft(free, d) ==
  IF free = <<>> THEN <<d>>
  ELSE IF d[2] <= Head(free)[1] THEN <<d>> \o free
  ELSE IF d[1] >= Last(free)[2] THEN Append(free, d)
  ELSE Between(free, d)
\* add_range_back_to_free_manager.
AddBack(free, d) ==
  IF free = <<>> THEN <<d>>
  ELSE IF d[2] = Head(free)[1] THEN <<<<d[1], Head(free)[2]>>>> \o Tail(free)
  ELSE IF d[2] < Head(free)[1] THEN <<d>> \o free
  ELSE IF d[1] = Last(free)[2] THEN Append(Front(free), <<Last(free)[1], d[2]>>)
  ELSE IF d[1] > Last(free)[2] THEN Append(free, d)
  ELSE Between(free, d)

(***************************************************************************)
(* The allocator                                                           *)
(***************************************************************************)
FreeSize(c) == c.size - FoldSeq(LAMBDA r, sum : sum + r[2] - r[1], 0, c.used)

\* ChunkManager::new and ChunkManager::alloc.
NewChunk(id, size) == [id |-> id, size |-> size, used |-> <<>>, free |-> <<<<0, size>>>>]
HasRoom(c, size) == size <= FreeSize(c) /\ FirstFit(c.free, size) # 0
Block(c, size) == LET lo == AlignUp(c.free[FirstFit(c.free, size)][1]) IN <<lo, lo + size>>
AllocIn(c, size) ==
  LET b == Block(c, size)
  IN [c EXCEPT !.free = Without(@, FirstFit(c.free, size), b[1], b[2]), !.used = Append(@, b)]

Boxed(t, c, b) ==
  boxes' = [boxes EXCEPT ![t] = Append(@, [chunk |-> c, lo |-> b[1], hi |-> b[2], live |-> TRUE])]

\* Allocator::alloc, one pass over the list under its lock: the first chunk with room.
AllocFound(t) ==
  /\ UDoing(t, "alloc")
  /\ t \notin missed
  /\ LET size == UCall(t).size
         i == SelectInSeq(chunk_list, LAMBDA c : HasRoom(c, size))
     IN /\ i # 0
        /\ chunk_list' = [chunk_list EXCEPT ![i] = AllocIn(@, size)]
        /\ Boxed(t, chunk_list[i].id, Block(chunk_list[i], size))
  /\ UDone(t)
  /\ UNCHANGED <<next_chunk, missed, ringVars, slices>>

AllocMissed(t) ==
  /\ UDoing(t, "alloc")
  /\ t \notin missed
  /\ \A i \in DOMAIN chunk_list : ~HasRoom(chunk_list[i], UCall(t).size)
  /\ missed' = missed \cup {t}
  /\ UNCHANGED <<chunk_list, next_chunk, boxes, ringVars, slices, u_calls>>

\* alloc_from_new_chunk: the chunk is made without the lock and put at the front.
AllocFromNewChunk(t) ==
  /\ t \in missed
  /\ LET size == UCall(t).size
         c == NewChunk(next_chunk, Max({size, ChunkSize}))
     IN /\ chunk_list' = <<AllocIn(c, size)>> \o chunk_list
        /\ Boxed(t, c.id, Block(c, size))
  /\ next_chunk' = next_chunk + 1
  /\ missed' = missed \ {t}
  /\ UDone(t)
  /\ UNCHANGED <<ringVars, slices>>

\* ChunkManager::free: a range in use that starts at the address, whichever of them the
\* search of the tree meets.
StartingAt(c, lo) == {k \in DOMAIN c.used : c.used[k][1] = lo}
FreeIn(c, k) == [c EXCEPT !.used = RemoveAt(@, k), !.free = AddBack(@, c.used[k])]

\* Allocator::free: an empty chunk goes to the front, or away if the front one is empty.
Rearranged(list, i) ==
  IF list[i].used # <<>> \/ Len(list) = 1 THEN list
  ELSE LET rest == RemoveAt(list, i)
       IN IF Head(rest).used # <<>> THEN <<list[i]>> \o rest ELSE rest

Free(t) ==
  /\ UDoing(t, "free")
  /\ LET n == UCall(t).box
         b == boxes[t][n]
         i == SelectInSeq(chunk_list, LAMBDA c : c.id = b.chunk)
     IN /\ i # 0
        /\ \E k \in StartingAt(chunk_list[i], b.lo) :
             chunk_list' = Rearranged([chunk_list EXCEPT ![i] = FreeIn(@, k)], i)
        /\ boxes' = [boxes EXCEPT ![t][n].live = FALSE]
  /\ UDone(t)
  /\ UNCHANGED <<next_chunk, missed, ringVars, slices>>

(***************************************************************************)
(* The ring                                                                *)
(***************************************************************************)
Consumable(r) == IF r.head <= r.tail THEN r.tail - r.head ELSE RingLen - r.head + r.tail

\* The two parts of with_producer_view, as the positions they cover in order.
Span(a, b) == [i \in 1..(b - a) |-> a + i - 1]
ProducerView(r) ==
  IF r.tail >= r.head
  THEN IF r.head > 0 THEN Span(r.tail, RingLen) \o Span(0, r.head - 1)
       ELSE IF r.tail < RingLen - 1 THEN Span(r.tail, RingLen - 1) ELSE <<>>
  ELSE IF r.tail < r.head - 1 THEN Span(r.tail, r.head - 1) ELSE <<>>
ConsumerView(r) ==
  IF r.head <= r.tail THEN Span(r.head, r.tail) ELSE Span(r.head, RingLen) \o Span(0, r.tail)

\* produce: as many of the bytes as the view holds are copied and the tail moves on.
Produce(t) ==
  /\ UDoing(t, "produce")
  /\ LET view == ProducerView(ring)
         n == Min({UCall(t).size, Len(view)})
         bytes == [i \in 1..n |-> written + i]
     IN /\ ring' = [buf |-> [p \in DOMAIN ring.buf |->
                               LET at == {i \in 1..n : view[i] = p}
                               IN IF at = {} THEN ring.buf[p] ELSE bytes[Min(at)]],
                    head |-> ring.head,
                    tail |-> (ring.tail + n) % RingLen]
        /\ unread' = unread \o bytes
        /\ written' = written + n
  /\ UDone(t)
  /\ UNCHANGED <<allocVars, slices>>

\* consume: what the view holds, in order, and the head moves on.
Consume(t) ==
  /\ UDoing(t, "consume")
  /\ LET n == Min({UCall(t).size, Len(ConsumerView(ring))}) IN
     /\ ring' = [ring EXCEPT !.head = (@ + n) % RingLen]
     /\ unread' = SubSeq(unread, n + 1, Len(unread))
  /\ UDone(t)
  /\ UNCHANGED <<allocVars, written, slices>>

(***************************************************************************)
(* Slices                                                                  *)
(***************************************************************************)
\* new_slice_mut: buf_pos moves on atomically if the buffer has room; a failed request
\* ends the OCall.
NewSlice(t) ==
  /\ UDoing(t, "slice")
  /\ LET new_pos == slices.buf_pos + UCall(t).size IN
     slices' = IF new_pos <= SliceBuf
               THEN [buf_pos |-> new_pos, out |-> slices.out \cup {<<slices.buf_pos, new_pos>>}]
               ELSE slices
  /\ UDone(t)
  /\ UNCHANGED <<allocVars, ringVars>>

\* The guard of the OCall is dropped, after its slices.
DropGuard(t) ==
  /\ UDoing(t, "reset")
  /\ slices' = [buf_pos |-> 0, out |-> {}]
  /\ UDone(t)
  /\ UNCHANGED <<allocVars, ringVars>>

UInit ==
  /\ chunk_list = <<NewChunk(1, ChunkSize)>>
  /\ next_chunk = 2
  /\ boxes = [t \in UThreads |-> <<>>]
  /\ missed = {}
  /\ ring = [buf |-> [p \in 0..(RingLen - 1) |-> 0], head |-> 0, tail |-> 0]
  /\ unread = <<>>
  /\ written = 0
  /\ slices = [buf_pos |-> 0, out |-> {}]
  /\ \E program \in UPrograms : u_calls = program

UNext ==
  \E t \in UThreads :
    \/ AllocFound(t) \/ AllocMissed(t) \/ AllocFromNewChunk(t) \/ Free(t)
    \/ Produce(t) \/ Consume(t)
    \/ NewSlice(t) \/ DropGuard(t)

(***************************************************************************)
(* Properties                                                              *)
(***************************************************************************)
Live == {<<t, n>> \in UNION {{t} \X DOMAIN boxes[t] : t \in UThreads} : boxes[t][n].live}
BoxAt(x) == boxes[x[1]][x[2]]
CellsOf(lo, hi) == lo..(hi - 1)

\* The blocks in use never overlap and lie in a chunk that is still mapped, whose tree
\* holds exactly them; the free list of a chunk covers the rest, in order and with no two
\* ranges that touch (so that a chunk whose blocks are all freed can serve a request of
\* its size again, and passes the assertions of its Drop).  The bytes between the
\* ring's head and its tail are those written and not read, in order.  The slices of an
\* OCall do not overlap and lie in the buffer.
UntrustedExact ==
  /\ \A x, y \in Live : x # y /\ BoxAt(x).chunk = BoxAt(y).chunk =>
       CellsOf(BoxAt(x).lo, BoxAt(x).hi) \cap CellsOf(BoxAt(y).lo, BoxAt(y).hi) = {}
  /\ \A x \in Live : \E i \in DOMAIN chunk_list :
       chunk_list[i].id = BoxAt(x).chunk /\ BoxAt(x).hi <= chunk_list[i].size
  /\ \A i \in DOMAIN chunk_list :
       LET c == chunk_list[i]
           inUse == UNION {CellsOf(c.used[k][1], c.used[k][2]) : k \in DOMAIN c.used}
           free == UNION {CellsOf(c.free[k][1], c.free[k][2]) : k \in DOMAIN c.free}
       IN /\ inUse \cap free = {}
          /\ inUse \cup free = CellsOf(0, c.size)
          /\ \A k \in 1..(Len(c.free) - 1) : c.free[k][2] < c.free[k + 1][1]
          /\ inUse = UNION {CellsOf(BoxAt(x).lo, BoxAt(x).hi) :
                              x \in {x \in Live : BoxAt(x).chunk = c.id}}
  /\ [k \in DOMAIN ConsumerView(ring) |-> ring.buf[ConsumerView(ring)[k]]] = unread
  /\ \A a, b \in slices.out : a # b => a[2] <= b[1] \/ b[2] <= a[1]
  /\ slices.buf_pos <= SliceBuf

\* "Keep at most one empty chunk in the list" (untrusted_allocator/mod.rs).
OneEmptyChunk == Cardinality({i \in DOMAIN chunk_list : chunk_list[i].used = <<>>}) <= 1
=============================================================================
