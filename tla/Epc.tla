-------------------------------- MODULE Epc --------------------------------
(***************************************************************************)
(* Enclave pages committed on demand (vm/page_tracker.rs, vm/vm_epc.rs and *)
(* the paging half of vm/vm_area.rs).  The low pages of user space are     *)
(* reserved memory, committed when the enclave starts; the others belong   *)
(* to the user region, where a page is committed by EACCEPT when a mapping *)
(* asks for it or when it is first touched, and stays committed when it is *)
(* unmapped.  Two records say which pages are committed: the tracker of    *)
(* each mapped area (VMArea.pages) and the global trackers, one per "page  *)
(* chunk" of Unit pages (USER_SPACE_PAGE_CHUNK_MANAGER).  The global ones  *)
(* seed the tracker of a new area.  EACCEPT fails on a committed page, and *)
(* the callers unwrap the result, so neither record may be wrong.          *)
(*                                                                         *)
(* Areas of different VM chunks are changed under different locks, and the *)
(* areas of two VM chunks may lie in one page chunk.  `regions' are the VM *)
(* chunks; a thread holds the lock of one while it maps, unmaps, protects  *)
(* or handles a fault.  The lock of the page chunk manager is taken and    *)
(* released inside; each critical section is one action.                   *)
(***************************************************************************)
EXTENDS Integers, Sequences, FiniteSets, SequencesExt

CONSTANTS
  EThreads,     \* threads of the LibOS
  NumPages,     \* pages of user space
  NumReserved,  \* the first ones are reserved memory (EPCMemType::Reserved)
  Unit,         \* pages of a page chunk (PAGE_CHUNK_UNIT)
  PFThreshold,  \* PF_NUM_THRESHOLD
  EPrograms     \* [regions, tracked, calls]: the VM chunks (sets of pages), the page chunks
                \* tracked at first, and the calls of each thread

VARIABLES
  epc,          \* permissions of each committed page, Uncommitted for the others
  page_chunks,  \* the global trackers: page chunk -> [fully, bits]
  vmas,         \* mapped areas: [lo, hi, perms, bits, pf_count]
  region_lock,  \* VM chunk -> the thread that holds its lock
  epc_pc,       \* where each thread is
  local,        \* the area a thread works on, and the page chunks or ranges left
  epc_calls,    \* the calls each thread has still to make
  panicked      \* what brought the enclave down: "no", "unwrap", "assert" or "fault"

epcVars == <<epc, page_chunks, vmas, region_lock, epc_pc, local, epc_calls, panicked>>

Uncommitted == {"uncommitted"}
DEFAULT == {"R", "W"}
NobodyE == "nobody"

EPages == 0..(NumPages - 1)
Reserved == 0..(NumReserved - 1)
PagesOf(lo, hi) == lo..(hi - 1)
VmaPages(v) == PagesOf(v.lo, v.hi)

\* get_page_chunk_start_addr, and the page chunks a range meets, in order.
ChunkOf(p) == p \div Unit
ChunkPages(c) == {p \in EPages : ChunkOf(p) = c}
ChunksOf(lo, hi) == [i \in 1..(ChunkOf(hi - 1) - ChunkOf(lo) + 1) |-> ChunkOf(lo) + i - 1]

Fully(v) == v.bits = VmaPages(v)

\* get_ranges(false): the runs of consecutive uncommitted pages, in order.
UncommittedRanges(v) ==
  LET open == VmaPages(v) \ v.bits
      starts == {p \in open : p - 1 \notin open}
      RangeFrom(p) == {q \in open : q >= p /\ PagesOf(p, q) \subseteq open}
      sorted == SetToSortSeq(starts, <)
  IN [i \in DOMAIN sorted |-> RangeFrom(sorted[i])]

\* What the global trackers say of a set of pages.
GlobalBits(pages) ==
  {p \in pages : /\ ChunkOf(p) \in DOMAIN page_chunks
                 /\ \/ page_chunks[ChunkOf(p)].fully
                    \/ p \in page_chunks[ChunkOf(p)].bits}

\* The tracker new_vma_tracker builds for an area whose page chunks are all tracked.
TrackerFor(lo, hi) ==
  IF lo < NumReserved THEN PagesOf(lo, hi) ELSE GlobalBits(PagesOf(lo, hi))

EpcInit ==
  \E program \in EPrograms :
    /\ epc = [p \in EPages |-> IF p \in Reserved THEN DEFAULT ELSE Uncommitted]
    /\ page_chunks = [c \in program.tracked |-> [fully |-> FALSE, bits |-> {}]]
    /\ vmas = {}
    /\ region_lock = [r \in program.regions |-> NobodyE]
    /\ epc_pc = [t \in EThreads |-> "idle"]
    /\ local = [t \in EThreads |-> [vma |-> <<>>]]
    /\ epc_calls = program.calls
    /\ panicked = "no"

(***************************************************************************)
(* Hardware (EDMMLocalApi)                                                 *)
(***************************************************************************)
\* commit_memory / commit_with_data: EACCEPT or EACCEPTCOPY of each page, and the
\* change to permissions other than the default.
Committable(pages) == \A p \in pages : epc[p] = Uncommitted
WithPerms(pages, perms) == [p \in EPages |-> IF p \in pages THEN perms ELSE epc[p]]

\* modify_permissions: the pages must be committed, and with the permissions the caller
\* names; nothing is done when the permissions stay the same.
Modifiable(pages, from, to) == from = to \/ \A p \in pages : epc[p] = from

(***************************************************************************)
(* Threads                                                                 *)
(***************************************************************************)
Call(t) == Head(epc_calls[t])
RegionOf(page) == CHOOSE r \in DOMAIN region_lock : page \in r
Goto(t, where) == epc_pc' = [epc_pc EXCEPT ![t] = where]
Unlock(t) == region_lock' = [r \in DOMAIN region_lock |->
                               IF region_lock[r] = t THEN NobodyE ELSE region_lock[r]]
Finish(t) == /\ epc_calls' = [epc_calls EXCEPT ![t] = Tail(@)]
             /\ Goto(t, "idle")
             /\ Unlock(t)
             /\ local' = [local EXCEPT ![t] = [vma |-> <<>>]]
FinishUnlocked(t) == /\ epc_calls' = [epc_calls EXCEPT ![t] = Tail(@)]
                     /\ UNCHANGED <<epc_pc, region_lock, local>>

Panic(what) == panicked' = what

Starts(t, op) == /\ epc_pc[t] = "idle"
                 /\ epc_calls[t] # <<>>
                 /\ Call(t).op = op
Acquire(t) == LET r == RegionOf(Call(t).lo) IN
              /\ region_lock[r] = NobodyE
              /\ region_lock' = [region_lock EXCEPT ![r] = t]

(***************************************************************************)
(* VMArea::new and init_memory                                             *)
(***************************************************************************)

\* find_free_range_internal: a range that is in use makes the call fail.
FreeRange(c) == \A v \in vmas : VmaPages(v) \cap PagesOf(c.lo, c.hi) = {}

MapRefused(t) ==
  /\ Starts(t, "map")
  /\ region_lock[RegionOf(Call(t).lo)] = NobodyE
  /\ ~FreeRange(Call(t))
  /\ FinishUnlocked(t)
  /\ UNCHANGED <<epc, page_chunks, vmas, panicked>>

\* The tracker of the new area is to be filled from the global ones; reserved memory
\* is committed and has none.
NewVma(t) ==
  /\ Starts(t, "map")
  /\ FreeRange(Call(t))
  /\ Acquire(t)
  /\ LET c == Call(t)
         reserved == c.lo < NumReserved
     IN local' = [local EXCEPT ![t] =
          [vma |-> [lo |-> c.lo, hi |-> c.hi, perms |-> c.perms, pf_count |-> 0,
                    bits |-> IF reserved THEN PagesOf(c.lo, c.hi) ELSE {}],
           chunks |-> IF reserved THEN <<>> ELSE ChunksOf(c.lo, c.hi),
           ranges |-> <<>>, record |-> {}]]
  /\ Goto(t, "track")
  /\ UNCHANGED <<epc, page_chunks, vmas, epc_calls, panicked>>

\* get_committed_pages_from_global_tracker, a page chunk that is tracked: one critical
\* section of the manager's read lock.
CopyTracked(t) ==
  /\ epc_pc[t] = "track"
  /\ local[t].chunks # <<>>
  /\ LET c == Head(local[t].chunks)
         v == local[t].vma
     IN /\ c \in DOMAIN page_chunks
        /\ local' = [local EXCEPT
             ![t].vma.bits = @ \cup GlobalBits(VmaPages(v) \cap ChunkPages(c)),
             ![t].chunks = Tail(@)]
  /\ UNCHANGED <<epc, page_chunks, vmas, region_lock, epc_pc, epc_calls, panicked>>

\* A page chunk that is not tracked: the read lock is released ...
FindUntracked(t) ==
  /\ epc_pc[t] = "track"
  /\ local[t].chunks # <<>>
  /\ Head(local[t].chunks) \notin DOMAIN page_chunks
  /\ Goto(t, "insert")
  /\ UNCHANGED <<epc, page_chunks, vmas, region_lock, local, epc_calls, panicked>>

\* ... and a new tracker, with no page committed, inserted under the write lock.
Inserted(c) == (c :> [fully |-> FALSE, bits |-> {}]) @@ page_chunks
InsertTracker(t) ==
  /\ epc_pc[t] = "insert"
  /\ page_chunks' = Inserted(Head(local[t].chunks))
  /\ local' = [local EXCEPT ![t].chunks = Tail(@)]
  /\ Goto(t, "track")
  /\ UNCHANGED <<epc, vmas, region_lock, epc_calls, panicked>>

\* init_memory with PagePolicy::CommitNow: commit_whole(DEFAULT) commits every range
\* and then records the whole area.
CommitNow(t) ==
  /\ epc_pc[t] = "track"
  /\ local[t].chunks = <<>>
  /\ Call(t).now
  /\ LET v == local[t].vma
         open == VmaPages(v) \ v.bits
     IN /\ open # {}
        /\ IF Committable(open)
           THEN /\ epc' = WithPerms(open, DEFAULT)
                /\ local' = [local EXCEPT ![t].vma.bits = VmaPages(v),
                                          ![t].chunks = ChunksOf(v.lo, v.hi),
                                          ![t].record = VmaPages(v)]
                /\ Goto(t, "record")
                /\ UNCHANGED panicked
           ELSE /\ Panic("unwrap")
                /\ UNCHANGED <<epc, local, epc_pc>>
  /\ UNCHANGED <<page_chunks, vmas, region_lock, epc_calls>>

\* The end of init_memory: the committed pages get the permissions of the area, which
\* is then visible.
FinishMap(t) ==
  /\ epc_pc[t] = "track"
  /\ local[t].chunks = <<>>
  /\ LET v == local[t].vma IN
     /\ Call(t).now => Fully(v)
     /\ IF Modifiable(v.bits, DEFAULT, v.perms)
        THEN /\ epc' = WithPerms(v.bits, v.perms)
             /\ vmas' = vmas \cup {v}
             /\ UNCHANGED panicked
        ELSE /\ Panic("unwrap")
             /\ UNCHANGED <<epc, vmas>>
  /\ Finish(t)
  /\ UNCHANGED page_chunks

(***************************************************************************)
(* set_committed_pages_for_global_tracker                                  *)
(***************************************************************************)
\* What commit_pages_common leaves in the tracker of page chunk c.
Recorded(c, pages) ==
  LET bits == page_chunks[c].bits \cup (pages \cap ChunkPages(c))
  IN [page_chunks EXCEPT ![c].bits = bits]

\* Under the manager's read lock: the tracker of one page chunk takes the pages; a page
\* chunk without tracker is fully committed and skipped.  A tracker that is full but not
\* yet dropped fails the debug_assert of commit_pages_common.
Record(t) ==
  /\ epc_pc[t] = "record"
  /\ local[t].chunks # <<>>
  /\ LET c == Head(local[t].chunks) IN
     \/ /\ page_chunks[c].fully
        /\ local' = [local EXCEPT ![t].chunks = Tail(@)]
        /\ UNCHANGED <<page_chunks, epc_pc, panicked>>
     \/ /\ page_chunks[c].bits = ChunkPages(c)
        /\ Panic("assert")
        /\ UNCHANGED <<page_chunks, local, epc_pc>>
     \/ /\ ~page_chunks[c].fully
        /\ page_chunks[c].bits # ChunkPages(c)
        /\ page_chunks' = Recorded(c, local[t].record)
        /\ IF page_chunks'[c].bits = ChunkPages(c)
           THEN Goto(t, "free") /\ UNCHANGED local
           ELSE /\ local' = [local EXCEPT ![t].chunks = Tail(@)]
                /\ UNCHANGED epc_pc
        /\ UNCHANGED panicked
  /\ UNCHANGED <<epc, vmas, region_lock, epc_calls>>

\* Under its write lock: the tracker of a full page chunk is dropped.
FreeTracker(t) ==
  /\ epc_pc[t] = "free"
  /\ page_chunks' = [page_chunks EXCEPT ![Head(local[t].chunks)] = [fully |-> TRUE, bits |-> {}]]
  /\ local' = [local EXCEPT ![t].chunks = Tail(@)]
  /\ Goto(t, "record")
  /\ UNCHANGED <<epc, vmas, region_lock, epc_calls, panicked>>

\* The pages are recorded: a mapping is finished, a fault goes on with its next range.
RecordDone(t) ==
  /\ epc_pc[t] = "record"
  /\ local[t].chunks = <<>>
  /\ Goto(t, IF Call(t).op = "map" THEN "track" ELSE "commit")
  /\ UNCHANGED <<epc, page_chunks, vmas, region_lock, local, epc_calls, panicked>>

(***************************************************************************)
(* Page faults                                                             *)
(***************************************************************************)
\* try_handle_kernel_exception: is_page_committed is asked before any lock is taken, and
\* the instruction restarted when it says so.
SpuriousFault(t) ==
  /\ Starts(t, "fault")
  /\ Call(t).kernel
  /\ Call(t).lo \in GlobalBits({Call(t).lo})
  /\ FinishUnlocked(t)
  /\ UNCHANGED <<epc, page_chunks, vmas, panicked>>

FaultVma(page) == {v \in vmas : page \in VmaPages(v)}

\* VMArea::handle_page_fault: the access must be allowed, and the area still have pages to
\* commit.
Allows(v, c) == c.access \in v.perms
Handles(v, c) == Allows(v, c) /\ ~Fully(v)

\* The ranges one fault commits: all of them for a fault of the LibOS or of an area that
\* has faulted PF_NUM_THRESHOLD times, else the page itself (COMMIT_SIZE_UNIT).
FaultRanges(v, c) ==
  IF c.kernel \/ v.pf_count >= PFThreshold THEN UncommittedRanges(v)
  ELSE IF c.lo \in v.bits THEN <<>> ELSE <<{c.lo}>>
FaultCount(v, c) ==
  IF c.kernel \/ v.pf_count >= PFThreshold THEN v.pf_count ELSE v.pf_count + 1

\* A fault that is not spurious and finds the lock of its VM chunk free.
TakesFault(t) ==
  /\ Starts(t, "fault")
  /\ Call(t).kernel => Call(t).lo \notin GlobalBits({Call(t).lo})
  /\ region_lock[RegionOf(Call(t).lo)] = NobodyE

\* Another thread has committed the whole area.
FaultEnds(t) ==
  /\ TakesFault(t)
  /\ \E v \in FaultVma(Call(t).lo) : Allows(v, Call(t)) /\ Fully(v)
  /\ FinishUnlocked(t)
  /\ UNCHANGED <<epc, page_chunks, vmas, panicked>>

\* No area or a forbidden access: a fault of the program becomes a signal, one of the
\* LibOS itself is not expected.
FaultFails(t) ==
  /\ TakesFault(t)
  /\ \A v \in FaultVma(Call(t).lo) : ~Allows(v, Call(t))
  /\ IF Call(t).kernel THEN Panic("fault") ELSE UNCHANGED panicked
  /\ FinishUnlocked(t)
  /\ UNCHANGED <<epc, page_chunks, vmas>>

HandleFault(t) ==
  /\ Starts(t, "fault")
  /\ Call(t).kernel => Call(t).lo \notin GlobalBits({Call(t).lo})
  /\ Acquire(t)
  /\ \E v \in FaultVma(Call(t).lo) :
       /\ Handles(v, Call(t))
       /\ local' = [local EXCEPT ![t] =
            [vma |-> [v EXCEPT !.pf_count = FaultCount(v, Call(t))], old |-> v,
             chunks |-> <<>>, ranges |-> FaultRanges(v, Call(t)), record |-> {}]]
  /\ Goto(t, "commit")
  /\ UNCHANGED <<epc, page_chunks, vmas, epc_calls, panicked>>

\* init_memory_for_page_fault: commit one range with the area's permissions.
CommitRange(t) ==
  /\ epc_pc[t] = "commit"
  /\ local[t].ranges # <<>>
  /\ LET range == Head(local[t].ranges)
         lo == CHOOSE p \in range : \A q \in range : p <= q
         hi == 1 + CHOOSE p \in range : \A q \in range : p >= q
     IN IF Committable(range)
        THEN /\ epc' = WithPerms(range, local[t].vma.perms)
             /\ local' = [local EXCEPT ![t].vma.bits = @ \cup range,
                                       ![t].ranges = Tail(@),
                                       ![t].chunks = ChunksOf(lo, hi),
                                       ![t].record = range]
             /\ Goto(t, "record")
             /\ UNCHANGED panicked
        ELSE /\ Panic("unwrap")
             /\ UNCHANGED <<epc, local, epc_pc>>
  /\ UNCHANGED <<page_chunks, vmas, region_lock, epc_calls>>

FinishFault(t) ==
  /\ epc_pc[t] = "commit"
  /\ local[t].ranges = <<>>
  /\ vmas' = (vmas \ {local[t].old}) \cup {local[t].vma}
  /\ Finish(t)
  /\ UNCHANGED <<epc, page_chunks, panicked>>

(***************************************************************************)
(* munmap and mprotect                                                     *)
(***************************************************************************)
\* A tracker that is not split.
PartUnsplit(v, lo, hi, perms) ==
  [lo |-> lo, hi |-> hi, perms |-> perms, pf_count |-> 0, bits |-> v.bits]

\* inherits_file_from: the part of an area in [lo, hi), with its share of the tracker.
Part(v, lo, hi, perms) ==
  [lo |-> lo, hi |-> hi, perms |-> perms, pf_count |-> 0, bits |-> v.bits \cap PagesOf(lo, hi)]
Lo(v, c) == IF v.lo >= c.lo THEN v.lo ELSE c.lo
Hi(v, c) == IF v.hi <= c.hi THEN v.hi ELSE c.hi
Inside(v, c) == Part(v, Lo(v, c), Hi(v, c), v.perms)
Met(c) == {v \in vmas : VmaPages(v) \cap PagesOf(c.lo, c.hi) # {}}

\* VMArea::subtract: what munmap leaves of an area.
Remains(v, c) ==
  (IF v.lo < c.lo THEN {Part(v, v.lo, c.lo, v.perms)} ELSE {})
    \cup (IF c.hi < v.hi THEN {Part(v, c.hi, v.hi, v.perms)} ELSE {})

\* munmap_range: the committed pages of what is unmapped go back to the default
\* permissions (flush_and_clean_memory); they stay committed.
Unmap(t) ==
  /\ Starts(t, "unmap")
  /\ region_lock[RegionOf(Call(t).lo)] = NobodyE
  /\ LET c == Call(t)
         met == Met(c)
         cleaned == UNION {Inside(v, c).bits : v \in met}
     IN IF \A v \in met : Modifiable(Inside(v, c).bits, v.perms, DEFAULT)
        THEN /\ epc' = WithPerms(cleaned, DEFAULT)
             /\ vmas' = (vmas \ met) \cup UNION {Remains(v, c) : v \in met}
             /\ UNCHANGED panicked
        ELSE /\ Panic("unwrap")
             /\ UNCHANGED <<epc, vmas>>
  /\ FinishUnlocked(t)
  /\ UNCHANGED page_chunks

\* What mprotect leaves of an area: the protected part with the new permissions, a right
\* remainder with its share of the tracker.  A left remainder keeps the VMArea, whose
\* set_end asks the global trackers again; set_start, with no left remainder, does not.
ProtectedPart(v, c) ==
  IF Lo(v, c) = v.lo /\ Hi(v, c) = v.hi THEN [v EXCEPT !.perms = c.perms]
  ELSE Part(v, Lo(v, c), Hi(v, c), c.perms)
LeftPart(v, c) == [v EXCEPT !.hi = c.lo, !.bits = TrackerFor(v.lo, c.lo)]
RightPart(v, c) ==
  IF v.lo < c.lo THEN Part(v, c.hi, v.hi, v.perms)
  ELSE [v EXCEPT !.lo = c.hi, !.bits = @ \cap PagesOf(c.hi, v.hi)]
Protected(v, c) ==
  {ProtectedPart(v, c)}
    \cup (IF v.lo < c.lo THEN {LeftPart(v, c)} ELSE {})
    \cup (IF c.hi < v.hi THEN {RightPart(v, c)} ELSE {})

Protect(t) ==
  /\ Starts(t, "protect")
  /\ region_lock[RegionOf(Call(t).lo)] = NobodyE
  /\ LET c == Call(t)
         met == {v \in Met(c) : v.perms # c.perms}
     IN IF \A v \in met : Modifiable(Inside(v, c).bits, v.perms, c.perms)
        THEN /\ epc' = WithPerms(UNION {Inside(v, c).bits : v \in met}, c.perms)
             /\ vmas' = (vmas \ met) \cup UNION {Protected(v, c) : v \in met}
             /\ UNCHANGED panicked
        ELSE /\ Panic("unwrap")
             /\ UNCHANGED <<epc, vmas>>
  /\ FinishUnlocked(t)
  /\ UNCHANGED page_chunks

EpcStep(t) ==
  \/ MapRefused(t) \/ NewVma(t) \/ CopyTracked(t) \/ FindUntracked(t) \/ InsertTracker(t)
  \/ CommitNow(t) \/ FinishMap(t)
  \/ Record(t) \/ FreeTracker(t) \/ RecordDone(t)
  \/ SpuriousFault(t) \/ FaultEnds(t) \/ FaultFails(t) \/ HandleFault(t) \/ CommitRange(t) \/ FinishFault(t)
  \/ Unmap(t) \/ Protect(t)

EpcNext == panicked = "no" /\ \E t \in EThreads : EpcStep(t)

(***************************************************************************)
(* Properties                                                              *)
(***************************************************************************)
\* The regions no thread is working on, and the areas there.
Quiet == UNION {r \in DOMAIN region_lock : region_lock[r] = NobodyE}

\* Whenever nobody works on a region, the tracker of each of its areas marks exactly the
\* pages the hardware has committed and these have the permissions of the area, every
\* committed page outside an area has the default permissions, so that the next area
\* mapped there may assume them, and the global trackers know every committed page of
\* the user region; and no EACCEPT or permission change has failed (the unwraps of
\* commit_whole, commit_once_for_page_fault and modify_permission_force).  The assertion of
\* commit_pages_common fails only between the two locks of a thread that has filled the
\* tracker and is about to drop it.
PagesExact ==
  /\ panicked # "unwrap"
  /\ panicked = "assert" => \E t \in EThreads : epc_pc[t] = "free"
  /\ \A v \in vmas : VmaPages(v) \subseteq Quiet =>
       /\ v.bits = {p \in VmaPages(v) : epc[p] # Uncommitted}
       /\ \A p \in v.bits : epc[p] = v.perms
  /\ \A p \in Quiet \ UNION {VmaPages(v) : v \in vmas} : epc[p] \in {DEFAULT, Uncommitted}
  /\ \A p \in Quiet \ Reserved : epc[p] # Uncommitted <=> p \in GlobalBits({p})

\* No assertion of the trackers fails (set_committed_pages_for_global_tracker: "There can be
\* data race [...] But its fine, because the ultimate state is the same").
RecordsAccepted == panicked # "assert"
=============================================================================
