------------------------------ MODULE MCMemory ------------------------------
(***************************************************************************)
(* Memory below the address spaces, for TLC: the free list of a chunk, the *)
(* record of the committed enclave pages, shared memory, and the memory    *)
(* outside the enclave.  They share no state, so comp picks the one whose  *)
(* steps a behaviour takes; the others stay in their initial state.        *)
(***************************************************************************)
EXTENDS Allocator, Integers, TLC

VARIABLES comp,
    epc, page_chunks, vmas, region_lock, epc_pc, local, epc_calls, panicked,
    segments, id_manager, free_pages, chunks, shared_chunks, mem_chunks, running, shm_calls, asserted,
    chunk_list, next_chunk, boxes, missed, ring, unread, written, slices, u_calls

(***************************************************************************)
(* Two threads that map, unmap, protect and touch enclave pages, in one or *)
(* two VM chunks, with some page chunks tracked already.                   *)
(***************************************************************************)
Map(lo, hi, perms, now) == [op |-> "map", lo |-> lo, hi |-> hi, perms |-> perms, now |-> now]
Fault(p, access, kernel) == [op |-> "fault", lo |-> p, access |-> access, kernel |-> kernel]
Un(lo, hi) == [op |-> "unmap", lo |-> lo, hi |-> hi]
Prot(lo, hi, perms) == [op |-> "protect", lo |-> lo, hi |-> hi, perms |-> perms]
RO == {"R"}
RW == {"R", "W"}
RX == {"R", "X"}
Two(a, b) == "a" :> a @@ "b" :> b
Paging(regions, tracked, a, b) == [regions |-> regions, tracked |-> tracked, calls |-> Two(a, b)]
PagingPrograms == {
    Paging({0..3, 4..7}, {0, 1, 2, 3},
           <<Map(2, 4, RO, FALSE), Fault(2, "R", FALSE), Un(1, 3), Map(0, 2, RX, TRUE),
             Map(2, 3, RW, TRUE), Map(1, 2, RW, FALSE)>>,
           <<Map(4, 7, RW, FALSE), Fault(5, "W", FALSE), Prot(5, 6, RO), Fault(4, "R", TRUE),
             Fault(5, "W", FALSE)>>),
    Paging({0..7}, {},
           <<Map(2, 4, RW, TRUE), Un(2, 4), Map(2, 6, RW, TRUE)>>,
           <<Prot(2, 3, RX), Un(0, 6)>>),
    Paging({0..7}, {},
           <<Map(2, 7, RW, FALSE), Fault(3, "W", FALSE), Fault(4, "W", FALSE), Fault(6, "R", FALSE),
             Fault(6, "R", FALSE)>>,
           <<Prot(3, 5, RX), Un(4, 6), Map(4, 6, RO, TRUE)>>),
    Paging({0..3, 4..7}, {},
           <<Map(2, 4, RW, TRUE), Un(2, 3), Map(2, 3, RX, FALSE), Fault(2, "X", TRUE)>>,
           <<Map(4, 8, RX, FALSE), Fault(5, "X", FALSE), Fault(6, "X", TRUE)>>),
    Paging({0..4, 5..7}, {1, 2},
           <<Map(2, 5, RW, TRUE), Un(2, 5), Map(2, 4, RX, FALSE)>>,
           <<Map(5, 8, RX, FALSE), Fault(5, "R", FALSE), Fault(6, "R", TRUE), Un(5, 7),
             Map(5, 6, RO, TRUE)>>),
    Paging({0..4, 5..7}, {1, 2},
           <<Map(4, 5, RW, TRUE), Un(4, 5), Map(3, 5, RW, TRUE)>>,
           <<Map(5, 6, RW, TRUE), Fault(7, "R", FALSE), Fault(6, "R", TRUE)>>)}
\* Two threads that are the first to use a page chunk that two VM chunks share.
FirstUse == {
    Paging({0..4, 5..7}, {}, <<Map(2, 5, RW, TRUE), Un(2, 5), Map(2, 4, RX, TRUE)>>,
           <<Map(5, 8, RX, FALSE)>>)}

(***************************************************************************)
(* Three processes with System V segments and shared file mappings.        *)
(***************************************************************************)
Get(key, n) == [op |-> "shmget", key |-> key, size |-> n]
At(id) == [op |-> "shmat", id |-> id]
Dt(id) == [op |-> "shmdt", id |-> id]
Rm(id) == [op |-> "rmid", id |-> id]
Mm(inode, offset, n, addr, perms) ==
    [op |-> "mmap", inode |-> inode, offset |-> offset, size |-> n, addr |-> addr, perms |-> perms]
Mu(inode, part) == [op |-> "munmap", inode |-> inode, partial |-> part]
Mp(inode, perms) == [op |-> "mprotect", inode |-> inode, perms |-> perms]
Sharing(p, q, r) == "p" :> p @@ "q" :> q @@ "r" :> r
SharingPrograms == {
    Sharing(<<Get(1, 1), At(0), Rm(0), Dt(0)>>, <<Get(1, 1), At(0), Rm(0)>>, <<At(0), Get(0, 2), At(1)>>),
    Sharing(<<Mm(1, 0, 2, -1, RO), Mu(1, TRUE), Mm(1, 1, 1, -1, RW), Mp(1, RW)>>,
            <<Mm(1, 0, 1, -1, RO), Mm(2, 0, 1, -1, RO), Mm(2, 1, 1, 3, RO), Mu(2, FALSE)>>,
            <<Mm(1, 1, 2, -1, RO), Get(1, 2)>>),
    Sharing(<<Mm(1, 0, 2, 0, RO), Mm(1, 0, 1, 0, RW)>>, <<Get(1, 4), Get(2, 2), Get(3, 1), Get(4, 1)>>,
            <<Rm(0), Mm(1, 0, 1, -1, RO)>>)}

(***************************************************************************)
(* Two threads that allocate and free boxes, a writer and a reader of a    *)
(* ring, and an OCall with slices.                                         *)
(***************************************************************************)
Al(n) == [op |-> "alloc", size |-> n]
Fr(k) == [op |-> "free", box |-> k]
Pr(n) == [op |-> "produce", size |-> n]
Co(n) == [op |-> "consume", size |-> n]
Sl(n) == [op |-> "slice", size |-> n]
Re == [op |-> "reset"]
BoxPrograms == {
    Two(<<Al(2), Al(3), Fr(1), Al(1), Fr(2), Al(4), Fr(4)>>, <<Al(3), Al(1), Fr(2), Al(6), Fr(1)>>),
    Two(<<Al(1), Al(7), Fr(2), Fr(1)>>, <<Al(2), Al(2), Fr(1), Al(5), Fr(3)>>),
    Two(<<Pr(2), Pr(3), Pr(2), Pr(1), Pr(4)>>, <<Co(1), Co(3), Co(2), Co(5)>>),
    Two(<<Sl(2), Sl(2), Sl(1), Sl(3), Re, Sl(3)>>, <<>>)}

Paged == INSTANCE Epc
    WITH EThreads <- {"a", "b"}, NumPages <- 8, NumReserved <- 2, Unit <- 2, PFThreshold <- 2,
         EPrograms <- PagingPrograms
Raced == INSTANCE Epc
    WITH EThreads <- {"a", "b"}, NumPages <- 8, NumReserved <- 2, Unit <- 2, PFThreshold <- 2,
         EPrograms <- FirstUse
Shared == INSTANCE SharedMemory
    WITH ShmProcesses <- {"p", "q", "r"}, ShmPages <- 5, SHMMNI <- 3, ShmPrograms <- SharingPrograms,
         UThreads <- {"a", "b"}, ChunkSize <- 6, Align <- 2, RingLen <- 4, SliceBuf <- 5,
         UPrograms <- BoxPrograms

pagedVars == <<epc, page_chunks, vmas, region_lock, epc_pc, local, epc_calls, panicked>>
sharedVars == <<segments, id_manager, free_pages, chunks, shared_chunks, mem_chunks, running,
                shm_calls, asserted>>
outsideVars == <<chunk_list, next_chunk, boxes, missed, ring, unread, written, slices, u_calls>>
allVars == <<comp, vars, pagedVars, sharedVars, outsideVars>>

First(S) == CHOOSE x \in S : TRUE

MemoryInit ==
    /\ comp \in {"freelist", "paged", "shared", "outside"}
    /\ Init
    /\ Paged!EpcInit
    /\ (comp # "paged" => epc_calls = First(PagingPrograms).calls)
    /\ Shared!ShmInit
    /\ (comp # "shared" => shm_calls = First(SharingPrograms))
    /\ Shared!UInit
    /\ (comp # "outside" => u_calls = First(BoxPrograms))

MemoryNext ==
    \/ comp = "freelist" /\ Next /\ UNCHANGED <<comp, pagedVars, sharedVars, outsideVars>>
    \/ comp = "paged" /\ Paged!EpcNext /\ UNCHANGED <<comp, vars, sharedVars, outsideVars>>
    \/ comp = "shared" /\ Shared!ShmNext /\ UNCHANGED <<comp, vars, pagedVars, outsideVars>>
    \/ comp = "outside" /\ Shared!UNext /\ UNCHANGED <<comp, vars, pagedVars, sharedVars>>

MemorySpec == MemoryInit /\ [][MemoryNext]_allVars

\* Two threads map memory in a page chunk that nobody has tracked yet.
FirstUseSpec ==
    /\ comp = "paged" /\ Init /\ Raced!EpcInit
    /\ Shared!ShmInit /\ shm_calls = First(SharingPrograms)
    /\ Shared!UInit /\ u_calls = First(BoxPrograms)
    /\ [][Raced!EpcNext /\ UNCHANGED <<comp, vars, sharedVars, outsideVars>>]_allVars

-----------------------------------------------------------------------------
\* The trackers of the areas and the global ones agree with the pages that are committed, so
\* that no commit fails and no page is left out: see Epc.tla.
PagesExact == comp = "paged" => Paged!PagesExact

\* A System V segment lives exactly as long as it is named or attached, and a shared chunk, its
\* table of processes and the processes' lists agree; outside the enclave, blocks in use do not
\* overlap and nothing is lost: see SharedMemory.tla.
SharedMemoryExact ==
    /\ comp = "shared" => Shared!SegmentsExact /\ Shared!SharedExact
    /\ comp = "outside" => Shared!UntrustedExact
=============================================================================
