----------------------------- MODULE Allocator -----------------------------
(***************************************************************************)
(* A free list in use: ranges are requested with a size, an alignment and  *)
(* an address, and any part of what was handed out is given back, as mmap  *)
(* and munmap do with the list of a chunk (vm/vm_chunk_manager.rs).        *)
(***************************************************************************)
EXTENDS FreeSpace

CONSTANTS NumPages, Sizes, Aligns

Pages == 0 .. NumPages - 1

ASSUME NumPagesAssumption == NumPages \in Nat \ {0}
ASSUME RequestsAssumption == Sizes \subseteq Nat \ {0} /\ Aligns \subseteq Nat \ {0}

VARIABLES
    list,   \* free_manager
    used,   \* the pages handed out and not given back
    reply   \* of the last operation: the range found or given back, or NoRange

vars == <<list, used, reply>>

NonEmptyRanges == {r \in [start : 0 .. NumPages, end : 0 .. NumPages] : r.start < r.end}
NoRange == VMRange(0, 0)     \* EINVAL or ENOMEM
Addresses == {AnyAddr} \cup [kind : {"hint", "need"}, page : Pages]

TypeOK ==
    /\ list \in Seq(NonEmptyRanges)
    /\ used \subseteq Pages
    /\ reply \in NonEmptyRanges \cup {NoRange}

Init ==
    /\ list = <<VMRange(0, NumPages)>>
    /\ used = {}
    /\ reply = NoRange

find_free_range_internal(size, align, addr) ==
    LET f == Found(list, size, align, addr)
        r == VMRange(f.start, f.start + size)
    IN  IF f.index = 0
        THEN reply' = NoRange /\ UNCHANGED <<list, used>>
        ELSE /\ reply' = r
             /\ list' = free_list_update_range(list, f.index, r)
             /\ used' = used \cup PagesOf(r)

\* The dirty range of a munmap lies within what is mapped.
GiveBack(r) ==
    /\ PagesOf(r) \subseteq used
    /\ list' = add_range_back_to_free_manager(list, r)
    /\ used' = used \ PagesOf(r)
    /\ reply' = r

Next ==
    \/ \E size \in Sizes, align \in Aligns, addr \in Addresses :
           find_free_range_internal(size, align, addr)
    \/ \E r \in NonEmptyRanges : GiveBack(r)

Spec == Init /\ [][Next]_vars

-----------------------------------------------------------------------------
\* The list is in address order, its ranges are not empty and neighbours are joined:
\* however pages come back, two free ranges never touch.  The first-fit search and the
\* gap search of add_range_back_to_free_manager rely on it.
Canonical == \A i, j \in 1 .. Len(list) : i < j => list[i].end < list[j].start

\* The list holds exactly the pages nobody has: none is handed out twice, none is lost.
Exact == UNION {PagesOf(list[i]) : i \in 1 .. Len(list)} = Pages \ used

\* The free list of a chunk is both, whatever was requested and given back.
FreeListExact == TypeOK /\ Canonical /\ Exact

-----------------------------------------------------------------------------
(* What the list promises, without the list: an allocator of aligned runs  *)
(* of pages that fails only if no run would do.                            *)
Promise == INSTANCE PageAllocator WITH free <- Pages \ used

\* The free list implements the allocator of page runs: a request is answered with the
\* lowest run that satisfies it, or with the page it asks for, and an error means that no
\* such run exists (address-ordered first fit, the comment at the head of the file).
ImplementsPageAllocator == Promise!Spec
=============================================================================
