--------------------------- MODULE PageAllocator ---------------------------
(***************************************************************************)
(* An allocator of aligned runs of pages, as a set of free pages.          *)
(***************************************************************************)
EXTENDS Naturals

CONSTANTS NumPages, Sizes, Aligns
VARIABLES free, reply

NoRange == [start |-> 0, end |-> 0]     \* an error

Run(page, size) == page .. page + size - 1

\* The pages at which an aligned free run of this size begins.
Starts(size, align) ==
    {p \in 0 .. NumPages - 1 : p % align = 0 /\ Run(p, size) \subseteq free}

Init == free = 0 .. NumPages - 1 /\ reply = NoRange

Take(page, size) ==
    /\ free' = free \ Run(page, size)
    /\ reply' = [start |-> page, end |-> page + size]

Refuse == reply' = NoRange /\ UNCHANGED free

Lowest(size, align) ==
    IF Starts(size, align) = {} THEN Refuse
    ELSE Take(CHOOSE p \in Starts(size, align) : \A q \in Starts(size, align) : p <= q, size)

\* Without a wish the lowest run; a hint is honoured if it can be, a need or nothing.
Allocate(size, align, addr) ==
    \/ addr.kind = "any" /\ Lowest(size, align)
    \/ addr.kind # "any" /\ addr.page \in Starts(size, align) /\ Take(addr.page, size)
    \/ addr.kind = "hint" /\ addr.page % align = 0 /\ addr.page \notin Starts(size, align)
       /\ Lowest(size, align)
    \/ addr.kind = "hint" /\ addr.page % align # 0 /\ Refuse
    \/ addr.kind = "need" /\ addr.page \notin Starts(size, align) /\ Refuse

Release(page, size) ==
    /\ Run(page, size) \cap free = {}
    /\ Run(page, size) \subseteq 0 .. NumPages - 1
    /\ free' = free \cup Run(page, size)
    /\ reply' = [start |-> page, end |-> page + size]

Next ==
    \/ \E size \in Sizes, align \in Aligns :
          \E addr \in [kind : {"any", "hint", "need"}, page : 0 .. NumPages - 1] :
              Allocate(size, align, addr)
    \/ \E page \in 0 .. NumPages - 1, size \in 1 .. NumPages : Release(page, size)

Spec == Init /\ [][Next]_<<free, reply>>
=============================================================================
