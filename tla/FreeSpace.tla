----------------------------- MODULE FreeSpace -----------------------------
(***************************************************************************)
(* The free list of the memory manager: vm/free_space_manager.rs over the  *)
(* ranges of vm/vm_range.rs.  A range is a half-open interval of pages.    *)
(* The list is a Vec of ranges in address order and is searched first fit. *)
(*                                                                         *)
(* The operations are operators on a list, so that the manager and every   *)
(* multi-VMA chunk can have a list of their own.                           *)
(***************************************************************************)
EXTENDS Naturals, Sequences

VMRange(start, end) == [start |-> start, end |-> end]
Size(r) == r.end - r.start
PagesOf(r) == r.start .. r.end - 1
ContainsPage(r, page) == r.start <= page /\ page < r.end
SupersetOf(r, s) == r.start <= s.start /\ s.end <= r.end

MaxOf(a, b) == IF a < b THEN b ELSE a
MinOf(a, b) == IF a < b THEN a ELSE b

OverlapWith(r, s) == MaxOf(r.start, s.start) < MinOf(r.end, s.end)
Intersect(r, s) == VMRange(MaxOf(r.start, s.start), MinOf(r.end, s.end))
ContiguousWith(r, s) == r.start = s.end \/ r.end = s.start

\* VMRange::subtract: the zero, one or two non-empty parts of r outside s.
Subtract(r, s) ==
    IF ~OverlapWith(r, s)
    THEN IF Size(r) = 0 THEN <<>> ELSE <<r>>
    ELSE (IF r.start < s.start THEN <<VMRange(r.start, s.start)>> ELSE <<>>)
         \o (IF s.end < r.end THEN <<VMRange(s.end, r.end)>> ELSE <<>>)

\* The first of these indices, 0 if there is none.
FirstOf(S) == IF S = {} THEN 0 ELSE CHOOSE i \in S : \A j \in S : i <= j

\* Entries i to j of the list give way to new ones.
Splice(list, i, j, new) == SubSeq(list, 1, i - 1) \o new \o SubSeq(list, j + 1, Len(list))

-----------------------------------------------------------------------------
(* find_free_range_internal.  An address is a VMMapAddr: any page, a hint, *)
(* a need or a force.  The last two are the same to the free list.         *)

AnyAddr == [kind |-> "any", page |-> 0]
Hint(page) == [kind |-> "hint", page |-> page]
Need(page) == [kind |-> "need", page |-> page]
ForceAt(page) == [kind |-> "force", page |-> page]
Exactly(addr) == addr.kind \in {"need", "force"}

AlignUp(page, align) == ((page + align - 1) \div align) * align

Room(r, page, size) == ContainsPage(r, page) /\ r.end - page >= size

\* Mutant: the alignment is applied after the range is chosen.
FirstFitBeforeAlign(list, size, align) == FirstOf({i \in 1 .. Len(list) : Size(list[i]) >= size})

\* First fit: the lowest range in which an aligned run of this size fits.
FirstFit(list, size, align) ==
    FirstOf({i \in 1 .. Len(list) : AlignUp(list[i].start, align) + size <= list[i].end})

\* The range that holds a hint, if it has room for the request.
HintFit(list, size, page) == FirstOf({i \in 1 .. Len(list) : Room(list[i], page, size)})

\* The first large enough range that ends after the address decides.
NeedFit(list, size, page) ==
    LET i == FirstOf({k \in 1 .. Len(list) : Size(list[k]) >= size /\ page < list[k].end})
    IN  IF i # 0 /\ Room(list[i], page, size) THEN i ELSE 0

\* The index of the range chosen (0: EINVAL or ENOMEM) and the part taken from it.
Found(list, size, align, addr) ==
    LET fit == FirstFit(list, size, align)
        hit == IF Exactly(addr) THEN NeedFit(list, size, addr.page)
                                     ELSE HintFit(list, size, addr.page)
        first == [index |-> fit, start |-> IF fit = 0 THEN 0 ELSE AlignUp(list[fit].start, align)]
        exact == [index |-> hit, start |-> addr.page]
    IN  CASE addr.kind = "any" -> first
          [] addr.kind # "any" /\ addr.page % align # 0 -> [index |-> 0, start |-> 0]
          [] addr.kind = "hint" /\ addr.page % align = 0 -> IF hit # 0 THEN exact ELSE first
          [] Exactly(addr) /\ addr.page % align = 0 -> exact

\* free_list_update_range: what is left of entry i takes its place.
free_list_update_range(list, i, r) == Splice(list, i, i, Subtract(list[i], r))

-----------------------------------------------------------------------------
(* add_range_back_to_free_manager *)

\* Mutant: a range between two others is inserted without joining the one after it.
InsertBetweenJoiningLeft(list, i, r) ==
    IF ContiguousWith(r, list[i]) THEN Splice(list, i, i, <<VMRange(list[i].start, r.end)>>)
    ELSE Splice(list, i + 1, i, <<r>>)

InsertBetween(list, i, r) ==
    LET left  == ContiguousWith(r, list[i])
        right == ContiguousWith(r, list[i + 1])
    IN  CASE left /\ right -> Splice(list, i, i + 1, <<VMRange(list[i].start, list[i + 1].end)>>)
          [] left /\ ~right -> Splice(list, i, i, <<VMRange(list[i].start, r.end)>>)
          [] ~left /\ right -> Splice(list, i + 1, i + 1, <<VMRange(r.start, list[i + 1].end)>>)
          [] ~left /\ ~right -> Splice(list, i + 1, i, <<r>>)

\* The gap the range falls into (0: there is none and the list is left as it is).
GapFor(list, r) ==
    FirstOf({i \in 1 .. Len(list) - 1 : list[i].end <= r.start /\ r.end <= list[i + 1].start})

add_range_back_to_free_manager(list, r) ==
    LET n == Len(list) IN
    CASE n = 0 -> <<r>>
      [] n > 0 /\ r.end = list[1].start -> Splice(list, 1, 1, <<VMRange(r.start, list[1].end)>>)
      [] n > 0 /\ r.end < list[1].start -> Splice(list, 1, 0, <<r>>)
      [] n > 0 /\ r.end > list[1].start /\ r.start = list[n].end ->
            Splice(list, n, n, <<VMRange(list[n].start, r.end)>>)
      [] n > 0 /\ r.end > list[1].start /\ r.start > list[n].end -> Splice(list, n + 1, n, <<r>>)
      [] n > 0 /\ r.end > list[1].start /\ r.start < list[n].end ->
            IF GapFor(list, r) = 0 THEN list ELSE InsertBetween(list, GapFor(list, r), r)

is_free_range(list, r) == \E i \in 1 .. Len(list) : SupersetOf(list[i], r)
=============================================================================
