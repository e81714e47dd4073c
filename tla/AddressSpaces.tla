--------------------------- MODULE AddressSpaces ---------------------------
(***************************************************************************)
(* What the memory manager promises to processes that share one range of   *)
(* addresses: every page belongs to one process at most, and only its      *)
(* owner maps, unmaps or protects it.                                      *)
(***************************************************************************)
EXTENDS Naturals

CONSTANTS NumPages, Processes
VARIABLE space      \* space[p][page]: the permissions, or "unmapped"

Pages == 0 .. NumPages - 1
Perms == {"rw", "r", "none"}

Init == space = [p \in Processes |-> [page \in Pages |-> "unmapped"]]

\* From old to new, p's pages get these permissions, or are unmapped.  Another process may
\* have none of the pages that are mapped.
Assign(old, new, p, pages, perms) ==
    /\ new = [old EXCEPT ![p] = [page \in Pages |-> IF page \in pages THEN perms ELSE @[page]]]
    /\ perms # "unmapped" => \A q \in Processes \ {p}, page \in pages : old[q][page] = "unmapped"

Changed(old, new, p) == {page \in Pages : new[p][page] # old[p][page]}

Next ==
    \E old \in {space}, new \in {space'}, p \in Processes, perms \in Perms \cup {"unmapped"} :
        Assign(old, new, p, Changed(old, new, p), perms)

Spec == Init /\ [][Next]_space
=============================================================================
