-------------------------- MODULE MCVirtualMemory --------------------------
(***************************************************************************)
(* Instances of VirtualMemory for TLC: two processes, the first with two   *)
(* threads, in an address space of a few pages.                            *)
(***************************************************************************)
EXTENDS VirtualMemory

CONSTANTS p1, p2, t1, t2, t3

TwoProcesses == (t1 :> p1) @@ (t2 :> p1) @@ (t3 :> p2)
Start == (p1 :> <<1>>) @@ (p2 :> <<1, 1>>)

-----------------------------------------------------------------------------
(* Calls and programs *)

Run(page, size) == VMRange(page, page + size)
Mmap(addr, size, perms) == [op |-> "mmap", opt |-> Options(addr, size, perms, NoRange)]
Munmap(r) == [op |-> "munmap", range |-> r]
Mprotect(r, perms) == [op |-> "mprotect", range |-> r, perms |-> perms]
Mremap(r, size, flag, to) ==
    [op |-> "mremap", remap |-> [range |-> r, size |-> size, flag |-> flag, to |-> to]]

Often(calls) == [calls |-> calls, once |-> FALSE]
Once(calls) == [calls |-> calls, once |-> TRUE]
Program(a, b, c) == (t1 :> a) @@ (t2 :> b) @@ (t3 :> c)
Alone(calls) == Program(Often(calls), Once({}), Once({}))

Small == Mmap(AnyAddr, 1, "rw")     \* goes to a default chunk
Large == Mmap(AnyAddr, 3, "rw")     \* is a chunk of its own

\* One thread makes any sequence of calls: all splits of areas and chunks, the changes of
\* permissions and the merges before mremap, requests for an address.
Unmapping == Alone({Small, Large, Munmap(Run(2, 1))})
Protecting ==
    Alone({Small, Large, Munmap(Run(1, 3))}
          \cup {Mprotect(Run(2, 1), perms) : perms \in Perms})
Remapping ==
    Alone({Small, Large, Mremap(Run(1, 2), 1, "none", 0)}
          \cup {Mremap(Run(i, 1), 2, "maymove", 0) : i \in 1 .. 2})
Moving == Alone({Small, Mremap(Run(2, 1), 2, "none", 0), Mremap(Run(1, 1), 1, "fixed", 3)})
Fixed ==
    Alone({Small, Mmap(ForceAt(1), 2, "r"), Mmap(ForceAt(2), 2, "r"), Mmap(Need(3), 1, "rw")})

\* Calls of two threads and of two processes in every order; only one thread of a process
\* takes memory away from it.
Sharing ==
    Program(Once({Small, Munmap(Run(2, 1))}), Once({Small}), Once({Small}))
Racing ==
    Program(Once({Large, Munmap(Run(2, 1)), Mprotect(Run(1, 2), "r")}),
            Once({Mmap(Hint(2), 1, "rw")}), Once({}))

Programs == {Unmapping, Protecting, Remapping, Moving, Fixed, Sharing, Racing}

\* A fixed mmap over the last page of a chunk and the free page after it.
Spanning == {Alone({Small, Mmap(ForceAt(2), 2, "r"), Mmap(ForceAt(3), 2, "r")})}

\* A process with no area left in a default chunk, and another one that shares the chunk
\* and exits.
Emptying == {Program(Once({Small}), Once({}), Once({Small, Munmap(Run(2, 1)), Munmap(Run(3, 1))}))}

\* Two threads that both take memory away.
Contending ==
    {Program(Once({Large, Mprotect(Run(2, 1), "r")}), Once({Munmap(Run(2, 3)), Munmap(Run(1, 4)), Small}), Once({}))}
=============================================================================
