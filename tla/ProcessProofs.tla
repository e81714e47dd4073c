--------------------------- MODULE ProcessProofs ---------------------------
(***************************************************************************)
(* Proofs about Process: the tree of processes, the tables of pids and     *)
(* tids and the queues of wait4 stay consistent and no assertion fails, as *)
(* long as one thread of a process waits and only the first process calls  *)
(* execve.  Beyond that they do not hold: README.md tells what happens.    *)
(***************************************************************************)
EXTENDS ProcessTree, WellFoundedInduction
USE ZenonT(40)

LEMMA LeastNumber == LeastNumbers
<1> SUFFICES ASSUME NEW S \in SUBSET Nat, S # {}
             PROVE  \E n \in S : \A m \in S : n <= m
  BY DEF LeastNumbers
<1> DEFINE R == OpToRel(<, Nat)
<1>1. IsWellFoundedOn(R, Nat)
  BY NatLessThanWellFounded
<1>2. \A x, y \in Nat : x < y => <<x, y>> \in R
  BY DEF OpToRel
<1> HIDE DEF R
<1>3. PICK n \in S : \A m \in S : ~(<<m, n>> \in R)
  BY <1>1, WFMin
<1>4. \A m \in S : ~(m < n)
  BY <1>2, <1>3
<1>5. QED
  BY <1>4, SMT

-----------------------------------------------------------------------------
(* The end of execve *)

\* execve, second half: when its other threads have gone, the first process exits in favour
\* of its successor, the only one that is left.
LEMMA ExecExitStep ==
    ASSUME ProcInv, NEW t \in Threads, exit_process_for_execve(t)
    PROVE  ProcInv'
<1>1. /\ pc[t] = "exec_wait" /\ Of(t) = 1 /\ captured[t] = Idle /\ parent[1] = Idle
      /\ threads[1] = {t} /\ status[1] = "live" /\ pid[1] = 1
      /\ children[Idle] \in Seq(Processes) /\ Len(children[Idle]) > 0 /\ children[Idle][1] = 1
      /\ 1 \in Elements(children[Idle]) /\ pc[MainThread(1)] # "none"
  <2>1. pc[t] = "exec_wait" /\ Of(t) = 1 /\ captured[t] = Idle /\ parent[1] = Idle
    BY DEF exit_process_for_execve, ProcInv, ExecInv, Replacing
  <2>2. threads[1] = {t}
    BY <2>1 DEF exit_process_for_execve
  <2>3. status[1] = "live" /\ pc[MainThread(1)] # "none"
    BY <2>1, <2>2, Basics DEF ProcInv, ThreadsInv
  <2>4. pid[1] = 1 /\ Len(children[Idle]) > 0 /\ children[Idle][1] = 1 /\ 1 \in Elements(children[Idle])
    BY <2>1, <2>3, Basics DEF ProcInv, TreeInv, Built
  <2>5. children[Idle] \in Seq(Processes)
    BY Basics DEF ProcInv, TypeOK
  <2>6. QED
    BY <2>1, <2>2, <2>3, <2>4, <2>5
<1>2. PICK q \in Processes : q = fresh[t] /\ Successor(q) /\ pc[MainThread(q)] = "none"
  BY <1>1 DEF ProcInv, ExecInv, Replacing
<1>3. /\ q # Idle /\ q # 1 /\ parent[q] = Idle /\ status[q] = "live" /\ q \notin Elements(children[1])
      /\ Idle \in Processes /\ 1 \in Processes \ {Idle} /\ q \in Processes \ {1} /\ Idle # 1
  <2>1. q # Idle /\ q # 1 /\ Idle \in Processes /\ 1 \in Processes \ {Idle} /\ Idle # 1
    BY <1>2, Basics DEF Successor
  <2>2. parent[q] = Idle /\ status[q] = "live"
    BY <1>2 DEF ProcInv, ExecInv
  <2>3. \A c \in Elements(children[1]) : parent[c] = 1
    BY <2>1 DEF ProcInv, TreeInv
  <2>4. QED
    BY <2>1, <2>2, <2>3
<1>4. \A r \in Processes : Successor(r) => r = q
  <2>1. SUFFICES ASSUME NEW r \in Processes, Successor(r) PROVE r = q
    OBVIOUS
  <2>2. PICK u \in Threads : pc[u] \in Replacing /\ fresh[u] = r
    BY <1>1, <2>1 DEF ProcInv, ExecInv
  <2>3. Of(u) = 1 /\ pc[u] # "exec_replace"
    BY <1>1, <2>2 DEF ProcInv, ExecInv
  <2>4. u \in threads[1]
    BY <2>2, <2>3 DEF ProcInv, ThreadsInv, Inside, Replacing
  <2>5. QED
    BY <1>1, <1>2, <2>2, <2>4
<1>5. \A u \in Threads \ {t} : pc[u] \notin Replacing \cup {"exec"} /\ (Of(u) = 1 => pc[u] # "last")
  <2>1. SUFFICES ASSUME NEW u \in Threads, Of(u) = 1, pc[u] \in Replacing \cup {"exec", "last"} PROVE u = t
    BY DEF ProcInv, ExecInv
  <2>2. pc[u] # "exec_replace" /\ pc[u] # "last"
    BY <1>1, <2>1 DEF ProcInv, ExecInv, ThreadsInv
  <2>3. pc[u] \in Inside
    BY <2>1, <2>2 DEF Inside, Replacing
  <2>4. u \in threads[1]
    BY <2>1, <2>3 DEF ProcInv, ThreadsInv
  <2>5. QED
    BY <1>1, <2>4
<1>6. /\ threads' = [threads EXCEPT ![1] = {}]
      /\ threadTable' = ThreadTableAfter(t)
      /\ exit(1, q)
      /\ children' = RemoveChild(Adopted(1, q), Idle, pid[1])
      /\ waiters' = [waiters EXCEPT ![1] = <<>>]
      /\ pc' = [pc EXCEPT ![t] = "exec_replace"]
      /\ UNCHANGED <<pid, pgid, forced, processTable, filter, woken, result, captured, fresh, panicked>>
  <2>1. status[Idle] = "live"
    BY DEF ProcInv, ThreadsInv
  <2>2. ChildIndex(Idle, pid[1]) # 0
    <3>1. 1 \in Elements(children[Idle]) \cap HavePid(pid[1])
      BY <1>1, <1>3 DEF HavePid
    <3>2. FirstIn(children[Idle], HavePid(pid[1])) # 0
      BY <1>1, <3>1, FirstInIs, LeastNumber, SMT
    <3>3. QED
      BY <3>2 DEF ChildIndex
  <2>3. QED
    BY <1>1, <1>2, <2>1, <2>2 DEF exit_process_for_execve, Goto
<1>7. PICK c \in [Processes -> Seq(Processes)] :
         /\ c = Adopted(1, q)
         /\ c[1] = <<>> /\ OnceEach(c[q])
         /\ \A r \in Processes \ {1, q} : c[r] = children[r]
         /\ Elements(c[q]) = Elements(children[q]) \cup Elements(children[1])
  <2>1. PICK p \in Processes : p = 1
    BY <1>3
  <2>2. q \in Processes \ {p}
    BY <1>3, <2>1
  <2>3. PICK c \in [Processes -> Seq(Processes)] :
         /\ c = Adopted(p, q)
         /\ c[p] = <<>> /\ OnceEach(c[q])
         /\ \A r \in Processes \ {p, q} : c[r] = children[r]
         /\ Elements(c[q]) = Elements(children[q]) \cup Elements(children[p])
    BY <2>2, AdoptedIs
  <2>4. QED
    BY <2>1, <2>3
<1>8. PICK s \in Seq(Processes) :
         /\ s = SwapRemove(children[Idle], FirstIn(children[Idle], HavePid(pid[1])))
         /\ OnceEach(s) /\ Elements(s) = Elements(children[Idle]) \ {1}
  <2>1. OnceEach(children[Idle]) /\ pid \in [Processes -> Nat]
    BY <1>3 DEF ProcInv, TreeInv, TypeOK
  <2>2. QED
    BY <1>1, <1>3, <2>1, RemovedIs, LeastNumber, SMT
<1>9. children' = [c EXCEPT ![Idle] = s]
  <2>1. c[Idle] = children[Idle]
    BY <1>3, <1>7
  <2>2. children' = [c EXCEPT ![Idle] = SwapRemove(c[Idle], FirstIn(c[Idle], HavePid(pid[1])))]
    BY <1>6, <1>7 DEF RemoveChild
  <2>3. QED
    BY <1>8, <2>1, <2>2
<1>10. /\ children' \in [Processes -> Seq(Processes)] /\ children'[1] = <<>> /\ children'[Idle] = s
       /\ children'[q] = c[q]
       /\ \A r \in Processes \ {1, q, Idle} : children'[r] = children[r]
  BY <1>3, <1>7, <1>8, <1>9
<1>11. status'[1] = "zombie" /\ \A r \in Processes \ {1} : status'[r] = status[r]
  BY <1>3, <1>6 DEF exit, ProcInv, TypeOK
<1>12. ExitChildren(1, q, TRUE)
  <2>1. ASSUME NEW r \in Processes
        PROVE  OnceEach(children'[r]) /\ (~Built(r) => children'[r] = children[r])
    <3>1. OnceEach(children[r]) /\ OnceEach(<<>>)
      BY SMT DEF ProcInv, TreeInv, OnceEach
    <3>2. Built(1) /\ Built(Idle) /\ Built(q)
      BY <1>2 DEF Built, ProcInv, ThreadsInv, Successor
    <3>3. QED
      BY <1>7, <1>8, <1>10, <3>1, <3>2
  <2>2. ASSUME NEW r \in Processes \ {1}, NEW d
        PROVE  d \in Elements(children'[r]) <=>
                  /\ d \in Elements(children[r]) \/ (r = q /\ d \in Elements(children[1]))
                  /\ ~(TRUE /\ d = 1)
    <3>1. CASE r = Idle
      BY <1>3, <1>8, <1>10, <3>1
    <3>2. CASE r # Idle
      <4>1. 1 \notin Elements(children[r]) /\ 1 \notin Elements(children[1])
        BY <1>1, <1>3, <3>2, SMT DEF ProcInv, TreeInv
      <4>2. QED
        BY <1>7, <1>10, <3>2, <4>1
    <3>3. QED
      BY <3>1, <3>2
  <2>3. QED
    BY <1>10, <1>11, <2>1, <2>2 DEF ExitChildren
<1>13. /\ TreeInv'
       /\ \A r \in Processes : parent[r] # 1 => parent'[r] = parent[r]
       /\ \A r \in Processes \ {1} :
             r \in Elements(children'[parent'[r]]) <=> r \in Elements(children[parent[r]])
       /\ 1 \notin Elements(children'[parent'[1]])
  <2>1. PICK p \in Processes \ {Idle} : p = 1
    BY <1>3
  <2>2. /\ status[p] = "live" /\ q \in Processes \ {p} /\ status[q] = "live"
        /\ q \notin Elements(children[p]) /\ exit(p, q) /\ pid' = pid /\ ExitChildren(p, q, TRUE)
    BY <1>1, <1>3, <1>6, <1>12, <2>1
  <2>3. /\ TreeInv'
        /\ \A r \in Processes : parent[r] # p => parent'[r] = parent[r]
        /\ \A r \in Processes \ {p} :
              r \in Elements(children'[parent'[r]]) <=> r \in Elements(children[parent[r]])
        /\ p \notin Elements(children'[parent'[p]])
    BY <2>2, ExitTree
  <2>4. QED
    BY <2>1, <2>3
<1>14. /\ ThreadsInv' /\ pc[MainThread(1)] # "wait"
       /\ pc'[t] = "exec_replace" /\ \A u \in Threads \ {t} : pc'[u] = pc[u]
       /\ \A u \in Threads : pc'[u] = "none" <=> pc[u] = "none"
       /\ \A u \in Threads : pc'[u] = "wait" <=> pc[u] = "wait"
  <2>1. threads[1] \subseteq {t} /\ threads'[1] = {} /\ \A r \in Processes \ {1} : threads'[r] = threads[r]
    BY <1>1, <1>3, <1>6 DEF ProcInv, TypeOK
  <2>2. PICK l \in {"exited", "exec_replace"} : l = "exec_replace"
    OBVIOUS
  <2>3. /\ pc[t] \in {"last", "exec_wait"} /\ pc' = [pc EXCEPT ![t] = l]
        /\ threads[Of(t)] \subseteq {t} /\ threads'[Of(t)] = {}
        /\ \A r \in Processes \ {Of(t)} : threads'[r] = threads[r]
    BY <1>1, <1>6, <2>1, <2>2
  <2>4. /\ status'[Of(t)] = "zombie" /\ \A r \in Processes \ {Of(t)} : status'[r] = status[r]
        /\ \A u \in Threads \ {t} : Of(u) = Of(t) => pc[u] # "last"
    BY <1>1, <1>5, <1>11
  <2>5. /\ ThreadsInv' /\ pc[MainThread(Of(t))] # "wait"
        /\ pc'[t] = l /\ \A u \in Threads \ {t} : pc'[u] = pc[u]
        /\ \A u \in Threads : pc'[u] = "none" <=> pc[u] = "none"
        /\ \A u \in Threads : pc'[u] = "wait" <=> pc[u] = "wait"
    BY ONLY ProcInv, t \in Threads, l \in {"exited", "exec_replace"}, <2>3, <2>4, ExitThreads
  <2>6. QED
    BY <1>1, <2>2, <2>5
<1>15. TypeOK'
  <2>1. /\ status' \in [Processes -> {"none", "live", "zombie"}] /\ parent' \in [Processes -> Processes]
        /\ threads' \in [Processes -> SUBSET Threads]
        /\ \A r \in Processes : threads'[r] \subseteq threads[r]
    BY <1>3, <1>6 DEF ProcInv, TypeOK, exit
  <2>2. pc' \in [Threads -> Labels] /\ threadTable' \subseteq Pids \X (1 .. MaxThread)
    BY <1>6, OtherTids DEF ProcInv, TypeOK, Labels
  <2>3. waiters' \in [Processes -> Seq(Threads)] /\ \A r \in Processes : Elements(waiters'[r]) \subseteq Elements(waiters[r])
    <3>1. waiters \in [Processes -> Seq(Threads)] /\ <<>> \in Seq(Threads) /\ Elements(<<>>) = {}
      BY SMT DEF ProcInv, TypeOK, Elements
    <3>2. waiters' \in [Processes -> Seq(Threads)] /\ \A r \in Processes : waiters'[r] \in {waiters[r], <<>>}
      BY <1>3, <1>6, <3>1
    <3>3. QED
      BY <3>1, <3>2
  <2>4. QED
    BY <1>6, <1>10, <2>1, <2>2, <2>3 DEF ProcInv, TypeOK
<1>16. ExecInv'
  <2>1. \A r \in Processes : Successor(r)' <=> r = q
    <3>1. Successor(q)'
      BY <1>2, <1>3, <1>6, <1>11 DEF Successor, Built
    <3>2. \A r \in Processes : Successor(r)' => Successor(r)
      BY <1>6, <1>11 DEF Successor, Built
    <3>3. QED
      BY <1>4, <3>1, <3>2
  <2>2. parent'[1] = Idle /\ parent'[q] = Idle /\ status'[q] = "live" /\ pc'[MainThread(q)] = "none"
    BY <1>1, <1>2, <1>3, <1>11, <1>13, <1>14, Basics
  <2>3. \A u \in Threads : pc'[u] \in Replacing \cup {"exec"} => u = t
    BY <1>5, <1>14
  <2>4. pc'[t] \in Replacing /\ captured'[t] = Idle /\ fresh'[t] = q
    BY <1>1, <1>2, <1>6, <1>14 DEF Replacing
  <2>5. ASSUME NEW u \in Threads, pc'[u] \in Replacing
        PROVE  (/\ fresh[u] \in Processes /\ Successor(fresh[u])
                /\ pc[MainThread(fresh[u])] = "none")'
    <3>1. fresh'[u] = q
      BY <2>3, <2>4, <2>5
    <3>2. QED
      BY <2>1, <2>2, <3>1 DEF Successor, Built
  <2>6. \A u \in Threads : pc'[u] \in Replacing \cup {"exec"} => Of(u) = 1 /\ captured'[u] = Idle
    BY <1>1, <2>3, <2>4
  <2>7. ASSUME NEW r \in Processes, Successor(r)'
        PROVE  /\ parent'[r] = Idle
               /\ pc'[MainThread(r)] = "none" =>
                     status'[r] = "live" /\ \E u \in Threads : pc'[u] \in Replacing /\ fresh'[u] = r
               /\ status'[1] = "live" => pc'[MainThread(r)] = "none"
    BY <2>1, <2>2, <2>4, <2>7
  <2>8. /\ \A r, w \in Processes : Successor(r)' /\ Successor(w)' /\ status'[1] = "zombie" => r = w
        /\ \A u, w \in Threads : pc'[u] = "exec_replace" /\ pc'[w] = "exec_replace" => u = w
    BY <2>1, <2>3 DEF Replacing
  <2>9. QED
    BY <1>11, <2>2, <2>5, <2>6, <2>7, <2>8 DEF ExecInv
<1>17. TablesInv'
  <2>1. PICK p \in Processes \ {Idle}, kept \in BOOLEAN : p = 1 /\ kept
    BY <1>3
  <2>2. \A r \in Processes : Built(r)' <=> Built(r)
    BY <1>1, <1>11 DEF Built
  <2>3. \A r \in Processes \ {p} : InTable(r)' <=> InTable(r)
    <3>1. \A r \in Processes : pc'[MainThread(r)] = "none" <=> pc[MainThread(r)] = "none"
      BY <1>14, Basics
    <3>2. QED
      BY <1>11, <1>13, <2>1, <3>1 DEF InTable
  <2>4. InTable(p) /\ Of(t) = p /\ pc'[t] = "exec_replace"
    BY <1>1, <1>14, <2>1 DEF InTable
  <2>5. \A u \in Threads : pc[u] = "exec_replace" => pc'[u] = "exec_replace"
    BY <1>14
  <2>6. \A id \in Pids : MainTid(id) \in threadTable' <=> MainTid(id) \in threadTable
    BY <1>6, OtherTids DEF MainTid
  <2>7. QED
    BY <1>6, <2>1, <2>2, <2>3, <2>4, <2>5, <2>6, ExitTables
<1>18. WaitInv'
  <2>1. PICK p \in Processes : p = 1
    BY <1>3
  <2>2. /\ parent[p] = Idle /\ pc[MainThread(p)] # "wait" /\ pc[MainThread(q)] # "wait"
        /\ \A r \in Processes \ {p, q, Idle} : children'[r] = children[r]
        /\ \A r \in Processes \ {p} : status'[r] = status[r]
        /\ \A u \in Threads : pc'[u] = "wait" <=> pc[u] = "wait"
    BY <1>1, <1>2, <1>10, <1>11, <1>14, <2>1
  <2>3. /\ waiters' = [waiters EXCEPT ![p] = <<>>]
        /\ UNCHANGED <<pid, pgid, filter, woken, result>>
    BY <1>6, <2>1
  <2>4. QED
    BY ONLY ProcInv, p \in Processes, q \in Processes, <2>2, <2>3, ExitWait
<1>19. QED
  BY <1>6, <1>13, <1>14, <1>15, <1>16, <1>17, <1>18 DEF ProcInv

\* execve ends: the successor takes the pid over and runs.
LEMMA ExecReplaceStep ==
    ASSUME ProcInv, NEW t \in Threads, exec_replace(t)
    PROVE  ProcInv'
<1>1. pc[t] = "exec_replace" /\ Of(t) = 1 /\ status[1] = "zombie" /\ threads[1] = {} /\ 1 \in Processes \ {Idle}
  BY Basics, SMT DEF exec_replace, ProcInv, ExecInv, Replacing, ThreadsInv
<1>2. PICK q \in Processes : q = fresh[t] /\ Successor(q) /\ pc[MainThread(q)] = "none"
  BY <1>1, SMT DEF ProcInv, ExecInv, Replacing
<1>3. /\ q # Idle /\ q # 1 /\ pid[q] = 1 /\ status[q] = "live" /\ parent[q] = Idle
      /\ \A r \in Processes : Successor(r) => r = q
  BY <1>1, <1>2 DEF ProcInv, ExecInv, Successor
<1>4. PICK m \in Threads : m = MainThread(q) /\ Of(m) = q /\ m # t /\ pc[m] = "none" /\ m \in threads[q]
  BY <1>1, <1>2, <1>3, Basics DEF ProcInv, ThreadsInv
<1>5. /\ processTable' = [processTable EXCEPT ![1] = q]
      /\ threadTable' = threadTable \cup {MainTid(1)}
      /\ pc' = [pc EXCEPT ![t] = "exited", ![m] = "user"]
      /\ captured' = [captured EXCEPT ![t] = Idle]
      /\ fresh' = [fresh EXCEPT ![t] = NoProcess]
      /\ UNCHANGED <<status, pid, pgid, parent, children, threads, waiters, forced,
                     filter, woken, result, panicked>>
  BY <1>2, <1>3, <1>4 DEF exec_replace, procVars
<1>6. /\ pc \in [Threads -> Labels] /\ pc'[t] = "exited" /\ pc'[m] = "user"
      /\ \A u \in Threads \ {t, m} : pc'[u] = pc[u]
  BY <1>4, <1>5 DEF ProcInv, TypeOK
<1>7. \A r \in Processes : pc'[MainThread(r)] = "none" <=> pc[MainThread(r)] = "none" /\ r # q
  <2>1. \A r \in Processes : MainThread(r) \in Threads /\ (MainThread(r) = m <=> r = q)
    BY <1>4, Basics
  <2>2. QED
    BY <1>1, <1>4, <1>6, <2>1
<1>8. \A u \in Threads : pc'[u] = "wait" <=> pc[u] = "wait"
  BY <1>1, <1>4, <1>6
<1>9. TypeOK'
  <2>1. pc' \in [Threads -> Labels] /\ processTable' \in [Pids -> Processes \cup {NoProcess}]
    BY <1>5, <1>6, <1>1, Basics DEF ProcInv, TypeOK, Labels
  <2>2. threadTable' \subseteq Pids \X (1 .. MaxThread)
    BY <1>1, <1>5, Basics, BoundsAssumption, SMT DEF ProcInv, TypeOK, MainTid
  <2>3. captured' \in [Threads -> Processes] /\ fresh' \in [Threads -> Processes \cup {NoProcess}]
    BY <1>5, Basics DEF ProcInv, TypeOK
  <2>4. QED
    BY <1>5, <2>1, <2>2, <2>3 DEF ProcInv, TypeOK
<1>10. ThreadsInv'
  <2>1. ThreadsInv
    BY DEF ProcInv
  <2>2. ASSUME NEW u \in Threads
        PROVE  /\ Of(u) = Idle \/ ~Built(Of(u)) => pc'[u] = "none"
               /\ pc'[MainThread(Of(u))] = "none" => pc'[u] = "none"
               /\ pc'[u] \in Inside => u \in threads[Of(u)]
               /\ u \in threads[Of(u)] => pc'[u] \in Inside \cup {"none"}
               /\ pc'[u] = "last" => threads[Of(u)] = {} /\ status[Of(u)] = "live"
               /\ pc'[u] # "panic"
    <3>1. Of(u) \in Processes /\ (pc'[MainThread(Of(u))] = "none" => pc[MainThread(Of(u))] = "none" /\ Of(u) # q)
      BY <1>7, Basics
    <3>2. /\ Of(u) = Idle \/ ~Built(Of(u)) => pc[u] = "none"
          /\ pc[MainThread(Of(u))] = "none" => pc[u] = "none"
          /\ pc[u] \in Inside => u \in threads[Of(u)]
          /\ u \in threads[Of(u)] => pc[u] \in Inside \cup {"none"}
          /\ pc[u] = "last" => threads[Of(u)] = {} /\ status[Of(u)] = "live"
          /\ pc[u] # "panic"
      BY <2>1 DEF ThreadsInv
    <3>3. CASE u = t
      BY <1>1, <1>6, <3>1, <3>2, <3>3 DEF Inside
    <3>4. CASE u = m
      BY <1>3, <1>4, <1>6, <3>1, <3>4 DEF Inside, Built
    <3>5. CASE u # t /\ u # m
      BY <1>6, <3>1, <3>2, <3>5
    <3>6. QED
      BY <3>3, <3>4, <3>5
  <2>3. \A u, w \in Threads : pc'[u] = "last" /\ pc'[w] = "last" /\ Of(u) = Of(w) => u = w
    BY <1>6, <2>1, SMT DEF ThreadsInv
  <2>4. \A r \in Processes \ {Idle} :
           status[r] = "live" /\ pc'[MainThread(r)] = "none" => MainThread(r) \in threads[r]
    BY <1>7, <2>1 DEF ThreadsInv
  <2>5. QED
    BY <1>5, <2>1, <2>2, <2>3, <2>4 DEF ThreadsInv, Built
<1>11. \A u \in Threads : pc'[u] \notin Replacing \cup {"exec"}
  <2>1. SUFFICES ASSUME NEW u \in Threads \ {t, m}, pc[u] \in Replacing \cup {"exec"} PROVE FALSE
    BY <1>6 DEF Replacing
  <2>2. Of(u) = 1 /\ pc[u] # "exec_replace"
    BY <1>1, <2>1, SMT DEF ProcInv, ExecInv
  <2>3. u \in threads[1]
    BY <2>1, <2>2 DEF ProcInv, ThreadsInv, Inside, Replacing
  <2>4. QED
    BY <1>1, <2>3
<1>12. ExecInv'
  <2>1. \A r \in Processes : Successor(r)' => r = q
    BY <1>3, <1>5 DEF Successor, Built
  <2>2. parent'[1] = Idle /\ parent'[q] = Idle /\ pc'[MainThread(q)] # "none" /\ status'[1] # "live"
    BY <1>1, <1>3, <1>5, <1>7 DEF ProcInv, ExecInv
  <2>3. \A u \in Threads : pc'[u] \notin Replacing /\ pc'[u] # "exec" /\ pc'[u] # "exec_replace"
    BY <1>11 DEF Replacing
  <2>4. QED
    BY <2>1, <2>2, <2>3 DEF ExecInv
<1>13. TreeInv' /\ WaitInv'
  BY <1>5, <1>8, QuietTree, QuietWait DEF ProcInv
<1>14. TablesInv'
  <2>1. TablesInv /\ processTable \in [Pids -> Processes \cup {NoProcess}] /\ 1 \in Pids
    BY <1>1, Basics DEF ProcInv, TypeOK
  <2>2. InTable(q)' /\ \A r \in Processes \ {q} : InTable(r)' <=> InTable(r)
    BY <1>3, <1>5, <1>7 DEF InTable
  <2>3. processTable'[1] = q /\ \A id \in Pids \ {1} : processTable'[id] = processTable[id]
    BY <1>5, <2>1
  <2>4. ASSUME NEW r \in Processes \ {Idle}, InTable(r)' PROVE processTable'[pid'[r]] = r
    <3>1. CASE r = q
      BY <1>3, <1>5, <2>3, <3>1
    <3>2. CASE r # q
      <4>1. InTable(r) /\ Built(r)
        BY <2>2, <2>4, <3>2 DEF InTable, Built
      <4>2. processTable[pid[r]] = r /\ pid[r] \in {r, 1}
        BY <2>1, <4>1 DEF TablesInv, ProcInv, TreeInv
      <4>3. pid[r] # 1
        <5>1. SUFFICES ASSUME pid[r] = 1 PROVE FALSE
          OBVIOUS
        <5>2. r = 1
          BY <1>3, <3>2, <4>1, <5>1 DEF Successor
        <5>3. 1 \in Elements(children[parent[1]]) /\ parent[1] \in Processes
          BY <1>1, <4>1, <5>2 DEF InTable, ProcInv, TypeOK
        <5>4. status[1] = "live"
          BY <5>1, <5>2, <5>3, SMT DEF ProcInv, TreeInv
        <5>5. QED
          BY <1>1, <5>4
      <4>4. pid[r] \in Pids
        BY <4>2, <4>3, Basics
      <4>5. QED
        BY <1>5, <2>3, <4>2, <4>3, <4>4
    <3>3. QED
      BY <3>1, <3>2
  <2>5. ASSUME NEW id \in Pids, processTable'[id] # NoProcess
        PROVE  (LET r == processTable[id] IN
                /\ r # Idle /\ Built(r) /\ pid[r] = id
                /\ InTable(r) \/ \E u \in Threads : Of(u) = r /\ pc[u] = "exec_replace")'
    <3>1. CASE id = 1
      <4>1. processTable'[id] = q /\ Built(q)' /\ InTable(q)' /\ pid'[q] = id
        BY <1>3, <1>5, <2>2, <2>3, <3>1 DEF Built
      <4>2. QED
        BY <1>3, <4>1 DEF Built, InTable
    <3>2. CASE id # 1
      <4>1. processTable'[id] = processTable[id] /\ processTable[id] \in Processes
        BY <2>1, <2>3, <2>5, <3>2
      <4> PICK r \in Processes : r = processTable[id]
        BY <4>1
      <4>2. /\ r # Idle /\ Built(r) /\ pid[r] = id
            /\ InTable(r) \/ \E u \in Threads : Of(u) = r /\ pc[u] = "exec_replace"
        BY <2>1, <2>5, <4>1 DEF TablesInv
      <4>3. r # q /\ pid[1] = 1
        BY <1>1, <1>3, <3>2, <4>2 DEF ProcInv, TreeInv, Built
      <4>4. InTable(r)
        <5>1. ASSUME NEW u \in Threads, Of(u) = r, pc[u] = "exec_replace" PROVE FALSE
          <6>1. r = 1
            BY <5>1 DEF ProcInv, ExecInv, Replacing
          <6>2. QED
            BY <3>2, <4>2, <4>3, <6>1
        <5>2. QED
          BY <4>2, <5>1
      <4>5. InTable(r)' /\ Built(r)' /\ pid'[r] = id
        BY <1>5, <2>2, <4>2, <4>3, <4>4 DEF Built
      <4>6. QED
        BY <4>1, <4>2, <4>5 DEF Built, InTable
    <3>3. QED
      BY <3>1, <3>2
  <2>6. \A id \in Pids : (processTable'[id] # NoProcess) <=> (MainTid(id) \in threadTable')
    <3>1. \A id \in Pids : MainTid(id) \in threadTable' <=> MainTid(id) \in threadTable \/ id = 1
      BY <1>5 DEF MainTid
    <3>2. q # NoProcess
      BY Basics
    <3>3. QED
      BY <2>1, <2>3, <3>1, <3>2 DEF TablesInv
  <2>7. QED
    BY <2>4, <2>5, <2>6 DEF TablesInv, MainTid
<1>15. QED
  BY <1>5, <1>9, <1>10, <1>12, <1>13, <1>14 DEF ProcInv

-----------------------------------------------------------------------------
(* The invariant and what it implies *)

LEMMA InitInv ==
    ASSUME Init
    PROVE  ProcInv
<1>1. /\ Idle = 0 /\ 0 \in Processes /\ 1 \in Processes /\ 1 \in Pids /\ Processes \subseteq Nat
      /\ Pids = Processes \ {Idle} /\ NoProcess \notin Processes
      /\ \A p \in Processes : MainThread(p) \in Threads /\ Of(MainThread(p)) = p
      /\ \A t \in Threads : Of(t) \in Processes
  BY Basics DEF Idle
<1>2. /\ \A p \in Processes : status[p] = IF p <= 1 THEN "live" ELSE "none"
      /\ \A p \in Processes : pid[p] = (IF p = 1 THEN 1 ELSE 0) /\ parent[p] = Idle
      /\ \A p \in Processes : threads[p] = IF p = 1 THEN {MainThread(1)} ELSE {}
      /\ \A t \in Threads : pc[t] = IF t = MainThread(1) THEN "user" ELSE "none"
  BY DEF Init
<1>3. /\ \A p \in Processes : children[p] = IF p = Idle THEN <<1>> ELSE <<>>
      /\ \A p \in Processes : waiters[p] = <<>>
      /\ \A t \in Threads : ~woken[t]
      /\ \A i \in Pids : processTable[i] = IF i = 1 THEN 1 ELSE NoProcess
      /\ threadTable = {MainTid(1)} /\ panicked = {}
  BY DEF Init
<1>4. Elements(<<>>) = {} /\ Elements(<<1>>) = {1} /\ OnceEach(<<>>) /\ OnceEach(<<1>>)
      /\ Len(<<1>>) > 0 /\ <<1>>[1] = 1
  BY SMT DEF Elements, OnceEach
<1>5. TypeOK
  <2>1. /\ status \in [Processes -> {"none", "live", "zombie"}] /\ pid \in [Processes -> Nat]
        /\ pgid \in [Processes -> Nat] /\ parent \in [Processes -> Processes]
        /\ forced \in [Processes -> BOOLEAN]
    BY <1>1 DEF Init
  <2>2. children \in [Processes -> Seq(Processes)] /\ waiters \in [Processes -> Seq(Threads)]
    <3>1. <<1>> \in Seq(Processes) /\ <<>> \in Seq(Processes) /\ <<>> \in Seq(Threads)
      BY <1>1, SMT
    <3>2. QED
      BY <3>1 DEF Init
  <2>3. threads \in [Processes -> SUBSET Threads]
    BY <1>1 DEF Init
  <2>4. \A p \in Processes : \A t \in threads[p] \cup Elements(waiters[p]) : Of(t) = p
    BY <1>1, <1>2, <1>3, <1>4, SMT
  <2>5. /\ processTable \in [Pids -> Processes \cup {NoProcess}]
        /\ threadTable \subseteq Pids \X (1 .. MaxThread)
    BY <1>1, BoundsAssumption, SMT DEF Init, MainTid
  <2>6. /\ pc \in [Threads -> Labels] /\ filter \in [Threads -> Filters] /\ woken \in [Threads -> BOOLEAN]
        /\ result \in [Threads -> Pids \cup {NoPid}] /\ captured \in [Threads -> Processes]
        /\ fresh \in [Threads -> Processes \cup {NoProcess}] /\ panicked \subseteq STRING
    BY <1>1 DEF Init, Labels, Filters
  <2>7. QED
    BY <2>1, <2>2, <2>3, <2>4, <2>5, <2>6 DEF TypeOK
<1>6. MainThread(1) \in Threads /\ Of(MainThread(1)) = 1 /\ Idle # 1
      /\ \A p \in Processes : MainThread(p) = MainThread(1) => p = 1
  BY <1>1
<1>7. ThreadsInv
  <2>1. \A t \in Threads : pc[t] \in {"user", "none"} /\ (pc[t] = "user" <=> t = MainThread(1))
    BY <1>2
  <2>2. \A t \in Threads : t \in threads[Of(t)] <=> t = MainThread(1)
    <3>1. SUFFICES ASSUME NEW t \in Threads PROVE t \in threads[Of(t)] <=> t = MainThread(1)
      OBVIOUS
    <3>2. Of(t) \in Processes
      BY <1>1
    <3>3. threads[Of(t)] = IF Of(t) = 1 THEN {MainThread(1)} ELSE {}
      BY <1>2, <3>2
    <3>4. QED
      BY <1>6, <3>3
  <2>3. status[Idle] = "live" /\ status[1] = "live" /\ threads[Idle] = {}
    BY <1>1, <1>2, SMT
  <2>4. \A q \in Processes : status[q] # "live" => threads[q] = {}
    BY <1>1, <1>2, SMT
  <2>5. \A q \in Processes \ {Idle} :
          status[q] = "live" /\ pc[MainThread(q)] = "none" => MainThread(q) \in threads[q]
    <3>1. \A q \in Processes \ {Idle} : status[q] = "live" => q = 1
      BY <1>1, <1>2, SMT
    <3>2. QED
      BY <1>6, <2>1, <3>1
  <2>6. \A t \in Threads :
          /\ Of(t) = Idle \/ ~Built(Of(t)) => pc[t] = "none"
          /\ pc[MainThread(Of(t))] = "none" => pc[t] = "none"
    BY <1>6, <2>1, <2>3 DEF Built
  <2>7. QED
    BY <2>1, <2>2, <2>3, <2>4, <2>5, <2>6 DEF ThreadsInv, Built, Inside
<1>8. ExecInv
  <2>1. \A q \in Processes : ~Successor(q)
    BY <1>2, SMT DEF Successor
  <2>2. \A t \in Threads : pc[t] \notin Replacing /\ pc[t] # "exec" /\ pc[t] # "exec_replace"
    BY <1>2 DEF Replacing
  <2>3. parent[1] = Idle
    BY <1>1, <1>2
  <2>4. QED
    BY <2>1, <2>2, <2>3 DEF ExecInv
<1>9. TreeInv
  <2>1. \A q \in Processes \ {Idle} : Built(q) => q = 1 /\ pid[q] = 1 /\ parent[q] = Idle
    <3>1. \A q \in Processes \ {Idle} : Built(q) => q = 1
      BY <1>1, <1>2, SMT DEF Built
    <3>2. pid[1] = 1 /\ parent[1] = Idle
      BY <1>1, <1>2
    <3>3. QED
      BY <3>1, <3>2
  <2>2. Built(Idle) /\ Built(1) /\ status[1] = "live" /\ status[Idle] = "live" /\ parent[1] = Idle
    BY <1>1, <1>2, SMT DEF Built
  <2>3. \A p \in Processes : OnceEach(children[p]) /\ (~Built(p) => children[p] = <<>>)
    BY <1>3, <1>4, <2>2
  <2>4. \A p \in Processes : \A c \in Elements(children[p]) : c = 1 /\ p = Idle
    BY <1>3, <1>4
  <2>5. \A q \in Processes \ {Idle} : status[q] = "live" => q = 1
    BY <1>1, <1>2, SMT
  <2>6. children[Idle] = <<1>>
    BY <1>1, <1>3
  <2>7. QED
    BY <1>4, <1>6, <2>1, <2>2, <2>3, <2>4, <2>5, <2>6 DEF TreeInv
<1>10. TablesInv
  <2>1. InTable(1) /\ \A q \in Processes \ {Idle} : InTable(q) => q = 1
    BY <1>1, <1>2, <1>6, SMT DEF InTable
  <2>2. pid[1] = 1 /\ processTable[1] = 1 /\ Built(1)
    BY <1>1, <1>2, <1>3, SMT DEF Built
  <2>3. \A id \in Pids : (processTable[id] # NoProcess <=> id = 1) /\ (MainTid(id) \in threadTable <=> id = 1)
    BY <1>1, <1>3 DEF MainTid
  <2>4. QED
    BY <1>6, <2>1, <2>2, <2>3 DEF TablesInv
<1>11. WaitInv
  BY <1>1, <1>2, <1>3 DEF WaitInv, Asleep
<1>12. QED
  BY <1>3, <1>5, <1>7, <1>8, <1>9, <1>10, <1>11 DEF ProcInv

LEMMA KernelStep ==
    ASSUME ProcInv, NEW t \in Threads, Kernel(t)
    PROVE  ProcInv'
  BY WokenStep, WakeAllStep, ExitCallStep, ThreadExitStep, LeftStep, ExitToIdleStep, ExitToParentStep,
     ExecBuildStep, ExecExitStep, ExecReplaceStep, LeastNumber DEF Kernel

LEMMA NextInv ==
    ASSUME OnlyMainWaits, OnlyFirstExecs, ProcInv, [Next]_vars
    PROVE  ProcInv'
<1>1. ASSUME NEW t \in Threads, NEW f \in WaitFilters[t[2]], Wait4Reap(t, f) \/ Wait4Sleep(t, f)
      PROVE  ProcInv'
  BY <1>1, ReapStep, SleepStep, LeastNumber
<1>2. ASSUME NEW t \in Threads,
             do_exit_group(t) \/ handle_fatal_signal(t) \/ do_exit(t) \/ do_exec(t)
      PROVE  ProcInv'
  BY <1>2, ExitCallStep, FatalSignalStep, ExecCallStep
<1>3. ASSUME NEW t \in Threads, do_spawn(t) \/ do_clone(t)
      PROVE  ProcInv'
  BY <1>3, SpawnStep, CloneStep, LeastNumber
<1>4. CASE idle_reap_zombie_children
  BY <1>4, IdleReapStep, LeastNumber
<1>5. CASE UNCHANGED vars
  <2>1. UNCHANGED <<status, pid, pgid, parent, children, threads, waiters, forced, processTable,
                    threadTable, pc, filter, woken, result, captured, fresh, panicked>>
    BY <1>5 DEF vars, procVars, tables, threadVars
  <2>2. TypeOK'
    BY <2>1 DEF ProcInv, TypeOK
  <2>3. QuietLabels
    BY <2>1 DEF QuietLabels, ProcInv, ExecInv
  <2>4. ThreadsInv' /\ ExecInv' /\ TreeInv' /\ TablesInv' /\ WaitInv'
    BY <2>1, <2>3, QuietThreads, QuietExec, QuietTree, QuietTables, QuietWait DEF ProcInv
  <2>5. QED
    BY <2>1, <2>2, <2>4 DEF ProcInv
<1>6. QED
  BY <1>1, <1>2, <1>3, <1>4, <1>5, KernelStep DEF Next

\* What the invariant says of the properties of Process.
LEMMA InvImplies ==
    ASSUME ProcInv
    PROVE  ProcessesConsistent /\ NoMissedExit
<1>1. TypeOK /\ AssertionsHold
  BY DEF ProcInv, AssertionsHold
<1>2. TreeConsistent
  <2>1. \A q \in Processes \ {Idle} : status[q] = "live" =>
           status[parent[q]] = "live" /\ q \in Elements(children[parent[q]])
    BY DEF ProcInv, TreeInv
  <2>2. ASSUME NEW p \in Processes, NEW i \in DOMAIN children[p], NEW j \in DOMAIN children[p]
        PROVE  (children[p][i] = children[p][j] => i = j) /\ parent[children[p][i]] = p
    <3>1. children[p] \in Seq(Processes) /\ DOMAIN children[p] = 1 .. Len(children[p])
      BY SMT DEF ProcInv, TypeOK
    <3>2. OnceEach(children[p]) /\ \A c \in Elements(children[p]) : parent[c] = p
      BY DEF ProcInv, TreeInv
    <3>3. children[p][i] \in Elements(children[p])
      BY DEF Elements
    <3>4. QED
      BY <3>1, <3>2, <3>3 DEF OnceEach
  <2>3. QED
    BY <2>1, <2>2 DEF TreeConsistent, Children
<1>3. TablesConsistent
  <2>1. ASSUME NEW q \in Processes \ {Idle}, status[q] = "live", ~Building(q)
        PROVE  processTable[pid[q]] = q
    <3>1. InTable(q)
      BY <2>1 DEF InTable, Building
    <3>2. QED
      BY <3>1 DEF ProcInv, TablesInv
  <2>2. \A id \in Pids : (processTable[id] # NoProcess) <=> (MainTid(id) \in threadTable)
    BY DEF ProcInv, TablesInv
  <2>3. ASSUME NEW id \in Pids, processTable[id] # NoProcess
        PROVE  LET p == processTable[id] IN
               \/ status[p] = "live"
               \/ p \in Children(parent[p])
               \/ \E t \in Threads : Of(t) = p /\ pc[t] = "exec_replace"
    <3>1. LET p == processTable[id] IN
          InTable(p) \/ \E t \in Threads : Of(t) = p /\ pc[t] = "exec_replace"
      BY <2>3 DEF ProcInv, TablesInv
    <3>2. QED
      BY <3>1 DEF InTable, Children
  <2>4. QED
    BY <2>1, <2>2, <2>3 DEF TablesConsistent
<1>4. NoMissedExit
  <2>1. SUFFICES ASSUME NEW t \in Threads, Asleep(t)
                 PROVE  /\ t \in Elements(waiters[Of(t)])
                        /\ ~\E c \in Elements(children[Of(t)]) : Matches(filter[t], c) /\ status[c] = "zombie"
    BY DEF NoMissedExit, Asleep, Children
  <2>2. Of(t) \in Processes /\ t = MainThread(Of(t))
    BY <2>1, Basics DEF ProcInv, WaitInv, Asleep
  <2>3. waiters[Of(t)] = <<t>>
    BY <2>1, <2>2 DEF ProcInv, WaitInv
  <2>4. t \in Elements(waiters[Of(t)])
    BY <2>3, SMT DEF Elements
  <2>5. QED
    BY <2>1, <2>4 DEF ProcInv, WaitInv
<1>5. QED
  BY <1>1, <1>2, <1>3, <1>4 DEF ProcessesConsistent

LEMMA ProcInvHolds ==
    ASSUME OnlyMainWaits, OnlyFirstExecs
    PROVE  Spec => []ProcInv
<1>1. Init => ProcInv
  BY InitInv
<1>2. ProcInv /\ [Next]_vars => ProcInv'
  BY NextInv
<1>3. QED
  BY <1>1, <1>2, PTL DEF Spec

\* As long as one thread of a process waits and only the first process calls execve, the tree
\* of processes and the tables of pids and tids stay consistent through every interleaving of
\* spawn, clone, exit, wait4 and execve, and no expect, unwrap or debug_assert of exit_process,
\* free_zombie_child, build and exit_process_for_execve fails.
THEOREM ProcessesSafe ==
    ASSUME OnlyMainWaits, OnlyFirstExecs
    PROVE  Spec => []ProcessesConsistent
<1>1. ProcInv => ProcessesConsistent
  BY InvImplies
<1>2. QED
  BY <1>1, ProcInvHolds, PTL

\* Under the same conditions no wait4 sleeps while a child it waits for is a zombie: the queue
\* holds whoever sleeps, and do_wait4 registers the waiter in the critical section in which
\* it looked for zombies.
THEOREM ExitNotMissed ==
    ASSUME OnlyMainWaits, OnlyFirstExecs
    PROVE  Spec => []NoMissedExit
<1>1. ProcInv => NoMissedExit
  BY InvImplies
<1>2. QED
  BY <1>1, ProcInvHolds, PTL
=============================================================================

