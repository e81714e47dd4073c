---------------------------- MODULE ProcessTree ----------------------------
(***************************************************************************)
(* Proofs about Process, second part: the steps by which a process is      *)
(* built, by spawn or execve, and exits keep the invariant of ProcessSteps.*)
(***************************************************************************)
EXTENDS ProcessSteps
USE ZenonT(40)

(* Building a process *)

LEMMA NextObjectIs ==
    ASSUME LeastNumbers, ProcInv, CanBuild
    PROVE  NextObject \in Processes /\ status[NextObject] = "none"
<1> DEFINE S == {q \in Processes : status[q] = "none"}
<1>1. S \in SUBSET Nat /\ S # {}
  BY Basics DEF CanBuild
<1>2. PICK n \in S : \A m \in S : n <= m
  BY <1>1 DEF LeastNumbers
<1>3. n \in Processes /\ status[n] = "none" /\ (n = 0 \/ status[n - 1] # "none")
  <2>1. n \in Processes /\ status[n] = "none" /\ n \in Nat
    BY <1>1, <1>2
  <2>2. n # 0 => n - 1 \in Processes /\ n - 1 < n
    BY <2>1, BoundsAssumption, SMT DEF Processes
  <2>3. n # 0 => n - 1 \notin S
    BY <1>1, <1>2, <2>1, <2>2, SMT
  <2>4. QED
    BY <2>1, <2>2, <2>3
<1>4. QED
  BY <1>3, Zenon DEF NextObject

\* The children of a waiting process: its zombies stay the same.
LEMMA TreeWait ==
    ASSUME ProcInv, UNCHANGED <<waiters, filter, woken, result>>,
           \A u \in Threads : pc'[u] = "wait" <=> pc[u] = "wait",
           \A p \in Processes : pc[MainThread(p)] = "wait" =>
              /\ \A d : (d \in Elements(children'[p]) /\ status'[d] = "zombie")
                           <=> (d \in Elements(children[p]) /\ status[d] = "zombie")
              /\ \A d \in Elements(children[p]) : pid'[d] = pid[d] /\ pgid'[d] = pgid[d]
    PROVE  WaitInv'
<1>1. WaitInv
  BY DEF ProcInv
<1>2. \A u \in Threads : Asleep(u)' <=> Asleep(u)
  BY DEF Asleep
<1>3. ASSUME NEW u \in Threads, pc[u] = "wait"
      PROVE  /\ \A d : (d \in Elements(children'[Of(u)]) /\ status'[d] = "zombie")
                          <=> (d \in Elements(children[Of(u)]) /\ status[d] = "zombie")
             /\ \A d \in Elements(children[Of(u)]) : pid'[d] = pid[d] /\ pgid'[d] = pgid[d]
  <2>1. Of(u) \in Processes /\ u = MainThread(Of(u))
    BY <1>1, <1>3, Basics DEF WaitInv
  <2>2. QED
    BY <1>3, <2>1
<1>4. ASSUME NEW u \in Threads, Asleep(u)'
      PROVE  ~\E d \in Elements(children'[Of(u)]) : Matches(filter[u], d)' /\ status'[d] = "zombie"
  <2>1. SUFFICES ASSUME NEW d \in Elements(children'[Of(u)]), Matches(filter[u], d)', status'[d] = "zombie"
                 PROVE  FALSE
    OBVIOUS
  <2>2. pc[u] = "wait" /\ Asleep(u)
    BY <1>2, <1>4 DEF Asleep
  <2>3. d \in Elements(children[Of(u)]) /\ status[d] = "zombie" /\ pid'[d] = pid[d] /\ pgid'[d] = pgid[d]
    BY <1>3, <2>1, <2>2
  <2>4. Matches(filter[u], d)
    BY <2>1, <2>3 DEF Matches
  <2>5. QED
    BY <1>1, <2>2, <2>3, <2>4 DEF WaitInv
<1>5. ASSUME NEW u \in Threads, pc'[u] = "wait", woken'[u], result'[u] # NoPid
      PROVE  \E d \in Elements(children'[Of(u)]) : pid'[d] = result'[u] /\ status'[d] = "zombie"
  <2>1. pc[u] = "wait"
    BY <1>5
  <2>2. PICK d \in Elements(children[Of(u)]) : pid[d] = result[u] /\ status[d] = "zombie"
    BY <1>1, <1>5, <2>1 DEF WaitInv
  <2>3. QED
    BY <1>3, <2>1, <2>2
<1>6. \A p \in Processes : waiters[p] = IF Asleep(MainThread(p))' THEN <<MainThread(p)>> ELSE <<>>
  BY <1>1, <1>2, Basics DEF WaitInv
<1>7. \A u \in Threads : (pc'[u] = "wait" => IsMain(u)) /\ (woken'[u] => pc'[u] = "wait")
  BY <1>1 DEF WaitInv
<1>8. QED
  BY <1>4, <1>5, <1>6, <1>7 DEF WaitInv

\* ProcessBuilder::build adds a live process below a live one.
LEMMA BuildTree ==
    ASSUME ProcInv, NEW q \in Processes, status[q] = "none", NEW p \in Processes, status[p] = "live",
           NEW id \in {q, 1}, NEW group \in Nat, build(q, id, group, p)
    PROVE  /\ q # Idle /\ q # 1 /\ q # p /\ id \in Pids
           /\ \A r \in Processes : q \notin Elements(children[r])
           /\ status' \in [Processes -> {"none", "live", "zombie"}] /\ status'[q] = "live"
           /\ \A r \in Processes \ {q} : status'[r] = status[r]
           /\ pid' \in [Processes -> Nat] /\ pid'[q] = id
           /\ \A r \in Processes \ {q} : pid'[r] = pid[r]
           /\ pgid' \in [Processes -> Nat]
           /\ \A r \in Processes \ {q} : pgid'[r] = pgid[r]
           /\ parent' \in [Processes -> Processes] /\ parent'[q] = p
           /\ \A r \in Processes \ {q} : parent'[r] = parent[r]
           /\ threads' \in [Processes -> SUBSET Threads] /\ threads'[q] = {MainThread(q)}
           /\ \A r \in Processes \ {q} : threads'[r] = threads[r]
           /\ children' \in [Processes -> Seq(Processes)]
           /\ Elements(children'[p]) = Elements(children[p]) \cup {q}
           /\ \A r \in Processes \ {p} : children'[r] = children[r]
           /\ TreeInv'
<1>1. q # Idle /\ q # 1 /\ q # p /\ id \in Pids /\ id \in Nat
  BY Basics, SMT DEF ProcInv, ThreadsInv, Built
<1>2. /\ status \in [Processes -> {"none", "live", "zombie"}]
      /\ pid \in [Processes -> Nat] /\ pgid \in [Processes -> Nat]
      /\ parent \in [Processes -> Processes] /\ children \in [Processes -> Seq(Processes)]
      /\ threads \in [Processes -> SUBSET Threads] /\ MainThread(q) \in Threads
  BY Basics DEF ProcInv, TypeOK
<1>3. /\ status' = [status EXCEPT ![q] = "live"]
      /\ pid' = [pid EXCEPT ![q] = id]
      /\ pgid' = [pgid EXCEPT ![q] = group]
      /\ parent' = [parent EXCEPT ![q] = p]
      /\ children' = [children EXCEPT ![p] = Append(@, q)]
      /\ threads' = [threads EXCEPT ![q] = {MainThread(q)}]
  BY DEF build
<1>4. TreeInv /\ \A r \in Processes : q \notin Elements(children[r])
  BY DEF ProcInv, TreeInv, Built
<1>5. /\ status' \in [Processes -> {"none", "live", "zombie"}] /\ status'[q] = "live"
      /\ \A r \in Processes \ {q} : status'[r] = status[r]
      /\ pid' \in [Processes -> Nat] /\ pid'[q] = id
      /\ \A r \in Processes \ {q} : pid'[r] = pid[r]
      /\ pgid' \in [Processes -> Nat]
      /\ \A r \in Processes \ {q} : pgid'[r] = pgid[r]
  BY <1>1, <1>2, <1>3
<1>6. /\ parent' \in [Processes -> Processes] /\ parent'[q] = p
      /\ \A r \in Processes \ {q} : parent'[r] = parent[r]
      /\ threads' \in [Processes -> SUBSET Threads] /\ threads'[q] = {MainThread(q)}
      /\ \A r \in Processes \ {q} : threads'[r] = threads[r]
  BY <1>1, <1>2, <1>3
<1> DEFINE s == Append(children[p], q)
<1>7. /\ s \in Seq(Processes) /\ OnceEach(s) /\ Elements(s) = Elements(children[p]) \cup {q}
      /\ Len(children[p]) > 0 => Len(s) > 0 /\ s[1] = children[p][1]
  <2>1. children[p] \in Seq(Processes) /\ OnceEach(children[p]) /\ q \notin Elements(children[p])
    BY <1>2, <1>4 DEF TreeInv
  <2>2. QED
    BY <2>1, AppendIs, SMT
<1> HIDE DEF s
<1>8. /\ children' \in [Processes -> Seq(Processes)] /\ children'[p] = s
      /\ \A r \in Processes \ {p} : children'[r] = children[r]
  BY <1>2, <1>3, <1>7 DEF s
<1>9. TreeInv'
  <2>1. \A r \in Processes : Built(r)' <=> Built(r) \/ r = q
    BY <1>5 DEF Built
  <2>2. \A r \in Processes \ {Idle} : Built(r)' => pid'[r] \in {r, 1} /\ parent'[r] # r
    <3>1. ASSUME NEW r \in Processes \ {Idle}, Built(r)' PROVE pid'[r] \in {r, 1} /\ parent'[r] # r
      <4>1. CASE r = q
        BY <1>1, <1>5, <1>6, <4>1
      <4>2. CASE r # q
        <5>1. Built(r)
          BY <2>1, <3>1, <4>2
        <5>2. pid[r] \in {r, 1} /\ parent[r] # r
          BY <1>4, <5>1 DEF TreeInv
        <5>3. QED
          BY <1>5, <1>6, <4>2, <5>2
      <4>3. QED
        BY <4>1, <4>2
    <3>2. QED
      BY <3>1
  <2>3. \A r \in Processes : OnceEach(children'[r]) /\ (~Built(r)' => children'[r] = <<>>)
    <3>1. Built(p)
      BY DEF Built
    <3>2. \A r \in Processes : OnceEach(children[r]) /\ (~Built(r) => children[r] = <<>>)
      BY <1>4 DEF TreeInv
    <3>3. QED
      BY <1>7, <1>8, <2>1, <3>1, <3>2
  <2>4. ASSUME NEW r \in Processes, NEW c \in Elements(children'[r])
        PROVE  /\ c # Idle /\ Built(c)' /\ parent'[c] = r
               /\ pid'[c] = 1 => status'[c] = "live"
    <3>1. CASE c = q
      <4>1. r = p
        BY <1>4, <1>8, <2>4, <3>1
      <4>2. QED
        BY <1>1, <1>5, <1>6, <3>1, <4>1, <2>1
    <3>2. CASE c # q
      <4>1. c \in Elements(children[r])
        BY <1>7, <1>8, <2>4, <3>2
      <4>2. c \in Processes
        BY <1>2, <4>1, ElementsAre
      <4>3. c # Idle /\ Built(c) /\ parent[c] = r /\ (pid[c] = 1 => status[c] = "live")
        BY <1>4, <4>1, SMT DEF TreeInv
      <4>4. QED
        BY <1>5, <1>6, <2>1, <3>2, <4>2, <4>3
    <3>3. QED
      BY <3>1, <3>2
  <2>5. ASSUME NEW r \in Processes \ {Idle}, status'[r] = "live"
        PROVE  status'[parent'[r]] = "live" /\ r \in Elements(children'[parent'[r]])
    <3>1. CASE r = q
      BY <1>1, <1>5, <1>6, <1>7, <1>8, <3>1
    <3>2. CASE r # q
      <4>1. /\ status[parent[r]] = "live" /\ r \in Elements(children[parent[r]])
            /\ parent'[r] = parent[r] /\ parent[r] \in Processes
        <5>1. status[r] = "live" /\ parent'[r] = parent[r] /\ parent[r] \in Processes
          BY <1>2, <1>5, <1>6, <2>5, <3>2
        <5>2. QED
          BY <1>4, <5>1 DEF TreeInv
      <4>2. parent[r] # q /\ status'[parent[r]] = "live"
        BY <1>5, <4>1
      <4>3. r \in Elements(children'[parent[r]])
        BY <1>7, <1>8, <4>1
      <4>4. QED
        BY <4>1, <4>2, <4>3
    <3>3. QED
      BY <3>1, <3>2
  <2>6. status'[1] = "live" => Len(children'[Idle]) > 0 /\ children'[Idle][1] = 1
    BY <1>1, <1>4, <1>5, <1>7, <1>8, Basics DEF TreeInv
  <2>7. QED
    BY <2>2, <2>3, <2>4, <2>5, <2>6 DEF TreeInv
<1>10. QED
  BY <1>1, <1>4, <1>5, <1>6, <1>7, <1>8, <1>9

\* spawn: the new process has a pid of its own and runs at once.
LEMMA SpawnStep ==
    ASSUME LeastNumbers, ProcInv, NEW t \in Threads, do_spawn(t)
    PROVE  ProcInv'
<1> DEFINE p == Of(t)
<1>1. PICK q \in Processes : q = NextObject /\ status[q] = "none"
  BY NextObjectIs DEF do_spawn
<1>2. p \in Processes /\ status[p] = "live"
  BY Basics DEF do_spawn, ProcInv, ThreadsInv, Inside
<1>3. PICK group \in Nat : build(q, q, group, p)
  <2>1. PICK group \in {pgid[p], q} : build(q, q, group, p)
    BY <1>1 DEF do_spawn
  <2>2. pgid[p] \in Nat /\ q \in Nat
    BY <1>2, Basics DEF ProcInv, TypeOK
  <2>3. QED
    BY <2>1, <2>2
<1>4. /\ processTable' = [processTable EXCEPT ![q] = q]
      /\ threadTable' = threadTable \cup {MainTid(q)}
      /\ pc' = [pc EXCEPT ![MainThread(q)] = "user"]
      /\ UNCHANGED <<waiters, forced, filter, woken, result, captured, fresh, panicked>>
  BY <1>1 DEF do_spawn, Goto
<1> HIDE DEF p
<1>5. /\ q # Idle /\ q # 1 /\ q # p /\ q \in Pids
      /\ \A r \in Processes : q \notin Elements(children[r])
      /\ status' \in [Processes -> {"none", "live", "zombie"}] /\ status'[q] = "live"
      /\ \A r \in Processes \ {q} : status'[r] = status[r]
      /\ pid' \in [Processes -> Nat] /\ pid'[q] = q
      /\ \A r \in Processes \ {q} : pid'[r] = pid[r]
      /\ pgid' \in [Processes -> Nat]
      /\ \A r \in Processes \ {q} : pgid'[r] = pgid[r]
      /\ parent' \in [Processes -> Processes] /\ parent'[q] = p
      /\ \A r \in Processes \ {q} : parent'[r] = parent[r]
      /\ threads' \in [Processes -> SUBSET Threads] /\ threads'[q] = {MainThread(q)}
      /\ \A r \in Processes \ {q} : threads'[r] = threads[r]
      /\ children' \in [Processes -> Seq(Processes)]
      /\ Elements(children'[p]) = Elements(children[p]) \cup {q}
      /\ \A r \in Processes \ {p} : children'[r] = children[r]
      /\ TreeInv'
  <2>1. q \in {q, 1}
    OBVIOUS
  <2>2. QED
    BY ONLY ProcInv, <1>1, <1>2, <1>3, <2>1, BuildTree, Zenon
<1>51. q \in Pids /\ q # Idle /\ q # 1 /\ q # p
  BY <1>5
<1>52. status'[q] = "live" /\ \A r \in Processes \ {q} : status'[r] = status[r]
  BY <1>5
<1>53. parent'[q] = p /\ \A r \in Processes \ {q} : parent'[r] = parent[r]
  BY <1>5
<1>54. threads'[q] = {MainThread(q)} /\ \A r \in Processes \ {q} : threads'[r] = threads[r]
  BY <1>5
<1>6. /\ \A u \in Threads : Of(u) = q => pc[u] = "none"
      /\ pc \in [Threads -> Labels] /\ pc'[MainThread(q)] = "user"
      /\ \A u \in Threads \ {MainThread(q)} : pc'[u] = pc[u]
      /\ MainThread(q) \in Threads /\ Of(MainThread(q)) = q
  BY <1>1, <1>4, Basics, SMT DEF ProcInv, ThreadsInv, Built, TypeOK
<1>61. \A r \in Processes \ {q} : pc'[MainThread(r)] = pc[MainThread(r)]
  <2>1. \A r \in Processes \ {q} : MainThread(r) \in Threads /\ MainThread(r) # MainThread(q)
    BY Basics
  <2>2. QED
    BY <1>6, <2>1
<1>7. TypeOK'
  <2>1. /\ processTable' \in [Pids -> Processes \cup {NoProcess}]
        /\ threadTable' \subseteq Pids \X (1 .. MaxThread)
        /\ pc' \in [Threads -> Labels]
    <3>1. MainTid(q) \in Pids \X (1 .. MaxThread)
      BY <1>51, BoundsAssumption, SMT DEF MainTid
    <3>2. threadTable \subseteq Pids \X (1 .. MaxThread)
      BY DEF ProcInv, TypeOK
    <3>3. processTable \in [Pids -> Processes \cup {NoProcess}]
      BY DEF ProcInv, TypeOK
    <3>4. QED
      BY <1>4, <1>51, <1>6, <3>1, <3>2, <3>3 DEF Labels
  <2>2. \A r \in Processes : \A u \in threads'[r] \cup Elements(waiters'[r]) : Of(u) = r
    <3>1. \A r \in Processes : \A u \in threads[r] \cup Elements(waiters[r]) : Of(u) = r
      BY DEF ProcInv, TypeOK
    <3>2. QED
      BY <1>4, <1>5, <1>6, <3>1
  <2>3. QED
    BY <1>4, <1>5, <2>1, <2>2 DEF ProcInv, TypeOK
<1>8. ThreadsInv'
  <2>1. ThreadsInv
    BY DEF ProcInv
  <2>2. /\ status'[Idle] = "live" /\ status'[1] # "none" /\ threads'[Idle] = {}
        /\ \A r \in Processes : status'[r] # "live" => threads'[r] = {}
    BY <1>51, <1>52, <1>54, <2>1, Basics, SMT DEF ThreadsInv, Built
  <2>3. \A r \in Processes \ {Idle} :
           status'[r] = "live" /\ pc'[MainThread(r)] = "none" => MainThread(r) \in threads'[r]
    BY <1>52, <1>54, <1>61, <2>1 DEF ThreadsInv
  <2>4. ASSUME NEW u \in Threads
        PROVE  /\ Of(u) = Idle \/ status'[Of(u)] = "none" => pc'[u] = "none"
               /\ pc'[MainThread(Of(u))] = "none" => pc'[u] = "none"
               /\ pc'[u] \in Inside => u \in threads'[Of(u)]
               /\ u \in threads'[Of(u)] => pc'[u] \in Inside \cup {"none"}
               /\ pc'[u] = "last" => threads'[Of(u)] = {} /\ status'[Of(u)] = "live"
               /\ pc'[u] # "panic"
    <3>1. CASE Of(u) = q
      <4>1. u = MainThread(q) \/ pc'[u] = "none"
        BY <1>6, <3>1
      <4>2. QED
        BY <1>51, <1>52, <1>54, <1>6, <3>1, <4>1 DEF Inside
    <3>2. CASE Of(u) # q
      <4>1. /\ pc'[u] = pc[u] /\ pc'[MainThread(Of(u))] = pc[MainThread(Of(u))]
            /\ threads'[Of(u)] = threads[Of(u)] /\ status'[Of(u)] = status[Of(u)]
        <5>1. Of(u) \in Processes \ {q} /\ u # MainThread(q)
          BY <1>6, <3>2, Basics
        <5>2. QED
          BY <1>52, <1>54, <1>6, <1>61, <5>1
      <4>2. QED
        BY <2>1, <4>1 DEF ThreadsInv, Built
    <3>3. QED
      BY <3>1, <3>2
  <2>5. \A u, w \in Threads : pc'[u] = "last" /\ pc'[w] = "last" /\ Of(u) = Of(w) => u = w
    BY <1>6, <2>1, SMT DEF ThreadsInv
  <2>6. QED
    BY <2>2, <2>3, <2>4, <2>5 DEF ThreadsInv, Built
<1>9. ExecInv'
  <2>1. ExecInv /\ parent'[1] = Idle /\ status'[1] = status[1]
    BY <1>5, Basics DEF ProcInv, ExecInv
  <2>2. \A r \in Processes : Successor(r)' <=> Successor(r)
    BY <1>1, <1>5 DEF Successor, Built
  <2>3. \A u \in Threads : pc'[u] \in Replacing \cup {"exec"} => u # MainThread(q) /\ pc'[u] = pc[u]
    BY <1>6 DEF Replacing
  <2>4. ASSUME NEW u \in Threads
        PROVE  /\ pc'[u] \in Replacing \cup {"exec"} => Of(u) = 1 /\ captured'[u] = Idle
               /\ pc'[u] = "exec_replace" => status'[1] = "zombie"
    BY <1>4, <2>1, <2>3, SMT DEF ExecInv, Replacing
  <2>5. ASSUME NEW u \in Threads, pc'[u] \in Replacing
        PROVE  (/\ fresh[u] \in Processes /\ Successor(fresh[u])
                /\ pc[MainThread(fresh[u])] = "none")'
    <3>1. pc[u] \in Replacing
      BY <2>3, <2>5
    <3>2. PICK r \in Processes : r = fresh[u] /\ Successor(r) /\ pc[MainThread(r)] = "none"
      BY <2>1, <3>1, SMT DEF ExecInv
    <3>3. r # q
      BY <1>1, <3>2 DEF Successor, Built
    <3>4. pc'[MainThread(r)] = "none" /\ fresh'[u] = r
      BY <1>4, <1>6, <3>2, <3>3, Basics
    <3>5. QED
      BY <1>5, <3>2, <3>3, <3>4, SMT DEF Successor, Built
  <2>6. ASSUME NEW r \in Processes, Successor(r)'
        PROVE  /\ parent'[r] = Idle
               /\ pc'[MainThread(r)] = "none" =>
                     status'[r] = "live" /\ \E u \in Threads : pc'[u] \in Replacing /\ fresh'[u] = r
               /\ status'[1] = "live" => pc'[MainThread(r)] = "none"
    <3>1. r # q /\ Successor(r)
      BY <1>1, <2>2, <2>6 DEF Successor, Built
    <3>2. parent'[r] = parent[r] /\ status'[r] = status[r] /\ pc'[MainThread(r)] = pc[MainThread(r)]
      BY <1>52, <1>53, <1>61, <3>1
    <3>3. \A u \in Threads : pc[u] \in Replacing => pc'[u] = pc[u]
      BY <1>6 DEF Replacing
    <3>4. QED
      BY <1>4, <2>1, <3>1, <3>2, <3>3, SMT DEF ExecInv
  <2>7. \A r, s \in Processes : Successor(r)' /\ Successor(s)' /\ status'[1] = "zombie" => r = s
    BY <2>1, <2>2 DEF ExecInv
  <2>8. \A u, w \in Threads : pc'[u] = "exec_replace" /\ pc'[w] = "exec_replace" => u = w
    BY <2>1, <2>3, SMT DEF ExecInv, Replacing
  <2>9. QED
    BY <2>1, <2>4, <2>5, <2>6, <2>7, <2>8 DEF ExecInv
<1>10. TablesInv'
  <2>1. TablesInv
    BY DEF ProcInv
  <2>2. InTable(q)' /\ \A r \in Processes \ {q} : InTable(r)' <=> InTable(r)
    <3>1. InTable(q)'
      BY <1>5, <1>6 DEF InTable
    <3>2. ASSUME NEW r \in Processes \ {q} PROVE InTable(r)' <=> InTable(r)
      <4>1. /\ status'[r] = status[r] /\ pc'[MainThread(r)] = pc[MainThread(r)]
            /\ parent'[r] = parent[r] /\ parent[r] \in Processes
        BY <1>52, <1>53, <1>61 DEF ProcInv, TypeOK
      <4>2. r \in Elements(children'[parent[r]]) <=> r \in Elements(children[parent[r]])
        BY <1>5, <4>1
      <4>3. QED
        BY <4>1, <4>2 DEF InTable
    <3>3. QED
      BY <3>1, <3>2
  <2>3. /\ processTable \in [Pids -> Processes \cup {NoProcess}]
        /\ processTable'[q] = q /\ \A id \in Pids \ {q} : processTable'[id] = processTable[id]
        /\ \A id \in Pids : MainTid(id) \in threadTable' <=> MainTid(id) \in threadTable \/ id = q
    BY <1>4, <1>5, SMT DEF ProcInv, TypeOK, MainTid
  <2>4. ASSUME NEW r \in Processes \ {Idle}, InTable(r)' PROVE processTable'[pid'[r]] = r
    <3>1. CASE r = q
      BY <1>5, <2>3, <3>1
    <3>2. CASE r # q
      <4>1. InTable(r) /\ Built(r) /\ pid'[r] = pid[r]
        BY <1>5, <2>2, <2>4, <3>2 DEF InTable, Built
      <4>2. processTable[pid[r]] = r /\ pid[r] \in {r, 1}
        BY <2>1, <4>1 DEF ProcInv, TreeInv, TablesInv
      <4>3. pid[r] \in Pids \ {q}
        BY <1>5, <3>2, <4>2, Basics
      <4>4. QED
        BY <2>3, <4>1, <4>2, <4>3
    <3>3. QED
      BY <3>1, <3>2
  <2>5. ASSUME NEW id \in Pids, processTable'[id] # NoProcess
        PROVE  (LET r == processTable[id] IN
                /\ r # Idle /\ Built(r) /\ pid[r] = id
                /\ InTable(r) \/ \E u \in Threads : Of(u) = r /\ pc[u] = "exec_replace")'
    <3>1. CASE id = q
      <4>1. processTable'[id] = q /\ Built(q)' /\ InTable(q)' /\ pid'[q] = id
        BY <1>5, <2>2, <2>3, <3>1 DEF Built
      <4>2. QED
        BY <1>5, <4>1 DEF Built, InTable
    <3>2. CASE id # q
      <4>1. processTable'[id] = processTable[id] /\ processTable[id] \in Processes
        BY <2>3, <2>5, <3>2
      <4> PICK r \in Processes : r = processTable[id]
        BY <4>1
      <4>2. /\ r # Idle /\ Built(r) /\ pid[r] = id
            /\ InTable(r) \/ \E u \in Threads : Of(u) = r /\ pc[u] = "exec_replace"
        BY <2>1, <2>5, <4>1 DEF TablesInv
      <4>3. r # q
        BY <1>1, <4>2 DEF Built
      <4>4. Built(r)' /\ pid'[r] = id
        BY <1>5, <4>2, <4>3 DEF Built
      <4>5. InTable(r)' \/ \E u \in Threads : Of(u) = r /\ pc'[u] = "exec_replace"
        BY <1>6, <2>2, <4>2, <4>3
      <4>6. QED
        BY <4>1, <4>2, <4>4, <4>5 DEF Built, InTable
    <3>3. QED
      BY <3>1, <3>2
  <2>6. \A id \in Pids : (processTable'[id] # NoProcess) <=> (MainTid(id) \in threadTable')
    BY <1>5, <2>1, <2>3, Basics, SMT DEF TablesInv
  <2>7. QED
    BY <2>4, <2>5, <2>6 DEF TablesInv, MainTid
<1>11. WaitInv'
  <2>1. \A u \in Threads : pc'[u] = "wait" <=> pc[u] = "wait"
    BY <1>6
  <2>2. ASSUME NEW r \in Processes
        PROVE  /\ \A d : (d \in Elements(children'[r]) /\ status'[d] = "zombie")
                            <=> (d \in Elements(children[r]) /\ status[d] = "zombie")
               /\ \A d \in Elements(children[r]) : pid'[d] = pid[d] /\ pgid'[d] = pgid[d]
    <3>1. \A d \in Elements(children[r]) : d \in Processes \ {q}
      BY <1>5, ElementsAre, SMT DEF ProcInv, TypeOK
    <3>2. \A d : d \in Elements(children'[r]) <=> d \in Elements(children[r]) \/ (r = p /\ d = q)
      BY <1>5, SMT
    <3>3. QED
      BY <1>5, <3>1, <3>2
  <2>3. QED
    BY <1>4, <2>1, <2>2, TreeWait
<1>12. QED
  BY <1>4, <1>5, <1>7, <1>8, <1>9, <1>10, <1>11 DEF ProcInv

\* execve, first half: the first process builds its successor, which does not run yet.
LEMMA ExecBuildStep ==
    ASSUME LeastNumbers, ProcInv, NEW t \in Threads, new_process_for_exec(t)
    PROVE  ProcInv'
<1>1. PICK q \in Processes : q = NextObject /\ status[q] = "none"
  BY NextObjectIs DEF new_process_for_exec
<1>2. /\ pc[t] = "exec" /\ Of(t) = 1 /\ captured[t] = Idle /\ t \in threads[1]
      /\ status[1] = "live" /\ status[Idle] = "live" /\ pid[1] = 1
  <2>1. pc[t] = "exec" /\ Of(t) = 1 /\ captured[t] = Idle
    BY DEF new_process_for_exec, ProcInv, ExecInv
  <2>2. t \in threads[1] /\ status[Idle] = "live" /\ Built(1)
    BY <2>1 DEF ProcInv, ThreadsInv, Inside
  <2>3. status[1] = "live"
    BY <2>2, Basics DEF ProcInv, ThreadsInv
  <2>4. pid[1] = 1
    BY <2>2, Basics DEF ProcInv, TreeInv
  <2>5. QED
    BY <2>1, <2>2, <2>3, <2>4
<1>3. /\ build(q, 1, pgid[1], Idle) /\ pgid[1] \in Nat
      /\ fresh' = [fresh EXCEPT ![t] = q]
      /\ forced' = [forced EXCEPT ![1] = TRUE]
      /\ pc' = [pc EXCEPT ![t] = "exec_wait"]
      /\ UNCHANGED <<waiters, processTable, threadTable, filter, woken, result, captured, panicked>>
  <2>1. pgid[1] \in Nat
    BY Basics DEF ProcInv, TypeOK
  <2>2. QED
    BY <1>1, <1>2, <2>1 DEF new_process_for_exec, Goto, tables
<1>4. /\ q # Idle /\ q # 1 /\ 1 \in Pids
      /\ \A r \in Processes : q \notin Elements(children[r])
      /\ status' \in [Processes -> {"none", "live", "zombie"}] /\ status'[q] = "live"
      /\ \A r \in Processes \ {q} : status'[r] = status[r]
      /\ pid' \in [Processes -> Nat] /\ pid'[q] = 1
      /\ \A r \in Processes \ {q} : pid'[r] = pid[r]
      /\ pgid' \in [Processes -> Nat]
      /\ \A r \in Processes \ {q} : pgid'[r] = pgid[r]
      /\ parent' \in [Processes -> Processes] /\ parent'[q] = Idle
      /\ \A r \in Processes \ {q} : parent'[r] = parent[r]
      /\ threads' \in [Processes -> SUBSET Threads] /\ threads'[q] = {MainThread(q)}
      /\ \A r \in Processes \ {q} : threads'[r] = threads[r]
      /\ children' \in [Processes -> Seq(Processes)]
      /\ Elements(children'[Idle]) = Elements(children[Idle]) \cup {q}
      /\ \A r \in Processes \ {Idle} : children'[r] = children[r]
      /\ TreeInv'
  <2>1. PICK id \in {q, 1}, group \in Nat, p \in Processes :
           id = 1 /\ group = pgid[1] /\ p = Idle
    BY <1>3, Basics
  <2>2. build(q, id, group, p) /\ status[q] = "none" /\ status[p] = "live"
    BY <1>1, <1>2, <1>3, <2>1
  <2>3. /\ q # Idle /\ q # 1 /\ q # p /\ id \in Pids
        /\ \A r \in Processes : q \notin Elements(children[r])
        /\ status' \in [Processes -> {"none", "live", "zombie"}] /\ status'[q] = "live"
        /\ \A r \in Processes \ {q} : status'[r] = status[r]
        /\ pid' \in [Processes -> Nat] /\ pid'[q] = id
        /\ \A r \in Processes \ {q} : pid'[r] = pid[r]
        /\ pgid' \in [Processes -> Nat]
        /\ \A r \in Processes \ {q} : pgid'[r] = pgid[r]
        /\ parent' \in [Processes -> Processes] /\ parent'[q] = p
        /\ \A r \in Processes \ {q} : parent'[r] = parent[r]
        /\ threads' \in [Processes -> SUBSET Threads] /\ threads'[q] = {MainThread(q)}
        /\ \A r \in Processes \ {q} : threads'[r] = threads[r]
        /\ children' \in [Processes -> Seq(Processes)]
        /\ Elements(children'[p]) = Elements(children[p]) \cup {q}
        /\ \A r \in Processes \ {p} : children'[r] = children[r]
        /\ TreeInv'
    BY ONLY ProcInv, q \in Processes, <2>2, BuildTree, Zenon
  <2>4. QED
    BY <2>1, <2>3
<1>5. q # Idle /\ q # 1
  BY <1>4
<1>6. status'[q] = "live" /\ \A r \in Processes \ {q} : status'[r] = status[r]
  BY <1>4
<1>7. parent'[q] = Idle /\ \A r \in Processes \ {q} : parent'[r] = parent[r]
  BY <1>4
<1>8. threads'[q] = {MainThread(q)} /\ \A r \in Processes \ {q} : threads'[r] = threads[r]
  BY <1>4
<1>9. /\ \A u \in Threads : Of(u) = q => pc[u] = "none" /\ u # t
      /\ pc \in [Threads -> Labels] /\ pc'[t] = "exec_wait"
      /\ \A u \in Threads \ {t} : pc'[u] = pc[u]
      /\ fresh \in [Threads -> Processes \cup {NoProcess}] /\ fresh'[t] = q
      /\ \A u \in Threads \ {t} : fresh'[u] = fresh[u]
  BY <1>1, <1>2, <1>3, <1>5, SMT DEF ProcInv, ThreadsInv, Built, TypeOK
<1>10. /\ \A u \in Threads : pc'[u] = "none" <=> pc[u] = "none"
       /\ \A u \in Threads : pc'[u] = "wait" <=> pc[u] = "wait"
       /\ \A u \in Threads : pc'[u] = "last" <=> pc[u] = "last"
       /\ \A u \in Threads : pc'[u] = "panic" <=> pc[u] = "panic"
       /\ \A u \in Threads : pc'[u] \in Inside <=> pc[u] \in Inside
       /\ \A u \in Threads : pc'[u] = "exec_replace" <=> pc[u] = "exec_replace"
  BY <1>2, <1>9 DEF Inside
<1>11. \A r \in Processes : pc'[MainThread(r)] = "none" <=> pc[MainThread(r)] = "none"
  BY <1>10, Basics
<1>12. /\ MainThread(q) \in Threads /\ Of(MainThread(q)) = q
       /\ pc[MainThread(q)] = "none" /\ pc'[MainThread(q)] = "none"
  BY <1>9, <1>11, Basics
<1>13. TypeOK'
  <2>1. pc' \in [Threads -> Labels] /\ fresh' \in [Threads -> Processes \cup {NoProcess}]
    BY <1>3, <1>9 DEF Labels
  <2>2. forced' \in [Processes -> BOOLEAN]
    BY <1>3 DEF ProcInv, TypeOK
  <2>3. \A r \in Processes : \A u \in threads'[r] \cup Elements(waiters'[r]) : Of(u) = r
    <3>1. \A r \in Processes : \A u \in threads[r] \cup Elements(waiters[r]) : Of(u) = r
      BY DEF ProcInv, TypeOK
    <3>2. QED
      BY <1>3, <1>8, <1>12, <3>1
  <2>4. QED
    BY <1>3, <1>4, <2>1, <2>2, <2>3 DEF ProcInv, TypeOK
<1>14. ThreadsInv'
  <2>1. ThreadsInv
    BY DEF ProcInv
  <2>2. /\ status'[Idle] = "live" /\ status'[1] # "none" /\ threads'[Idle] = {}
        /\ \A r \in Processes : status'[r] # "live" => threads'[r] = {}
    BY <1>5, <1>6, <1>8, <2>1, Basics, SMT DEF ThreadsInv, Built
  <2>3. \A r \in Processes \ {Idle} :
           status'[r] = "live" /\ pc'[MainThread(r)] = "none" => MainThread(r) \in threads'[r]
    BY <1>6, <1>8, <1>11, <2>1 DEF ThreadsInv
  <2>4. ASSUME NEW u \in Threads
        PROVE  /\ Of(u) = Idle \/ status'[Of(u)] = "none" => pc'[u] = "none"
               /\ pc'[MainThread(Of(u))] = "none" => pc'[u] = "none"
               /\ pc'[u] \in Inside => u \in threads'[Of(u)]
               /\ u \in threads'[Of(u)] => pc'[u] \in Inside \cup {"none"}
               /\ pc'[u] = "last" => threads'[Of(u)] = {} /\ status'[Of(u)] = "live"
               /\ pc'[u] # "panic"
    <3>1. CASE Of(u) = q
      <4>1. pc'[u] = "none"
        BY <1>9, <1>10, <3>1
      <4>2. QED
        BY <4>1 DEF Inside
    <3>2. CASE Of(u) # q
      <4>1. Of(u) \in Processes \ {q}
        BY <3>2, Basics
      <4>2. /\ threads'[Of(u)] = threads[Of(u)] /\ status'[Of(u)] = status[Of(u)]
            /\ pc'[MainThread(Of(u))] = "none" <=> pc[MainThread(Of(u))] = "none"
        BY <1>6, <1>8, <1>11, <4>1
      <4>3. /\ Of(u) = Idle \/ status[Of(u)] = "none" => pc[u] = "none"
            /\ pc[MainThread(Of(u))] = "none" => pc[u] = "none"
            /\ pc[u] \in Inside => u \in threads[Of(u)]
            /\ u \in threads[Of(u)] => pc[u] \in Inside \cup {"none"}
            /\ pc[u] = "last" => threads[Of(u)] = {} /\ status[Of(u)] = "live"
            /\ pc[u] # "panic"
        BY <2>1 DEF ThreadsInv, Built
      <4>4. QED
        BY <1>10, <4>2, <4>3
    <3>3. QED
      BY <3>1, <3>2
  <2>5. \A u, w \in Threads : pc'[u] = "last" /\ pc'[w] = "last" /\ Of(u) = Of(w) => u = w
    BY <1>10, <2>1 DEF ThreadsInv
  <2>6. QED
    BY <2>2, <2>3, <2>4, <2>5 DEF ThreadsInv, Built
<1>15. ExecInv'
  <2>1. ExecInv /\ parent'[1] = Idle /\ status'[1] = "live"
    BY <1>2, <1>5, <1>6, <1>7, Basics DEF ProcInv, ExecInv
  <2>2. \A r \in Processes : Successor(r)' <=> Successor(r) \/ r = q
    BY <1>1, <1>4 DEF Successor, Built
  <2>3. \A u \in Threads : pc'[u] # "exec_replace" /\ pc[u] # "exec_replace"
    BY <1>2, <1>10, <2>1, SMT DEF ExecInv
  <2>4. \A u \in Threads : pc'[u] \in Replacing \cup {"exec"} => Of(u) = 1 /\ captured'[u] = Idle
    BY <1>2, <1>3, <1>9, <2>1, SMT DEF ExecInv
  <2>5. ASSUME NEW u \in Threads, pc'[u] \in Replacing
        PROVE  (/\ fresh[u] \in Processes /\ Successor(fresh[u])
                /\ pc[MainThread(fresh[u])] = "none")'
    <3>1. CASE u = t
      <4>1. fresh'[u] = q
        BY <1>9, <3>1
      <4>2. QED
        BY <1>4, <1>12, <4>1 DEF Successor, Built
    <3>2. CASE u # t
      <4>1. pc[u] \in Replacing /\ fresh'[u] = fresh[u]
        BY <1>9, <2>5, <3>2
      <4>2. PICK r \in Processes : r = fresh[u] /\ Successor(r) /\ pc[MainThread(r)] = "none"
        BY <2>1, <4>1, SMT DEF ExecInv
      <4>3. r # q
        BY <1>1, <4>2 DEF Successor, Built
      <4>4. pc'[MainThread(r)] = "none" /\ fresh'[u] = r
        BY <1>11, <4>1, <4>2
      <4>5. QED
        BY <1>4, <4>2, <4>3, <4>4, SMT DEF Successor, Built
    <3>3. QED
      BY <3>1, <3>2
  <2>6. ASSUME NEW r \in Processes, Successor(r)'
        PROVE  /\ parent'[r] = Idle
               /\ pc'[MainThread(r)] = "none" =>
                     status'[r] = "live" /\ \E u \in Threads : pc'[u] \in Replacing /\ fresh'[u] = r
               /\ status'[1] = "live" => pc'[MainThread(r)] = "none"
    <3>1. CASE r = q
      <4>1. pc'[t] \in Replacing /\ fresh'[t] = r
        BY <1>9, <3>1 DEF Replacing
      <4>2. QED
        BY <1>6, <1>7, <1>12, <3>1, <4>1
    <3>2. CASE r # q
      <4>1. Successor(r) /\ parent'[r] = parent[r] /\ status'[r] = status[r]
        BY <1>6, <1>7, <2>2, <2>6, <3>2
      <4>2. /\ parent[r] = Idle /\ pc[MainThread(r)] = "none" /\ status[r] = "live"
            /\ \E u \in Threads : pc[u] \in Replacing /\ fresh[u] = r
        BY <1>2, <2>1, <4>1 DEF ExecInv
      <4>3. PICK u \in Threads : pc[u] \in Replacing /\ fresh[u] = r
        BY <4>2
      <4>4. pc'[u] \in Replacing /\ fresh'[u] = r
        BY <1>2, <1>9, <4>3 DEF Replacing
      <4>5. QED
        BY <1>11, <4>1, <4>2, <4>4
    <3>3. QED
      BY <3>1, <3>2
  <2>7. QED
    BY <2>1, <2>3, <2>4, <2>5, <2>6 DEF ExecInv
<1>16. TablesInv'
  <2>1. TablesInv
    BY DEF ProcInv
  <2>2. ~InTable(q)' /\ \A r \in Processes \ {q} : InTable(r)' <=> InTable(r)
    <3>1. ~InTable(q)'
      BY <1>6, <1>12 DEF InTable
    <3>2. ASSUME NEW r \in Processes \ {q} PROVE InTable(r)' <=> InTable(r)
      <4>1. /\ status'[r] = status[r] /\ (pc'[MainThread(r)] = "none" <=> pc[MainThread(r)] = "none")
            /\ parent'[r] = parent[r] /\ parent[r] \in Processes
        BY <1>6, <1>7, <1>11 DEF ProcInv, TypeOK
      <4>2. r \in Elements(children'[parent[r]]) <=> r \in Elements(children[parent[r]])
        BY <1>4, <4>1
      <4>3. QED
        BY <4>1, <4>2 DEF InTable
    <3>3. QED
      BY <3>1, <3>2
  <2>3. ASSUME NEW r \in Processes \ {Idle}, InTable(r)' PROVE processTable'[pid'[r]] = r
    <3>1. r # q /\ InTable(r)
      BY <2>2, <2>3
    <3>2. processTable[pid[r]] = r /\ pid'[r] = pid[r]
      BY <1>4, <2>1, <3>1 DEF TablesInv
    <3>3. QED
      BY <1>3, <3>2
  <2>4. ASSUME NEW id \in Pids, processTable'[id] # NoProcess
        PROVE  (LET r == processTable[id] IN
                /\ r # Idle /\ Built(r) /\ pid[r] = id
                /\ InTable(r) \/ \E u \in Threads : Of(u) = r /\ pc[u] = "exec_replace")'
    <3>1. processTable'[id] = processTable[id] /\ processTable[id] \in Processes
      BY <1>3, <2>4 DEF ProcInv, TypeOK
    <3> PICK r \in Processes : r = processTable[id]
      BY <3>1
    <3>2. /\ r # Idle /\ Built(r) /\ pid[r] = id
          /\ InTable(r) \/ \E u \in Threads : Of(u) = r /\ pc[u] = "exec_replace"
      BY <2>1, <2>4, <3>1 DEF TablesInv
    <3>3. r # q
      BY <1>1, <3>2 DEF Built
    <3>4. Built(r)' /\ pid'[r] = id
      BY <1>4, <3>2, <3>3 DEF Built
    <3>5. InTable(r)' \/ \E u \in Threads : Of(u) = r /\ pc'[u] = "exec_replace"
      BY <1>10, <2>2, <3>2, <3>3
    <3>6. QED
      BY <3>1, <3>2, <3>4, <3>5 DEF Built, InTable
  <2>5. \A id \in Pids : (processTable'[id] # NoProcess) <=> (MainTid(id) \in threadTable')
    BY <1>3, <2>1 DEF TablesInv
  <2>6. QED
    BY <2>3, <2>4, <2>5 DEF TablesInv, MainTid
<1>17. WaitInv'
  <2>1. ASSUME NEW r \in Processes
        PROVE  /\ \A d : (d \in Elements(children'[r]) /\ status'[d] = "zombie")
                            <=> (d \in Elements(children[r]) /\ status[d] = "zombie")
               /\ \A d \in Elements(children[r]) : pid'[d] = pid[d] /\ pgid'[d] = pgid[d]
    <3>1. \A d \in Elements(children[r]) : d \in Processes \ {q}
      BY <1>4, ElementsAre, SMT DEF ProcInv, TypeOK
    <3>2. \A d : d \in Elements(children'[r]) <=> d \in Elements(children[r]) \/ (r = Idle /\ d = q)
      BY <1>4
    <3>3. QED
      BY <1>4, <3>1, <3>2
  <2>2. QED
    BY <1>3, <1>10, <2>1, TreeWait
<1>18. QED
  BY <1>3, <1>4, <1>13, <1>14, <1>15, <1>16, <1>17 DEF ProcInv

-----------------------------------------------------------------------------
(* The exit of a process *)

\* The heir has its children and those of the process that exits.
LEMMA AdoptedIs ==
    ASSUME ProcInv, NEW p \in Processes, NEW heir \in Processes \ {p}
    PROVE  /\ Adopted(p, heir) \in [Processes -> Seq(Processes)]
           /\ Adopted(p, heir)[p] = <<>>
           /\ \A r \in Processes \ {p, heir} : Adopted(p, heir)[r] = children[r]
           /\ OnceEach(Adopted(p, heir)[heir])
           /\ Elements(Adopted(p, heir)[heir]) = Elements(children[heir]) \cup Elements(children[p])
           /\ Len(children[heir]) > 0 =>
                 Len(Adopted(p, heir)[heir]) > 0 /\ Adopted(p, heir)[heir][1] = children[heir][1]
<1> DEFINE s == children[heir] \o children[p]
<1>1. children \in [Processes -> Seq(Processes)]
  BY DEF ProcInv, TypeOK
<1>2. children[heir] \in Seq(Processes) /\ children[p] \in Seq(Processes)
  BY <1>1
<1>3. /\ OnceEach(children[heir]) /\ OnceEach(children[p])
      /\ Elements(children[heir]) \cap Elements(children[p]) = {}
  BY SMT DEF ProcInv, TreeInv
<1>4. /\ s \in Seq(Processes) /\ OnceEach(s)
      /\ Elements(s) = Elements(children[heir]) \cup Elements(children[p])
      /\ Len(children[heir]) > 0 => Len(s) > 0 /\ s[1] = children[heir][1]
  <2>1. PICK a \in Seq(Processes), b \in Seq(Processes) : a = children[heir] /\ b = children[p]
    BY <1>2
  <2>2. OnceEach(a) /\ OnceEach(b) /\ Elements(a) \cap Elements(b) = {}
    BY <1>3, <2>1
  <2>3. /\ a \o b \in Seq(Processes) /\ OnceEach(a \o b)
        /\ Elements(a \o b) = Elements(a) \cup Elements(b)
        /\ Len(a) > 0 => Len(a \o b) > 0 /\ (a \o b)[1] = a[1]
    BY ONLY a \in Seq(Processes), b \in Seq(Processes), <2>2, ConcatIs
  <2>4. QED
    BY <2>1, <2>3
<1>5. Adopted(p, heir) = [children EXCEPT ![heir] = s, ![p] = <<>>]
  BY DEF Adopted
<1>6. <<>> \in Seq(Processes)
  BY SMT
<1> HIDE DEF s
<1>7. /\ Adopted(p, heir) \in [Processes -> Seq(Processes)]
      /\ Adopted(p, heir)[p] = <<>> /\ Adopted(p, heir)[heir] = s
      /\ \A r \in Processes \ {p, heir} : Adopted(p, heir)[r] = children[r]
  BY <1>1, <1>4, <1>5, <1>6
<1>8. QED
  BY <1>4, <1>7

\* remove_zombie_child finds the process by its pid.
LEMMA RemovedIs ==
    ASSUME LeastNumbers, pid \in [Processes -> Nat], NEW s \in Seq(Processes), OnceEach(s),
           NEW p \in Processes, p \in Elements(s),
           \/ \A d \in Elements(s) : pid[d] = pid[p] => d = p
           \/ s[1] = p
    PROVE  LET r == SwapRemove(s, FirstIn(s, HavePid(pid[p]))) IN
           /\ FirstIn(s, HavePid(pid[p])) # 0
           /\ r \in Seq(Processes) /\ OnceEach(r) /\ Elements(r) = Elements(s) \ {p}
           /\ s[1] # p => Len(r) > 0 /\ r[1] = s[1]
<1> DEFINE i == FirstIn(s, HavePid(pid[p]))
<1>1. p \in Elements(s) \cap HavePid(pid[p])
  BY DEF HavePid
<1>2. i \in 1 .. Len(s) /\ s[i] \in HavePid(pid[p]) /\ \A j \in 1 .. i - 1 : s[j] \notin HavePid(pid[p])
  BY <1>1, FirstInIs
<1>3. s[i] \in Elements(s)
  BY <1>2, ElementsAre, SMT
<1>4. s[i] = p
  <2>1. CASE \A d \in Elements(s) : pid[d] = pid[p] => d = p
    BY <1>2, <1>3, <2>1 DEF HavePid
  <2>2. CASE s[1] = p
    <3>1. i = 1
      BY <1>1, <1>2, <2>2, SMT
    <3>2. QED
      BY <2>2, <3>1
  <2>3. QED
    BY <2>1, <2>2
<1> HIDE DEF i
<1>5. /\ SwapRemove(s, i) \in Seq(Processes) /\ OnceEach(SwapRemove(s, i))
      /\ Elements(SwapRemove(s, i)) = Elements(s) \ {p}
      /\ i # 1 => Len(SwapRemove(s, i)) > 0 /\ SwapRemove(s, i)[1] = s[1]
  BY <1>2, <1>4, SwapRemoveIs
<1>6. s[1] # p => i # 1
  BY <1>4
<1>7. i # 0
  BY <1>2, SMT
<1>8. QED
  BY <1>5, <1>6, <1>7 DEF i

\* Vec by Vec, what an exit does to the children: those of p go to the heir, and p itself
\* stays a child of its parent or is gone.
ExitChildren(p, heir, gone) ==
    /\ children' \in [Processes -> Seq(Processes)]
    /\ children'[p] = <<>>
    /\ \A r \in Processes : OnceEach(children'[r]) /\ (~Built(r) => children'[r] = children[r])
    /\ \A r \in Processes \ {p} : \A d : d \in Elements(children'[r]) <=>
          /\ d \in Elements(children[r]) \/ (r = heir /\ d \in Elements(children[p]))
          /\ ~(gone /\ d = p)
    /\ status'[1] = "live" => Len(children'[Idle]) > 0 /\ children'[Idle][1] = 1

\* The tree is a tree after an exit, and every other child is still a child.
LEMMA ExitTree ==
    ASSUME ProcInv, NEW p \in Processes \ {Idle}, status[p] = "live",
           NEW heir \in Processes \ {p}, status[heir] = "live", heir \notin Elements(children[p]),
           exit(p, heir), pid' = pid, NEW gone \in BOOLEAN, ~gone => pid[p] # 1,
           ExitChildren(p, heir, gone)
    PROVE  /\ TreeInv'
           /\ status'[p] = "zombie" /\ \A q \in Processes \ {p} : status'[q] = status[q]
           /\ \A q \in Processes : parent[q] # p => parent'[q] = parent[q]
           /\ \A q \in Processes \ {p} :
                 q \in Elements(children'[parent'[q]]) <=> q \in Elements(children[parent[q]])
           /\ p \in Elements(children'[parent'[p]]) <=> ~gone
<1>1. /\ status \in [Processes -> {"none", "live", "zombie"}] /\ parent \in [Processes -> Processes]
      /\ children \in [Processes -> Seq(Processes)]
  BY DEF ProcInv, TypeOK
<1>2. /\ \A q \in Processes \ {Idle} : Built(q) => pid[q] \in {q, 1} /\ parent[q] # q
      /\ \A r \in Processes : ~Built(r) => children[r] = <<>>
      /\ \A q \in Processes \ {Idle} : status[q] = "live" =>
            status[parent[q]] = "live" /\ q \in Elements(children[parent[q]])
  BY DEF ProcInv, TreeInv
<1>3. \A r \in Processes : \A c \in Elements(children[r]) :
         /\ c # Idle /\ c \in Processes /\ Built(c) /\ parent[c] = r
         /\ pid[c] = 1 => status[c] = "live"
  <2>1. \A r \in Processes : Elements(children[r]) \subseteq Processes
    BY <1>1, ElementsAre
  <2>2. QED
    BY <2>1 DEF ProcInv, TreeInv
<1>4. status'[p] = "zombie" /\ \A q \in Processes \ {p} : status'[q] = status[q]
  BY <1>1 DEF exit
<1>5. \A q \in Processes :
         /\ q \in Elements(children[p]) => parent'[q] = heir
         /\ q \notin Elements(children[p]) => parent'[q] = parent[q]
  BY DEF exit
<1>6. /\ children'[p] = <<>>
      /\ \A r \in Processes : OnceEach(children'[r]) /\ (~Built(r) => children'[r] = children[r])
      /\ status'[1] = "live" => Len(children'[Idle]) > 0 /\ children'[Idle][1] = 1
  BY DEF ExitChildren
<1>7. \A r \in Processes \ {p} : \A d : d \in Elements(children'[r]) <=>
         /\ d \in Elements(children[r]) \/ (r = heir /\ d \in Elements(children[p]))
         /\ ~(gone /\ d = p)
  BY DEF ExitChildren
<1>8. \A r : r \notin Elements(children'[p])
  BY <1>6, SMT DEF Elements
<1>9. \A q \in Processes : parent[q] # p => parent'[q] = parent[q]
  BY <1>3, <1>5
<1>10. \A q \in Processes : Built(q)' <=> Built(q)
  BY <1>4 DEF Built
<1>11. TreeInv'
  <2>1. \A q \in Processes \ {Idle} : Built(q)' => pid'[q] \in {q, 1} /\ parent'[q] # q
    BY <1>2, <1>5, <1>10, SMT
  <2>2. \A r \in Processes : OnceEach(children'[r]) /\ (~Built(r)' => children'[r] = <<>>)
    BY <1>2, <1>6, <1>10
  <2>3. ASSUME NEW r \in Processes, NEW c \in Elements(children'[r])
        PROVE  /\ c # Idle /\ Built(c)' /\ parent'[c] = r
               /\ pid'[c] = 1 => status'[c] = "live"
    <3>1. r # p
      BY <1>8, <2>3
    <3>2. /\ c \in Elements(children[r]) \/ (r = heir /\ c \in Elements(children[p]))
          /\ ~(gone /\ c = p)
      BY <1>7, <2>3, <3>1
    <3>3. /\ c # Idle /\ c \in Processes /\ Built(c) /\ (pid[c] = 1 => status[c] = "live")
      BY <1>3, <3>2
    <3>4. parent'[c] = r
      BY <1>3, <1>5, <3>1, <3>2, <3>3, SMT
    <3>5. pid[c] = 1 => c # p
      BY <3>2
    <3>6. QED
      BY <1>4, <1>10, <3>3, <3>4, <3>5
  <2>4. ASSUME NEW q \in Processes \ {Idle}, status'[q] = "live"
        PROVE  status'[parent'[q]] = "live" /\ q \in Elements(children'[parent'[q]])
    <3>1. q # p /\ status[q] = "live"
      BY <1>4, <2>4
    <3>2. status[parent[q]] = "live" /\ q \in Elements(children[parent[q]]) /\ parent[q] \in Processes
      BY <1>1, <1>2, <3>1
    <3>3. CASE parent[q] = p
      <4>1. parent'[q] = heir /\ status'[heir] = "live"
        BY <1>4, <1>5, <3>2, <3>3
      <4>2. q \in Elements(children'[heir])
        BY <1>7, <3>1, <3>2, <3>3
      <4>3. QED
        BY <4>1, <4>2
    <3>4. CASE parent[q] # p
      <4>1. parent'[q] = parent[q] /\ status'[parent[q]] = "live"
        BY <1>4, <1>9, <3>2, <3>4
      <4>2. q \in Elements(children'[parent[q]])
        BY <1>7, <3>1, <3>2, <3>4
      <4>3. QED
        BY <4>1, <4>2
    <3>5. QED
      BY <3>3, <3>4
  <2>5. QED
    BY <1>6, <2>1, <2>2, <2>3, <2>4 DEF TreeInv
<1>12. ASSUME NEW q \in Processes \ {p}
       PROVE  q \in Elements(children'[parent'[q]]) <=> q \in Elements(children[parent[q]])
  <2>1. CASE q \in Elements(children[p])
    <3>1. parent[q] = p /\ parent'[q] = heir
      BY <1>3, <1>5, <2>1
    <3>2. q \in Elements(children'[heir])
      BY <1>7, <2>1
    <3>3. QED
      BY <2>1, <3>1, <3>2
  <2>2. CASE q \notin Elements(children[p])
    <3>1. parent'[q] = parent[q] /\ parent[q] \in Processes
      BY <1>1, <1>5, <2>2
    <3>2. QED
      BY <1>7, <1>8, <2>2, <3>1
  <2>3. QED
    BY <2>1, <2>2
<1>13. p \in Elements(children'[parent'[p]]) <=> ~gone
  <2>1. parent[p] # p /\ p \in Elements(children[parent[p]]) /\ parent[p] \in Processes
    BY <1>1, <1>2 DEF Built
  <2>2. parent'[p] = parent[p]
    BY <1>9, <2>1
  <2>3. QED
    BY <1>7, <2>1, <2>2
<1>14. QED
  BY <1>4, <1>9, <1>11, <1>12, <1>13

\* The threads of a process whose last thread exits it.
LEMMA ExitThreads ==
    ASSUME ProcInv, NEW t \in Threads, NEW l \in {"exited", "exec_replace"}, pc[t] \in {"last", "exec_wait"},
           pc' = [pc EXCEPT ![t] = l], threads[Of(t)] \subseteq {t}, threads'[Of(t)] = {},
           \A r \in Processes \ {Of(t)} : threads'[r] = threads[r],
           status'[Of(t)] = "zombie", \A r \in Processes \ {Of(t)} : status'[r] = status[r],
           \A u \in Threads \ {t} : Of(u) = Of(t) => pc[u] # "last"
    PROVE  /\ ThreadsInv'
           /\ Of(t) # Idle /\ pc[MainThread(Of(t))] # "none" /\ pc[MainThread(Of(t))] # "wait"
           /\ pc'[t] = l /\ \A u \in Threads \ {t} : pc'[u] = pc[u]
           /\ \A u \in Threads : pc'[u] = "none" <=> pc[u] = "none"
           /\ \A u \in Threads : pc'[u] = "wait" <=> pc[u] = "wait"
<1>1. pc \in [Threads -> Labels] /\ ThreadsInv
  BY DEF ProcInv, TypeOK
<1>2. Of(t) \in Processes /\ MainThread(Of(t)) \in Threads /\ Of(MainThread(Of(t))) = Of(t)
  BY Basics
<1>3. Of(t) # Idle /\ pc[MainThread(Of(t))] # "none"
  BY <1>1, <1>2 DEF ThreadsInv
<1>4. pc'[t] = l /\ \A u \in Threads \ {t} : pc'[u] = pc[u]
  BY <1>1
<1>5. \A u \in Threads : pc'[u] = "none" <=> pc[u] = "none"
  BY <1>4
<1>6. \A u \in Threads : pc'[u] = "wait" <=> pc[u] = "wait"
  BY <1>4
<1>7. ASSUME NEW u \in Threads, Of(u) = Of(t), pc[u] \in Inside PROVE u = t
  <2>1. u \in threads[Of(t)]
    BY <1>1, <1>7 DEF ThreadsInv
  <2>2. QED
    BY <2>1
<1>8. pc[MainThread(Of(t))] # "wait"
  BY <1>2, <1>7 DEF Inside
<1>9. ThreadsInv'
  <2>1. /\ status'[Idle] = "live" /\ status'[1] # "none" /\ threads'[Idle] = {}
        /\ \A r \in Processes : status'[r] # "live" => threads'[r] = {}
    BY <1>1, <1>2, <1>3, Basics, SMT DEF ThreadsInv, Built
  <2>2. \A r \in Processes \ {Idle} :
           status'[r] = "live" /\ pc'[MainThread(r)] = "none" => MainThread(r) \in threads'[r]
    <3>1. \A r \in Processes : pc'[MainThread(r)] = "none" <=> pc[MainThread(r)] = "none"
      BY <1>5, Basics
    <3>2. QED
      BY <1>1, <3>1 DEF ThreadsInv
  <2>3. ASSUME NEW u \in Threads
        PROVE  /\ Of(u) = Idle \/ status'[Of(u)] = "none" => pc'[u] = "none"
               /\ pc'[MainThread(Of(u))] = "none" => pc'[u] = "none"
               /\ pc'[u] \in Inside => u \in threads'[Of(u)]
               /\ u \in threads'[Of(u)] => pc'[u] \in Inside \cup {"none"}
               /\ pc'[u] = "last" => threads'[Of(u)] = {} /\ status'[Of(u)] = "live"
               /\ pc'[u] # "panic"
    <3>1. /\ Of(u) = Idle \/ status[Of(u)] = "none" => pc[u] = "none"
          /\ pc[MainThread(Of(u))] = "none" => pc[u] = "none"
          /\ pc[u] \in Inside => u \in threads[Of(u)]
          /\ u \in threads[Of(u)] => pc[u] \in Inside \cup {"none"}
          /\ pc[u] = "last" => threads[Of(u)] = {} /\ status[Of(u)] = "live"
          /\ pc[u] # "panic"
      BY <1>1 DEF ThreadsInv, Built
    <3>2. Of(u) \in Processes /\ (pc'[MainThread(Of(u))] = "none" <=> pc[MainThread(Of(u))] = "none")
      BY <1>5, Basics
    <3>3. CASE u = t
      BY <1>3, <1>4, <3>2, <3>3 DEF Inside
    <3>4. CASE u # t /\ Of(u) = Of(t)
      <4>1. pc'[u] = pc[u] /\ pc[u] \notin Inside /\ pc[u] # "last"
        BY <1>4, <1>7, <3>4
      <4>2. QED
        BY <1>3, <3>1, <3>2, <3>4, <4>1
    <3>5. CASE Of(u) # Of(t)
      BY <1>4, <3>1, <3>2, <3>5
    <3>6. QED
      BY <3>3, <3>4, <3>5
  <2>4. \A u, w \in Threads : pc'[u] = "last" /\ pc'[w] = "last" /\ Of(u) = Of(w) => u = w
    BY <1>1, <1>4, SMT DEF ThreadsInv
  <2>5. QED
    BY <2>1, <2>2, <2>3, <2>4 DEF ThreadsInv, Built
<1>10. QED
  BY <1>3, <1>4, <1>5, <1>6, <1>8, <1>9

\* Who else has the pid of a process that exits, and is built by execve.
LEMMA LastOne ==
    ASSUME ProcInv, NEW t \in Threads, pc[t] = "last"
    PROVE  /\ Of(t) \in Processes \ {Idle} /\ status[Of(t)] = "live" /\ threads[Of(t)] = {}
           /\ pc[MainThread(Of(t))] # "none" /\ InTable(Of(t)) /\ pid[Of(t)] \in Pids
           /\ \A u \in Threads \ {t} : Of(u) = Of(t) => pc[u] # "last"
           /\ Of(t) = 1 => \A q \in Processes : ~Successor(q)
           /\ Of(t) = 1 => \A u \in Threads : pc[u] \notin Replacing
<1>1. /\ Of(t) \in Processes \ {Idle} /\ status[Of(t)] = "live" /\ threads[Of(t)] = {}
      /\ pc[MainThread(Of(t))] # "none"
      /\ \A u \in Threads \ {t} : Of(u) = Of(t) => pc[u] # "last"
  BY Basics DEF ProcInv, ThreadsInv
<1>2. InTable(Of(t)) /\ pid[Of(t)] \in Pids
  <2>1. pid[Of(t)] \in {Of(t), 1}
    BY <1>1 DEF ProcInv, TreeInv, Built
  <2>2. QED
    BY <1>1, <2>1, Basics DEF InTable
<1>3. ASSUME Of(t) = 1, NEW u \in Threads, pc[u] \in Replacing PROVE FALSE
  <2>1. Of(u) = 1 /\ (pc[u] = "exec_replace" => status[1] = "zombie")
    BY <1>3 DEF ProcInv, ExecInv
  <2>2. pc[u] = "exec_wait"
    BY <1>1, <1>3, <2>1 DEF Replacing
  <2>3. u \in threads[1]
    BY <2>1, <2>2 DEF ProcInv, ThreadsInv, Inside
  <2>4. QED
    BY <1>1, <1>3, <2>3
<1>4. ASSUME Of(t) = 1, NEW q \in Processes, Successor(q) PROVE FALSE
  <2>1. status[1] = "live"
    BY <1>1, <1>4
  <2>2. \E u \in Threads : pc[u] \in Replacing /\ fresh[u] = q
    BY <1>4, <2>1 DEF ProcInv, ExecInv
  <2>3. QED
    BY <1>3, <1>4, <2>2
<1>5. QED
  BY <1>1, <1>2, <1>3, <1>4

\* An exit leaves execve alone: the first process has no successor, or is not the one.
LEMMA LastExec ==
    ASSUME ProcInv, NEW t \in Threads, pc[t] = "last", pc'[t] = "exited",
           \A u \in Threads \ {t} : pc'[u] = pc[u],
           status'[Of(t)] = "zombie", \A r \in Processes \ {Of(t)} : status'[r] = status[r],
           \A r \in Processes : parent[r] # Of(t) => parent'[r] = parent[r],
           UNCHANGED <<pid, captured, fresh>>
    PROVE  ExecInv'
<1>1. ExecInv
  BY DEF ProcInv
<1>2. /\ Of(t) \in Processes \ {Idle} /\ status[Of(t)] = "live" /\ pc[MainThread(Of(t))] # "none"
      /\ Of(t) = 1 => \A q \in Processes : ~Successor(q)
  BY LastOne
<1>3. \A q \in Processes : Successor(q)' <=> Successor(q)
  BY <1>2 DEF Successor, Built
<1>4. \A u \in Threads : pc[u] \in Replacing \cup {"exec"} <=> pc'[u] \in Replacing \cup {"exec"}
  BY DEF Replacing
<1>5. \A u \in Threads : pc'[u] \in Replacing \cup {"exec"} => pc'[u] = pc[u]
  BY DEF Replacing
<1>6. \A q \in Processes : pc'[MainThread(q)] = "none" <=> pc[MainThread(q)] = "none"
  BY Basics
<1>7. \A q \in Processes : Successor(q) => parent'[q] = Idle
  BY <1>1, <1>2, SMT DEF ExecInv
<1>8. parent'[1] = Idle
  BY <1>1, <1>2, Basics DEF ExecInv
<1>9. \A q \in Processes : Successor(q) => (status'[1] = status[1] /\ 1 # Of(t))
  BY <1>2, Basics
<1>10. ASSUME NEW u \in Threads, pc'[u] \in Replacing \cup {"exec"}
       PROVE  /\ Of(u) = 1 /\ captured'[u] = Idle
              /\ pc'[u] = "exec_replace" => status'[1] = "zombie"
  <2>1. /\ Of(u) = 1 /\ captured'[u] = Idle
        /\ pc'[u] = "exec_replace" => status[1] = "zombie"
    BY <1>1, <1>5, <1>10, SMT DEF ExecInv
  <2>2. QED
    BY <2>1, Basics
<1>11. ASSUME NEW u \in Threads, pc'[u] \in Replacing
       PROVE  (/\ fresh[u] \in Processes /\ Successor(fresh[u])
               /\ pc[MainThread(fresh[u])] = "none")'
  <2>1. pc[u] \in Replacing
    BY <1>5, <1>11
  <2>2. PICK r \in Processes : r = fresh[u] /\ Successor(r) /\ pc[MainThread(r)] = "none"
    BY <1>1, <2>1 DEF ExecInv
  <2>3. pc'[MainThread(r)] = "none" /\ fresh'[u] = r /\ Successor(r)'
    BY <1>3, <1>6, <2>2
  <2>4. QED
    BY <2>3 DEF Successor, Built
<1>12. ASSUME NEW q \in Processes, Successor(q)'
       PROVE  /\ parent'[q] = Idle
              /\ pc'[MainThread(q)] = "none" =>
                    status'[q] = "live" /\ \E u \in Threads : pc'[u] \in Replacing /\ fresh'[u] = q
              /\ status'[1] = "live" => pc'[MainThread(q)] = "none"
  <2>1. Successor(q) /\ status'[1] = status[1]
    BY <1>3, <1>9, <1>12
  <2>2. /\ pc[MainThread(q)] = "none" =>
              status[q] = "live" /\ \E u \in Threads : pc[u] \in Replacing /\ fresh[u] = q
        /\ status[1] = "live" => pc[MainThread(q)] = "none"
    BY <1>1, <2>1 DEF ExecInv
  <2>3. ASSUME pc'[MainThread(q)] = "none"
        PROVE  status'[q] = "live" /\ \E u \in Threads : pc'[u] \in Replacing /\ fresh'[u] = q
    <3>1. q # Of(t) /\ status[q] = "live"
      BY <1>2, <1>6, <2>2, <2>3
    <3>2. PICK u \in Threads : pc[u] \in Replacing /\ fresh[u] = q
      BY <1>6, <2>2, <2>3
    <3>3. pc'[u] \in Replacing
      BY <3>2 DEF Replacing
    <3>4. QED
      BY <3>1, <3>2, <3>3
  <2>4. QED
    BY <1>6, <1>7, <2>1, <2>2, <2>3
<1>13. \A q, r \in Processes : Successor(q)' /\ Successor(r)' /\ status'[1] = "zombie" => q = r
  BY <1>1, <1>3, <1>9, SMT DEF ExecInv
<1>14. \A u, w \in Threads : pc'[u] = "exec_replace" /\ pc'[w] = "exec_replace" => u = w
  BY <1>1, <1>5, SMT DEF ExecInv, Replacing
<1>15. QED
  BY <1>8, <1>10, <1>11, <1>12, <1>13, <1>14, SMT DEF ExecInv, Replacing

\* The tables after an exit, when p keeps its pid (as a zombie, or for execve to replace it)
\* and when it gives it up.
LEMMA ExitTables ==
    ASSUME ProcInv, NEW p \in Processes \ {Idle}, InTable(p), NEW kept \in BOOLEAN,
           pid' = pid, \A q \in Processes : Built(q)' <=> Built(q),
           \A q \in Processes \ {p} : InTable(q)' <=> InTable(q),
           \A u \in Threads : pc[u] = "exec_replace" => pc'[u] = "exec_replace",
           IF kept THEN InTable(p)' \/ \E u \in Threads : Of(u) = p /\ pc'[u] = "exec_replace"
                   ELSE ~InTable(p)',
           processTable' = IF kept THEN processTable ELSE [processTable EXCEPT ![pid[p]] = NoProcess],
           \A id \in Pids : MainTid(id) \in threadTable' <=>
              MainTid(id) \in threadTable /\ (kept \/ id # pid[p])
    PROVE  TablesInv'
<1>1. TablesInv /\ processTable \in [Pids -> Processes \cup {NoProcess}]
  BY DEF ProcInv, TypeOK
<1>2. pid[p] \in Pids /\ processTable[pid[p]] = p
  <2>1. Built(p)
    BY DEF InTable, Built
  <2>2. pid[p] \in {p, 1}
    BY <2>1 DEF ProcInv, TreeInv
  <2>3. QED
    BY <1>1, <2>2, Basics DEF TablesInv
<1>3. \A id \in Pids : processTable'[id] = IF kept \/ id # pid[p] THEN processTable[id] ELSE NoProcess
  BY <1>1, <1>2
<1>4. ASSUME NEW q \in Processes \ {Idle}, InTable(q)' PROVE processTable'[pid'[q]] = q
  <2>1. CASE q = p
    <3>1. kept
      BY <1>4, <2>1
    <3>2. QED
      BY <1>2, <1>3, <2>1, <3>1
  <2>2. CASE q # p
    <3>1. InTable(q) /\ Built(q)
      BY <1>4, <2>2 DEF InTable, Built
    <3>2. processTable[pid[q]] = q /\ pid[q] \in {q, 1}
      BY <1>1, <3>1 DEF TablesInv, ProcInv, TreeInv
    <3>3. pid[q] \in Pids /\ pid[q] # pid[p]
      BY <1>2, <2>2, <3>2, Basics
    <3>4. QED
      BY <1>3, <3>2, <3>3, SMT
  <2>3. QED
    BY <2>1, <2>2
<1>5. \A id \in Pids : (processTable'[id] # NoProcess) <=> (MainTid(id) \in threadTable')
  BY <1>1, <1>3 DEF TablesInv
<1>6. ASSUME NEW id \in Pids, processTable'[id] # NoProcess
      PROVE  (LET r == processTable[id] IN
              /\ r # Idle /\ Built(r) /\ pid[r] = id
              /\ InTable(r) \/ \E u \in Threads : Of(u) = r /\ pc[u] = "exec_replace")'
  <2>1. processTable'[id] = processTable[id] /\ processTable[id] \in Processes /\ (kept \/ id # pid[p])
    BY <1>1, <1>3, <1>6
  <2> PICK r \in Processes : r = processTable[id]
    BY <2>1
  <2>2. /\ r # Idle /\ Built(r) /\ pid[r] = id
        /\ InTable(r) \/ \E u \in Threads : Of(u) = r /\ pc[u] = "exec_replace"
    BY <1>1, <1>6, <2>1 DEF TablesInv
  <2>3. Built(r)' /\ pid'[r] = id
    BY <2>2
  <2>4. InTable(r)' \/ \E u \in Threads : Of(u) = r /\ pc'[u] = "exec_replace"
    <3>1. CASE r = p
      BY <2>1, <2>2, <3>1
    <3>2. CASE r # p
      BY <2>2, <3>2
    <3>3. QED
      BY <3>1, <3>2
  <2>5. QED
    BY <2>1, <2>2, <2>3, <2>4 DEF Built, InTable
<1>7. QED
  BY <1>4, <1>5, <1>6 DEF TablesInv, MainTid

\* Who waits is neither the process that exits nor its heir.
LEMMA ExitWait ==
    ASSUME ProcInv, NEW p \in Processes, NEW heir \in Processes, parent[p] = Idle,
           pc[MainThread(p)] # "wait", pc[MainThread(heir)] # "wait",
           \A r \in Processes \ {p, heir, Idle} : children'[r] = children[r],
           \A r \in Processes \ {p} : status'[r] = status[r],
           waiters' = [waiters EXCEPT ![p] = <<>>],
           UNCHANGED <<pid, pgid, filter, woken, result>>,
           \A u \in Threads : pc'[u] = "wait" <=> pc[u] = "wait"
    PROVE  WaitInv' /\ waiters' = waiters
<1>1. waiters' = waiters
  <2>1. waiters \in [Processes -> Seq(Threads)]
    BY DEF ProcInv, TypeOK
  <2>2. ~Asleep(MainThread(p))
    BY DEF Asleep
  <2>3. waiters[p] = <<>>
    BY <2>2 DEF ProcInv, WaitInv
  <2>4. QED
    BY <2>1, <2>3
<1>2. ASSUME NEW r \in Processes, pc[MainThread(r)] = "wait"
      PROVE  /\ \A d : (d \in Elements(children'[r]) /\ status'[d] = "zombie")
                          <=> (d \in Elements(children[r]) /\ status[d] = "zombie")
             /\ \A d \in Elements(children[r]) : pid'[d] = pid[d] /\ pgid'[d] = pgid[d]
  <2>1. r # Idle
    <3>1. pc[MainThread(Idle)] = "none"
      BY Basics DEF ProcInv, ThreadsInv
    <3>2. QED
      BY <1>2, <3>1
  <2>2. children'[r] = children[r]
    BY <1>2, <2>1
  <2>3. \A d \in Elements(children[r]) : d \in Processes /\ parent[d] = r
    BY ElementsAre, SMT DEF ProcInv, TypeOK, TreeInv
  <2>4. \A d \in Elements(children[r]) : status'[d] = status[d]
    BY <2>1, <2>3
  <2>5. QED
    BY <2>2, <2>4
<1>3. QED
  BY <1>1, <1>2, TreeWait

\* The exit of a process whose parent is IDLE.
LEMMA ExitToIdleStep ==
    ASSUME LeastNumbers, ProcInv, NEW t \in Threads, ExitToIdle(t)
    PROVE  ProcInv'
<1>1. PICK p \in Processes \ {Idle} : p = Of(t)
  BY LastOne DEF ExitToIdle
<1>2. /\ pc[t] = "last" /\ parent[p] = Idle /\ status[p] = "live" /\ threads[p] = {}
      /\ pc[MainThread(p)] # "none" /\ InTable(p) /\ pid[p] \in Pids
      /\ \A u \in Threads \ {t} : Of(u) = p => pc[u] # "last"
      /\ p = 1 => \A q \in Processes : ~Successor(q)
  BY <1>1, LastOne DEF ExitToIdle
<1>3. /\ children \in [Processes -> Seq(Processes)] /\ pid \in [Processes -> Nat]
      /\ status[Idle] = "live" /\ children[Idle] \in Seq(Processes) /\ Idle \in Processes \ {p}
  BY Basics DEF ProcInv, TypeOK, ThreadsInv
<1>4. p \in Elements(children[Idle]) /\ Idle \notin Elements(children[p])
  BY <1>2, Basics DEF ProcInv, TreeInv
<1>5. /\ threadTable' = ThreadTableAfter(t) \ {MainTid(pid[p])}
      /\ processTable' = [processTable EXCEPT ![pid[p]] = NoProcess]
      /\ exit(p, Idle)
      /\ children' = RemoveChild(Adopted(p, Idle), Idle, pid[p])
      /\ waiters' = [waiters EXCEPT ![p] = <<>>]
      /\ pc' = [pc EXCEPT ![t] = "exited"]
      /\ UNCHANGED <<pid, pgid, threads, forced, filter, woken, result, captured, fresh, panicked>>
  <2>1. processTable[pid[p]] = p /\ MainTid(pid[p]) \in threadTable /\ processTable[pid[p]] # NoProcess
    <3>1. processTable[pid[p]] = p
      BY <1>2 DEF ProcInv, TablesInv
    <3>2. processTable[pid[p]] # NoProcess
      BY <3>1, Basics
    <3>3. MainTid(pid[p]) \in threadTable
      BY <1>2, <3>2 DEF ProcInv, TablesInv
    <3>4. QED
      BY <3>1, <3>2, <3>3
  <2>2. ChildIndex(Idle, pid[p]) # 0
    <3>1. p \in Elements(children[Idle]) \cap HavePid(pid[p])
      BY <1>4 DEF HavePid
    <3>2. FirstIn(children[Idle], HavePid(pid[p])) # 0
      BY <1>3, <3>1, FirstInIs, SMT
    <3>3. QED
      BY <3>2 DEF ChildIndex
  <2>3. QED
    BY <1>1, <2>1, <2>2 DEF ExitToIdle, Goto
<1>6. PICK c \in [Processes -> Seq(Processes)] :
         /\ c = Adopted(p, Idle)
         /\ c[p] = <<>> /\ OnceEach(c[Idle])
         /\ \A r \in Processes \ {p, Idle} : c[r] = children[r]
         /\ Elements(c[Idle]) = Elements(children[Idle]) \cup Elements(children[p])
         /\ Len(children[Idle]) > 0 => Len(c[Idle]) > 0 /\ c[Idle][1] = children[Idle][1]
  BY <1>3, AdoptedIs
<1>7. \A d \in Elements(c[Idle]) : pid[d] = pid[p] => d = p
  <2>1. SUFFICES ASSUME NEW d \in Elements(c[Idle]), pid[d] = pid[p], d # p PROVE FALSE
    OBVIOUS
  <2>2. PICK r \in Processes : d \in Elements(children[r])
    BY <1>3, <1>6
  <2>3. d \in Processes \ {Idle} /\ Built(d) /\ (pid[d] = 1 => status[d] = "live")
    <3>1. d \in Processes
      BY <1>3, <2>2, ElementsAre
    <3>2. QED
      BY <2>2, <3>1 DEF ProcInv, TreeInv
  <2>4. pid[d] \in {d, 1} /\ pid[p] \in {p, 1}
    BY <1>2, <2>3 DEF ProcInv, TreeInv, Built
  <2>5. pid[d] = 1 /\ pid[p] = 1 /\ status[d] = "live"
    BY <2>1, <2>3, <2>4
  <2>6. CASE p = 1
    BY <1>2, <2>1, <2>3, <2>5, <2>6 DEF Successor
  <2>7. CASE p # 1
    <3>1. Successor(p)
      BY <1>2, <2>5, <2>7 DEF Successor, Built
    <3>2. status[1] = "zombie"
      <4>1. status[1] # "live"
        BY <1>2, <3>1 DEF ProcInv, ExecInv
      <4>2. status[1] \in {"none", "live", "zombie"} /\ status[1] # "none"
        BY Basics DEF ProcInv, TypeOK, ThreadsInv, Built
      <4>3. QED
        BY <4>1, <4>2
    <3>3. d # 1
      BY <2>5, <3>2
    <3>4. Successor(d)
      BY <2>3, <2>5, <3>3 DEF Successor
    <3>5. QED
      BY <2>1, <2>3, <3>1, <3>2, <3>4 DEF ProcInv, ExecInv
  <2>8. QED
    BY <2>6, <2>7
<1>8. PICK s \in Seq(Processes) :
         /\ s = SwapRemove(c[Idle], FirstIn(c[Idle], HavePid(pid[p])))
         /\ OnceEach(s) /\ Elements(s) = Elements(c[Idle]) \ {p}
         /\ c[Idle][1] # p => Len(s) > 0 /\ s[1] = c[Idle][1]
  <2>1. c[Idle] \in Seq(Processes) /\ OnceEach(c[Idle]) /\ p \in Elements(c[Idle])
    BY <1>3, <1>4, <1>6
  <2>2. QED
    BY <1>3, <1>7, <2>1, RemovedIs, SMT
<1>9. children' = [c EXCEPT ![Idle] = s]
  BY <1>5, <1>6, <1>8 DEF RemoveChild
<1>10. /\ children' \in [Processes -> Seq(Processes)] /\ children'[p] = <<>> /\ children'[Idle] = s
       /\ \A r \in Processes \ {p, Idle} : children'[r] = children[r]
  BY <1>3, <1>6, <1>9
<1>11. status'[p] = "zombie" /\ \A q \in Processes \ {p} : status'[q] = status[q]
  BY <1>5 DEF exit, ProcInv, TypeOK
<1>12. ExitChildren(p, Idle, TRUE)
  <2>1. ASSUME NEW r \in Processes
        PROVE  OnceEach(children'[r]) /\ (~Built(r) => children'[r] = children[r])
    <3>1. OnceEach(children[r]) /\ OnceEach(<<>>)
      BY SMT DEF ProcInv, TreeInv, OnceEach
    <3>2. Built(p) /\ Built(Idle)
      BY <1>2, <1>3 DEF Built
    <3>3. QED
      BY <1>8, <1>10, <3>1, <3>2
  <2>2. ASSUME NEW r \in Processes \ {p}, NEW d
        PROVE  d \in Elements(children'[r]) <=>
                  /\ d \in Elements(children[r]) \/ (r = Idle /\ d \in Elements(children[p]))
                  /\ ~(TRUE /\ d = p)
    <3>1. CASE r = Idle
      BY <1>6, <1>8, <1>10, <3>1
    <3>2. CASE r # Idle
      <4>1. p \notin Elements(children[r])
        BY <1>2, <3>2, SMT DEF ProcInv, TreeInv
      <4>2. QED
        BY <1>10, <3>2, <4>1
    <3>3. QED
      BY <3>1, <3>2
  <2>3. ASSUME status'[1] = "live" PROVE Len(children'[Idle]) > 0 /\ children'[Idle][1] = 1
    <3>1. p # 1 /\ status[1] = "live"
      BY <1>11, <2>3, Basics
    <3>2. Len(children[Idle]) > 0 /\ children[Idle][1] = 1
      BY <3>1 DEF ProcInv, TreeInv
    <3>3. QED
      BY <1>6, <1>8, <1>10, <3>1, <3>2
  <2>4. QED
    BY <1>10, <2>1, <2>2, <2>3 DEF ExitChildren
<1>13. /\ TreeInv'
       /\ \A q \in Processes : parent[q] # p => parent'[q] = parent[q]
       /\ \A q \in Processes \ {p} :
             q \in Elements(children'[parent'[q]]) <=> q \in Elements(children[parent[q]])
       /\ p \notin Elements(children'[parent'[p]])
  BY <1>2, <1>3, <1>4, <1>5, <1>12, ExitTree
<1>14. /\ ThreadsInv' /\ pc[MainThread(p)] # "wait"
       /\ pc'[t] = "exited" /\ \A u \in Threads \ {t} : pc'[u] = pc[u]
       /\ \A u \in Threads : pc'[u] = "none" <=> pc[u] = "none"
       /\ \A u \in Threads : pc'[u] = "wait" <=> pc[u] = "wait"
  <2>1. threads[p] \subseteq {t} /\ threads'[p] = {} /\ \A r \in Processes \ {p} : threads'[r] = threads[r]
    BY <1>2, <1>5
  <2>2. QED
    BY <1>1, <1>2, <1>5, <1>11, <2>1, ExitThreads
<1>15. TypeOK'
  <2>1. status' \in [Processes -> {"none", "live", "zombie"}] /\ parent' \in [Processes -> Processes]
    BY <1>3, <1>5 DEF ProcInv, TypeOK, exit
  <2>2. /\ processTable' \in [Pids -> Processes \cup {NoProcess}] /\ pc' \in [Threads -> Labels]
        /\ threadTable' \subseteq Pids \X (1 .. MaxThread)
    BY <1>5, OtherTids DEF ProcInv, TypeOK, Labels
  <2>3. waiters' \in [Processes -> Seq(Threads)] /\ \A r \in Processes : Elements(waiters'[r]) \subseteq Elements(waiters[r])
    BY <1>5, SMT DEF ProcInv, TypeOK, Elements
  <2>4. QED
    BY <1>5, <1>10, <2>1, <2>2, <2>3 DEF ProcInv, TypeOK
<1>16. ExecInv'
  BY <1>1, <1>2, <1>5, <1>11, <1>13, <1>14, LastExec
<1>17. TablesInv'
  <2>1. \A q \in Processes : Built(q)' <=> Built(q)
    BY <1>2, <1>11 DEF Built
  <2>2. \A q \in Processes \ {p} : InTable(q)' <=> InTable(q)
    <3>1. \A q \in Processes : pc'[MainThread(q)] = "none" <=> pc[MainThread(q)] = "none"
      BY <1>14, Basics
    <3>2. QED
      BY <1>11, <1>13, <3>1 DEF InTable
  <2>3. ~InTable(p)'
    BY <1>11, <1>13 DEF InTable
  <2>4. \A u \in Threads : pc[u] = "exec_replace" => pc'[u] = "exec_replace"
    BY <1>2, <1>14
  <2>5. \A id \in Pids : MainTid(id) \in threadTable' <=> MainTid(id) \in threadTable /\ id # pid[p]
    BY <1>5, OtherTids DEF MainTid
  <2>6. PICK kept \in BOOLEAN : ~kept
    OBVIOUS
  <2>7. QED
    BY <1>2, <1>5, <2>1, <2>2, <2>3, <2>4, <2>5, <2>6, ExitTables
<1>18. WaitInv'
  <2>1. pc[MainThread(Idle)] # "wait"
    BY Basics DEF ProcInv, ThreadsInv
  <2>2. PICK heir \in Processes : heir = Idle
    BY Basics
  <2>3. /\ parent[p] = Idle /\ pc[MainThread(p)] # "wait" /\ pc[MainThread(heir)] # "wait"
        /\ \A r \in Processes \ {p, heir, Idle} : children'[r] = children[r]
        /\ \A r \in Processes \ {p} : status'[r] = status[r]
        /\ \A u \in Threads : pc'[u] = "wait" <=> pc[u] = "wait"
    BY <1>2, <1>10, <1>11, <1>14, <2>1, <2>2
  <2>4. /\ waiters' = [waiters EXCEPT ![p] = <<>>]
        /\ UNCHANGED <<pid, pgid, filter, woken, result>>
    BY <1>5
  <2>5. QED
    BY ONLY ProcInv, p \in Processes, heir \in Processes, <2>3, <2>4, ExitWait
<1>19. QED
  BY <1>5, <1>13, <1>14, <1>15, <1>16, <1>17, <1>18 DEF ProcInv

\* del_and_wake_one_waiter: the parent has one waiter or none, and the exit wakes it if it
\* waits for this child.
LEMMA WakeOne ==
    ASSUME LeastNumbers, ProcInv, NEW p \in Processes, NEW q \in Processes \ {p}, pc[MainThread(p)] # "wait",
           pid[p] \in Pids, del_and_wake_one_waiter(q, p)
    PROVE  LET m == MainThread(q) IN
           \/ /\ UNCHANGED <<waiters, woken, result>>
              /\ Asleep(m) => ~Matches(filter[m], p)
           \/ /\ Asleep(m) /\ Matches(filter[m], p)
              /\ waiters' = [waiters EXCEPT ![q] = <<>>]
              /\ woken' = [woken EXCEPT ![m] = TRUE]
              /\ result' = [result EXCEPT ![m] = pid[p]]
<1> DEFINE i == WaiterIndex(q, p)
<1>1. PICK m \in Threads : m = MainThread(q)
  BY Basics
<1>2. waiters \in [Processes -> Seq(Threads)] /\ waiters[q] \in Seq(Threads)
  BY DEF ProcInv, TypeOK
<1>3. waiters[p] = <<>> /\ waiters[q] = IF Asleep(m) THEN <<m>> ELSE <<>>
  BY <1>1 DEF ProcInv, WaitInv, Asleep
<1>4. /\ i = 0 <=> Elements(waiters[q]) \cap {u \in Threads : Matches(filter[u], p)} = {}
      /\ i # 0 => i \in 1 .. Len(waiters[q]) /\ waiters[q][i] \in {u \in Threads : Matches(filter[u], p)}
  BY <1>2, FirstInIs DEF WaiterIndex
<1> HIDE DEF i
<1>5. CASE i = 0
  <2>1. waiters' = [waiters EXCEPT ![p] = <<>>] /\ UNCHANGED <<woken, result>>
    BY <1>5 DEF del_and_wake_one_waiter, i
  <2>2. waiters' = waiters
    BY <1>2, <1>3, <2>1
  <2>3. ASSUME Asleep(m) PROVE ~Matches(filter[m], p)
    <3>1. m \in Elements(waiters[q])
      <4>1. waiters[q] = <<m>>
        BY <1>3, <2>3
      <4>2. QED
        BY <4>1, SMT DEF Elements
    <3>2. QED
      BY <1>4, <1>5, <3>1
  <2>4. QED
    BY <1>1, <2>1, <2>2, <2>3
<1>6. CASE i # 0
  <2>1. Asleep(m) /\ waiters[q] = <<m>> /\ i = 1 /\ waiters[q][i] = m /\ Matches(filter[m], p)
    <3>1. Asleep(m)
      BY <1>3, <1>4, <1>6, SMT
    <3>2. waiters[q] = <<m>>
      BY <1>3, <3>1
    <3>3. i = 1 /\ waiters[q][i] = m
      BY <1>4, <1>6, <3>2, SMT
    <3>4. QED
      BY <1>4, <1>6, <3>1, <3>2, <3>3
  <2>2. /\ waiters' = [waiters EXCEPT ![q] = SwapRemove(@, i), ![p] = <<>>]
        /\ woken' = [woken EXCEPT ![m] = TRUE] /\ result' = [result EXCEPT ![m] = pid[p]]
    BY <1>6, <2>1 DEF del_and_wake_one_waiter, i
  <2>3. SwapRemove(<<m>>, 1) = <<>>
    BY SMT DEF SwapRemove
  <2>4. waiters' = [waiters EXCEPT ![q] = <<>>, ![p] = <<>>]
    BY <2>1, <2>2, <2>3
  <2>5. waiters' = [waiters EXCEPT ![q] = <<>>]
    BY <1>2, <1>3, <2>4
  <2>6. QED
    BY <1>1, <2>1, <2>2, <2>5
<1>7. QED
  BY <1>5, <1>6

LEMMA ExitWakes ==
    ASSUME LeastNumbers, ProcInv, NEW p \in Processes, NEW q \in Processes \ {p}, parent[p] = q, q # Idle,
           pc[MainThread(p)] # "wait", pid[p] \in Pids, del_and_wake_one_waiter(q, p),
           \A r \in Processes \ {p, Idle} : children'[r] = children[r], p \in Elements(children[q]),
           status'[p] = "zombie", \A r \in Processes \ {p} : status'[r] = status[r],
           UNCHANGED <<pid, pgid, filter>>,
           \A u \in Threads : pc'[u] = "wait" <=> pc[u] = "wait"
    PROVE  /\ WaitInv'
           /\ waiters' \in [Processes -> Seq(Threads)]
           /\ \A r \in Processes : Elements(waiters'[r]) \subseteq Elements(waiters[r])
           /\ woken' \in [Threads -> BOOLEAN] /\ result' \in [Threads -> Pids \cup {NoPid}]
<1>1. PICK m \in Threads : m = MainThread(q)
  BY Basics
<1>2. /\ WaitInv /\ waiters \in [Processes -> Seq(Threads)]
      /\ woken \in [Threads -> BOOLEAN] /\ result \in [Threads -> Pids \cup {NoPid}]
  BY DEF ProcInv, TypeOK
<1>3. \/ /\ UNCHANGED <<waiters, woken, result>>
         /\ Asleep(m) => ~Matches(filter[m], p)
      \/ /\ Asleep(m) /\ Matches(filter[m], p)
         /\ waiters' = [waiters EXCEPT ![q] = <<>>]
         /\ woken' = [woken EXCEPT ![m] = TRUE]
         /\ result' = [result EXCEPT ![m] = pid[p]]
  BY <1>1, WakeOne
<1>4. /\ waiters' \in [Processes -> Seq(Threads)]
      /\ \A r \in Processes : Elements(waiters'[r]) \subseteq Elements(waiters[r])
      /\ woken' \in [Threads -> BOOLEAN] /\ result' \in [Threads -> Pids \cup {NoPid}]
  <2>1. woken' \in [Threads -> BOOLEAN] /\ result' \in [Threads -> Pids \cup {NoPid}]
    BY <1>2, <1>3
  <2>2. waiters' \in [Processes -> Seq(Threads)] /\ \A r \in Processes : waiters'[r] \in {waiters[r], <<>>}
    <3>1. CASE waiters' = waiters
      BY <1>2, <3>1
    <3>2. CASE waiters' = [waiters EXCEPT ![q] = <<>>]
      <4>1. <<>> \in Seq(Threads)
        BY SMT
      <4>2. QED
        BY <1>2, <3>2, <4>1
    <3>3. QED
      BY <1>3, <3>1, <3>2
  <2>3. Elements(<<>>) = {}
    BY SMT DEF Elements
  <2>4. QED
    BY <2>1, <2>2, <2>3
<1>5. ASSUME NEW u \in Threads, pc[u] = "wait"
      PROVE  /\ Of(u) \in Processes /\ u = MainThread(Of(u)) /\ children'[Of(u)] = children[Of(u)]
             /\ \A d \in Elements(children[Of(u)]) : d \in Processes /\ (d = p => Of(u) = q)
  <2>1. Of(u) \in Processes /\ u = MainThread(Of(u))
    BY <1>2, <1>5, Basics DEF WaitInv
  <2>2. Of(u) # p /\ Of(u) # Idle
    BY <1>5, <2>1 DEF ProcInv, ThreadsInv
  <2>3. \A d \in Elements(children[Of(u)]) : d \in Processes /\ parent[d] = Of(u)
    BY <2>1, ElementsAre, SMT DEF ProcInv, TypeOK, TreeInv
  <2>4. QED
    BY <2>1, <2>2, <2>3
<1>6. \A u, d : Matches(filter[u], d)' <=> Matches(filter[u], d)
  BY DEF Matches
<1>7. \A u \in Threads : Asleep(u)' => Asleep(u)
  BY <1>2, <1>3 DEF Asleep
<1>8. ASSUME NEW u \in Threads, Asleep(u)'
      PROVE  ~\E d \in Elements(children'[Of(u)]) : Matches(filter[u], d)' /\ status'[d] = "zombie"
  <2>1. SUFFICES ASSUME NEW d \in Elements(children'[Of(u)]), Matches(filter[u], d), status'[d] = "zombie"
                 PROVE  FALSE
    BY <1>6
  <2>2. Asleep(u) /\ pc[u] = "wait"
    BY <1>7, <1>8 DEF Asleep
  <2>3. d \in Elements(children[Of(u)]) /\ d \in Processes /\ (d = p => Of(u) = q)
    BY <1>5, <2>1, <2>2
  <2>4. CASE d = p
    <3>1. u = m
      BY <1>1, <1>5, <2>2, <2>3, <2>4
    <3>2. Asleep(m) /\ Matches(filter[m], p) /\ ~woken'[m]
      BY <1>8, <2>1, <2>2, <2>4, <3>1 DEF Asleep
    <3>3. woken'[m]
      BY <1>2, <1>3, <3>2
    <3>4. QED
      BY <3>2, <3>3
  <2>5. CASE d # p
    <3>1. status[d] = "zombie"
      BY <2>1, <2>3, <2>5
    <3>2. QED
      BY <1>2, <2>1, <2>2, <2>3, <3>1 DEF WaitInv
  <2>6. QED
    BY <2>4, <2>5
<1>9. ASSUME NEW u \in Threads, pc'[u] = "wait", woken'[u], result'[u] # NoPid
      PROVE  \E d \in Elements(children'[Of(u)]) : pid'[d] = result'[u] /\ status'[d] = "zombie"
  <2>1. pc[u] = "wait"
    BY <1>9
  <2>2. CASE woken[u] /\ result'[u] = result[u]
    <3>1. PICK d \in Elements(children[Of(u)]) : pid[d] = result[u] /\ status[d] = "zombie"
      BY <1>2, <1>9, <2>1, <2>2 DEF WaitInv
    <3>2. d \in Elements(children'[Of(u)]) /\ status'[d] = "zombie"
      BY <1>5, <2>1, <3>1
    <3>3. QED
      BY <2>2, <3>1, <3>2
  <2>3. CASE u = m /\ result'[m] = pid[p]
    <3>1. Of(u) = q
      BY <1>1, <2>3, Basics
    <3>2. p \in Elements(children'[Of(u)])
      BY <1>5, <2>1, <3>1
    <3>3. QED
      BY <2>3, <3>2
  <2>4. (woken[u] /\ result'[u] = result[u]) \/ (u = m /\ result'[m] = pid[p])
    BY <1>2, <1>3, <1>9
  <2>5. QED
    BY <2>2, <2>3, <2>4
<1>10. ASSUME NEW r \in Processes
       PROVE  waiters'[r] = IF Asleep(MainThread(r))' THEN <<MainThread(r)>> ELSE <<>>
  <2>1. waiters[r] = IF Asleep(MainThread(r)) THEN <<MainThread(r)>> ELSE <<>>
    BY <1>2 DEF WaitInv
  <2>2. MainThread(r) \in Threads /\ (r # q => MainThread(r) # m)
    BY <1>1, Basics
  <2>3. CASE UNCHANGED <<waiters, woken, result>>
    BY <2>1, <2>2, <2>3 DEF Asleep
  <2>4. CASE /\ waiters' = [waiters EXCEPT ![q] = <<>>]
             /\ woken' = [woken EXCEPT ![m] = TRUE]
    <3>1. CASE r = q
      <4>1. waiters'[r] = <<>> /\ woken'[MainThread(r)]
        BY <1>1, <1>2, <2>4, <3>1
      <4>2. QED
        BY <4>1 DEF Asleep
    <3>2. CASE r # q
      <4>1. waiters'[r] = waiters[r] /\ woken'[MainThread(r)] = woken[MainThread(r)]
        BY <1>2, <2>2, <2>4, <3>2
      <4>2. QED
        BY <2>1, <2>2, <4>1 DEF Asleep
    <3>3. QED
      BY <3>1, <3>2
  <2>5. QED
    BY <1>3, <2>3, <2>4
<1>11. ASSUME NEW u \in Threads
       PROVE  (pc'[u] = "wait" => IsMain(u)) /\ (woken'[u] => pc'[u] = "wait")
  <2>1. (pc[u] = "wait" => IsMain(u)) /\ (woken[u] => pc[u] = "wait")
    BY <1>2 DEF WaitInv
  <2>2. woken'[u] => woken[u] \/ (u = m /\ pc[m] = "wait")
    BY <1>2, <1>3 DEF Asleep
  <2>3. QED
    BY <1>2, <2>1, <2>2
<1>12. WaitInv'
  BY <1>8, <1>9, <1>10, <1>11 DEF WaitInv
<1>13. QED
  BY <1>4, <1>12

\* The exit of a process whose parent is another one: it stays as a zombie.
LEMMA ExitToParentStep ==
    ASSUME LeastNumbers, ProcInv, NEW t \in Threads, ExitToParent(t)
    PROVE  ProcInv'
<1>0. PICK p \in Processes \ {Idle} : p = Of(t)
  BY LastOne DEF ExitToParent
<1>1. PICK q \in Processes : p = Of(t) /\ q = parent[p]
  BY <1>0 DEF ProcInv, TypeOK
<1>2. /\ pc[t] = "last" /\ status[p] = "live" /\ threads[p] = {}
      /\ pc[MainThread(p)] # "none" /\ InTable(p) /\ pid[p] \in Pids
      /\ \A u \in Threads \ {t} : Of(u) = p => pc[u] # "last"
  BY <1>1, LastOne DEF ExitToParent
<1>3. /\ status[Idle] = "live" /\ Idle \in Processes \ {p}
      /\ children \in [Processes -> Seq(Processes)]
  BY Basics DEF ProcInv, TypeOK, ThreadsInv
<1>4. /\ q # p /\ q # Idle /\ status[q] = "live" /\ p \in Elements(children[q])
      /\ Idle \notin Elements(children[p])
  <2>1. q # Idle
    BY <1>1 DEF ExitToParent
  <2>2. q # p /\ status[q] = "live" /\ p \in Elements(children[q])
    BY <1>1, <1>2 DEF ProcInv, TreeInv, Built
  <2>3. Idle \notin Elements(children[p])
    BY DEF ProcInv, TreeInv
  <2>4. QED
    BY <2>1, <2>2, <2>3
<1>5. /\ threadTable' = ThreadTableAfter(t) /\ exit(p, Idle) /\ children' = Adopted(p, Idle)
      /\ del_and_wake_one_waiter(q, p)
      /\ pc' = [pc EXCEPT ![t] = "exited"]
      /\ UNCHANGED <<pid, pgid, threads, forced, processTable, filter, captured, fresh, panicked>>
  BY <1>1, <1>4 DEF ExitToParent, Goto
<1>6. pid[p] # 1
  <2>1. p # 1
    BY <1>1, <1>4 DEF ProcInv, ExecInv
  <2>2. ~Successor(p)
    BY <1>1, <1>4 DEF ProcInv, ExecInv
  <2>3. QED
    BY <1>2, <2>1, <2>2 DEF Successor, Built
<1>7. /\ children' \in [Processes -> Seq(Processes)] /\ children'[p] = <<>> /\ OnceEach(children'[Idle])
      /\ \A r \in Processes \ {p, Idle} : children'[r] = children[r]
      /\ Elements(children'[Idle]) = Elements(children[Idle]) \cup Elements(children[p])
      /\ Len(children[Idle]) > 0 => Len(children'[Idle]) > 0 /\ children'[Idle][1] = children[Idle][1]
  <2>1. PICK c \in [Processes -> Seq(Processes)] :
           /\ c = Adopted(p, Idle)
           /\ c[p] = <<>> /\ OnceEach(c[Idle])
           /\ \A r \in Processes \ {p, Idle} : c[r] = children[r]
           /\ Elements(c[Idle]) = Elements(children[Idle]) \cup Elements(children[p])
           /\ Len(children[Idle]) > 0 => Len(c[Idle]) > 0 /\ c[Idle][1] = children[Idle][1]
    BY <1>3, AdoptedIs
  <2>2. children' = c
    BY <1>5, <2>1
  <2>3. QED
    BY <2>1, <2>2
<1>8. status'[p] = "zombie" /\ \A r \in Processes \ {p} : status'[r] = status[r]
  BY <1>5 DEF exit, ProcInv, TypeOK
<1>9. ExitChildren(p, Idle, FALSE)
  <2>1. ASSUME NEW r \in Processes
        PROVE  OnceEach(children'[r]) /\ (~Built(r) => children'[r] = children[r])
    <3>1. OnceEach(children[r]) /\ OnceEach(<<>>)
      BY SMT DEF ProcInv, TreeInv, OnceEach
    <3>2. Built(p) /\ Built(Idle)
      BY <1>2, <1>3 DEF Built
    <3>3. QED
      BY <1>7, <3>1, <3>2
  <2>2. ASSUME NEW r \in Processes \ {p}, NEW d
        PROVE  d \in Elements(children'[r]) <=>
                  /\ d \in Elements(children[r]) \/ (r = Idle /\ d \in Elements(children[p]))
                  /\ ~(FALSE /\ d = p)
    BY <1>7
  <2>3. ASSUME status'[1] = "live" PROVE Len(children'[Idle]) > 0 /\ children'[Idle][1] = 1
    <3>1. status[1] = "live"
      BY <1>8, <2>3, Basics
    <3>2. Len(children[Idle]) > 0 /\ children[Idle][1] = 1
      BY <3>1 DEF ProcInv, TreeInv
    <3>3. QED
      BY <1>7, <3>2
  <2>4. QED
    BY <1>7, <2>1, <2>2, <2>3 DEF ExitChildren
<1>10. /\ TreeInv'
       /\ \A r \in Processes : parent[r] # p => parent'[r] = parent[r]
       /\ \A r \in Processes \ {p} :
             r \in Elements(children'[parent'[r]]) <=> r \in Elements(children[parent[r]])
       /\ p \in Elements(children'[parent'[p]])
  BY <1>2, <1>3, <1>4, <1>5, <1>6, <1>9, ExitTree
<1>11. /\ ThreadsInv' /\ pc[MainThread(p)] # "wait"
       /\ pc'[t] = "exited" /\ \A u \in Threads \ {t} : pc'[u] = pc[u]
       /\ \A u \in Threads : pc'[u] = "none" <=> pc[u] = "none"
       /\ \A u \in Threads : pc'[u] = "wait" <=> pc[u] = "wait"
  <2>1. threads[p] \subseteq {t} /\ threads'[p] = {} /\ \A r \in Processes \ {p} : threads'[r] = threads[r]
    BY <1>2, <1>5
  <2>2. QED
    BY <1>1, <1>2, <1>5, <1>8, <2>1, ExitThreads
<1>12. /\ WaitInv'
       /\ waiters' \in [Processes -> Seq(Threads)]
       /\ \A r \in Processes : Elements(waiters'[r]) \subseteq Elements(waiters[r])
       /\ woken' \in [Threads -> BOOLEAN] /\ result' \in [Threads -> Pids \cup {NoPid}]
  BY <1>1, <1>2, <1>4, <1>5, <1>7, <1>8, <1>11, ExitWakes
<1>13. TypeOK'
  <2>1. status' \in [Processes -> {"none", "live", "zombie"}] /\ parent' \in [Processes -> Processes]
    BY <1>3, <1>5 DEF ProcInv, TypeOK, exit
  <2>2. pc' \in [Threads -> Labels] /\ threadTable' \subseteq Pids \X (1 .. MaxThread)
    BY <1>5, OtherTids DEF ProcInv, TypeOK, Labels
  <2>3. QED
    BY <1>5, <1>7, <1>12, <2>1, <2>2 DEF ProcInv, TypeOK
<1>14. ExecInv'
  BY <1>1, <1>2, <1>5, <1>8, <1>10, <1>11, LastExec
<1>15. TablesInv'
  <2>1. \A r \in Processes : Built(r)' <=> Built(r)
    BY <1>2, <1>8 DEF Built
  <2>2. \A r \in Processes \ {p} : InTable(r)' <=> InTable(r)
    <3>1. \A r \in Processes : pc'[MainThread(r)] = "none" <=> pc[MainThread(r)] = "none"
      BY <1>11, Basics
    <3>2. QED
      BY <1>8, <1>10, <3>1 DEF InTable
  <2>3. InTable(p)'
    BY <1>8, <1>10 DEF InTable
  <2>4. \A u \in Threads : pc[u] = "exec_replace" => pc'[u] = "exec_replace"
    BY <1>2, <1>11
  <2>5. \A id \in Pids : MainTid(id) \in threadTable' <=> MainTid(id) \in threadTable
    BY <1>5, OtherTids DEF MainTid
  <2>6. PICK kept \in BOOLEAN : kept
    OBVIOUS
  <2>7. QED
    BY <1>2, <1>5, <2>1, <2>2, <2>3, <2>4, <2>5, <2>6, ExitTables
<1>16. QED
  BY <1>5, <1>10, <1>11, <1>12, <1>13, <1>14, <1>15 DEF ProcInv
=============================================================================
