--------------------------- MODULE ProcessSteps ----------------------------
(***************************************************************************)
(* Proofs about Process, first part: the inductive invariant, and that the *)
(* steps keep it by which a thread enters and leaves system calls, waits   *)
(* for children and reaps them.  The theorems are in ProcessProofs.        *)
(***************************************************************************)
EXTENDS Process, TLAPS
USE ZenonT(40)

\* Only the main thread of a process calls wait4.
OnlyMainWaits == \A i \in 2 .. MaxThread : WaitFilters[i] = {}

\* Only the first process, the one IDLE spawned at boot, calls execve.
OnlyFirstExecs == Executors \subseteq {1}

-----------------------------------------------------------------------------
(* The inductive invariant *)

Inside == {"user", "wait", "exit_group", "exit", "exec", "exec_wait"}
Replacing == {"exec_wait", "exec_replace"}
Built(q) == status[q] # "none"
OnceEach(s) == \A i, j \in 1 .. Len(s) : s[i] = s[j] => i = j

\* The processes that execve builds: they have the pid of the first one.
Successor(q) == q \notin {Idle, 1} /\ Built(q) /\ pid[q] = 1

\* A thread of an object that is not built, of IDLE, or of a process that execve has not yet
\* started does not run.  A thread in the LibOS or in user mode is one of its process, which
\* is live; the last one to leave finds no other.
ThreadsInv ==
    /\ status[Idle] = "live" /\ Built(1)
    /\ threads[Idle] = {}
    /\ \A q \in Processes : status[q] # "live" => threads[q] = {}
    /\ \A q \in Processes \ {Idle} :
          status[q] = "live" /\ pc[MainThread(q)] = "none" => MainThread(q) \in threads[q]
    /\ \A t \in Threads :
          /\ Of(t) = Idle \/ ~Built(Of(t)) => pc[t] = "none"
          /\ pc[MainThread(Of(t))] = "none" => pc[t] = "none"
          /\ pc[t] \in Inside => t \in threads[Of(t)]
          /\ t \in threads[Of(t)] => pc[t] \in Inside \cup {"none"}
          /\ pc[t] = "last" => threads[Of(t)] = {} /\ status[Of(t)] = "live"
          /\ pc[t] # "panic"
    /\ \A t, u \in Threads : pc[t] = "last" /\ pc[u] = "last" /\ Of(t) = Of(u) => t = u

\* execve: the first process builds its successor as a child of IDLE, each thread its own;
\* when it has exited there is one.
ExecInv ==
    /\ parent[1] = Idle
    /\ \A t \in Threads :
          /\ pc[t] \in Replacing \cup {"exec"} => Of(t) = 1 /\ captured[t] = Idle
          /\ pc[t] \in Replacing =>
                /\ fresh[t] \in Processes /\ Successor(fresh[t])
                /\ pc[MainThread(fresh[t])] = "none"
          /\ pc[t] = "exec_replace" => status[1] = "zombie"
    /\ \A q \in Processes : Successor(q) =>
          /\ parent[q] = Idle
          /\ pc[MainThread(q)] = "none" =>
                status[q] = "live" /\ \E t \in Threads : pc[t] \in Replacing /\ fresh[t] = q
          /\ status[1] = "live" => pc[MainThread(q)] = "none"
    /\ \A q, r \in Processes : Successor(q) /\ Successor(r) /\ status[1] = "zombie" => q = r
    /\ \A t, u \in Threads : pc[t] = "exec_replace" /\ pc[u] = "exec_replace" => t = u

\* A built process other than IDLE has its number as pid, or that of the first one.  Every
\* child is a child of its parent and once, a live process is a child of a live one, those
\* with the pid of the first process leave no zombie, and the first process is at the head of
\* IDLE's children.
TreeInv ==
    /\ \A q \in Processes \ {Idle} : Built(q) => pid[q] \in {q, 1} /\ parent[q] # q
    /\ \A p \in Processes :
          /\ ~Built(p) => children[p] = <<>>
          /\ OnceEach(children[p])
          /\ \A c \in Elements(children[p]) :
                /\ c # Idle /\ Built(c) /\ parent[c] = p
                /\ pid[c] = 1 => status[c] = "live"
    /\ \A q \in Processes \ {Idle} : status[q] = "live" =>
          /\ status[parent[q]] = "live"
          /\ q \in Elements(children[parent[q]])
    /\ status[1] = "live" => Len(children[Idle]) > 0 /\ children[Idle][1] = 1

\* A process that runs or waits to be reaped has its pid in the table.
InTable(q) ==
    \/ status[q] = "live" /\ pc[MainThread(q)] # "none"
    \/ status[q] = "zombie" /\ q \in Elements(children[parent[q]])

TablesInv ==
    /\ \A q \in Processes \ {Idle} : InTable(q) => processTable[pid[q]] = q
    /\ \A id \in Pids : (processTable[id] # NoProcess) <=> (MainTid(id) \in threadTable)
    /\ \A id \in Pids : processTable[id] # NoProcess =>
          LET p == processTable[id] IN
          /\ p # Idle /\ Built(p) /\ pid[p] = id
          /\ \/ InTable(p)
             \/ \E t \in Threads : Of(t) = p /\ pc[t] = "exec_replace"

\* The queue of a process holds its main thread while that sleeps in wait4; a thread that has
\* been woken for a child finds it a zombie.
Asleep(t) == pc[t] = "wait" /\ ~woken[t]
WaitInv ==
    /\ \A t \in Threads :
          /\ pc[t] = "wait" => IsMain(t)
          /\ woken[t] => pc[t] = "wait"
          /\ pc[t] = "wait" /\ woken[t] /\ result[t] # NoPid =>
                \E c \in Elements(children[Of(t)]) : pid[c] = result[t] /\ status[c] = "zombie"
          /\ Asleep(t) =>
                ~\E c \in Elements(children[Of(t)]) : Matches(filter[t], c) /\ status[c] = "zombie"
    /\ \A p \in Processes :
          waiters[p] = IF Asleep(MainThread(p)) THEN <<MainThread(p)>> ELSE <<>>

ProcInv == TypeOK /\ ThreadsInv /\ ExecInv /\ TreeInv /\ TablesInv /\ WaitInv /\ panicked = {}

-----------------------------------------------------------------------------
(* Numbers and vectors *)

\* A set of numbers that has a member has a least one: a fact about numbers that the lemmas
\* about first members of a vector start from, and that ProcessProofs shows.
LeastNumbers == \A S \in SUBSET Nat : S # {} => \E n \in S : \A m \in S : n <= m

\* What there is to know about the sets that the constants stand for.
LEMMA Basics ==
    /\ Idle \in Processes /\ 1 \in Processes /\ Idle # 1
    /\ Pids = Processes \ {Idle} /\ NoProcess \notin Processes /\ NoPid \notin Pids
    /\ Processes \subseteq Nat
    /\ \A p \in Processes : MainThread(p) \in Threads /\ Of(MainThread(p)) = p /\ IsMain(MainThread(p))
    /\ \A t \in Threads : Of(t) \in Processes /\ (IsMain(t) => t = MainThread(Of(t)))
<1>1. 1 \in 1 .. MaxThread
  BY BoundsAssumption, SMT
<1>2. \A t \in Threads : t = <<t[1], t[2]>> /\ t[1] \in Processes
  BY SMT DEF Threads
<1>3. \A p \in Processes : MainThread(p) \in Threads /\ Of(MainThread(p)) = p /\ IsMain(MainThread(p))
  BY <1>1 DEF MainThread, Threads, Of, IsMain
<1>4. \A t \in Threads : Of(t) \in Processes /\ (IsMain(t) => t = MainThread(Of(t)))
  BY <1>2 DEF MainThread, Of, IsMain
<1>5. Idle \in Processes /\ 1 \in Processes /\ Idle # 1 /\ Pids = Processes \ {Idle}
      /\ NoProcess \notin Processes /\ NoPid \notin Pids /\ Processes \subseteq Nat
  BY BoundsAssumption, SMT DEF Idle, Processes, Pids, NoProcess, NoPid
<1>6. QED
  BY <1>3, <1>4, <1>5

\* The elements of a vector are what its indices hold.
LEMMA ElementsAre ==
    ASSUME NEW T, NEW s \in Seq(T)
    PROVE  /\ \A x : x \in Elements(s) <=> \E i \in 1 .. Len(s) : s[i] = x
           /\ Elements(s) \subseteq T
  BY SMT DEF Elements

\* FirstIn finds the first index of a member, if there is one.
LEMMA FirstInIs ==
    ASSUME LeastNumbers, NEW T, NEW s \in Seq(T), NEW S
    PROVE  /\ FirstIn(s, S) = 0 <=> Elements(s) \cap S = {}
           /\ FirstIn(s, S) # 0 =>
                 /\ FirstIn(s, S) \in 1 .. Len(s)
                 /\ s[FirstIn(s, S)] \in S
                 /\ \A j \in 1 .. FirstIn(s, S) - 1 : s[j] \notin S
<1>1. CASE Elements(s) \cap S = {}
  BY <1>1 DEF FirstIn
<1>2. CASE Elements(s) \cap S # {}
  <2> DEFINE I == {i \in 1 .. Len(s) : s[i] \in S}
  <2>1. I \in SUBSET Nat /\ I # {}
    BY <1>2, ElementsAre, SMT
  <2>2. PICK n \in I : \A m \in I : n <= m
    BY <2>1 DEF LeastNumbers
  <2>3. n \in DOMAIN s /\ s[n] \in S /\ \A j \in 1 .. n - 1 : s[j] \notin S
    BY <2>2, SMT
  <2>4. FirstIn(s, S) = CHOOSE i \in DOMAIN s : s[i] \in S /\ \A j \in 1 .. i - 1 : s[j] \notin S
    BY <1>2, Zenon DEF FirstIn
  <2> HIDE DEF I
  <2>5. /\ FirstIn(s, S) \in DOMAIN s /\ s[FirstIn(s, S)] \in S
        /\ \A j \in 1 .. FirstIn(s, S) - 1 : s[j] \notin S
    BY <2>3, <2>4, Zenon
  <2>6. DOMAIN s = 1 .. Len(s)
    BY SMT
  <2>7. FirstIn(s, S) \in 1 .. Len(s) /\ FirstIn(s, S) # 0
    BY <2>5, <2>6, SMT
  <2>8. QED
    BY <1>2, <2>5, <2>7
<1>3. QED
  BY <1>1, <1>2

\* swap_remove takes out one element, and leaves the head where it is unless it is that.
LEMMA SwapRemoveIs ==
    ASSUME NEW T, NEW s \in Seq(T), OnceEach(s), NEW i \in 1 .. Len(s)
    PROVE  /\ SwapRemove(s, i) \in Seq(T)
           /\ OnceEach(SwapRemove(s, i))
           /\ Elements(SwapRemove(s, i)) = Elements(s) \ {s[i]}
           /\ i # 1 => Len(SwapRemove(s, i)) > 0 /\ SwapRemove(s, i)[1] = s[1]
<1> DEFINE r == SwapRemove(s, i)
           n == Len(s)
<1>1. n \in Nat /\ n >= 1 /\ i \in 1 .. n /\ \A k \in 1 .. n : s[k] \in T
  BY SMT
<1>2. /\ r \in Seq(T) /\ Len(r) = n - 1
      /\ \A k \in 1 .. n - 1 : r[k] = IF k = i THEN s[n] ELSE s[k]
  BY SMT DEF SwapRemove
<1>3. \A k, m \in 1 .. n : s[k] = s[m] => k = m
  BY DEF OnceEach
<1> HIDE DEF r, n
<1>4. OnceEach(r)
  BY <1>1, <1>2, <1>3, SMT DEF OnceEach
<1>5. \A x : x \in Elements(r) <=> \E k \in 1 .. n - 1 : r[k] = x
  BY <1>2, ElementsAre, SMT
<1>6. \A x : x \in Elements(s) <=> \E k \in 1 .. n : s[k] = x
  BY ElementsAre DEF n
<1>7. ASSUME NEW x \in Elements(r) PROVE x \in Elements(s) /\ x # s[i]
  BY <1>1, <1>2, <1>3, <1>5, <1>6, SMT
<1>8. ASSUME NEW x \in Elements(s), x # s[i] PROVE x \in Elements(r)
  <2>1. PICK k \in 1 .. n : s[k] = x
    BY <1>6
  <2>2. CASE k = n
    <3>1. i \in 1 .. n - 1 /\ r[i] = x
      BY <1>1, <1>2, <1>8, <2>1, <2>2, SMT
    <3>2. QED
      BY <1>5, <3>1
  <2>3. CASE k # n
    <3>1. k \in 1 .. n - 1 /\ r[k] = x
      BY <1>1, <1>2, <1>8, <2>1, <2>3, SMT
    <3>2. QED
      BY <1>5, <3>1
  <2>4. QED
    BY <2>2, <2>3
<1>9. Elements(r) = Elements(s) \ {s[i]}
  BY <1>7, <1>8
<1>10. i # 1 => Len(r) > 0 /\ r[1] = s[1]
  BY <1>1, <1>2, SMT
<1>11. QED
  BY <1>2, <1>4, <1>9, <1>10 DEF r

\* A new child goes to the end.
LEMMA AppendIs ==
    ASSUME NEW T, NEW s \in Seq(T), OnceEach(s), NEW x \in T, x \notin Elements(s)
    PROVE  /\ Append(s, x) \in Seq(T)
           /\ OnceEach(Append(s, x))
           /\ Elements(Append(s, x)) = Elements(s) \cup {x}
           /\ Len(s) > 0 => Len(Append(s, x)) > 0 /\ Append(s, x)[1] = s[1]
<1> DEFINE r == Append(s, x)
           n == Len(s)
<1>1. /\ n \in Nat /\ r \in Seq(T) /\ Len(r) = n + 1 /\ r[n + 1] = x
      /\ \A k \in 1 .. n : r[k] = s[k]
  BY SMT
<1>2. \A k, m \in 1 .. n : s[k] = s[m] => k = m
  BY DEF OnceEach
<1> HIDE DEF r
<1>3. \A y : y \in Elements(r) <=> \E k \in 1 .. n + 1 : r[k] = y
  BY <1>1, ElementsAre, SMT
<1>4. \A y : y \in Elements(s) <=> \E k \in 1 .. n : s[k] = y
  BY ElementsAre
<1> HIDE DEF n
<1>5. OnceEach(r)
  BY <1>1, <1>2, <1>4, SMT DEF OnceEach
<1>6. Elements(r) = Elements(s) \cup {x}
  BY <1>1, <1>3, <1>4, SMT
<1>7. n > 0 => Len(r) > 0 /\ r[1] = s[1]
  BY <1>1, SMT
<1>8. QED
  BY <1>1, <1>5, <1>6, <1>7 DEF r, n

\* The children of a process that exits go behind those of the process that adopts them.
LEMMA ConcatIs ==
    ASSUME NEW T, NEW s \in Seq(T), OnceEach(s), NEW r \in Seq(T), OnceEach(r),
           Elements(s) \cap Elements(r) = {}
    PROVE  /\ s \o r \in Seq(T)
           /\ OnceEach(s \o r)
           /\ Elements(s \o r) = Elements(s) \cup Elements(r)
           /\ Len(s) > 0 => Len(s \o r) > 0 /\ (s \o r)[1] = s[1]
<1> DEFINE q == s \o r
           n == Len(s)
           m == Len(r)
<1>1. /\ n \in Nat /\ m \in Nat /\ q \in Seq(T) /\ Len(q) = n + m
      /\ \A k \in 1 .. n + m : q[k] = IF k <= n THEN s[k] ELSE r[k - n]
  BY SMT
<1>2. /\ \A j, k \in 1 .. n : s[j] = s[k] => j = k
      /\ \A j, k \in 1 .. m : r[j] = r[k] => j = k
  BY DEF OnceEach
<1>3. \A y : y \in Elements(s) <=> \E k \in 1 .. n : s[k] = y
  BY ElementsAre
<1>4. \A y : y \in Elements(r) <=> \E k \in 1 .. m : r[k] = y
  BY ElementsAre
<1> HIDE DEF q
<1>5. \A y : y \in Elements(q) <=> \E k \in 1 .. n + m : q[k] = y
  <2>1. \A y : y \in Elements(q) <=> \E k \in 1 .. Len(q) : q[k] = y
    BY ONLY <1>1, ElementsAre, Zenon
  <2>2. QED
    BY <1>1, <2>1
<1> HIDE DEF n, m
<1>6. \A j \in 1 .. n, k \in 1 .. m : s[j] # r[k]
  BY <1>3, <1>4
<1>7. OnceEach(q)
  <2>1. SUFFICES ASSUME NEW j \in 1 .. n + m, NEW k \in 1 .. n + m, q[j] = q[k] PROVE j = k
    BY <1>1 DEF OnceEach
  <2>2. CASE j <= n /\ k <= n
    BY <1>1, <1>2, <2>1, <2>2, SMT
  <2>3. CASE j > n /\ k > n
    <3>1. j - n \in 1 .. m /\ k - n \in 1 .. m /\ r[j - n] = r[k - n]
      BY <1>1, <2>1, <2>3, SMT
    <3>2. j - n = k - n
      BY <1>2, <3>1
    <3>3. QED
      BY <1>1, <3>2, SMT
  <2>4. CASE j <= n /\ k > n
    BY <1>1, <1>6, <2>1, <2>4, SMT
  <2>5. CASE j > n /\ k <= n
    BY <1>1, <1>6, <2>1, <2>5, SMT
  <2>6. QED
    BY <1>1, <2>2, <2>3, <2>4, <2>5, SMT
<1>8. ASSUME NEW y \in Elements(q) PROVE y \in Elements(s) \cup Elements(r)
  BY <1>1, <1>3, <1>4, <1>5, SMT
<1>9. ASSUME NEW y \in Elements(s) PROVE y \in Elements(q)
  <2>1. PICK k \in 1 .. n : s[k] = y
    BY <1>3
  <2>2. k \in 1 .. n + m /\ q[k] = y
    BY <1>1, <2>1, SMT
  <2>3. QED
    BY <1>5, <2>2
<1>10. ASSUME NEW y \in Elements(r) PROVE y \in Elements(q)
  <2>1. PICK k \in 1 .. m : r[k] = y
    BY <1>4
  <2>2. n + k \in 1 .. n + m /\ q[n + k] = y
    BY <1>1, <2>1, SMT
  <2>3. QED
    BY <1>5, <2>2
<1>11. Elements(q) = Elements(s) \cup Elements(r)
  BY <1>8, <1>9, <1>10
<1>12. n > 0 => Len(q) > 0 /\ q[1] = s[1]
  BY <1>1, SMT
<1>13. QED
  BY <1>1, <1>7, <1>11, <1>12 DEF q, n
-----------------------------------------------------------------------------
(* Steps that leave the tree and the tables alone *)

\* The labels that the invariants on execve and on the tables look at.
QuietLabels ==
    /\ \A p \in Processes : pc'[MainThread(p)] = "none" <=> pc[MainThread(p)] = "none"
    /\ \A u \in Threads :
          /\ pc'[u] \in Replacing <=> pc[u] \in Replacing
          /\ pc'[u] = "exec_replace" <=> pc[u] = "exec_replace"
          /\ pc'[u] \in Replacing => captured'[u] = captured[u] /\ fresh'[u] = fresh[u]
          /\ pc'[u] = "exec" => Of(u) = 1 /\ captured'[u] = Idle

LEMMA QuietThreads ==
    ASSUME ThreadsInv, UNCHANGED <<status, threads>>,
           \A u \in Threads :
              /\ pc'[u] \in Inside <=> pc[u] \in Inside
              /\ pc'[u] = "none" <=> pc[u] = "none"
              /\ pc'[u] = "last" <=> pc[u] = "last"
              /\ pc'[u] = "panic" <=> pc[u] = "panic"
    PROVE  ThreadsInv'
<1>1. ASSUME NEW u \in Threads
      PROVE  /\ Of(u) = Idle \/ ~Built(Of(u)) => pc'[u] = "none"
             /\ pc'[MainThread(Of(u))] = "none" => pc'[u] = "none"
             /\ pc'[u] \in Inside => u \in threads[Of(u)]
             /\ u \in threads[Of(u)] => pc'[u] \in Inside \cup {"none"}
             /\ pc'[u] = "last" => threads[Of(u)] = {} /\ status[Of(u)] = "live"
             /\ pc'[u] # "panic"
  <2>1. MainThread(Of(u)) \in Threads
    BY Basics
  <2>2. QED
    BY <2>1 DEF ThreadsInv
<1>2. \A u, w \in Threads : pc'[u] = "last" /\ pc'[w] = "last" /\ Of(u) = Of(w) => u = w
  BY DEF ThreadsInv
<1>3. \A q \in Processes \ {Idle} :
         status[q] = "live" /\ pc'[MainThread(q)] = "none" => MainThread(q) \in threads[q]
  BY Basics DEF ThreadsInv
<1>4. QED
  BY <1>1, <1>2, <1>3 DEF ThreadsInv, Built

LEMMA QuietExec ==
    ASSUME ExecInv, QuietLabels, UNCHANGED <<status, pid, parent>>
    PROVE  ExecInv'
<1>1. \A q : Successor(q)' <=> Successor(q)
  BY DEF Successor, Built
<1>2. ASSUME NEW u \in Threads, pc'[u] \in Replacing \cup {"exec"}
      PROVE  Of(u) = 1 /\ captured'[u] = Idle
  BY <1>2, SMT DEF ExecInv, QuietLabels
<1>3. ASSUME NEW u \in Threads, pc'[u] \in Replacing
      PROVE  (/\ fresh[u] \in Processes /\ Successor(fresh[u])
              /\ pc[MainThread(fresh[u])] = "none")'
  BY <1>3, SMT DEF ExecInv, QuietLabels, Successor, Built
<1>4. ASSUME NEW q \in Processes, Successor(q)'
      PROVE  /\ parent'[q] = Idle
             /\ pc'[MainThread(q)] = "none" =>
                   status'[q] = "live" /\ \E u \in Threads : pc'[u] \in Replacing /\ fresh'[u] = q
             /\ status'[1] = "live" => pc'[MainThread(q)] = "none"
  BY <1>1, <1>4, SMT DEF ExecInv, QuietLabels
<1>5. \A q, r \in Processes : Successor(q)' /\ Successor(r)' /\ status'[1] = "zombie" => q = r
  BY <1>1 DEF ExecInv
<1>6. \A u \in Threads : pc'[u] = "exec_replace" => status'[1] = "zombie"
  BY DEF ExecInv, QuietLabels
<1>7. \A t, u \in Threads : pc'[t] = "exec_replace" /\ pc'[u] = "exec_replace" => t = u
  BY SMT DEF ExecInv, QuietLabels
<1>8. QED
  BY <1>2, <1>3, <1>4, <1>5, <1>6, <1>7, SMT DEF ExecInv

LEMMA QuietTables ==
    ASSUME TypeOK, TablesInv, QuietLabels, UNCHANGED <<status, pid, parent, children, processTable>>,
           \A id \in Pids : MainTid(id) \in threadTable' <=> MainTid(id) \in threadTable
    PROVE  TablesInv'
<1>1. \A q \in Processes : InTable(q)' <=> InTable(q)
  BY DEF InTable, QuietLabels
<1>2. \A q : Built(q)' <=> Built(q)
  BY DEF Built
<1>3. ASSUME NEW id \in Pids, processTable[id] # NoProcess
      PROVE  LET p == processTable[id] IN
             /\ p # Idle /\ Built(p)' /\ pid[p] = id
             /\ InTable(p)' \/ \E t \in Threads : Of(t) = p /\ pc'[t] = "exec_replace"
  <2>1. processTable[id] \in Processes
    BY <1>3 DEF TypeOK
  <2>2. QED
    BY <1>1, <1>2, <1>3, <2>1 DEF TablesInv, QuietLabels
<1>4. \A q \in Processes \ {Idle} : InTable(q)' => processTable'[pid'[q]] = q
  BY <1>1 DEF TablesInv
<1>5. \A id \in Pids : (processTable'[id] # NoProcess) <=> (MainTid(id)' \in threadTable')
  BY DEF TablesInv, MainTid
<1>6. QED
  BY <1>3, <1>4, <1>5 DEF TablesInv

LEMMA QuietTree ==
    ASSUME TreeInv, UNCHANGED <<status, pid, parent, children>>
    PROVE  TreeInv'
  BY SMT DEF TreeInv, Built

\* No thread goes to sleep in wait4 or wakes up.
LEMMA QuietWait ==
    ASSUME WaitInv, UNCHANGED <<status, pid, pgid, children, waiters, filter, woken, result>>,
           \A u \in Threads : pc'[u] = "wait" <=> pc[u] = "wait"
    PROVE  WaitInv'
<1>1. \A u \in Threads : Asleep(u)' <=> Asleep(u)
  BY DEF Asleep
<1>2. \A u, c : Matches(filter[u], c)' <=> Matches(filter[u], c)
  BY DEF Matches
<1>3. ASSUME NEW u \in Threads, Asleep(u)'
      PROVE  ~\E c \in Elements(children[Of(u)]) : Matches(filter[u], c)' /\ status[c] = "zombie"
  BY <1>1, <1>2, <1>3 DEF WaitInv
<1>4. \A p \in Processes : waiters[p] = IF Asleep(MainThread(p))' THEN <<MainThread(p)>> ELSE <<>>
  BY <1>1, Basics DEF WaitInv
<1>5. QED
  BY <1>3, <1>4, SMT DEF WaitInv

\* A thread in user mode starts to exit or to call execve.
LEMMA LeavesUser ==
    ASSUME ProcInv, NEW t \in Threads, pc[t] = "user", NEW l \in {"exit_group", "exit", "exec"},
           pc' = [pc EXCEPT ![t] = l],
           l = "exec" => Of(t) = 1 /\ captured'[t] = Idle,
           captured' \in [Threads -> Processes],
           \A u \in Threads \ {t} : captured'[u] = captured[u],
           forced' \in [Processes -> BOOLEAN],
           UNCHANGED <<status, pid, pgid, parent, children, threads, waiters, tables, filter,
                       woken, result, fresh, panicked>>
    PROVE  ProcInv'
<1>1. TypeOK'
  BY DEF ProcInv, TypeOK, Labels, tables
<1>2. /\ pc \in [Threads -> Labels] /\ pc'[t] = l /\ \A u \in Threads \ {t} : pc'[u] = pc[u]
      /\ \A u \in Threads : pc'[u] = "none" <=> pc[u] = "none"
      /\ \A u \in Threads : pc'[u] \in Replacing <=> pc[u] \in Replacing
      /\ \A u \in Threads : pc'[u] = "exec_replace" <=> pc[u] = "exec_replace"
      /\ \A u \in Threads : pc'[u] = "wait" <=> pc[u] = "wait"
      /\ \A u \in Threads : pc'[u] = "last" <=> pc[u] = "last"
      /\ \A u \in Threads : pc'[u] \in Inside <=> pc[u] \in Inside
      /\ \A u \in Threads : pc'[u] = "panic" <=> pc[u] = "panic"
  BY DEF ProcInv, TypeOK, Replacing, Inside
<1>3. ThreadsInv'
  BY <1>2, QuietThreads DEF ProcInv
<1>4. QuietLabels
  <2>1. \A u \in Threads : pc[u] \in Replacing => u # t
    BY DEF Replacing
  <2>2. \A u \in Threads : pc[u] = "exec" => Of(u) = 1 /\ captured[u] = Idle
    BY DEF ProcInv, ExecInv
  <2>3. QED
    BY <1>2, <2>1, <2>2, Basics, SMT DEF QuietLabels
<1>5. ExecInv' /\ TreeInv' /\ TablesInv' /\ WaitInv'
  BY <1>2, <1>4, QuietExec, QuietTree, QuietTables, QuietWait DEF ProcInv, tables
<1>6. QED
  BY <1>1, <1>3, <1>5 DEF ProcInv

LEMMA ExitCallStep ==
    ASSUME ProcInv, NEW t \in Threads, do_exit_group(t) \/ do_exit(t) \/ handle_force_exit(t)
    PROVE  ProcInv'
<1>1. PICK l \in {"exit_group", "exit"} : pc[t] = "user" /\ pc' = [pc EXCEPT ![t] = l]
  BY DEF do_exit_group, do_exit, handle_force_exit, Goto
<1>2. /\ forced' \in [Processes -> BOOLEAN] /\ captured' = captured
      /\ UNCHANGED <<status, pid, pgid, parent, children, threads, waiters, tables, filter,
                     woken, result, fresh, panicked>>
  BY DEF ProcInv, TypeOK, do_exit_group, do_exit, handle_force_exit, procVars
<1>3. captured' \in [Threads -> Processes]
  BY <1>2 DEF ProcInv, TypeOK
<1>4. QED
  BY <1>1, <1>2, <1>3, LeavesUser

LEMMA ExecCallStep ==
    ASSUME OnlyFirstExecs, ProcInv, NEW t \in Threads, do_exec(t)
    PROVE  ProcInv'
<1>1. pc[t] = "user" /\ pc' = [pc EXCEPT ![t] = "exec"] /\ Of(t) = 1 /\ parent[1] = Idle
  BY DEF do_exec, Goto, OnlyFirstExecs, ProcInv, ExecInv
<1>2. captured \in [Threads -> Processes] /\ captured' = [captured EXCEPT ![t] = Idle]
  BY <1>1 DEF ProcInv, TypeOK, do_exec
<1>3. /\ captured' \in [Threads -> Processes] /\ captured'[t] = Idle
      /\ \A u \in Threads \ {t} : captured'[u] = captured[u]
  BY <1>2, Basics
<1>4. /\ forced' \in [Processes -> BOOLEAN]
      /\ UNCHANGED <<status, pid, pgid, parent, children, threads, waiters, tables, filter,
                     woken, result, fresh, panicked>>
  BY DEF ProcInv, TypeOK, do_exec, procVars
<1>5. QED
  BY <1>1, <1>3, <1>4, LeavesUser

LEMMA FatalSignalStep ==
    ASSUME ProcInv, NEW t \in Threads, handle_fatal_signal(t)
    PROVE  ProcInv'
<1>1. UNCHANGED <<status, pid, pgid, parent, children, threads, waiters, processTable, threadTable,
                  pc, filter, woken, result, captured, fresh, panicked>>
  BY DEF handle_fatal_signal, tables, threadVars
<1>2. TypeOK'
  BY <1>1 DEF ProcInv, TypeOK, handle_fatal_signal
<1>3. QuietLabels
  BY <1>1 DEF QuietLabels, ProcInv, ExecInv
<1>4. ThreadsInv'
  BY <1>1 DEF ProcInv, ThreadsInv, Built
<1>5. ExecInv' /\ TreeInv' /\ TablesInv' /\ WaitInv'
  BY <1>1, <1>3, QuietExec, QuietTree, QuietTables, QuietWait DEF ProcInv
<1>6. QED
  BY <1>1, <1>2, <1>4, <1>5 DEF ProcInv

\* clone: the new thread is one of a process that runs.
LEMMA CloneStep ==
    ASSUME ProcInv, NEW t \in Threads, do_clone(t)
    PROVE  ProcInv'
<1>1. PICK i \in 2 .. MaxThread :
        /\ pc[<<Of(t), i>>] = "none"
        /\ threads' = [threads EXCEPT ![Of(t)] = @ \cup {<<Of(t), i>>}]
        /\ threadTable' = threadTable \cup {Tid(<<Of(t), i>>)}
        /\ pc' = [pc EXCEPT ![<<Of(t), i>>] = "user"]
  BY DEF do_clone, Goto
<1> DEFINE p == Of(t)
           n == <<p, i>>
<1>2. p \in Processes /\ n \in Threads /\ Of(n) = p /\ ~IsMain(n) /\ \A q \in Processes : n # MainThread(q)
  BY Basics, SMT DEF Threads, Of, IsMain, MainThread
<1>3. pc[t] = "user" /\ UNCHANGED <<status, pid, pgid, parent, children, waiters, forced,
        processTable, filter, woken, result, captured, fresh, panicked>>
  BY DEF do_clone
<1>4. /\ t \in threads[p] /\ status[p] = "live" /\ p # Idle
      /\ pc[MainThread(p)] # "none"
  BY <1>2, <1>3 DEF ProcInv, ThreadsInv, Inside
<1> HIDE DEF p, n
<1>5. /\ threads' = [threads EXCEPT ![p] = @ \cup {n}] /\ pc[n] = "none"
      /\ pc' = [pc EXCEPT ![n] = "user"] /\ threadTable' = threadTable \cup {Tid(n)}
  BY <1>1 DEF p, n
<1>6. Tid(n) \in Pids \X (1 .. MaxThread) /\ \A id : Tid(n) # MainTid(id)
  <2>1. pid[p] \in {p, 1} /\ pid[p] \in Pids
    BY <1>2, <1>4, Basics DEF ProcInv, TreeInv, Built
  <2>2. Tid(n) = <<pid[p], i>> /\ i \in 1 .. MaxThread /\ i # 1
    BY <1>2, SMT DEF Tid, n, Of
  <2>3. QED
    BY <2>1, <2>2, SMT DEF MainTid
<1>7. /\ pc \in [Threads -> Labels] /\ pc'[n] = "user" /\ \A u \in Threads \ {n} : pc'[u] = pc[u]
      /\ threads \in [Processes -> SUBSET Threads]
  BY <1>2, <1>5 DEF ProcInv, TypeOK
<1>8. TypeOK'
  <2>1. threads' \in [Processes -> SUBSET Threads] /\ pc' \in [Threads -> Labels]
    BY <1>2, <1>5, <1>7 DEF Labels
  <2>2. threadTable' \subseteq Pids \X (1 .. MaxThread)
    BY <1>5, <1>6 DEF ProcInv, TypeOK
  <2>3. \A q \in Processes : \A u \in threads'[q] \cup Elements(waiters'[q]) : Of(u) = q
    BY <1>2, <1>3, <1>5, <1>7 DEF ProcInv, TypeOK
  <2>4. QED
    BY <1>3, <2>1, <2>2, <2>3 DEF ProcInv, TypeOK
<1>9. ThreadsInv'
  <2>1. \A q \in Processes : threads'[q] = IF q = p THEN threads[p] \cup {n} ELSE threads[q]
    BY <1>2, <1>5, <1>7
  <2>2. /\ status'[Idle] = "live" /\ Built(1)' /\ threads'[Idle] = {}
        /\ \A q \in Processes : status'[q] # "live" => threads'[q] = {}
    BY <1>3, <1>4, <2>1, Basics DEF ProcInv, ThreadsInv, Built
  <2>3. ASSUME NEW q \in Processes \ {Idle}, status'[q] = "live", pc'[MainThread(q)] = "none"
        PROVE  MainThread(q) \in threads'[q]
    <3>1. MainThread(q) \in Threads /\ pc[MainThread(q)] = "none" /\ status[q] = "live"
      BY <1>2, <1>3, <1>7, <2>3, Basics
    <3>2. MainThread(q) \in threads[q]
      BY <3>1 DEF ProcInv, ThreadsInv
    <3>3. QED
      BY <2>1, <3>2
  <2>4. ASSUME NEW u \in Threads
        PROVE  /\ Of(u) = Idle \/ ~Built(Of(u))' => pc'[u] = "none"
               /\ pc'[MainThread(Of(u))] = "none" => pc'[u] = "none"
               /\ pc'[u] \in Inside => u \in threads'[Of(u)]
               /\ u \in threads'[Of(u)] => pc'[u] \in Inside \cup {"none"}
               /\ pc'[u] = "last" => threads'[Of(u)] = {} /\ status'[Of(u)] = "live"
               /\ pc'[u] # "panic"
    <3>1. Of(u) \in Processes /\ MainThread(Of(u)) \in Threads /\ pc'[MainThread(Of(u))] = pc[MainThread(Of(u))]
      BY <1>2, <1>7, Basics
    <3>2. CASE u = n
      BY <1>2, <1>3, <1>4, <1>7, <2>1, <3>1, <3>2 DEF Built, Inside
    <3>3. CASE u # n
      <4>1. pc'[u] = pc[u] /\ (u \in threads'[Of(u)] <=> u \in threads[Of(u)])
        BY <1>7, <2>1, <3>1, <3>3
      <4>2. pc[u] = "last" => Of(u) # p
        BY <1>4 DEF ProcInv, ThreadsInv
      <4>3. QED
        BY <1>3, <2>1, <3>1, <4>1, <4>2 DEF ProcInv, ThreadsInv, Built
    <3>4. QED
      BY <3>2, <3>3
  <2>5. \A u, w \in Threads : pc'[u] = "last" /\ pc'[w] = "last" /\ Of(u) = Of(w) => u = w
    <3>1. \A u \in Threads : pc'[u] = "last" => pc[u] = "last"
      BY <1>7
    <3>2. QED
      BY <3>1 DEF ProcInv, ThreadsInv
  <2>6. QED
    BY <2>2, <2>3, <2>4, <2>5 DEF ThreadsInv
<1>10. QuietLabels
  BY <1>2, <1>3, <1>5, <1>7, Basics, SMT DEF QuietLabels, ProcInv, ExecInv, Replacing
<1>11. \A id \in Pids : MainTid(id) \in threadTable' <=> MainTid(id) \in threadTable
  BY <1>5, <1>6
<1>12. \A u \in Threads : pc'[u] = "wait" <=> pc[u] = "wait"
  BY <1>5, <1>7
<1>13. ExecInv' /\ TreeInv' /\ TablesInv' /\ WaitInv'
  BY <1>3, <1>10, <1>11, <1>12, QuietExec, QuietTree, QuietTables, QuietWait DEF ProcInv
<1>14. QED
  BY <1>3, <1>8, <1>9, <1>13 DEF ProcInv

\* The tid of a thread that is not the main one is no main tid.
LEMMA OtherTids ==
    ASSUME ProcInv, NEW t \in Threads
    PROVE  /\ ThreadTableAfter(t) \subseteq threadTable
           /\ \A id \in Pids : MainTid(id) \in ThreadTableAfter(t) <=> MainTid(id) \in threadTable
<1>1. ~IsMain(t) => \A id : Tid(t) # MainTid(id)
  BY DEF IsMain, Tid, MainTid
<1>2. QED
  BY <1>1 DEF ThreadTableAfter

\* Thread::exit, and exit_thread of a thread that was not the last.
LEMMA ThreadExitStep ==
    ASSUME ProcInv, NEW t \in Threads, thread_exit(t)
    PROVE  ProcInv'
<1> DEFINE p == Of(t)
           l == IF threads[p] = {t} THEN "last" ELSE "left"
<1>1. /\ pc[t] = "exit" /\ threads' = [threads EXCEPT ![p] = @ \ {t}] /\ pc' = [pc EXCEPT ![t] = l]
      /\ UNCHANGED <<status, pid, pgid, parent, children, waiters, forced, processTable, threadTable,
                     filter, woken, result, captured, fresh, panicked>>
  BY DEF thread_exit, Goto, tables
<1>2. p \in Processes /\ p # Idle /\ t \in threads[p] /\ status[p] = "live"
  BY <1>1, Basics DEF ProcInv, ThreadsInv, Inside
<1>3. l \in {"last", "left"} /\ (l = "last" => threads[p] = {t})
  OBVIOUS
<1> HIDE DEF l
<1>4. /\ pc \in [Threads -> Labels] /\ pc'[t] = l /\ \A u \in Threads \ {t} : pc'[u] = pc[u]
      /\ threads \in [Processes -> SUBSET Threads]
  BY <1>1 DEF ProcInv, TypeOK
<1>5. TypeOK'
  BY <1>1, <1>2, <1>3 DEF ProcInv, TypeOK, Labels
<1>6. ThreadsInv'
  <2>1. \A q \in Processes : threads'[q] = IF q = p THEN threads[p] \ {t} ELSE threads[q]
    BY <1>1, <1>2, <1>4
  <2> HIDE DEF p
  <2>2. p = Of(t)
    BY DEF p
  <2>3. \A u \in Threads : pc[u] = "last" => Of(u) # p
    BY <1>2, <2>2 DEF ProcInv, ThreadsInv
  <2>4. \A u \in Threads :
          /\ Of(u) = Idle \/ ~Built(Of(u)) => pc'[u] = "none"
          /\ pc'[MainThread(Of(u))] = "none" => pc'[u] = "none"
          /\ pc'[u] \in Inside => u \in threads'[Of(u)]
          /\ u \in threads'[Of(u)] => pc'[u] \in Inside \cup {"none"}
          /\ pc'[u] = "last" => threads'[Of(u)] = {} /\ status[Of(u)] = "live"
          /\ pc'[u] # "panic"
    BY <1>1, <1>2, <1>3, <1>4, <2>1, <2>2, <2>3, Basics, SMT DEF ProcInv, ThreadsInv, Built, Inside
  <2>5. \A u, w \in Threads : pc'[u] = "last" /\ pc'[w] = "last" /\ Of(u) = Of(w) => u = w
    BY <1>4, <2>2, <2>3, SMT DEF ProcInv, ThreadsInv
  <2>6. \A q \in Processes \ {Idle} :
          status[q] = "live" /\ pc'[MainThread(q)] = "none" => MainThread(q) \in threads'[q]
    BY <1>1, <1>3, <1>4, <2>1, Basics, SMT DEF ProcInv, ThreadsInv
  <2>7. QED
    BY <1>1, <1>2, <2>1, <2>4, <2>5, <2>6, Basics, SMT DEF ProcInv, ThreadsInv, Built
<1>7. QuietLabels
  BY <1>1, <1>3, <1>4, Basics, SMT DEF QuietLabels, ProcInv, ExecInv, Replacing
<1>8. \A u \in Threads : pc'[u] = "wait" <=> pc[u] = "wait"
  BY <1>1, <1>3, <1>4
<1>9. ExecInv' /\ TreeInv' /\ TablesInv' /\ WaitInv'
  BY <1>1, <1>7, <1>8, QuietExec, QuietTree, QuietTables, QuietWait DEF ProcInv
<1>10. QED
  BY <1>1, <1>5, <1>6, <1>9 DEF ProcInv

LEMMA LeftStep ==
    ASSUME ProcInv, NEW t \in Threads, exit_thread(t)
    PROVE  ProcInv'
<1>1. /\ pc[t] = "left" /\ pc' = [pc EXCEPT ![t] = "exited"] /\ threadTable' = ThreadTableAfter(t)
      /\ UNCHANGED <<status, pid, pgid, parent, children, threads, waiters, forced, processTable,
                     filter, woken, result, captured, fresh, panicked>>
  BY DEF exit_thread, Goto, procVars
<1>2. /\ pc \in [Threads -> Labels] /\ pc'[t] = "exited" /\ \A u \in Threads \ {t} : pc'[u] = pc[u]
  BY <1>1 DEF ProcInv, TypeOK
<1>3. TypeOK'
  BY <1>1, OtherTids DEF ProcInv, TypeOK, Labels
<1>4. ThreadsInv'
  <2>1. \A u \in Threads :
          /\ pc'[u] \in Inside <=> pc[u] \in Inside
          /\ pc'[u] = "none" <=> pc[u] = "none"
          /\ pc'[u] = "last" <=> pc[u] = "last"
          /\ pc'[u] = "panic" <=> pc[u] = "panic"
    BY <1>1, <1>2 DEF Inside
  <2>2. QED
    BY <1>1, <2>1, QuietThreads DEF ProcInv
<1>5. QuietLabels
  BY <1>1, <1>2, Basics, SMT DEF QuietLabels, ProcInv, ExecInv, Replacing
<1>6. \A u \in Threads : pc'[u] = "wait" <=> pc[u] = "wait"
  BY <1>1, <1>2
<1>7. ExecInv' /\ TreeInv' /\ TablesInv' /\ WaitInv'
  BY <1>1, <1>5, <1>6, OtherTids, QuietExec, QuietTree, QuietTables, QuietWait DEF ProcInv
<1>8. QED
  BY <1>1, <1>3, <1>4, <1>7 DEF ProcInv
-----------------------------------------------------------------------------
(* wait4 *)

\* A thread that calls wait4 is the main one.
LEMMA WaiterIsMain ==
    ASSUME OnlyMainWaits, NEW t \in Threads, NEW f \in WaitFilters[t[2]]
    PROVE  t = MainThread(Of(t)) /\ IsMain(t) /\ f \in Filters
<1>1. t[2] \in 1 .. MaxThread
  BY DEF Threads
<1>2. t[2] = 1
  BY <1>1, BoundsAssumption, SMT DEF OnlyMainWaits
<1>3. f \in Filters
  BY <1>1, WaitFiltersAssumption
<1>4. QED
  BY <1>2, <1>3, Basics DEF IsMain

LEMMA SleepStep ==
    ASSUME OnlyMainWaits, ProcInv, NEW t \in Threads, NEW f \in WaitFilters[t[2]], Wait4Sleep(t, f)
    PROVE  ProcInv'
<1> DEFINE p == Of(t)
<1>1. /\ pc[t] = "user" /\ pc' = [pc EXCEPT ![t] = "wait"] /\ filter' = [filter EXCEPT ![t] = f]
      /\ waiters' = [waiters EXCEPT ![p] = Append(@, t)]
      /\ ~\E c \in Elements(children[p]) : Matches(f, c) /\ status[c] = "zombie"
      /\ UNCHANGED <<status, pid, pgid, parent, children, threads, forced, processTable, threadTable,
                     woken, result, captured, fresh, panicked>>
  BY DEF Wait4Sleep, Goto, tables
<1>2. t = MainThread(p) /\ IsMain(t) /\ f \in Filters /\ p \in Processes
  BY WaiterIsMain, Basics
<1>3. /\ pc \in [Threads -> Labels] /\ pc'[t] = "wait" /\ \A u \in Threads \ {t} : pc'[u] = pc[u]
      /\ filter \in [Threads -> Filters] /\ filter'[t] = f
      /\ \A u \in Threads \ {t} : filter'[u] = filter[u]
      /\ waiters \in [Processes -> Seq(Threads)] /\ woken \in [Threads -> BOOLEAN]
  BY <1>1 DEF ProcInv, TypeOK
<1>4. ~woken[t] /\ ~Asleep(t)
  BY <1>1 DEF ProcInv, WaitInv, Asleep
<1>5. waiters[p] = <<>>
  BY <1>2, <1>4 DEF ProcInv, WaitInv
<1> HIDE DEF p
<1>6. waiters' = [waiters EXCEPT ![p] = <<t>>]
  BY <1>1, <1>5, SMT
<1>7. \A q \in Processes : waiters'[q] = IF q = p THEN <<t>> ELSE waiters[q]
  BY <1>2, <1>3, <1>6
<1>8. TypeOK'
  <2>1. waiters' \in [Processes -> Seq(Threads)] /\ pc' \in [Threads -> Labels]
        /\ filter' \in [Threads -> Filters]
    BY <1>1, <1>2, <1>3, <1>6, SMT DEF Labels
  <2>2. Elements(<<t>>) = {t}
    BY SMT DEF Elements
  <2>3. \A q \in Processes : \A u \in threads'[q] \cup Elements(waiters'[q]) : Of(u) = q
    <3>1. ASSUME NEW q \in Processes, NEW u \in threads'[q] \cup Elements(waiters'[q]) PROVE Of(u) = q
      <4>1. \A w \in threads[q] \cup Elements(waiters[q]) : Of(w) = q
        BY DEF ProcInv, TypeOK
      <4>2. CASE q = p
        <5>1. Elements(waiters'[q]) = {t} /\ Of(t) = q
          BY <1>7, <2>2, <4>2 DEF p
        <5>2. QED
          BY <1>1, <3>1, <4>1, <5>1
      <4>3. CASE q # p
        <5>1. waiters'[q] = waiters[q]
          BY <1>7, <4>3
        <5>2. QED
          BY <1>1, <3>1, <4>1, <5>1
      <4>4. QED
        BY <4>2, <4>3
    <3>2. QED
      BY <3>1
  <2>4. QED
    BY <1>1, <2>1, <2>3 DEF ProcInv, TypeOK
<1>9. ThreadsInv'
  <2>1. \A u \in Threads :
          /\ pc'[u] \in Inside <=> pc[u] \in Inside
          /\ pc'[u] = "none" <=> pc[u] = "none"
          /\ pc'[u] = "last" <=> pc[u] = "last"
          /\ pc'[u] = "panic" <=> pc[u] = "panic"
    BY <1>1, <1>3 DEF Inside
  <2>2. QED
    BY <1>1, <2>1, QuietThreads DEF ProcInv
<1>10. QuietLabels
  BY <1>1, <1>3, Basics, SMT DEF QuietLabels, ProcInv, ExecInv, Replacing
<1>11. ExecInv' /\ TreeInv' /\ TablesInv'
  BY <1>1, <1>10, QuietExec, QuietTree, QuietTables DEF ProcInv
<1>12. WaitInv'
  <2>1. WaitInv
    BY DEF ProcInv
  <2>2. Asleep(t)' /\ \A u \in Threads \ {t} : Asleep(u)' <=> Asleep(u)
    BY <1>1, <1>3, <1>4 DEF Asleep
  <2>3. /\ \A c : Matches(filter[t], c)' <=> Matches(f, c)
        /\ \A u \in Threads \ {t} : \A c : Matches(filter[u], c)' <=> Matches(filter[u], c)
    BY <1>1, <1>3 DEF Matches
  <2>4. ASSUME NEW u \in Threads, Asleep(u)'
        PROVE  ~\E c \in Elements(children[Of(u)]) : Matches(filter[u], c)' /\ status[c] = "zombie"
    <3>1. CASE u = t
      BY <1>1, <2>3, <3>1 DEF p
    <3>2. CASE u # t
      BY <2>1, <2>2, <2>3, <2>4, <3>2 DEF WaitInv
    <3>3. QED
      BY <3>1, <3>2
  <2>5. \A q \in Processes : waiters'[q] = IF Asleep(MainThread(q))' THEN <<MainThread(q)>> ELSE <<>>
    BY <1>2, <1>7, <2>1, <2>2, Basics, SMT DEF WaitInv
  <2>6. \A u \in Threads :
          /\ pc'[u] = "wait" => IsMain(u)
          /\ woken[u] => pc'[u] = "wait"
          /\ pc'[u] = "wait" /\ woken[u] /\ result[u] # NoPid =>
                \E c \in Elements(children[Of(u)]) : pid[c] = result[u] /\ status[c] = "zombie"
    BY <1>2, <1>3, <1>4, <2>1 DEF WaitInv
  <2>7. QED
    BY <1>1, <2>4, <2>5, <2>6, SMT DEF WaitInv
<1>13. QED
  BY <1>1, <1>8, <1>9, <1>11, <1>12 DEF ProcInv

\* exit_group wakes the thread of its process that sleeps in wait4, without a result.
LEMMA WakeAllStep ==
    ASSUME ProcInv, NEW t \in Threads, del_and_wake_all_waiters(t)
    PROVE  ProcInv'
<1> DEFINE p == Of(t)
           asleep == Elements(waiters[p])
<1>1. /\ pc[t] = "exit_group" /\ pc' = [pc EXCEPT ![t] = "exit"]
      /\ waiters' = [waiters EXCEPT ![p] = <<>>]
      /\ woken' = [u \in Threads |-> u \in asleep \/ woken[u]]
      /\ result' = [u \in Threads |-> IF u \in asleep THEN NoPid ELSE result[u]]
      /\ UNCHANGED <<status, pid, pgid, parent, children, threads, forced, processTable, threadTable,
                     filter, captured, fresh, panicked>>
  BY DEF del_and_wake_all_waiters, Goto, tables
<1>2. /\ p \in Processes
      /\ pc \in [Threads -> Labels] /\ pc'[t] = "exit" /\ \A u \in Threads \ {t} : pc'[u] = pc[u]
      /\ waiters \in [Processes -> Seq(Threads)] /\ woken \in [Threads -> BOOLEAN]
      /\ result \in [Threads -> Pids \cup {NoPid}]
  BY <1>1, Basics DEF ProcInv, TypeOK
<1>3. \A u \in Threads : u \in asleep <=> u = MainThread(p) /\ Asleep(u)
  <2>1. waiters[p] = IF Asleep(MainThread(p)) THEN <<MainThread(p)>> ELSE <<>>
    BY <1>2 DEF ProcInv, WaitInv
  <2>2. Elements(<<>>) = {} /\ Elements(<<MainThread(p)>>) = {MainThread(p)}
    BY SMT DEF Elements
  <2>3. QED
    BY <2>1, <2>2
<1> HIDE DEF asleep, p
<1>4. p = Of(t)
  BY DEF p
<1>5. \A u \in Threads : /\ woken'[u] <=> (u = MainThread(p) /\ Asleep(u)) \/ woken[u]
                         /\ result'[u] = IF u = MainThread(p) /\ Asleep(u) THEN NoPid ELSE result[u]
  BY <1>1, <1>3
<1>6. \A q \in Processes : waiters'[q] = IF q = p THEN <<>> ELSE waiters[q]
  BY <1>1, <1>2
<1>7. TypeOK'
  <2>1. /\ waiters' \in [Processes -> Seq(Threads)] /\ pc' \in [Threads -> Labels]
        /\ result' \in [Threads -> Pids \cup {NoPid}] /\ woken' \in [Threads -> BOOLEAN]
    BY <1>1, <1>2, SMT DEF Labels
  <2>2. Elements(<<>>) = {}
    BY SMT DEF Elements
  <2>3. \A q \in Processes : \A u \in threads'[q] \cup Elements(waiters'[q]) : Of(u) = q
    BY <1>1, <1>6, <2>2 DEF ProcInv, TypeOK
  <2>4. QED
    BY <1>1, <2>1, <2>3 DEF ProcInv, TypeOK
<1>8. ThreadsInv'
  <2>1. \A u \in Threads :
          /\ pc'[u] \in Inside <=> pc[u] \in Inside
          /\ pc'[u] = "none" <=> pc[u] = "none"
          /\ pc'[u] = "last" <=> pc[u] = "last"
          /\ pc'[u] = "panic" <=> pc[u] = "panic"
    BY <1>1, <1>2 DEF Inside
  <2>2. QED
    BY <1>1, <2>1, QuietThreads DEF ProcInv
<1>9. QuietLabels
  BY <1>1, <1>2, Basics, SMT DEF QuietLabels, ProcInv, ExecInv, Replacing
<1>10. ExecInv' /\ TreeInv' /\ TablesInv'
  BY <1>1, <1>9, QuietExec, QuietTree, QuietTables DEF ProcInv
<1>11. WaitInv'
  <2>1. WaitInv
    BY DEF ProcInv
  <2>2. \A u \in Threads : pc'[u] = "wait" <=> pc[u] = "wait"
    BY <1>1, <1>2
  <2>3. \A u \in Threads : Asleep(u)' <=> Asleep(u) /\ u # MainThread(p)
    BY <1>2, <1>5, <2>2 DEF Asleep
  <2>4. \A u, c : Matches(filter[u], c)' <=> Matches(filter[u], c)
    BY <1>1 DEF Matches
  <2>5. ASSUME NEW u \in Threads, Asleep(u)'
        PROVE  ~\E c \in Elements(children[Of(u)]) : Matches(filter[u], c)' /\ status[c] = "zombie"
    BY <2>1, <2>3, <2>4, <2>5 DEF WaitInv
  <2>6. \A q \in Processes : waiters'[q] = IF Asleep(MainThread(q))' THEN <<MainThread(q)>> ELSE <<>>
    <3>1. \A q \in Processes : MainThread(q) \in Threads /\ (MainThread(q) = MainThread(p) <=> q = p)
      BY <1>2, Basics
    <3>2. QED
      BY <1>6, <2>1, <2>3, <3>1 DEF WaitInv
  <2>7. \A u \in Threads :
          /\ pc'[u] = "wait" => IsMain(u)
          /\ woken'[u] => pc'[u] = "wait"
          /\ pc'[u] = "wait" /\ woken'[u] /\ result'[u] # NoPid =>
                \E c \in Elements(children[Of(u)]) : pid[c] = result'[u] /\ status[c] = "zombie"
    BY <1>5, <2>1, <2>2, SMT DEF WaitInv, Asleep
  <2>8. QED
    BY <1>1, <2>5, <2>6, <2>7, SMT DEF WaitInv
<1>12. QED
  BY <1>1, <1>7, <1>8, <1>10, <1>11 DEF ProcInv

\* A zombie child is found by its pid, in the tables and among the children.
LEMMA ReapTarget ==
    ASSUME LeastNumbers, ProcInv, NEW p \in Processes, NEW c \in Elements(children[p]), status[c] = "zombie"
    PROVE  /\ c \in Processes \ {Idle} /\ c # 1 /\ pid[c] = c /\ parent[c] = p
           /\ CanFree(p, pid[c])
           /\ ChildIndex(p, c) \in 1 .. Len(children[p]) /\ children[p][ChildIndex(p, c)] = c
<1>1. children[p] \in Seq(Processes) /\ Elements(children[p]) \subseteq Processes
  BY ElementsAre, SMT DEF ProcInv, TypeOK
<1>2. c \in Processes \ {Idle} /\ Built(c) /\ parent[c] = p /\ pid[c] # 1
  BY <1>1 DEF ProcInv, TreeInv
<1>3. pid[c] = c /\ c # 1 /\ c \in Pids
  BY <1>2, Basics DEF ProcInv, TreeInv
<1>4. processTable[c] = c /\ MainTid(c) \in threadTable /\ processTable[c] # NoProcess
  <2>1. InTable(c)
    BY <1>2 DEF InTable
  <2>2. processTable[c] = c
    BY <1>2, <1>3, <2>1 DEF ProcInv, TablesInv
  <2>3. QED
    BY <1>2, <1>3, <2>2, Basics DEF ProcInv, TablesInv
<1>5. \A d \in Elements(children[p]) : d \in HavePid(c) <=> d = c
  <2>1. \A d \in Elements(children[p]) : d \in Processes \ {Idle} /\ pid[d] \in {d, 1}
    BY <1>1, SMT DEF ProcInv, TreeInv
  <2>2. QED
    BY <1>1, <1>3, <2>1 DEF HavePid
<1>6. /\ ChildIndex(p, c) # 0 /\ ChildIndex(p, c) \in 1 .. Len(children[p])
      /\ children[p][ChildIndex(p, c)] \in HavePid(c)
  <2>1. FirstIn(children[p], HavePid(c)) # 0
    BY <1>1, <1>5, FirstInIs
  <2>2. QED
    BY <1>1, <2>1, FirstInIs DEF ChildIndex
<1>7. children[p][ChildIndex(p, c)] = c
  BY <1>1, <1>5, <1>6, ElementsAre, SMT
<1>8. CanFree(p, pid[c])
  BY <1>3, <1>4, <1>6, <1>7 DEF CanFree
<1>9. QED
  BY <1>2, <1>3, <1>6, <1>7, <1>8

\* free_zombie_child takes the child from its parent and from the tables.
LEMMA ReapTree ==
    ASSUME LeastNumbers, ProcInv, NEW p \in Processes, NEW c \in Elements(children[p]), status[c] = "zombie",
           free_zombie_child(p, c), UNCHANGED <<status, pid, parent>>, QuietLabels
    PROVE  /\ children' \in [Processes -> Seq(Processes)]
           /\ processTable' \in [Pids -> Processes \cup {NoProcess}]
           /\ threadTable' \subseteq Pids \X (1 .. MaxThread)
           /\ \A q \in Processes : Elements(children'[q]) = Elements(children[q]) \ {c}
           /\ TreeInv' /\ TablesInv'
<1> DEFINE i == ChildIndex(p, c)
<1>1. /\ c \in Processes \ {Idle} /\ c # 1 /\ pid[c] = c /\ parent[c] = p
      /\ i \in 1 .. Len(children[p]) /\ children[p][i] = c
  BY ReapTarget
<1>2. /\ children \in [Processes -> Seq(Processes)]
      /\ processTable \in [Pids -> Processes \cup {NoProcess}]
      /\ threadTable \subseteq Pids \X (1 .. MaxThread)
      /\ c \in Pids
  BY <1>1, Basics DEF ProcInv, TypeOK
<1>3. /\ threadTable' = threadTable \ {MainTid(c)}
      /\ processTable' = [processTable EXCEPT ![c] = NoProcess]
      /\ children' = [children EXCEPT ![p] = SwapRemove(@, i)]
  BY DEF free_zombie_child
<1> HIDE DEF i
<1>4. OnceEach(children[p]) /\ children[p] \in Seq(Processes)
  BY <1>2 DEF ProcInv, TreeInv
<1> DEFINE s == SwapRemove(children[p], i)
<1>5. /\ s \in Seq(Processes) /\ OnceEach(s) /\ Elements(s) = Elements(children[p]) \ {c}
      /\ i # 1 => Len(s) > 0 /\ s[1] = children[p][1]
  BY <1>1, <1>4, SwapRemoveIs, SMT
<1> HIDE DEF s
<1>6. /\ children' \in [Processes -> Seq(Processes)]
      /\ \A q \in Processes : children'[q] = IF q = p THEN s ELSE children[q]
  BY <1>2, <1>3, <1>5 DEF s
<1>7. \A q \in Processes : Elements(children'[q]) = Elements(children[q]) \ {c}
  <2>1. ASSUME NEW q \in Processes, q # p PROVE c \notin Elements(children[q])
    BY <1>1, <2>1 DEF ProcInv, TreeInv
  <2>2. QED
    BY <1>5, <1>6, <2>1
<1>8. TreeInv'
  <2>1. TreeInv /\ \A q : Built(q)' <=> Built(q)
    BY DEF ProcInv, Built
  <2>2. \A q \in Processes \ {Idle} : Built(q)' => pid[q] \in {q, 1} /\ parent[q] # q
    BY <2>1 DEF TreeInv
  <2>3. \A q \in Processes : OnceEach(children'[q])
    BY <1>5, <1>6, <2>1 DEF TreeInv
  <2>4. \A q \in Processes : ~Built(q)' => children'[q] = <<>>
    <3>1. Built(p)
      <4>1. Elements(<<>>) = {}
        BY SMT DEF Elements
      <4>2. QED
        BY <2>1, <4>1 DEF TreeInv
    <3>2. QED
      BY <1>6, <2>1, <3>1 DEF TreeInv
  <2>5. \A q \in Processes : \A d \in Elements(children'[q]) :
           d # Idle /\ Built(d)' /\ parent[d] = q /\ (pid[d] = 1 => status[d] = "live")
    BY <1>7, <2>1, SMT DEF TreeInv
  <2>6. \A q \in Processes \ {Idle} : status[q] = "live" =>
           status[parent[q]] = "live" /\ q \in Elements(children'[parent[q]])
    <3>1. ASSUME NEW q \in Processes \ {Idle}, status[q] = "live"
          PROVE  status[parent[q]] = "live" /\ q \in Elements(children'[parent[q]])
      <4>1. parent[q] \in Processes /\ q # c
        BY <3>1 DEF ProcInv, TypeOK
      <4>2. status[parent[q]] = "live" /\ q \in Elements(children[parent[q]])
        BY <2>1, <3>1 DEF TreeInv
      <4>3. QED
        BY <1>7, <4>1, <4>2
    <3>2. QED
      BY <3>1
  <2>7. status[1] = "live" => Len(children'[Idle]) > 0 /\ children'[Idle][1] = 1
    BY <1>1, <1>5, <1>6, <2>1, Basics DEF TreeInv
  <2>8. QED
    BY <2>2, <2>3, <2>4, <2>5, <2>6, <2>7 DEF TreeInv
<1>9. /\ processTable' \in [Pids -> Processes \cup {NoProcess}]
      /\ threadTable' \subseteq Pids \X (1 .. MaxThread)
      /\ processTable'[c] = NoProcess /\ \A id \in Pids \ {c} : processTable'[id] = processTable[id]
      /\ \A id \in Pids : MainTid(id) \in threadTable' <=> MainTid(id) \in threadTable /\ id # c
  BY <1>2, <1>3 DEF MainTid
<1>10. TablesInv'
  <2>1. TablesInv
    BY DEF ProcInv
  <2>2. \A q \in Processes \ {Idle} : InTable(q)' <=> InTable(q) /\ q # c
    <3>1. \A q \in Processes : parent[q] \in Processes
      BY DEF ProcInv, TypeOK
    <3>2. QED
      BY <1>7, <3>1, SMT DEF InTable, QuietLabels
  <2>3. ASSUME NEW q \in Processes \ {Idle}, InTable(q)' PROVE processTable'[pid[q]] = q
    <3>1. processTable[pid[q]] = q /\ q # c
      BY <2>1, <2>2, <2>3 DEF TablesInv
    <3>2. pid[q] \in {q, 1} /\ pid[q] \in Pids
      BY <2>2, <2>3, Basics, SMT DEF ProcInv, TreeInv, InTable, Built
    <3>3. QED
      BY <1>1, <1>9, <3>1, <3>2
  <2>4. ASSUME NEW id \in Pids, processTable'[id] # NoProcess
        PROVE  (LET r == processTable[id] IN
                /\ r # Idle /\ Built(r) /\ pid[r] = id
                /\ InTable(r) \/ \E t \in Threads : Of(t) = r /\ pc[t] = "exec_replace")'
    <3>1. id # c /\ processTable'[id] = processTable[id] /\ processTable[id] \in Processes
      BY <1>2, <1>9, <2>4
    <3> PICK r \in Processes : r = processTable[id]
      BY <3>1
    <3>2. /\ r # Idle /\ Built(r) /\ pid[r] = id
          /\ InTable(r) \/ \E t \in Threads : Of(t) = r /\ pc[t] = "exec_replace"
      BY <2>1, <2>4, <3>1 DEF TablesInv
    <3>3. r # c /\ r \in Processes \ {Idle}
      BY <1>1, <3>1, <3>2
    <3>4. Built(r)' /\ (InTable(r)' \/ \E t \in Threads : Of(t) = r /\ pc'[t] = "exec_replace")
      BY <2>2, <3>2, <3>3 DEF Built, QuietLabels
    <3>5. processTable'[id] = r
      BY <3>1
    <3>6. QED
      BY <3>2, <3>4, <3>5 DEF Built, InTable
  <2>5. \A id \in Pids : (processTable'[id] # NoProcess) <=> (MainTid(id) \in threadTable')
    BY <1>9, <2>1 DEF TablesInv
  <2>6. QED
    BY <2>3, <2>4, <2>5 DEF TablesInv, MainTid
<1>11. QED
  BY <1>6, <1>7, <1>8, <1>9, <1>10

\* When a child goes away and the main thread of its parent does not wait, every thread that
\* has been woken for a child still finds it.
LEMMA ReapWait ==
    ASSUME ProcInv, NEW p \in Processes, NEW c,
           UNCHANGED <<status, pid, pgid, waiters>>,
           \A q \in Processes \ {p} : Elements(children'[q]) = Elements(children[q]),
           ~Asleep(MainThread(p)), pc'[MainThread(p)] # "wait", woken'[MainThread(p)] = FALSE,
           \A u \in Threads \ {MainThread(p)} :
              pc'[u] = pc[u] /\ woken'[u] = woken[u] /\ result'[u] = result[u] /\ filter'[u] = filter[u]
    PROVE  WaitInv'
<1>1. WaitInv
  BY DEF ProcInv
<1>2. ASSUME NEW u \in Threads, u # MainThread(p), pc[u] = "wait"
      PROVE  Of(u) \in Processes /\ Of(u) # p /\ Elements(children'[Of(u)]) = Elements(children[Of(u)])
  <2>1. IsMain(u)
    BY <1>1, <1>2 DEF WaitInv
  <2>2. Of(u) \in Processes /\ u = MainThread(Of(u))
    BY <2>1, Basics
  <2>3. QED
    BY <1>2, <2>2
<1>3. ~Asleep(MainThread(p))' /\ \A u \in Threads \ {MainThread(p)} : Asleep(u)' <=> Asleep(u)
  BY DEF Asleep
<1>4. \A u \in Threads \ {MainThread(p)} : \A d : Matches(filter[u], d)' <=> Matches(filter[u], d)
  BY DEF Matches
<1>5. ASSUME NEW u \in Threads, Asleep(u)'
      PROVE  ~\E d \in Elements(children'[Of(u)]) : Matches(filter[u], d)' /\ status'[d] = "zombie"
  <2>1. u # MainThread(p) /\ Asleep(u) /\ pc[u] = "wait"
    BY <1>3, <1>5 DEF Asleep
  <2>2. QED
    BY <1>1, <1>2, <1>4, <2>1 DEF WaitInv
<1>6. \A q \in Processes : waiters'[q] = IF Asleep(MainThread(q))' THEN <<MainThread(q)>> ELSE <<>>
  <2>1. \A q \in Processes : Asleep(MainThread(q))' <=> Asleep(MainThread(q))
    BY <1>3, Basics
  <2>2. QED
    BY <1>1, <2>1 DEF WaitInv
<1>7. ASSUME NEW u \in Threads
      PROVE  /\ pc'[u] = "wait" => IsMain(u)
             /\ woken'[u] => pc'[u] = "wait"
             /\ pc'[u] = "wait" /\ woken'[u] /\ result'[u] # NoPid =>
                   \E d \in Elements(children'[Of(u)]) : pid'[d] = result'[u] /\ status'[d] = "zombie"
  BY <1>1, <1>2, SMT DEF WaitInv
<1>8. QED
  BY <1>5, <1>6, <1>7 DEF WaitInv

\* wait4 finds a zombie: its asserts hold and it is reaped.
LEMMA ReapStep ==
    ASSUME LeastNumbers, OnlyMainWaits, ProcInv, NEW t \in Threads, NEW f \in WaitFilters[t[2]], Wait4Reap(t, f)
    PROVE  ProcInv'
<1> DEFINE p == Of(t)
           S == {d \in Zombies : Matches(f, d)}
           i == FirstIn(children[p], S)
<1>1. t = MainThread(p) /\ p \in Processes /\ pc[t] = "user" /\ i # 0
  BY WaiterIsMain, Basics DEF Wait4Reap
<1>2. children[p] \in Seq(Processes)
  BY <1>1 DEF ProcInv, TypeOK
<1> HIDE DEF p
<1>3. i \in 1 .. Len(children[p]) /\ children[p][i] \in S
  BY <1>1, <1>2, FirstInIs
<1>4. PICK c \in Elements(children[p]) : c = children[p][i] /\ status[c] = "zombie"
  <2>1. children[p][i] \in Elements(children[p])
    BY <1>2, <1>3, ElementsAre, SMT
  <2>2. status[children[p][i]] = "zombie"
    BY <1>3 DEF Zombies
  <2>3. QED
    BY <2>1, <2>2
<1>5. pid[c] = c /\ CanFree(p, pid[c])
  BY <1>1, <1>4, ReapTarget, SMT
<1>6. /\ free_zombie_child(p, c)
      /\ UNCHANGED <<status, pid, pgid, parent, threads, waiters, forced, pc, filter, woken, result,
                     captured, fresh, panicked>>
  BY <1>4, <1>5 DEF Wait4Reap, threadVars, p
<1> HIDE DEF i, S
<1>7. QuietLabels
  BY <1>6 DEF QuietLabels, ProcInv, ExecInv
<1>8. /\ children' \in [Processes -> Seq(Processes)]
      /\ processTable' \in [Pids -> Processes \cup {NoProcess}]
      /\ threadTable' \subseteq Pids \X (1 .. MaxThread)
      /\ \A q \in Processes : Elements(children'[q]) = Elements(children[q]) \ {c}
      /\ TreeInv' /\ TablesInv'
  BY <1>1, <1>4, <1>6, <1>7, ReapTree
<1>9. TypeOK'
  BY <1>6, <1>8 DEF ProcInv, TypeOK
<1>10. ThreadsInv'
  BY <1>6 DEF ProcInv, ThreadsInv, Built
<1>11. ExecInv'
  BY <1>6, <1>7, QuietExec DEF ProcInv
<1>12. WaitInv'
  <2>1. \A q \in Processes \ {p} : Elements(children'[q]) = Elements(children[q])
    <3>1. \A q \in Processes \ {p} : c \notin Elements(children[q])
      BY <1>1, <1>4, SMT DEF ProcInv, TreeInv
    <3>2. QED
      BY <1>8, <3>1
  <2>2. ~Asleep(t) /\ woken[t] = FALSE
    BY <1>1, SMT DEF ProcInv, TypeOK, WaitInv, Asleep
  <2>3. QED
    BY <1>1, <1>6, <2>1, <2>2, ReapWait
<1>13. QED
  BY <1>6, <1>8, <1>9, <1>10, <1>11, <1>12 DEF ProcInv

\* wait4 has been woken: the child it was woken for is reaped.
LEMMA WokenStep ==
    ASSUME LeastNumbers, ProcInv, NEW t \in Threads, Wait4Woken(t)
    PROVE  ProcInv'
<1> DEFINE p == Of(t)
<1>1. pc[t] = "wait" /\ woken[t] /\ p \in Processes /\ t = MainThread(p)
  BY Basics DEF Wait4Woken, ProcInv, WaitInv
<1>2. /\ pc \in [Threads -> Labels] /\ filter \in [Threads -> Filters] /\ woken \in [Threads -> BOOLEAN]
      /\ result \in [Threads -> Pids \cup {NoPid}] /\ AnyPid \in Filters
  BY DEF ProcInv, TypeOK, Filters
<1>3. UNCHANGED <<status, pid, pgid, parent, threads, waiters, forced, captured, fresh, panicked>>
      /\ DropWaiter(t)
      /\ \/ UNCHANGED <<children, processTable, threadTable>>
         \/ \E c \in Elements(children[p]) : status[c] = "zombie" /\ free_zombie_child(p, c)
  <2>1. CASE result[t] = NoPid
    BY <2>1 DEF Wait4Woken, procVars, tables
  <2>2. CASE result[t] # NoPid
    <3>1. PICK c \in Elements(children[p]) : pid[c] = result[t] /\ status[c] = "zombie"
      BY <1>1, <2>2 DEF ProcInv, WaitInv
    <3>2. pid[c] = c /\ CanFree(p, pid[c])
      BY <1>1, <3>1, ReapTarget
    <3>3. CanFree(Of(t), result[t]) /\ result[t] = c
      BY <3>1, <3>2
    <3>4. QED
      BY <2>2, <3>1, <3>3 DEF Wait4Woken
  <2>3. QED
    BY <2>1, <2>2
<1>4. /\ pc' = [pc EXCEPT ![t] = "user"] /\ filter' = [filter EXCEPT ![t] = AnyPid]
      /\ woken' = [woken EXCEPT ![t] = FALSE] /\ result' = [result EXCEPT ![t] = NoPid]
  BY <1>3 DEF DropWaiter, Goto
<1> HIDE DEF p
<1>5. /\ pc'[t] = "user" /\ woken'[t] = FALSE
      /\ \A u \in Threads \ {t} :
            pc'[u] = pc[u] /\ woken'[u] = woken[u] /\ result'[u] = result[u] /\ filter'[u] = filter[u]
  BY <1>2, <1>4
<1>6. QuietLabels
  BY <1>1, <1>3, <1>5, Basics, SMT DEF QuietLabels, ProcInv, ExecInv, Replacing
<1>7. /\ children' \in [Processes -> Seq(Processes)]
      /\ processTable' \in [Pids -> Processes \cup {NoProcess}]
      /\ threadTable' \subseteq Pids \X (1 .. MaxThread)
      /\ \A q \in Processes \ {p} : Elements(children'[q]) = Elements(children[q])
      /\ TreeInv' /\ TablesInv'
  <2>1. CASE UNCHANGED <<children, processTable, threadTable>>
    BY <1>3, <1>6, <2>1, QuietTree, QuietTables DEF ProcInv, TypeOK
  <2>2. ASSUME NEW c \in Elements(children[p]), status[c] = "zombie", free_zombie_child(p, c)
        PROVE  /\ children' \in [Processes -> Seq(Processes)]
               /\ processTable' \in [Pids -> Processes \cup {NoProcess}]
               /\ threadTable' \subseteq Pids \X (1 .. MaxThread)
               /\ \A q \in Processes \ {p} : Elements(children'[q]) = Elements(children[q])
               /\ TreeInv' /\ TablesInv'
    <3>1. /\ children' \in [Processes -> Seq(Processes)]
          /\ processTable' \in [Pids -> Processes \cup {NoProcess}]
          /\ threadTable' \subseteq Pids \X (1 .. MaxThread)
          /\ \A q \in Processes : Elements(children'[q]) = Elements(children[q]) \ {c}
          /\ TreeInv' /\ TablesInv'
      BY <1>1, <1>3, <1>6, <2>2, ReapTree
    <3>2. \A q \in Processes \ {p} : c \notin Elements(children[q])
      BY <1>1, <2>2, SMT DEF ProcInv, TreeInv
    <3>3. QED
      BY <3>1, <3>2
  <2>3. QED
    BY <1>3, <2>1, <2>2
<1>8. TypeOK'
  BY <1>2, <1>3, <1>4, <1>7, Basics DEF ProcInv, TypeOK, Labels
<1>9. ThreadsInv'
  <2>1. \A u \in Threads : /\ pc'[u] \in Inside <=> pc[u] \in Inside
                           /\ pc'[u] = "none" <=> pc[u] = "none"
                           /\ pc'[u] = "last" <=> pc[u] = "last"
                           /\ pc'[u] = "panic" <=> pc[u] = "panic"
    BY <1>1, <1>5 DEF Inside
  <2>2. QED
    BY <1>3, <2>1, QuietThreads DEF ProcInv
<1>10. ExecInv'
  BY <1>3, <1>6, QuietExec DEF ProcInv
<1>11. WaitInv'
  <2>1. ~Asleep(t)
    BY <1>1 DEF Asleep
  <2>2. QED
    BY <1>1, <1>3, <1>5, <1>7, <2>1, ReapWait
<1>12. QED
  BY <1>3, <1>7, <1>8, <1>9, <1>10, <1>11 DEF ProcInv

\* IDLE reaps a zombie it has adopted.
LEMMA IdleReapStep ==
    ASSUME LeastNumbers, ProcInv, idle_reap_zombie_children
    PROVE  ProcInv'
<1> DEFINE i == FirstIn(children[Idle], Zombies)
<1>1. Idle \in Processes /\ children[Idle] \in Seq(Processes) /\ i # 0
  BY Basics DEF idle_reap_zombie_children, ProcInv, TypeOK
<1>2. i \in 1 .. Len(children[Idle]) /\ children[Idle][i] \in Zombies
  BY <1>1, FirstInIs
<1>3. PICK c \in Elements(children[Idle]) : c = children[Idle][i] /\ status[c] = "zombie"
  BY <1>1, <1>2, ElementsAre DEF Zombies
<1>4. pid[c] = c /\ CanFree(Idle, pid[c])
  BY <1>1, <1>3, ReapTarget
<1>5. /\ free_zombie_child(Idle, c)
      /\ UNCHANGED <<status, pid, pgid, parent, threads, waiters, forced, pc, filter, woken, result,
                     captured, fresh, panicked>>
  BY <1>3, <1>4 DEF idle_reap_zombie_children, threadVars
<1> HIDE DEF i
<1>6. QuietLabels
  BY <1>5 DEF QuietLabels, ProcInv, ExecInv
<1>7. /\ children' \in [Processes -> Seq(Processes)]
      /\ processTable' \in [Pids -> Processes \cup {NoProcess}]
      /\ threadTable' \subseteq Pids \X (1 .. MaxThread)
      /\ \A q \in Processes : Elements(children'[q]) = Elements(children[q]) \ {c}
      /\ TreeInv' /\ TablesInv'
  BY <1>1, <1>3, <1>5, <1>6, ReapTree
<1>8. TypeOK'
  BY <1>5, <1>7 DEF ProcInv, TypeOK
<1>9. ThreadsInv'
  BY <1>5 DEF ProcInv, ThreadsInv, Built
<1>10. ExecInv'
  BY <1>5, <1>6, QuietExec DEF ProcInv
<1>11. WaitInv'
  <2>1. \A q \in Processes \ {Idle} : Elements(children'[q]) = Elements(children[q])
    <3>1. \A q \in Processes \ {Idle} : c \notin Elements(children[q])
      BY <1>1, <1>3, SMT DEF ProcInv, TreeInv
    <3>2. QED
      BY <1>7, <3>1
  <2>2. pc[MainThread(Idle)] = "none"
    BY <1>1, Basics DEF ProcInv, ThreadsInv
  <2>3. ~Asleep(MainThread(Idle)) /\ woken[MainThread(Idle)] = FALSE
    BY <1>1, <2>2, Basics, SMT DEF ProcInv, TypeOK, WaitInv, Asleep
  <2>4. QED
    BY <1>1, <1>5, <2>1, <2>2, <2>3, ReapWait
<1>12. QED
  BY <1>5, <1>7, <1>8, <1>9, <1>10, <1>11 DEF ProcInv
=============================================================================
