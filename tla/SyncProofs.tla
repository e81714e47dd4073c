----------------------------- MODULE SyncProofs -----------------------------
(***************************************************************************)
(* Proofs about the LibOS's own locks: for any threads and any programs of *)
(* calls, the mutex and the readers-writer lock exclude, and nobody sleeps *)
(* for a lock that no one will give up.                                    *)
(***************************************************************************)
EXTENDS Sync, SequenceTheorems, FiniteSetTheorems, TLAPS

-----------------------------------------------------------------------------
(* Queues of sleeping threads                                              *)

\* The sequence q has every element of S, and each of them once.
Lists(q, S) ==
    /\ q \in Seq(S)
    /\ \A i, j \in 1 .. Len(q) : q[i] = q[j] => i = j
    /\ \A x \in S : \E i \in 1 .. Len(q) : q[i] = x

\* A thread that joins the end of the queue is listed besides the others (futex_wait).
LEMMA ListsAppend ==
    ASSUME NEW S, NEW q, NEW x, Lists(q, S), x \notin S
    PROVE  Lists(Append(q, x), S \cup {x})
<1>1. q \in Seq(S \cup {x}) /\ q \in Seq(S) /\ Len(q) \in Nat
  BY SeqMonotonic, LenProperties DEF Lists
<1>2. /\ Append(q, x) \in Seq(S \cup {x}) /\ Len(Append(q, x)) = Len(q) + 1
      /\ \A i \in 1 .. Len(q) : Append(q, x)[i] = q[i]
      /\ Append(q, x)[Len(q) + 1] = x
  BY <1>1, AppendProperties
<1>3. \A i \in 1 .. Len(q) : q[i] \in S
  BY <1>1, ElementOfSeq
<1> DEFINE r == Append(q, x)
<1> HIDE DEF r
<1>4. /\ r \in Seq(S \cup {x}) /\ Len(r) = Len(q) + 1
      /\ \A i \in 1 .. Len(q) : r[i] = q[i]
      /\ r[Len(q) + 1] = x
  BY <1>2 DEF r
<1>5. ASSUME NEW i \in 1 .. Len(r), NEW j \in 1 .. Len(r), r[i] = r[j] PROVE i = j
  <2>1. CASE i \in 1 .. Len(q) /\ j \in 1 .. Len(q)
    BY <2>1, <1>4, <1>5 DEF Lists
  <2>2. CASE i = Len(q) + 1 /\ j \in 1 .. Len(q)
    BY <2>2, <1>3, <1>4, <1>5
  <2>3. CASE j = Len(q) + 1 /\ i \in 1 .. Len(q)
    BY <2>3, <1>3, <1>4, <1>5
  <2>4. QED
    BY <2>1, <2>2, <2>3, <1>1, <1>4
<1>6. ASSUME NEW y \in S \cup {x} PROVE \E i \in 1 .. Len(r) : r[i] = y
  <2>1. CASE y = x
    <3>1. Len(q) + 1 \in 1 .. Len(r)
      BY <1>1, <1>4
    <3>2. QED
      BY <3>1, <2>1, <1>4
  <2>2. CASE y \in S
    <3>1. PICK i \in 1 .. Len(q) : q[i] = y
      BY <2>2 DEF Lists
    <3>2. i \in 1 .. Len(r)
      BY <1>1, <1>4
    <3>3. QED
      BY <3>1, <3>2, <1>4
  <2>3. QED
    BY <2>1, <2>2
<1>7. Lists(r, S \cup {x})
  BY <1>4, <1>5, <1>6 DEF Lists
<1>8. QED
  BY <1>7 DEF r

\* What is taken out of the queue is no longer listed, and the rest is (a signal ends a wait).
LEMMA ListsWithout ==
    ASSUME NEW S, NEW q, Lists(q, S), NEW k \in 1 .. Len(q)
    PROVE  Lists(Without(q, k), S \ {q[k]})
<1> DEFINE r == Without(q, k)
           a == SubSeq(q, 1, k - 1)
           b == SubSeq(q, k + 1, Len(q))
           T == S \ {q[k]}
<1>1. q \in Seq(S) /\ Len(q) \in Nat /\ k \in Nat /\ k >= 1 /\ k <= Len(q)
  BY LenProperties DEF Lists
<1>2. \A i \in 1 .. Len(q) : q[i] \in S
  BY <1>1, ElementOfSeq
<1>3. \A i \in 1 .. Len(q) : i # k => q[i] \in T
  BY <1>2 DEF Lists
<1>4. /\ a \in Seq(T) /\ Len(a) = k - 1
      /\ \A i \in 1 .. k - 1 : a[i] = q[i]
  <2>1. \A i \in 1 .. k - 1 : q[i] \in T
    BY <1>1, <1>3
  <2>2. QED
    BY <2>1, <1>1, SubSeqProperties
<1>5. /\ b \in Seq(T) /\ Len(b) = Len(q) - k
      /\ \A i \in 1 .. Len(q) - k : b[i] = q[k + i]
  <2>1. \A i \in k + 1 .. Len(q) : q[i] \in T
    BY <1>1, <1>3
  <2>2. /\ b \in Seq(T) /\ Len(b) = (IF k + 1 <= Len(q) THEN Len(q) - (k + 1) + 1 ELSE 0)
        /\ \A i \in 1 .. Len(q) - (k + 1) + 1 : b[i] = q[(k + 1) + i - 1]
    BY <2>1, <1>1, SubSeqProperties
  <2>3. QED
    BY <2>2, <1>1
<1>6. r = a \o b
  BY DEF Without
<1> HIDE DEF r, a, b, T
<1>7. /\ r \in Seq(T) /\ Len(r) = Len(q) - 1
      /\ \A i \in 1 .. Len(q) - 1 : r[i] = IF i <= k - 1 THEN q[i] ELSE q[i + 1]
  <2>1. /\ r \in Seq(T) /\ Len(r) = Len(a) + Len(b)
        /\ \A i \in 1 .. Len(a) + Len(b) : r[i] = IF i <= Len(a) THEN a[i] ELSE b[i - Len(a)]
    BY <1>4, <1>5, <1>6, ConcatProperties
  <2>2. Len(r) = Len(q) - 1
    BY <2>1, <1>4, <1>5, <1>1
  <2>3. ASSUME NEW i \in 1 .. Len(q) - 1
        PROVE  r[i] = IF i <= k - 1 THEN q[i] ELSE q[i + 1]
    <3>1. r[i] = IF i <= k - 1 THEN a[i] ELSE b[i - (k - 1)]
      BY <2>1, <2>2, <1>4, <1>1
    <3>2. CASE i <= k - 1
      BY <3>1, <3>2, <1>1, <1>4
    <3>3. CASE ~(i <= k - 1)
      <4>1. i - (k - 1) \in 1 .. Len(q) - k /\ k + (i - (k - 1)) = i + 1
        BY <3>3, <1>1
      <4>2. QED
        BY <4>1, <3>1, <3>3, <1>5
    <3>4. QED
      BY <3>2, <3>3
  <2>4. QED
    BY <2>1, <2>2, <2>3
<1>8. ASSUME NEW i \in 1 .. Len(r), NEW j \in 1 .. Len(r), r[i] = r[j] PROVE i = j
  <2> DEFINE At(m) == IF m <= k - 1 THEN m ELSE m + 1
  <2>1. /\ At(i) \in 1 .. Len(q) /\ r[i] = q[At(i)]
        /\ At(j) \in 1 .. Len(q) /\ r[j] = q[At(j)]
    BY <1>1, <1>7
  <2>2. At(i) = At(j)
    <3> HIDE DEF At
    <3> QED BY <2>1, <1>8 DEF Lists
  <2>3. QED
    BY <2>2, <1>1, <1>7
<1>9. ASSUME NEW x \in T PROVE \E i \in 1 .. Len(r) : r[i] = x
  <2>1. PICK i \in 1 .. Len(q) : q[i] = x
    BY DEF Lists, T
  <2>2. i # k
    BY <2>1 DEF T
  <2>3. CASE i < k
    <3>1. i \in 1 .. Len(r) /\ r[i] = x
      BY <2>1, <2>3, <1>1, <1>7
    <3>2. QED BY <3>1
  <2>4. CASE i > k
    <3>1. i - 1 \in 1 .. Len(r) /\ r[i - 1] = x
      BY <2>1, <2>4, <1>1, <1>7
    <3>2. QED BY <3>1
  <2>5. QED
    BY <2>2, <2>3, <2>4, <1>1
<1>10. Lists(r, T)
  BY <1>7, <1>8, <1>9 DEF Lists
<1>11. QED
  BY <1>10 DEF r, T

\* After the first n are taken the others are still listed (a wake).
LEMMA ListsSuffix ==
    ASSUME NEW S, NEW q, Lists(q, S), NEW n \in 0 .. Len(q)
    PROVE  Lists(SubSeq(q, n + 1, Len(q)), S \ {q[i] : i \in 1 .. n})
<1> DEFINE b == SubSeq(q, n + 1, Len(q))
           T == S \ {q[i] : i \in 1 .. n}
<1>1. q \in Seq(S) /\ Len(q) \in Nat /\ n \in Nat /\ n <= Len(q)
  BY LenProperties DEF Lists
<1>2. ASSUME NEW i \in n + 1 .. Len(q) PROVE q[i] \in T
  <2>1. i \in 1 .. Len(q) /\ q[i] \in S
    BY <1>1, ElementOfSeq
  <2>2. \A j \in 1 .. n : q[j] # q[i]
    BY <2>1, <1>1 DEF Lists
  <2>3. QED
    BY <2>1, <2>2
<1>3. /\ b \in Seq(T) /\ Len(b) = Len(q) - n
      /\ \A i \in 1 .. Len(q) - n : b[i] = q[n + i]
  <2>1. /\ b \in Seq(T) /\ Len(b) = (IF n + 1 <= Len(q) THEN Len(q) - (n + 1) + 1 ELSE 0)
        /\ \A i \in 1 .. Len(q) - (n + 1) + 1 : b[i] = q[(n + 1) + i - 1]
    BY <1>2, <1>1, SubSeqProperties
  <2>2. QED
    BY <2>1, <1>1
<1> HIDE DEF b
<1>4. ASSUME NEW i \in 1 .. Len(b), NEW j \in 1 .. Len(b), b[i] = b[j] PROVE i = j
  <2>1. n + i \in 1 .. Len(q) /\ n + j \in 1 .. Len(q) /\ q[n + i] = q[n + j]
    BY <1>1, <1>3, <1>4
  <2>2. n + i = n + j
    BY <2>1 DEF Lists
  <2>3. QED
    BY <2>2, <1>1
<1>5. ASSUME NEW x \in T PROVE \E i \in 1 .. Len(b) : b[i] = x
  <2>1. PICK i \in 1 .. Len(q) : q[i] = x
    BY DEF Lists
  <2>2. i > n
    BY <2>1, <1>1
  <2>3. i - n \in 1 .. Len(b) /\ b[i - n] = x
    BY <2>1, <2>2, <1>1, <1>3
  <2>4. QED
    BY <2>3
<1>6. Lists(b, T)
  BY <1>3, <1>4, <1>5 DEF Lists
<1>7. QED
  BY <1>6 DEF b

-----------------------------------------------------------------------------
(* The mutex                                                               *)

MLabels == {"idle", "spin", "respin", "exchange", "loop", "futex_wait", "sleep", "wake", "hold"}
MSleepers == {t \in MThreads : mpc[t] = "sleep"}
MCallNames == {"lock", "try_lock"}

\* A thread inside a call still has that call to make.
MutexTypeOK ==
    /\ mword \in 0 .. 2
    /\ mpc \in [MThreads -> MLabels]
    /\ mstate \in [MThreads -> 0 .. 2]
    /\ mcalls \in [MThreads -> Seq(MCallNames)]
    /\ \A t \in MThreads : mpc[t] # "idle" => mcalls[t] # <<>>

\* The queue of the futex lists the sleepers, one thread at most holds the mutex, and the
\* word tells whether one does.
MutexHeld ==
    /\ \A t, u \in MThreads : mpc[t] = "hold" /\ mpc[u] = "hold" => t = u
    /\ mword # 0 <=> \E t \in MThreads : mpc[t] = "hold"

MutexInv == MutexTypeOK /\ Lists(mQueue, MSleepers) /\ MutexHeld /\ MutexSleepersServed

LEMMA MutexInvInit == MutexInit => MutexInv
<1> SUFFICES ASSUME MutexInit PROVE MutexInv
  OBVIOUS
<1>1. MutexTypeOK
  BY MProgramsAssumption DEF MutexInit, MutexTypeOK, MLabels, MCallNames
<1>2. MSleepers = {}
  BY DEF MutexInit, MSleepers
<1>3. Lists(mQueue, MSleepers)
  BY <1>2, EmptySeq DEF MutexInit, Lists
<1>4. MutexHeld /\ MutexSleepersServed
  BY DEF MutexInit, MutexHeld, MutexSleepersServed
<1>5. QED
  BY <1>1, <1>3, <1>4 DEF MutexInv

LEMMA MutexTypeStep ==
    ASSUME MutexInv, NEW t \in MThreads
    PROVE  MutexStep(t) => MutexTypeOK'
<1>f. /\ mword \in 0 .. 2
      /\ mpc \in [MThreads -> MLabels]
      /\ mstate \in [MThreads -> 0 .. 2]
      /\ mcalls \in [MThreads -> Seq(MCallNames)]
      /\ \A u \in MThreads : mpc[u] # "idle" => mcalls[u] # <<>>
  BY DEF MutexInv, MutexTypeOK
<1>t. mcalls[t] # <<>> => [mcalls EXCEPT ![t] = Tail(@)] \in [MThreads -> Seq(MCallNames)]
  <2> SUFFICES ASSUME mcalls[t] # <<>>
               PROVE  [mcalls EXCEPT ![t] = Tail(@)] \in [MThreads -> Seq(MCallNames)]
    OBVIOUS
  <2>1. mcalls[t] \in Seq(MCallNames)
    BY <1>f
  <2>2. Tail(mcalls[t]) \in Seq(MCallNames)
    BY <2>1, HeadTailProperties
  <2>3. QED
    BY <2>2, <1>f, Zenon
<1>r. ASSUME MReturns(t), mcalls[t] # <<>>
      PROVE  /\ mpc' \in [MThreads -> MLabels] /\ mcalls' \in [MThreads -> Seq(MCallNames)]
             /\ \A u \in MThreads : mpc'[u] # "idle" => mcalls'[u] # <<>>
  <2>1. mpc' = [mpc EXCEPT ![t] = "idle"] /\ mcalls' = [mcalls EXCEPT ![t] = Tail(@)]
    BY <1>r DEF MReturns, MGoes
  <2>2. \A u \in MThreads : u # t => mpc'[u] = mpc[u] /\ mcalls'[u] = mcalls[u]
    BY <2>1, <1>f, Zenon
  <2>3. mpc'[t] = "idle"
    BY <2>1, <1>f, Zenon
  <2>4. QED
    BY <2>1, <2>2, <2>3, <1>f, <1>t, <1>r, Zenon DEF MLabels
<1>1. ASSUME Lock(t) PROVE MutexTypeOK'
  <2>1. CASE mword = 0
    <3>1. /\ mpc' = [mpc EXCEPT ![t] = "hold"] /\ mcalls[t] # <<>> /\ mword' = 1
          /\ mcalls' = mcalls /\ mstate' = mstate
      BY <2>1, <1>1, Zenon DEF Lock, MGoes
    <3>2. QED
      BY <3>1, <1>f DEF MutexTypeOK, MLabels
  <2>2. CASE mword # 0 /\ Head(mcalls[t]) = "try_lock"
    <3>1. MReturns(t) /\ mcalls[t] # <<>> /\ mword' = mword /\ mstate' = mstate
      BY <2>2, <1>1, Zenon DEF Lock
    <3>2. QED
      BY <3>1, <1>f, <1>r DEF MutexTypeOK
  <2>3. CASE mword # 0 /\ Head(mcalls[t]) # "try_lock"
    BY <2>3, <1>1, <1>f DEF Lock, MGoes, MutexTypeOK, MLabels
  <2>4. QED
    BY <2>1, <2>2, <2>3
<1>2. ASSUME Spin(t) PROVE MutexTypeOK'
  BY <1>2, <1>f DEF Spin, MGoes, MutexTypeOK, MLabels
<1>3. ASSUME Exchange(t) PROVE MutexTypeOK'
  <2>1. CASE mword = 0
    BY <2>1, <1>3, <1>f DEF Exchange, MGoes, MutexTypeOK, MLabels
  <2>2. CASE mword # 0
    BY <2>2, <1>3, <1>f DEF Exchange, MGoes, MutexTypeOK, MLabels
  <2>3. QED
    BY <2>1, <2>2
<1>4. ASSUME LockContended(t) PROVE MutexTypeOK'
  BY <1>4, <1>f DEF LockContended, MGoes, SwappedIn, MutexTypeOK, MLabels
<1>5. ASSUME MFutexWait(t) PROVE MutexTypeOK'
  BY <1>5, <1>f DEF MFutexWait, MGoes, MutexTypeOK, MLabels
<1>6. ASSUME MInterrupted(t) PROVE MutexTypeOK'
  BY <1>6, <1>f DEF MInterrupted, MGoes, MutexTypeOK, MLabels
<1>7. ASSUME ForceUnlock(t) PROVE MutexTypeOK'
  <2>1. CASE mword = 2
    BY <2>1, <1>7, <1>f DEF ForceUnlock, MGoes, MutexTypeOK, MLabels
  <2>2. CASE mword # 2
    BY <2>2, <1>7, <1>f, <1>r DEF ForceUnlock, MutexTypeOK
  <2>3. QED
    BY <2>1, <2>2
<1>8. ASSUME WakeOne(t) PROVE MutexTypeOK'
  <2>1. CASE mQueue = <<>>
    BY <2>1, <1>8, <1>f, <1>t DEF WakeOne, MGoes, MutexTypeOK, MLabels
  <2>2. CASE mQueue # <<>>
    <3>1. Head(mQueue) \in MSleepers
      BY <2>2, HeadTailProperties DEF MutexInv, Lists
    <3>2. Head(mQueue) \in MThreads /\ mpc[Head(mQueue)] = "sleep"
      BY <3>1 DEF MSleepers
    <3>3. Head(mQueue) # t
      BY <3>2, <1>8 DEF WakeOne
    <3>4. QED
      BY <3>2, <3>3, <2>2, <1>8, <1>f, <1>t DEF WakeOne, MutexTypeOK, MLabels
  <2>3. QED
    BY <2>1, <2>2
<1>9. QED
  BY <1>1, <1>2, <1>3, <1>4, <1>5, <1>6, <1>7, <1>8 DEF MutexStep

\* How an action that moves one thread changes the set of sleepers.
LEMMA MutexMoves ==
    ASSUME MutexTypeOK, NEW t \in MThreads, NEW l, MGoes(t, l)
    PROVE  /\ mpc'[t] = l
           /\ \A u \in MThreads : u # t => mpc'[u] = mpc[u]
           /\ mpc[t] # "sleep" /\ l # "sleep" => MSleepers' = MSleepers
           /\ mpc[t] # "sleep" /\ l = "sleep" => MSleepers' = MSleepers \cup {t} /\ t \notin MSleepers
           /\ mpc[t] = "sleep" /\ l # "sleep" => MSleepers' = MSleepers \ {t} /\ t \in MSleepers
<1>1. mpc \in [MThreads -> MLabels] /\ mpc' = [mpc EXCEPT ![t] = l]
  BY DEF MutexTypeOK, MGoes
<1>2. mpc'[t] = l /\ \A u \in MThreads : u # t => mpc'[u] = mpc[u]
  BY <1>1, Zenon
<1>3. \A u : u \in MSleepers' <=> u \in MThreads /\ mpc'[u] = "sleep"
  BY DEF MSleepers
<1>4. \A u : u \in MSleepers <=> u \in MThreads /\ mpc[u] = "sleep"
  BY DEF MSleepers
<1>5. mpc[t] # "sleep" /\ l # "sleep" => MSleepers' = MSleepers
  BY <1>2, <1>3, <1>4
<1>6. mpc[t] # "sleep" /\ l = "sleep" => MSleepers' = MSleepers \cup {t} /\ t \notin MSleepers
  BY <1>2, <1>3, <1>4
<1>7. mpc[t] = "sleep" /\ l # "sleep" => MSleepers' = MSleepers \ {t} /\ t \in MSleepers
  BY <1>2, <1>3, <1>4
<1>8. QED
  BY <1>2, <1>5, <1>6, <1>7

LEMMA MutexQueueStep ==
    ASSUME MutexInv, NEW t \in MThreads
    PROVE  MutexStep(t) => Lists(mQueue, MSleepers)'
<1> USE DEF MReturns
<1>i. MutexTypeOK /\ Lists(mQueue, MSleepers)
  BY DEF MutexInv
<1>1. ASSUME NEW l, MGoes(t, l), mpc[t] # "sleep", l # "sleep", mQueue' = mQueue
      PROVE  Lists(mQueue, MSleepers)'
  <2>1. MSleepers' = MSleepers
    BY <1>1, <1>i, MutexMoves
  <2>2. QED
    BY <2>1, <1>1, <1>i DEF Lists
<1>2. ASSUME Lock(t) PROVE Lists(mQueue, MSleepers)'
  BY <1>2, <1>1 DEF Lock
<1>3. ASSUME Spin(t) PROVE Lists(mQueue, MSleepers)'
  BY <1>3, <1>1 DEF Spin
<1>4. ASSUME Exchange(t) PROVE Lists(mQueue, MSleepers)'
  BY <1>4, <1>1 DEF Exchange
<1>5. ASSUME LockContended(t) PROVE Lists(mQueue, MSleepers)'
  BY <1>5, <1>1 DEF LockContended
<1>6. ASSUME MFutexWait(t) PROVE Lists(mQueue, MSleepers)'
  <2>1. CASE mword = 2
    <3>1. mQueue' = Append(mQueue, t) /\ MGoes(t, "sleep") /\ mpc[t] # "sleep"
      BY <2>1, <1>6 DEF MFutexWait
    <3>2. MSleepers' = MSleepers \cup {t} /\ t \notin MSleepers
      BY <3>1, <1>i, MutexMoves
    <3>3. Lists(Append(mQueue, t), MSleepers \cup {t})
      BY <3>2, <1>i, ListsAppend
    <3>4. QED
      BY <3>1, <3>2, <3>3 DEF Lists
  <2>2. CASE mword # 2
    BY <2>2, <1>6, <1>1 DEF MFutexWait
  <2>3. QED
    BY <2>1, <2>2
<1>7. ASSUME MInterrupted(t) PROVE Lists(mQueue, MSleepers)'
  <2>1. PICK i \in DOMAIN mQueue : mQueue[i] = t /\ mQueue' = Without(mQueue, i)
    BY <1>7 DEF MInterrupted
  <2>2. i \in 1 .. Len(mQueue)
    BY <1>i, LenProperties DEF Lists
  <2>3. MSleepers' = MSleepers \ {t}
    BY <1>7, <1>i, MutexMoves DEF MInterrupted
  <2>4. Lists(Without(mQueue, i), MSleepers \ {t})
    BY <2>1, <2>2, <1>i, ListsWithout
  <2>5. QED
    BY <2>1, <2>3, <2>4 DEF Lists
<1>8. ASSUME ForceUnlock(t) PROVE Lists(mQueue, MSleepers)'
  BY <1>8, <1>1 DEF ForceUnlock
<1>9. ASSUME WakeOne(t) PROVE Lists(mQueue, MSleepers)'
  <2>1. CASE mQueue = <<>>
    BY <2>1, <1>9, <1>1 DEF WakeOne
  <2>2. CASE mQueue # <<>>
    <3> DEFINE h == Head(mQueue)
    <3>1. mQueue \in Seq(MSleepers) /\ Len(mQueue) \in Nat /\ Len(mQueue) > 0
      BY <2>2, <1>i, EmptySeq, LenProperties DEF Lists
    <3>2. /\ h \in MSleepers /\ h = mQueue[1]
          /\ mQueue' = Tail(mQueue) /\ Tail(mQueue) = SubSeq(mQueue, 2, Len(mQueue))
      <4>1. h \in MSleepers /\ Tail(mQueue) = SubSeq(mQueue, 2, Len(mQueue))
        BY <3>1, <2>2, HeadTailProperties, TailIsSubSeq
      <4>2. h = mQueue[1]
        BY <3>1
      <4>3. mQueue' = Tail(mQueue)
        BY <2>2, <1>9 DEF WakeOne
      <4>4. QED
        BY <4>1, <4>2, <4>3
    <3>3. h \in MThreads /\ h # t
      BY <3>2, <1>9 DEF WakeOne, MSleepers
    <3>4. /\ mpc'[t] = "idle" /\ mpc'[h] = "respin"
          /\ \A u \in MThreads : u # t /\ u # h => mpc'[u] = mpc[u]
      BY <3>3, <2>2, <1>9, <1>i DEF WakeOne, MutexTypeOK
    <3>5. MSleepers' = MSleepers \ {mQueue[i] : i \in 1 .. 1}
      BY <3>2, <3>3, <3>4, <1>9 DEF MSleepers, WakeOne
    <3>6. Lists(SubSeq(mQueue, 1 + 1, Len(mQueue)), MSleepers \ {mQueue[i] : i \in 1 .. 1})
      <4>1. 1 \in 0 .. Len(mQueue)
        BY <3>1
      <4>2. QED
        BY <4>1, <1>i, ListsSuffix
    <3>7. 1 + 1 = 2
      OBVIOUS
    <3>8. Lists(mQueue', MSleepers')
      BY <3>2, <3>5, <3>6, <3>7, Zenon
    <3>9. QED
      BY <3>8 DEF Lists
  <2>3. QED
    BY <2>1, <2>2
<1>10. QED
  BY <1>2, <1>3, <1>4, <1>5, <1>6, <1>7, <1>8, <1>9 DEF MutexStep

\* The word is written by whoever takes or gives up the mutex, and by lock_contended.
LEMMA MutexHeldStep ==
    ASSUME MutexInv, NEW t \in MThreads
    PROVE  MutexStep(t) => MutexHeld'
<1>i. MutexTypeOK /\ MutexHeld
  BY DEF MutexInv
<1>w. mword \in 0 .. 2
  BY <1>i DEF MutexTypeOK
<1>1. ASSUME NEW l, MGoes(t, l), mpc[t] # "hold", l # "hold", (mword' # 0) <=> (mword # 0)
      PROVE  MutexHeld'
  <2>1. mpc'[t] = l /\ \A u \in MThreads : u # t => mpc'[u] = mpc[u]
    BY <1>1, <1>i, MutexMoves
  <2>2. QED
    BY <2>1, <1>1, <1>i DEF MutexHeld
<1>2. ASSUME MGoes(t, "hold"), mword = 0, mword' # 0
      PROVE  MutexHeld'
  <2>1. mpc'[t] = "hold" /\ \A u \in MThreads : u # t => mpc'[u] = mpc[u]
    BY <1>2, <1>i, MutexMoves
  <2>2. QED
    BY <2>1, <1>2, <1>i DEF MutexHeld
<1>3. ASSUME NEW l, MGoes(t, l), mpc[t] = "hold", l # "hold", mword' = 0
      PROVE  MutexHeld'
  <2>1. mpc'[t] = l /\ \A u \in MThreads : u # t => mpc'[u] = mpc[u]
    BY <1>3, <1>i, MutexMoves
  <2>2. QED
    BY <2>1, <1>3, <1>i DEF MutexHeld
<1>4. ASSUME Lock(t) PROVE MutexHeld'
  BY <1>4, <1>1, <1>2 DEF Lock, MReturns
<1>5. ASSUME Spin(t) PROVE MutexHeld'
  BY <1>5, <1>1 DEF Spin
<1>6. ASSUME Exchange(t) PROVE MutexHeld'
  BY <1>6, <1>1, <1>2 DEF Exchange
<1>7. ASSUME LockContended(t) PROVE MutexHeld'
  BY <1>7, <1>1, <1>2 DEF LockContended, SwappedIn
<1>8. ASSUME MFutexWait(t) PROVE MutexHeld'
  BY <1>8, <1>1 DEF MFutexWait
<1>9. ASSUME MInterrupted(t) PROVE MutexHeld'
  BY <1>9, <1>1 DEF MInterrupted
<1>10. ASSUME ForceUnlock(t) PROVE MutexHeld'
  BY <1>10, <1>3 DEF ForceUnlock, MReturns
<1>11. ASSUME WakeOne(t) PROVE MutexHeld'
  <2>1. CASE mQueue = <<>>
    BY <2>1, <1>11, <1>1 DEF WakeOne
  <2>2. CASE mQueue # <<>>
    <3>1. Head(mQueue) \in MSleepers
      BY <2>2, HeadTailProperties DEF MutexInv, Lists
    <3>2. \A u \in MThreads : (mpc'[u] = "hold") <=> (mpc[u] = "hold")
      BY <3>1, <2>2, <1>11, <1>i DEF WakeOne, MutexTypeOK, MSleepers
    <3>3. mword' = mword
      BY <1>11 DEF WakeOne
    <3>4. QED
      BY <3>2, <3>3, <1>i DEF MutexHeld
  <2>3. QED
    BY <2>1, <2>2
<1>12. QED
  BY <1>4, <1>5, <1>6, <1>7, <1>8, <1>9, <1>10, <1>11 DEF MutexStep

\* The responsibility for the sleepers passes from the holder to the thread it wakes, and from
\* that one to the next holder or back to the word.
LEMMA MutexServedStep ==
    ASSUME MutexInv, NEW t \in MThreads
    PROVE  MutexStep(t) => MutexSleepersServed'
<1> DEFINE Busy == {"wake", "respin", "loop", "futex_wait"}
<1>i. MutexTypeOK /\ MutexSleepersServed
  BY DEF MutexInv
<1>1. ASSUME NEW l, MGoes(t, l), l \in Busy
      PROVE  MutexSleepersServed'
  BY <1>1, <1>i, MutexMoves DEF MutexSleepersServed
<1>2. ASSUME mword' = 2
      PROVE  MutexSleepersServed'
  BY <1>2 DEF MutexSleepersServed
<1>3. ASSUME NEW l, MGoes(t, l), mpc[t] \notin Busy, l # "sleep", mword = 2 => mword' = 2
      PROVE  MutexSleepersServed'
  <2>1. mpc'[t] = l /\ \A u \in MThreads : u # t => mpc'[u] = mpc[u]
    BY <1>3, <1>i, MutexMoves
  <2>2. QED
    BY <2>1, <1>3, <1>i DEF MutexSleepersServed
<1>4. ASSUME Lock(t) PROVE MutexSleepersServed'
  <2>1. mpc[t] \notin Busy /\ (mword = 2 => mword' = 2)
    BY <1>4 DEF Lock
  <2>2. MGoes(t, "hold") \/ MGoes(t, "idle") \/ MGoes(t, "spin")
    BY <1>4 DEF Lock, MReturns
  <2>3. QED
    BY <2>1, <2>2, <1>3
<1>5. ASSUME Spin(t) PROVE MutexSleepersServed'
  <2>1. CASE mpc[t] = "spin" /\ mword = 0
    BY <2>1, <1>5, <1>3 DEF Spin
  <2>2. CASE ~(mpc[t] = "spin" /\ mword = 0)
    BY <2>2, <1>5, <1>1 DEF Spin
  <2>3. QED
    BY <2>1, <2>2
<1>6. ASSUME Exchange(t) PROVE MutexSleepersServed'
  <2>1. CASE mword = 0
    BY <2>1, <1>6, <1>3 DEF Exchange
  <2>2. CASE mword # 0
    BY <2>2, <1>6, <1>1 DEF Exchange
  <2>3. QED
    BY <2>1, <2>2
<1>7. ASSUME LockContended(t) PROVE MutexSleepersServed'
  BY <1>7, <1>1, <1>2 DEF LockContended, SwappedIn
<1>8. ASSUME MFutexWait(t) PROVE MutexSleepersServed'
  <2>1. CASE mword = 2
    BY <2>1, <1>8, <1>2 DEF MFutexWait
  <2>2. CASE mword # 2
    BY <2>2, <1>8, <1>1 DEF MFutexWait
  <2>3. QED
    BY <2>1, <2>2
<1>9. ASSUME MInterrupted(t) PROVE MutexSleepersServed'
  BY <1>9, <1>1 DEF MInterrupted
<1>10. ASSUME ForceUnlock(t) PROVE MutexSleepersServed'
  <2>1. CASE mword = 2
    BY <2>1, <1>10, <1>1 DEF ForceUnlock
  <2>2. CASE mword # 2
    BY <2>2, <1>10, <1>3 DEF ForceUnlock, MReturns
  <2>3. QED
    BY <2>1, <2>2
<1>11. ASSUME WakeOne(t) PROVE MutexSleepersServed'
  <2>1. CASE mQueue = <<>>
    <3>1. MSleepers = {}
      BY <2>1, EmptySeq DEF MutexInv, Lists
    <3>2. MSleepers' = MSleepers
      BY <2>1, <1>11, <1>i, MutexMoves DEF WakeOne
    <3>3. QED
      BY <3>1, <3>2 DEF MSleepers, MutexSleepersServed
  <2>2. CASE mQueue # <<>>
    <3>1. Head(mQueue) \in MSleepers
      BY <2>2, HeadTailProperties DEF MutexInv, Lists
    <3>2. Head(mQueue) \in MThreads /\ mpc'[Head(mQueue)] = "respin"
      BY <3>1, <2>2, <1>11, <1>i DEF WakeOne, MutexTypeOK, MSleepers
    <3>3. QED
      BY <3>2 DEF MutexSleepersServed
  <2>3. QED
    BY <2>1, <2>2
<1>12. QED
  BY <1>4, <1>5, <1>6, <1>7, <1>8, <1>9, <1>10, <1>11 DEF MutexStep

LEMMA MutexInductive == MutexInv /\ [MutexNext]_mutexVars => MutexInv'
<1> SUFFICES ASSUME MutexInv, [MutexNext]_mutexVars PROVE MutexInv'
  OBVIOUS
<1>1. CASE MutexNext
  <2>1. PICK t \in MThreads : MutexStep(t)
    BY <1>1 DEF MutexNext
  <2>2. QED
    BY <2>1, MutexTypeStep, MutexQueueStep, MutexHeldStep, MutexServedStep DEF MutexInv
<1>2. CASE UNCHANGED mutexVars
  BY <1>2 DEF mutexVars, MutexInv, MutexTypeOK, Lists, MSleepers, MutexHeld, MutexSleepersServed
<1>3. QED
  BY <1>1, <1>2

\* For any threads and any programs of lock and try_lock: the mutex has one holder at most, its
\* word tells whether it has one, and a thread asleep for it is going to be woken
\* (util/sync/mutex.rs).
THEOREM MutexSafe == MutexSpec => []MutexCorrect
<1>1. MutexInv => MutexCorrect
  <2> SUFFICES ASSUME MutexInv PROVE MutexCorrect
    OBVIOUS
  <2> DEFINE H == {t \in MThreads : mpc[t] = "hold"}
  <2>1. Cardinality(H) <= 1
    <3>1. H = {} \/ \E t : H = {t}
      BY DEF MutexInv, MutexHeld
    <3> HIDE DEF H
    <3>2. CASE H = {}
      BY <3>2, FS_EmptySet, SMTT(60)
    <3>3. ASSUME NEW t, H = {t} PROVE Cardinality(H) <= 1
      BY <3>3, FS_Singleton, SMTT(60)
    <3>4. QED
      BY <3>1, <3>2, <3>3
  <2>2. mword # 0 <=> \E t \in MThreads : mpc[t] = "hold"
    BY DEF MutexInv, MutexHeld
  <2>3. QED
    BY <2>1, <2>2 DEF MutexInv, MutexCorrect, MutexExclusive
<1>2. QED
  BY <1>1, MutexInvInit, MutexInductive, PTL DEF MutexSpec

-----------------------------------------------------------------------------
(* The readers-writer lock                                                 *)

RWLabels == {"idle", "again", "hold", "reload", "count", "mark", "futex_wait", "sleep", "uncount",
             "unlocked", "wake"}
RWCallNames == {"read", "try_read", "write", "try_write"}
RWSleepers == {t \in RWThreads : rwpc[t] = "sleep"}
Statuses == 0 .. 2 * I32Max + 1

RWTypeOK ==
    /\ word \in Statuses
    /\ rw_waiters \in Int
    /\ rwpc \in [RWThreads -> RWLabels]
    /\ seen \in [RWThreads -> Statuses]
    /\ rwcalls \in [RWThreads -> Seq(RWCallNames)]
    /\ \A t \in RWThreads : rwpc[t] # "idle" => rwcalls[t] # <<>>

\* The threads that rw_waiters counts.
Counted == {t \in RWThreads : rwpc[t] \in {"mark", "futex_wait", "sleep", "uncount"}}
CountedExactly == IsFiniteSet(Counted) /\ rw_waiters = Cardinality(Counted)

\* The word is that of the holders, and no thread waits for a lock that it has seen free.
RWHeld ==
    /\ \/ /\ Writers = {} /\ IsFiniteSet(Readers)
          /\ get_locker(word) = Cardinality(Readers) /\ Cardinality(Readers) < I32Max
       \/ /\ Readers = {} /\ \E t \in RWThreads : Writers = {t}
          /\ get_locker(word) = I32Max
    /\ is_waiting(word) => get_locker(word) # 0
    /\ \A t \in RWThreads : rwpc[t] \in {"count", "mark", "futex_wait"} => get_locker(seen[t]) # 0

\* While a thread sleeps, the lock is held, or some thread is between an unlock and its wake, or
\* on its way to try for the lock.
RWAttended ==
    RWSleepers # {} =>
        \/ get_locker(word) # 0
        \/ \E t \in RWThreads :
              \/ rwpc[t] \in {"wake", "uncount", "again", "reload", "count", "mark", "futex_wait"}
              \/ rwpc[t] = "unlocked" /\ get_locker(seen[t]) \in {1, WriterLocked}

RWInv == RWTypeOK /\ Lists(rwQueue, RWSleepers) /\ CountedExactly /\ RWHeld /\ RWAttended

LEMMA RWInvInit == RWInit => RWInv
<1> SUFFICES ASSUME RWInit PROVE RWInv
  OBVIOUS
<1>1. RWTypeOK
  <2>1. 0 \in Statuses /\ word = 0 /\ rw_waiters = 0
    BY I32MaxAssumption DEF RWInit, Statuses, Free
  <2>2. rwcalls \in [RWThreads -> Seq(RWCallNames)]
    BY RWProgramsAssumption, Zenon DEF RWInit, RWCallNames
  <2>3. QED
    BY <2>1, <2>2 DEF RWInit, RWTypeOK, RWLabels, Free
<1>2. RWSleepers = {} /\ Counted = {} /\ Readers = {} /\ Writers = {}
  BY DEF RWInit, RWSleepers, Counted, Readers, Writers
<1>3. Lists(rwQueue, RWSleepers)
  BY <1>2, EmptySeq DEF RWInit, Lists
<1>4. CountedExactly
  BY <1>2, FS_EmptySet DEF RWInit, CountedExactly
<1>5. RWHeld
  <2>1. IsFiniteSet(Readers) /\ Cardinality(Readers) = 0
    BY <1>2, FS_EmptySet
  <2>2. get_locker(word) = 0 /\ ~is_waiting(word)
    BY I32MaxAssumption DEF RWInit, Free, get_locker, is_waiting, WaitingBit
  <2>3. QED
    BY <2>1, <2>2, <1>2, I32MaxAssumption DEF RWInit, RWHeld
<1>6. RWAttended
  BY <1>2 DEF RWAttended
<1>7. QED
  BY <1>1, <1>3, <1>4, <1>5, <1>6 DEF RWInv

\* Who the wake of an unlock wakes: threads of the queue, one at least if it has any.
LEMMA WakeWakes ==
    ASSUME RWInv, NEW t \in RWThreads, Wake(t)
    PROVE  \E W \in SUBSET RWSleepers :
              /\ RWSleepers # {} => W # {}
              /\ rwpc' = [u \in RWThreads |->
                             IF u = t THEN "idle" ELSE IF u \in W THEN "uncount" ELSE rwpc[u]]
              /\ Lists(rwQueue', RWSleepers \ W)
<1> DEFINE n == get_waking_num(seen[t])
           W == {rwQueue[i] : i \in 1 .. n}
<1>1. Lists(rwQueue, RWSleepers) /\ rwQueue \in Seq(RWSleepers) /\ Len(rwQueue) \in Nat
  BY LenProperties DEF RWInv, Lists
<1>2. n \in 0 .. Len(rwQueue) /\ (Len(rwQueue) # 0 => n # 0)
  BY <1>1 DEF get_waking_num
<1>3. /\ rwQueue' = SubSeq(rwQueue, n + 1, Len(rwQueue))
      /\ rwpc' = [u \in RWThreads |->
                     IF u = t THEN "idle" ELSE IF u \in W THEN "uncount" ELSE rwpc[u]]
  BY Zenon DEF Wake
<1> HIDE DEF n
<1>4. W \in SUBSET RWSleepers
  <2>1. \A i \in 1 .. Len(rwQueue) : rwQueue[i] \in RWSleepers
    BY <1>1, ElementOfSeq
  <2>2. \A i \in 1 .. n : i \in 1 .. Len(rwQueue)
    BY <1>1, <1>2
  <2>3. QED
    BY <2>1, <2>2
<1>5. RWSleepers # {} => W # {}
  <2> SUFFICES ASSUME NEW u \in RWSleepers PROVE W # {}
    OBVIOUS
  <2>1. Len(rwQueue) # 0
    BY <1>1 DEF Lists
  <2>2. 1 \in 1 .. n
    BY <2>1, <1>1, <1>2
  <2>3. QED
    BY <2>2
<1>6. Lists(rwQueue', RWSleepers \ W)
  BY <1>1, <1>2, <1>3, ListsSuffix
<1> HIDE DEF W
<1>7. QED
  BY <1>3, <1>4, <1>5, <1>6

LEMMA RWTypeStep ==
    ASSUME RWInv, NEW t \in RWThreads
    PROVE  RWStep(t) => RWTypeOK'
<1>f. /\ word \in Statuses
      /\ rw_waiters \in Int
      /\ rwpc \in [RWThreads -> RWLabels]
      /\ seen \in [RWThreads -> Statuses]
      /\ rwcalls \in [RWThreads -> Seq(RWCallNames)]
      /\ \A u \in RWThreads : rwpc[u] # "idle" => rwcalls[u] # <<>>
  BY DEF RWInv, RWTypeOK
<1>m. I32Max \in Nat /\ I32Max > 1
  BY I32MaxAssumption
<1>g. ASSUME NEW l \in RWLabels, Goes(t, l), rwcalls' = rwcalls, rwcalls[t] # <<>>
      PROVE  /\ rwpc' \in [RWThreads -> RWLabels] /\ rwcalls' \in [RWThreads -> Seq(RWCallNames)]
             /\ \A u \in RWThreads : rwpc'[u] # "idle" => rwcalls'[u] # <<>>
  BY <1>g, <1>f DEF Goes
<1>t. rwcalls[t] # <<>> => [rwcalls EXCEPT ![t] = Tail(@)] \in [RWThreads -> Seq(RWCallNames)]
  <2> SUFFICES ASSUME rwcalls[t] # <<>>
               PROVE  [rwcalls EXCEPT ![t] = Tail(@)] \in [RWThreads -> Seq(RWCallNames)]
    OBVIOUS
  <2>1. rwcalls[t] \in Seq(RWCallNames)
    BY <1>f
  <2>2. Tail(rwcalls[t]) \in Seq(RWCallNames)
    BY <2>1, HeadTailProperties
  <2>3. QED
    BY <2>2, <1>f, Zenon
<1>r. ASSUME RWReturns(t), rwcalls[t] # <<>>
      PROVE  /\ rwpc' \in [RWThreads -> RWLabels] /\ rwcalls' \in [RWThreads -> Seq(RWCallNames)]
             /\ \A u \in RWThreads : rwpc'[u] # "idle" => rwcalls'[u] # <<>>
  <2>1. rwpc' = [rwpc EXCEPT ![t] = "idle"] /\ rwcalls' = [rwcalls EXCEPT ![t] = Tail(@)]
    BY <1>r DEF RWReturns, Goes
  <2>2. \A u \in RWThreads : u # t => rwpc'[u] = rwpc[u] /\ rwcalls'[u] = rwcalls[u]
    BY <2>1, <1>f, Zenon
  <2>3. rwpc'[t] = "idle"
    BY <2>1, <1>f, Zenon
  <2>4. QED
    BY <2>1, <2>2, <2>3, <1>f, <1>t, <1>r, Zenon DEF RWLabels
<1>1. ASSUME Acquire(t) PROVE RWTypeOK'
  <2>1. word' \in Statuses
    <3>1. CASE TryRead(t)
      <4>1. /\ get_locker(word) # I32Max /\ get_locker(word) # I32Max - 1 /\ word' = word + 1
        BY <3>1 DEF TryRead, WriterLocked, max_read_lock_holder_num
      <4>2. QED
        BY <4>1, <1>f, <1>m DEF Statuses, get_locker, is_waiting, WaitingBit
    <3>2. CASE TryWrite(t)
      BY <3>2, <1>m DEF TryWrite, WriterLocked, Statuses
    <3>3. QED
      BY <3>1, <3>2, <1>1 DEF Acquire
  <2>2. QED
    BY <2>1, <1>1, <1>f, <1>g DEF Acquire, RWTypeOK, RWLabels
<1>2. ASSUME Refused(t) PROVE RWTypeOK'
  BY <1>2, <1>f, <1>r DEF Refused, RWTypeOK
<1>3. ASSUME Reload(t) PROVE RWTypeOK'
  BY <1>3, <1>f, <1>g DEF Reload, RWTypeOK, RWLabels
<1>4. ASSUME DecideToWait(t) PROVE RWTypeOK'
  <2>1. seen' \in [RWThreads -> Statuses] /\ rwcalls[t] # <<>> /\ rwcalls' = rwcalls
    BY <1>4, <1>f DEF DecideToWait
  <2>2. \E l \in RWLabels : Goes(t, l)
    BY <1>4 DEF DecideToWait, RWLabels
  <2>3. QED
    BY <2>1, <2>2, <1>4, <1>f, <1>g DEF DecideToWait, RWTypeOK
<1>5. ASSUME CountWaiter(t) PROVE RWTypeOK'
  BY <1>5, <1>f, <1>g DEF CountWaiter, RWTypeOK, RWLabels
<1>6. ASSUME MarkWaiting(t) PROVE RWTypeOK'
  <2>1. word' \in Statuses
    BY <1>6, <1>f, <1>m DEF MarkWaiting, set_waiting, is_waiting, WaitingBit, Statuses
  <2>2. QED
    BY <2>1, <1>6, <1>f, <1>g DEF MarkWaiting, RWTypeOK, RWLabels
<1>7. ASSUME FutexWait(t) PROVE RWTypeOK'
  BY <1>7, <1>f, <1>g DEF FutexWait, RWTypeOK, RWLabels
<1>8. ASSUME RWInterrupted(t) PROVE RWTypeOK'
  BY <1>8, <1>f, <1>g DEF RWInterrupted, RWTypeOK, RWLabels
<1>9. ASSUME UncountWaiter(t) PROVE RWTypeOK'
  BY <1>9, <1>f, <1>g DEF UncountWaiter, RWTypeOK, RWLabels
<1>10. ASSUME Unlock(t) PROVE RWTypeOK'
  <2>1. get_locker(word) # 0 => UnlockedWord(word) \in Statuses
    BY <1>f, <1>m DEF UnlockedWord, get_locker, is_waiting, WaitingBit, Statuses, WriterLocked, Free
  <2>2. get_locker(word) # 0
    <3>1. t \in Readers \cup Writers
      BY <1>10 DEF Unlock, Readers, Writers
    <3>2. IsFiniteSet(Readers) /\ Readers # {} => Cardinality(Readers) # 0
      BY FS_EmptySet
    <3>3. QED
      BY <3>1, <3>2, <1>m DEF RWInv, RWHeld
  <2>3. word' \in Statuses /\ seen' \in [RWThreads -> Statuses]
    BY <2>1, <2>2, <1>10, <1>f DEF Unlock
  <2>4. QED
    BY <2>3, <1>10, <1>f, <1>g DEF Unlock, RWTypeOK, RWLabels
<1>11. ASSUME CheckWaiters(t) PROVE RWTypeOK'
  <2>1. CASE MustWake(t)
    BY <2>1, <1>11, <1>f, <1>g DEF CheckWaiters, RWTypeOK, RWLabels
  <2>2. CASE ~MustWake(t)
    BY <2>2, <1>11, <1>f, <1>r DEF CheckWaiters, RWTypeOK
  <2>3. QED
    BY <2>1, <2>2
<1>12. ASSUME Wake(t) PROVE RWTypeOK'
  <2>1. PICK W \in SUBSET RWSleepers :
             rwpc' = [u \in RWThreads |->
                         IF u = t THEN "idle" ELSE IF u \in W THEN "uncount" ELSE rwpc[u]]
    BY <1>12, WakeWakes
  <2>2. rwcalls' = [rwcalls EXCEPT ![t] = Tail(@)] /\ rwcalls[t] # <<>>
        /\ word' = word /\ rw_waiters' = rw_waiters /\ seen' = seen
    BY <1>12, <1>f DEF Wake
  <2>3. rwpc' \in [RWThreads -> RWLabels]
    BY <2>1, <1>f DEF RWLabels
  <2>4. ASSUME NEW u \in RWThreads, rwpc'[u] # "idle" PROVE rwcalls'[u] # <<>>
    <3>1. u # t /\ (rwpc'[u] = rwpc[u] \/ u \in W)
      BY <2>1, <2>4
    <3>2. rwcalls'[u] = rwcalls[u]
      BY <3>1, <2>2, <1>f, Zenon
    <3>3. rwpc[u] # "idle"
      BY <3>1, <2>1, <2>4 DEF RWSleepers
    <3>4. QED
      BY <3>2, <3>3, <1>f
  <2>5. QED
    BY <2>2, <2>3, <2>4, <1>f, <1>t DEF RWTypeOK
<1>13. QED
  BY <1>1, <1>2, <1>3, <1>4, <1>5, <1>6, <1>7, <1>8, <1>9, <1>10, <1>11, <1>12 DEF RWStep

\* How an action that moves one thread changes the sets of sleepers, of counted waiters and of
\* holders.
LEMMA RWMoves ==
    ASSUME RWTypeOK, NEW t \in RWThreads, NEW l, Goes(t, l)
    PROVE  /\ rwpc'[t] = l
           /\ \A u \in RWThreads : u # t => rwpc'[u] = rwpc[u]
           /\ rwpc[t] # "sleep" /\ l # "sleep" => RWSleepers' = RWSleepers
           /\ rwpc[t] # "sleep" /\ l = "sleep" => RWSleepers' = RWSleepers \cup {t} /\ t \notin RWSleepers
           /\ rwpc[t] = "sleep" /\ l # "sleep" => RWSleepers' = RWSleepers \ {t} /\ t \in RWSleepers
<1>1. rwpc \in [RWThreads -> RWLabels] /\ rwpc' = [rwpc EXCEPT ![t] = l]
  BY DEF RWTypeOK, Goes
<1>2. rwpc'[t] = l /\ \A u \in RWThreads : u # t => rwpc'[u] = rwpc[u]
  BY <1>1, Zenon
<1>3. \A u : u \in RWSleepers' <=> u \in RWThreads /\ rwpc'[u] = "sleep"
  BY DEF RWSleepers
<1>4. \A u : u \in RWSleepers <=> u \in RWThreads /\ rwpc[u] = "sleep"
  BY DEF RWSleepers
<1>5. rwpc[t] # "sleep" /\ l # "sleep" => RWSleepers' = RWSleepers
  BY <1>2, <1>3, <1>4
<1>6. rwpc[t] # "sleep" /\ l = "sleep" => RWSleepers' = RWSleepers \cup {t} /\ t \notin RWSleepers
  BY <1>2, <1>3, <1>4
<1>7. rwpc[t] = "sleep" /\ l # "sleep" => RWSleepers' = RWSleepers \ {t} /\ t \in RWSleepers
  BY <1>2, <1>3, <1>4
<1>8. QED
  BY <1>2, <1>5, <1>6, <1>7

LEMMA RWQueueStep ==
    ASSUME RWInv, NEW t \in RWThreads
    PROVE  RWStep(t) => Lists(rwQueue, RWSleepers)'
<1> USE DEF RWReturns
<1>i. RWTypeOK /\ Lists(rwQueue, RWSleepers)
  BY DEF RWInv
<1>1. ASSUME NEW l, Goes(t, l), rwpc[t] # "sleep", l # "sleep", rwQueue' = rwQueue
      PROVE  Lists(rwQueue, RWSleepers)'
  <2>1. RWSleepers' = RWSleepers
    BY <1>1, <1>i, RWMoves
  <2>2. QED
    BY <2>1, <1>1, <1>i DEF Lists
<1>2. ASSUME Acquire(t) PROVE Lists(rwQueue, RWSleepers)'
  BY <1>2, <1>1 DEF Acquire
<1>3. ASSUME Refused(t) PROVE Lists(rwQueue, RWSleepers)'
  BY <1>3, <1>1 DEF Refused
<1>4. ASSUME Reload(t) PROVE Lists(rwQueue, RWSleepers)'
  BY <1>4, <1>1 DEF Reload
<1>5. ASSUME DecideToWait(t) PROVE Lists(rwQueue, RWSleepers)'
  BY <1>5, <1>1 DEF DecideToWait
<1>6. ASSUME CountWaiter(t) PROVE Lists(rwQueue, RWSleepers)'
  BY <1>6, <1>1 DEF CountWaiter
<1>7. ASSUME MarkWaiting(t) PROVE Lists(rwQueue, RWSleepers)'
  BY <1>7, <1>1 DEF MarkWaiting
<1>8. ASSUME FutexWait(t) PROVE Lists(rwQueue, RWSleepers)'
  <2>1. CASE word = set_waiting(seen[t])
    <3>1. rwQueue' = Append(rwQueue, t) /\ Goes(t, "sleep") /\ rwpc[t] # "sleep"
      BY <2>1, <1>8 DEF FutexWait
    <3>2. RWSleepers' = RWSleepers \cup {t} /\ t \notin RWSleepers
      BY <3>1, <1>i, RWMoves
    <3>3. Lists(Append(rwQueue, t), RWSleepers \cup {t})
      BY <3>2, <1>i, ListsAppend
    <3>4. QED
      BY <3>1, <3>2, <3>3 DEF Lists
  <2>2. CASE word # set_waiting(seen[t])
    BY <2>2, <1>8, <1>1 DEF FutexWait
  <2>3. QED
    BY <2>1, <2>2
<1>9. ASSUME RWInterrupted(t) PROVE Lists(rwQueue, RWSleepers)'
  <2>1. PICK i \in DOMAIN rwQueue : rwQueue[i] = t /\ rwQueue' = Without(rwQueue, i)
    BY <1>9 DEF RWInterrupted
  <2>2. i \in 1 .. Len(rwQueue)
    BY <1>i, LenProperties DEF Lists
  <2>3. RWSleepers' = RWSleepers \ {t}
    BY <1>9, <1>i, RWMoves DEF RWInterrupted
  <2>4. Lists(Without(rwQueue, i), RWSleepers \ {t})
    BY <2>1, <2>2, <1>i, ListsWithout
  <2>5. QED
    BY <2>1, <2>3, <2>4 DEF Lists
<1>10. ASSUME UncountWaiter(t) PROVE Lists(rwQueue, RWSleepers)'
  BY <1>10, <1>1 DEF UncountWaiter
<1>11. ASSUME Unlock(t) PROVE Lists(rwQueue, RWSleepers)'
  BY <1>11, <1>1 DEF Unlock
<1>12. ASSUME CheckWaiters(t) PROVE Lists(rwQueue, RWSleepers)'
  BY <1>12, <1>1 DEF CheckWaiters
<1>13. ASSUME Wake(t) PROVE Lists(rwQueue, RWSleepers)'
  <2>1. PICK W \in SUBSET RWSleepers :
           /\ rwpc' = [u \in RWThreads |->
                          IF u = t THEN "idle" ELSE IF u \in W THEN "uncount" ELSE rwpc[u]]
           /\ Lists(rwQueue', RWSleepers \ W)
    BY <1>13, WakeWakes
  <2>2. rwpc[t] = "wake"
    BY <1>13 DEF Wake
  <2>3. RWSleepers' = RWSleepers \ W
    BY <2>1, <2>2 DEF RWSleepers
  <2>4. Lists(rwQueue', RWSleepers')
    BY <2>1, <2>3
  <2>5. QED
    BY <2>4 DEF Lists
<1>14. QED
  BY <1>2, <1>3, <1>4, <1>5, <1>6, <1>7, <1>8, <1>9, <1>10, <1>11, <1>12, <1>13 DEF RWStep

\* rw_waiters is raised before a waiter marks the word and lowered after its wait.
LEMMA CountedStep ==
    ASSUME RWInv, NEW t \in RWThreads
    PROVE  RWStep(t) => CountedExactly'
<1> USE DEF RWReturns
<1> DEFINE L == {"mark", "futex_wait", "sleep", "uncount"}
<1>i. RWTypeOK /\ IsFiniteSet(Counted) /\ rw_waiters = Cardinality(Counted)
  BY DEF RWInv, CountedExactly
<1>c. \A u : u \in Counted <=> u \in RWThreads /\ rwpc[u] \in L
  BY DEF Counted
<1>d. \A u : u \in Counted' <=> u \in RWThreads /\ rwpc'[u] \in L
  BY DEF Counted
<1>1. ASSUME NEW l, Goes(t, l), rwpc[t] \in L <=> l \in L, rw_waiters' = rw_waiters
      PROVE  CountedExactly'
  <2>1. rwpc'[t] = l /\ \A u \in RWThreads : u # t => rwpc'[u] = rwpc[u]
    BY <1>1, <1>i, RWMoves
  <2>2. Counted' = Counted
    BY <2>1, <1>1, <1>c, <1>d
  <2>3. QED
    BY <2>2, <1>1, <1>i DEF CountedExactly
<1>2. ASSUME Acquire(t) PROVE CountedExactly'
  BY <1>2, <1>1 DEF Acquire
<1>3. ASSUME Refused(t) PROVE CountedExactly'
  BY <1>3, <1>1 DEF Refused
<1>4. ASSUME Reload(t) PROVE CountedExactly'
  BY <1>4, <1>1 DEF Reload
<1>5. ASSUME DecideToWait(t) PROVE CountedExactly'
  BY <1>5, <1>1 DEF DecideToWait
<1>6. ASSUME CountWaiter(t) PROVE CountedExactly'
  <2>1. rwpc'[t] = "mark" /\ \A u \in RWThreads : u # t => rwpc'[u] = rwpc[u]
    BY <1>6, <1>i, RWMoves DEF CountWaiter
  <2>2. Counted' = Counted \cup {t} /\ t \notin Counted
    BY <2>1, <1>6, <1>c, <1>d DEF CountWaiter
  <2>3. rw_waiters' = rw_waiters + 1
    BY <1>6 DEF CountWaiter
  <2>4. QED
    BY <2>2, <2>3, <1>i, FS_AddElement DEF CountedExactly
<1>7. ASSUME MarkWaiting(t) PROVE CountedExactly'
  BY <1>7, <1>1 DEF MarkWaiting
<1>8. ASSUME FutexWait(t) PROVE CountedExactly'
  BY <1>8, <1>1 DEF FutexWait
<1>9. ASSUME RWInterrupted(t) PROVE CountedExactly'
  BY <1>9, <1>1 DEF RWInterrupted
<1>10. ASSUME UncountWaiter(t) PROVE CountedExactly'
  <2>1. rwpc'[t] = "again" /\ \A u \in RWThreads : u # t => rwpc'[u] = rwpc[u]
    BY <1>10, <1>i, RWMoves DEF UncountWaiter
  <2>2. Counted' = Counted \ {t} /\ t \in Counted
    BY <2>1, <1>10, <1>c, <1>d DEF UncountWaiter
  <2>3. rw_waiters' = rw_waiters - 1
    BY <1>10 DEF UncountWaiter
  <2>4. QED
    BY <2>2, <2>3, <1>i, FS_RemoveElement DEF CountedExactly
<1>11. ASSUME Unlock(t) PROVE CountedExactly'
  BY <1>11, <1>1 DEF Unlock
<1>12. ASSUME CheckWaiters(t) PROVE CountedExactly'
  BY <1>12, <1>1 DEF CheckWaiters
<1>13. ASSUME Wake(t) PROVE CountedExactly'
  <2>1. PICK W \in SUBSET RWSleepers :
             rwpc' = [u \in RWThreads |->
                        IF u = t THEN "idle" ELSE IF u \in W THEN "uncount" ELSE rwpc[u]]
    BY <1>13, WakeWakes
  <2>2. rwpc[t] = "wake" /\ rw_waiters' = rw_waiters
    BY <1>13 DEF Wake
  <2>3. \A u \in RWThreads : rwpc'[u] \in L <=> rwpc[u] \in L
    BY <2>1, <2>2 DEF RWSleepers
  <2>4. Counted' = Counted
    BY <2>3, <1>c, <1>d
  <2>5. QED
    BY <2>2, <2>4, <1>i DEF CountedExactly
<1>14. QED
  BY <1>2, <1>3, <1>4, <1>5, <1>6, <1>7, <1>8, <1>9, <1>10, <1>11, <1>12, <1>13 DEF RWStep

\* The word is written by those who take the lock or give it up, and its top bit by those who
\* are going to wait.
LEMMA RWHeldStep ==
    ASSUME RWInv, NEW t \in RWThreads
    PROVE  RWStep(t) => RWHeld'
<1> DEFINE L == {"count", "mark", "futex_wait"}
           H == \/ /\ Writers = {} /\ IsFiniteSet(Readers)
                   /\ get_locker(word) = Cardinality(Readers) /\ Cardinality(Readers) < I32Max
                \/ /\ Readers = {} /\ \E u \in RWThreads : Writers = {u}
                   /\ get_locker(word) = I32Max
           Seen == \A u \in RWThreads : rwpc[u] \in L => get_locker(seen[u]) # 0
<1>i. RWTypeOK /\ H /\ (is_waiting(word) => get_locker(word) # 0) /\ Seen
  BY DEF RWInv, RWHeld
<1>m. I32Max \in Nat /\ I32Max > 1
  BY I32MaxAssumption
<1>w. word \in Statuses
  BY <1>i DEF RWTypeOK
<1>h. RWHeld' <=> H' /\ (is_waiting(word') => get_locker(word') # 0) /\ Seen'
  BY DEF RWHeld
<1>r. /\ \A u : u \in Readers <=> u \in RWThreads /\ rwpc[u] = "hold" /\ Head(rwcalls[u]) \in {"read", "try_read"}
      /\ \A u : u \in Readers' <=> u \in RWThreads /\ rwpc'[u] = "hold" /\ Head(rwcalls'[u]) \in {"read", "try_read"}
      /\ \A u : u \in Writers <=> u \in RWThreads /\ rwpc[u] = "hold" /\ Head(rwcalls[u]) \notin {"read", "try_read"}
      /\ \A u : u \in Writers' <=> u \in RWThreads /\ rwpc'[u] = "hold" /\ Head(rwcalls'[u]) \notin {"read", "try_read"}
  BY DEF Readers, Writers, Reading, RWCall
<1>n. IsFiniteSet(Readers) => Cardinality(Readers) \in Nat /\ (Cardinality(Readers) = 0 <=> Readers = {})
  BY FS_EmptySet, FS_CardinalityType
<1> HIDE DEF H, Seen
<1>k. ASSUME \A u \in RWThreads : rwpc'[u] = "hold" <=> rwpc[u] = "hold",
             \A u \in RWThreads : rwpc[u] = "hold" => rwcalls'[u] = rwcalls[u]
      PROVE  Readers' = Readers /\ Writers' = Writers
  <2>1. \A u : u \in Readers' <=> u \in Readers
    BY <1>k, <1>r, Zenon
  <2>2. \A u : u \in Writers' <=> u \in Writers
    BY <1>k, <1>r, Zenon
  <2>3. QED
    BY <2>1, <2>2
<1>1. ASSUME NEW l, Goes(t, l), rwpc[t] # "hold", l # "hold",
             \A u \in RWThreads : u # t => rwcalls'[u] = rwcalls[u],
             get_locker(word') = get_locker(word), is_waiting(word') => get_locker(word) # 0,
             \A u \in RWThreads : u # t => seen'[u] = seen[u], l \in L => get_locker(seen'[t]) # 0
      PROVE  RWHeld'
  <2>1. rwpc'[t] = l /\ \A u \in RWThreads : u # t => rwpc'[u] = rwpc[u]
    BY <1>1, <1>i, RWMoves
  <2>2. Readers' = Readers /\ Writers' = Writers
    BY <2>1, <1>1, <1>k
  <2>3. H'
    BY <2>2, <1>1, <1>i DEF H
  <2>4. Seen'
    BY <2>1, <1>1, <1>i DEF Seen
  <2>5. QED
    BY <2>3, <2>4, <1>1, <1>h
<1>2. ASSUME Acquire(t) PROVE RWHeld'
  <2>1. rwpc'[t] = "hold" /\ \A u \in RWThreads : u # t => rwpc'[u] = rwpc[u]
    BY <1>2, <1>i, RWMoves DEF Acquire
  <2>2. rwpc[t] # "hold" /\ rwcalls' = rwcalls /\ seen' = seen
    BY <1>2 DEF Acquire
  <2>3. Seen'
    BY <2>1, <2>2, <1>i DEF Seen
  <2>4. CASE TryRead(t)
    <3>1. /\ Head(rwcalls[t]) \in {"read", "try_read"} /\ word' = word + 1
          /\ get_locker(word) # I32Max /\ get_locker(word) # I32Max - 1
      BY <2>4 DEF TryRead, Reading, RWCall, WriterLocked, max_read_lock_holder_num
    <3>2. /\ Writers = {} /\ IsFiniteSet(Readers)
          /\ get_locker(word) = Cardinality(Readers) /\ Cardinality(Readers) < I32Max
      BY <3>1, <1>i DEF H
    <3>3. \A u : u \in Readers' <=> u \in Readers \/ u = t
      BY <3>1, <2>1, <2>2, <1>r, Zenon
    <3>4. \A u : u \in Writers' <=> u \in Writers
      BY <3>1, <2>1, <2>2, <1>r, Zenon
    <3>5. Readers' = Readers \cup {t} /\ t \notin Readers /\ Writers' = {}
      BY <3>2, <3>3, <3>4, <2>2, <1>r
    <3>6. IsFiniteSet(Readers') /\ Cardinality(Readers') = Cardinality(Readers) + 1
      BY <3>2, <3>5, FS_AddElement
    <3>7. get_locker(word') = get_locker(word) + 1 /\ get_locker(word') # 0
      BY <3>1, <1>w, <1>m DEF get_locker, is_waiting, WaitingBit, Statuses
    <3>8. H'
      BY <3>1, <3>2, <3>5, <3>6, <3>7, <1>m, <1>n DEF H
    <3>9. QED
      BY <3>7, <3>8, <2>3, <1>h
  <2>5. CASE TryWrite(t)
    <3>1. Head(rwcalls[t]) \notin {"read", "try_read"} /\ word = 0 /\ word' = I32Max
      BY <2>5 DEF TryWrite, Reading, RWCall, WriterLocked, Free
    <3>2. get_locker(word) = 0 /\ get_locker(word') = I32Max
      BY <3>1, <1>m DEF get_locker, is_waiting, WaitingBit
    <3>3. Writers = {} /\ Readers = {}
      BY <3>2, <1>i, <1>m, <1>n DEF H
    <3>4. \A u : u \in Readers' <=> u \in Readers
      BY <3>1, <2>1, <2>2, <1>r, Zenon
    <3>5. \A u : u \in Writers' <=> u \in Writers \/ u = t
      BY <3>1, <2>1, <2>2, <1>r, Zenon
    <3>6. H'
      BY <3>2, <3>3, <3>4, <3>5 DEF H
    <3>7. QED
      BY <3>2, <3>6, <2>3, <1>h, <1>m
  <2>6. QED
    BY <2>4, <2>5, <1>2 DEF Acquire
<1>3. ASSUME Refused(t) PROVE RWHeld'
  <2>1. /\ Goes(t, "idle") /\ rwcalls' = [rwcalls EXCEPT ![t] = Tail(@)]
        /\ rwpc[t] # "hold" /\ word' = word /\ seen' = seen
    BY <1>3 DEF Refused, RWReturns
  <2>2. QED
    BY <2>1, <1>1, <1>i DEF RWTypeOK
<1>4. ASSUME Reload(t) PROVE RWHeld'
  <2>1. Goes(t, "reload") /\ rwcalls' = rwcalls /\ rwpc[t] # "hold" /\ word' = word /\ seen' = seen
    BY <1>4 DEF Reload
  <2>2. QED
    BY <2>1, <1>1, <1>i
<1>5. ASSUME DecideToWait(t) PROVE RWHeld'
  <2>1. /\ rwcalls' = rwcalls /\ rwpc[t] # "hold" /\ word' = word
        /\ seen' = [seen EXCEPT ![t] = word]
    BY <1>5 DEF DecideToWait
  <2>2. seen'[t] = word /\ \A u \in RWThreads : u # t => seen'[u] = seen[u]
    BY <2>1, <1>i, Zenon DEF RWTypeOK
  <2>3. PICK l : Goes(t, l) /\ (l = "again" \/ (l = "count" /\ get_locker(word) # 0))
    <3>1. Reading(t) /\ get_locker(word) = WriterLocked => get_locker(word) # 0
      BY <1>m DEF WriterLocked
    <3>2. word # Free => get_locker(word) # 0
      BY <1>i, <1>w, <1>m DEF Free, get_locker, is_waiting, WaitingBit, Statuses
    <3> DEFINE Ready == (Reading(t) /\ get_locker(word) # WriterLocked) \/ (~Reading(t) /\ word = Free)
    <3>3. Goes(t, IF Ready THEN "again" ELSE "count")
      BY <1>5, Zenon DEF DecideToWait
    <3>4. ~Ready => get_locker(word) # 0
      BY <3>1, <3>2, Zenon
    <3> HIDE DEF Ready
    <3>5. QED
      BY <3>3, <3>4 DEF Goes
  <2>4. QED
    BY <2>1, <2>2, <2>3, <1>1, <1>i
<1>6. ASSUME CountWaiter(t) PROVE RWHeld'
  <2>1. Goes(t, "mark") /\ rwcalls' = rwcalls /\ rwpc[t] = "count" /\ word' = word /\ seen' = seen
    BY <1>6 DEF CountWaiter
  <2>2. QED
    BY <2>1, <1>1, <1>i DEF Seen
<1>7. ASSUME MarkWaiting(t) PROVE RWHeld'
  <2>1. /\ Goes(t, "futex_wait") /\ rwcalls' = rwcalls /\ rwpc[t] = "mark" /\ seen' = seen
        /\ word' = IF word = seen[t] THEN set_waiting(word) ELSE word
    BY <1>7 DEF MarkWaiting
  <2>2. get_locker(seen[t]) # 0
    BY <2>1, <1>i DEF Seen
  <2>3. /\ get_locker(word') = get_locker(word)
        /\ is_waiting(word') => get_locker(word) # 0
    BY <2>1, <2>2, <1>i, <1>w, <1>m DEF set_waiting, get_locker, is_waiting, WaitingBit, Statuses
  <2>4. QED
    BY <2>1, <2>2, <2>3, <1>1
<1>8. ASSUME FutexWait(t) PROVE RWHeld'
  <2>1. /\ Goes(t, "sleep") \/ Goes(t, "uncount")
        /\ rwcalls' = rwcalls /\ rwpc[t] # "hold" /\ word' = word /\ seen' = seen
    BY <1>8 DEF FutexWait
  <2>2. QED
    BY <2>1, <1>1, <1>i
<1>9. ASSUME RWInterrupted(t) PROVE RWHeld'
  <2>1. Goes(t, "uncount") /\ rwcalls' = rwcalls /\ rwpc[t] # "hold" /\ word' = word /\ seen' = seen
    BY <1>9 DEF RWInterrupted
  <2>2. QED
    BY <2>1, <1>1, <1>i
<1>10. ASSUME UncountWaiter(t) PROVE RWHeld'
  <2>1. Goes(t, "again") /\ rwcalls' = rwcalls /\ rwpc[t] # "hold" /\ word' = word /\ seen' = seen
    BY <1>10 DEF UncountWaiter
  <2>2. QED
    BY <2>1, <1>1, <1>i
<1>11. ASSUME Unlock(t) PROVE RWHeld'
  <2>1. rwpc'[t] = "unlocked" /\ \A u \in RWThreads : u # t => rwpc'[u] = rwpc[u]
    BY <1>11, <1>i, RWMoves DEF Unlock
  <2>2. /\ rwpc[t] = "hold" /\ rwcalls' = rwcalls /\ seen' = [seen EXCEPT ![t] = word]
        /\ word' = IF get_locker(word) \in {1, I32Max} THEN 0 ELSE word - 1
    BY <1>11 DEF Unlock, UnlockedWord, WriterLocked, Free
  <2>3. Seen'
    <3>1. \A u \in RWThreads : u # t => seen'[u] = seen[u]
      BY <2>2, <1>i, Zenon DEF RWTypeOK
    <3>2. QED
      BY <3>1, <2>1, <1>i DEF Seen
  <2>4. CASE Head(rwcalls[t]) \in {"read", "try_read"}
    <3>1. \A u : u \in Readers' <=> u \in Readers /\ u # t
      BY <2>1, <2>2, <2>4, <1>r, Zenon
    <3>2. \A u : u \in Writers' <=> u \in Writers
      BY <2>1, <2>2, <2>4, <1>r, Zenon
    <3>3. t \in Readers /\ Readers' = Readers \ {t} /\ Writers' = Writers
      BY <3>1, <3>2, <2>2, <2>4, <1>r
    <3>4. /\ Writers = {} /\ IsFiniteSet(Readers)
          /\ get_locker(word) = Cardinality(Readers) /\ Cardinality(Readers) < I32Max
      BY <3>3, <1>i DEF H
    <3>5. IsFiniteSet(Readers') /\ Cardinality(Readers') = Cardinality(Readers) - 1
      BY <3>3, <3>4, FS_RemoveElement
    <3>6. Cardinality(Readers) \in Nat /\ Cardinality(Readers) # 0
      BY <3>3, <3>4, <1>n
    <3>7. /\ get_locker(word') = get_locker(word) - 1
          /\ is_waiting(word') => get_locker(word') # 0
      BY <3>4, <3>6, <2>2, <1>w, <1>m DEF get_locker, is_waiting, WaitingBit, Statuses
    <3>8. H'
      BY <3>3, <3>4, <3>5, <3>6, <3>7, <1>m DEF H
    <3>9. QED
      BY <3>7, <3>8, <2>3, <1>h
  <2>5. CASE Head(rwcalls[t]) \notin {"read", "try_read"}
    <3>1. \A u : u \in Readers' <=> u \in Readers
      BY <2>1, <2>2, <2>5, <1>r, Zenon
    <3>2. \A u : u \in Writers' <=> u \in Writers /\ u # t
      BY <2>1, <2>2, <2>5, <1>r, Zenon
    <3>3. t \in Writers
      BY <2>2, <2>5, <1>r
    <3>4. Readers = {} /\ get_locker(word) = I32Max /\ Writers = {t}
      BY <3>3, <1>i DEF H
    <3>5. Readers' = {} /\ Writers' = {}
      BY <3>1, <3>2, <3>4
    <3>6. word' = 0 /\ get_locker(word') = 0 /\ ~is_waiting(word')
      BY <3>4, <2>2, <1>m DEF get_locker, is_waiting, WaitingBit
    <3>7. IsFiniteSet(Readers') /\ Cardinality(Readers') = 0
      BY <3>5, FS_EmptySet
    <3>8. H'
      BY <3>5, <3>6, <3>7, <1>m DEF H
    <3>9. QED
      BY <3>6, <3>8, <2>3, <1>h
  <2>6. QED
    BY <2>4, <2>5
<1>12. ASSUME CheckWaiters(t) PROVE RWHeld'
  <2>1. /\ rwpc[t] # "hold" /\ word' = word /\ seen' = seen
        /\ \/ Goes(t, "wake") /\ rwcalls' = rwcalls
           \/ Goes(t, "idle") /\ rwcalls' = [rwcalls EXCEPT ![t] = Tail(@)]
    BY <1>12 DEF CheckWaiters, RWReturns
  <2>2. \A u \in RWThreads : u # t => rwcalls'[u] = rwcalls[u]
    BY <2>1, <1>i DEF RWTypeOK
  <2>3. QED
    BY <2>1, <2>2, <1>1, <1>i
<1>13. ASSUME Wake(t) PROVE RWHeld'
  <2>1. PICK W \in SUBSET RWSleepers :
             rwpc' = [u \in RWThreads |->
                        IF u = t THEN "idle" ELSE IF u \in W THEN "uncount" ELSE rwpc[u]]
    BY <1>13, WakeWakes
  <2>2. /\ rwpc[t] = "wake" /\ word' = word /\ seen' = seen
        /\ rwcalls' = [rwcalls EXCEPT ![t] = Tail(@)]
    BY <1>13 DEF Wake
  <2>3. /\ \A u \in RWThreads : rwpc'[u] = "hold" <=> rwpc[u] = "hold"
        /\ \A u \in RWThreads : rwpc'[u] \in L => rwpc[u] \in L
    BY <2>1, <2>2 DEF RWSleepers
  <2>4. \A u \in RWThreads : rwpc[u] = "hold" => rwcalls'[u] = rwcalls[u]
    BY <2>2, <1>i DEF RWTypeOK
  <2>5. Readers' = Readers /\ Writers' = Writers
    BY <2>3, <2>4, <1>k
  <2>6. H'
    BY <2>2, <2>5, <1>i DEF H
  <2>7. Seen'
    BY <2>2, <2>3, <1>i DEF Seen
  <2>8. QED
    BY <2>2, <2>6, <2>7, <1>h, <1>i
<1>14. QED
  BY <1>2, <1>3, <1>4, <1>5, <1>6, <1>7, <1>8, <1>9, <1>10, <1>11, <1>12, <1>13 DEF RWStep

\* A thread goes to sleep only for a lock that is held; whoever frees the lock then finds
\* rw_waiters raised, wakes, and the woken thread tries for the lock again.
LEMMA RWAttendedStep ==
    ASSUME RWInv, NEW t \in RWThreads
    PROVE  RWStep(t) => RWAttended'
<1> DEFINE L == {"wake", "uncount", "again", "reload", "count", "mark", "futex_wait"}
           Will(u) == \/ rwpc[u] \in L
                      \/ rwpc[u] = "unlocked" /\ get_locker(seen[u]) \in {1, WriterLocked}
<1>i. RWTypeOK /\ RWHeld /\ RWAttended /\ CountedExactly
  BY DEF RWInv
<1>m. I32Max \in Nat /\ I32Max > 1
  BY I32MaxAssumption
<1>w. word \in Statuses
  BY <1>i DEF RWTypeOK
<1>a. RWSleepers # {} => get_locker(word) # 0 \/ \E u \in RWThreads : Will(u)
  BY <1>i DEF RWAttended
<1>b. RWAttended' <=> (RWSleepers' # {} => get_locker(word') # 0 \/ \E u \in RWThreads : Will(u)')
  BY DEF RWAttended
<1> HIDE DEF Will
<1>1. ASSUME NEW l \in L, Goes(t, l) PROVE RWAttended'
  <2>1. rwpc'[t] = l
    BY <1>1, <1>i, RWMoves
  <2>2. Will(t)'
    BY <2>1 DEF Will
  <2>3. QED
    BY <2>2, <1>b
<1>2. ASSUME get_locker(word') # 0 PROVE RWAttended'
  BY <1>2, <1>b
<1>3. word # 0 => get_locker(word) # 0
  <2>1. is_waiting(word) => get_locker(word) # 0
    BY <1>i DEF RWHeld
  <2>2. QED
    BY <2>1, <1>w, <1>m DEF get_locker, is_waiting, WaitingBit, Statuses
<1>4. ASSUME Acquire(t) PROVE RWAttended'
  <2>1. CASE TryRead(t)
    <3>1. /\ get_locker(word) # I32Max /\ get_locker(word) # I32Max - 1 /\ word' = word + 1
      BY <2>1 DEF TryRead, WriterLocked, max_read_lock_holder_num
    <3>2. get_locker(word') # 0
      BY <3>1, <1>w, <1>m DEF Statuses, get_locker, is_waiting, WaitingBit
    <3>3. QED
      BY <3>2, <1>2
  <2>2. CASE TryWrite(t)
    <3>1. get_locker(word') # 0
      BY <2>2, <1>m DEF TryWrite, WriterLocked, get_locker, is_waiting, WaitingBit
    <3>2. QED
      BY <3>1, <1>2
  <2>3. QED
    BY <2>1, <2>2, <1>4 DEF Acquire
<1>5. ASSUME Refused(t) PROVE RWAttended'
  <2>1. word # 0 \/ get_locker(word) = I32Max \/ get_locker(word) = I32Max - 1
    BY <1>5 DEF Refused, Free, WriterLocked, max_read_lock_holder_num
  <2>2. get_locker(word') # 0
    BY <2>1, <1>3, <1>5, <1>m DEF Refused
  <2>3. QED
    BY <2>2, <1>2
<1>6. ASSUME Reload(t) PROVE RWAttended'
  BY <1>6, <1>1 DEF Reload
<1>7. ASSUME DecideToWait(t) PROVE RWAttended'
  <2>1. \E l \in L : Goes(t, l)
    BY <1>7 DEF DecideToWait
  <2>2. QED
    BY <2>1, <1>1
<1>8. ASSUME CountWaiter(t) PROVE RWAttended'
  BY <1>8, <1>1 DEF CountWaiter
<1>9. ASSUME MarkWaiting(t) PROVE RWAttended'
  BY <1>9, <1>1 DEF MarkWaiting
<1>10. ASSUME FutexWait(t) PROVE RWAttended'
  <2>1. CASE word = set_waiting(seen[t])
    <3>1. get_locker(seen[t]) # 0 /\ seen[t] \in Statuses /\ word' = word
      BY <1>10, <1>i DEF FutexWait, RWHeld, RWTypeOK
    <3>2. get_locker(word') # 0
      BY <3>1, <2>1, <1>m DEF set_waiting, get_locker, is_waiting, WaitingBit, Statuses
    <3>3. QED
      BY <3>2, <1>2
  <2>2. CASE word # set_waiting(seen[t])
    BY <2>2, <1>10, <1>1 DEF FutexWait
  <2>3. QED
    BY <2>1, <2>2
<1>11. ASSUME RWInterrupted(t) PROVE RWAttended'
  BY <1>11, <1>1 DEF RWInterrupted
<1>12. ASSUME UncountWaiter(t) PROVE RWAttended'
  BY <1>12, <1>1 DEF UncountWaiter
<1>13. ASSUME Unlock(t) PROVE RWAttended'
  <2>1. rwpc'[t] = "unlocked"
    BY <1>13, <1>i, RWMoves DEF Unlock
  <2>2. /\ seen' = [seen EXCEPT ![t] = word]
        /\ word' = IF get_locker(word) \in {1, I32Max} THEN 0 ELSE word - 1
    BY <1>13 DEF Unlock, UnlockedWord, WriterLocked, Free
  <2>3. seen'[t] = word
    BY <2>2, <1>i, Zenon DEF RWTypeOK
  <2>4. CASE get_locker(word) \in {1, I32Max}
    <3>1. Will(t)'
      BY <2>1, <2>3, <2>4 DEF Will, WriterLocked
    <3>2. QED
      BY <3>1, <1>b
  <2>5. CASE get_locker(word) \notin {1, I32Max}
    <3>1. get_locker(word) # 0
      <4>1. t \in Readers \cup Writers
        BY <1>13 DEF Unlock, Readers, Writers
      <4>2. IsFiniteSet(Readers) /\ Readers # {} => Cardinality(Readers) # 0
        BY FS_EmptySet
      <4>3. QED
        BY <4>1, <4>2, <1>i, <1>m DEF RWHeld
    <3>2. get_locker(word') # 0
      BY <3>1, <2>2, <2>5, <1>w, <1>m DEF get_locker, is_waiting, WaitingBit, Statuses
    <3>3. QED
      BY <3>2, <1>2
  <2>6. QED
    BY <2>4, <2>5
<1>14. ASSUME CheckWaiters(t) PROVE RWAttended'
  <2>1. CASE MustWake(t)
    BY <2>1, <1>14, <1>1 DEF CheckWaiters
  <2>2. CASE ~MustWake(t)
    <3>1. /\ rwpc[t] = "unlocked" /\ Goes(t, "idle") /\ word' = word /\ seen' = seen
      BY <2>2, <1>14 DEF CheckWaiters, RWReturns
    <3>2. rwpc'[t] = "idle" /\ (\A u \in RWThreads : u # t => rwpc'[u] = rwpc[u])
          /\ RWSleepers' = RWSleepers
      BY <3>1, <1>i, RWMoves
    <3>3. CASE Will(t)
      <4>1. rw_waiters = 0
        BY <3>1, <3>3, <2>2 DEF Will, MustWake
      <4>2. Counted = {}
        BY <4>1, <1>i, FS_EmptySet DEF CountedExactly
      <4>3. RWSleepers = {}
        BY <4>2 DEF Counted, RWSleepers
      <4>4. QED
        BY <4>3, <3>2, <1>b
    <3>4. CASE ~Will(t)
      <4>1. \A u \in RWThreads : Will(u) => Will(u)'
        BY <3>1, <3>2, <3>4 DEF Will
      <4>2. QED
        BY <4>1, <3>1, <3>2, <1>a, <1>b
    <3>5. QED
      BY <3>3, <3>4
  <2>3. QED
    BY <2>1, <2>2
<1>15. ASSUME Wake(t) PROVE RWAttended'
  <2>1. PICK W \in SUBSET RWSleepers :
           /\ RWSleepers # {} => W # {}
           /\ rwpc' = [u \in RWThreads |->
                          IF u = t THEN "idle" ELSE IF u \in W THEN "uncount" ELSE rwpc[u]]
    BY <1>15, WakeWakes
  <2>2. rwpc[t] = "wake"
    BY <1>15 DEF Wake
  <2>3. RWSleepers' \subseteq RWSleepers
    BY <2>1 DEF RWSleepers
  <2>4. CASE RWSleepers = {}
    BY <2>3, <2>4, <1>b
  <2>5. CASE RWSleepers # {}
    <3>1. PICK u \in W : u \in RWThreads /\ u # t
      BY <2>1, <2>2, <2>5 DEF RWSleepers
    <3>2. Will(u)'
      BY <3>1, <2>1 DEF Will
    <3>3. QED
      BY <3>1, <3>2, <1>b
  <2>6. QED
    BY <2>4, <2>5
<1>16. QED
  BY <1>4, <1>5, <1>6, <1>7, <1>8, <1>9, <1>10, <1>11, <1>12, <1>13, <1>14, <1>15 DEF RWStep

LEMMA RWInductive == RWInv /\ [RWNext]_rwVars => RWInv'
<1> SUFFICES ASSUME RWInv, [RWNext]_rwVars PROVE RWInv'
  OBVIOUS
<1>1. CASE RWNext
  <2>1. PICK t \in RWThreads : RWStep(t)
    BY <1>1 DEF RWNext
  <2>2. QED
    BY <2>1, RWTypeStep, RWQueueStep, CountedStep, RWHeldStep, RWAttendedStep DEF RWInv
<1>2. CASE UNCHANGED rwVars
  <2>1. RWTypeOK' /\ Lists(rwQueue, RWSleepers)' /\ CountedExactly'
    BY <1>2 DEF rwVars, RWInv, RWTypeOK, Lists, RWSleepers, CountedExactly, Counted
  <2>2. RWHeld'
    BY <1>2 DEF rwVars, RWInv, RWHeld, Readers, Writers, Reading, RWCall
  <2>3. RWAttended'
    BY <1>2 DEF rwVars, RWInv, RWAttended, RWSleepers
  <2>4. QED
    BY <2>1, <2>2, <2>3 DEF RWInv
<1>3. QED
  BY <1>1, <1>2

\* For any threads and any programs of calls: many readers or one writer hold the lock and the
\* status word counts exactly them, and while a thread sleeps for the lock it is held or some
\* other thread is going to wake a waiter or to try for the lock (util/sync/rw_lock).
THEOREM RwLockSafe == RWSpec => []RwLockCorrect
<1>1. RWInv => RwLockCorrect
  <2> SUFFICES ASSUME RWInv PROVE RwLockCorrect
    OBVIOUS
  <2>m. I32Max \in Nat /\ I32Max > 1
    BY I32MaxAssumption
  <2>f. IsFiniteSet(Readers) => Cardinality(Readers) \in Nat /\ (Cardinality(Readers) = 0 <=> Readers = {})
    BY FS_EmptySet, FS_CardinalityType
  <2>1. RwLockExclusive
    <3>1. CASE Writers = {} /\ get_locker(word) = Cardinality(Readers)
      BY <3>1, FS_EmptySet DEF RwLockExclusive
    <3>2. ASSUME NEW t, Writers = {t}, Readers = {}, get_locker(word) = I32Max
          PROVE  RwLockExclusive
      BY <3>2, FS_Singleton DEF RwLockExclusive, WriterLocked
    <3>3. QED
      BY <3>1, <3>2 DEF RWInv, RWHeld
  <2>2. RwLockSleepersServed
    <3> SUFFICES ASSUME RWSleepers # {}, ~RwLockSleepersServed PROVE FALSE
      BY DEF RwLockSleepersServed, RWSleepers
    <3>1. Readers = {} /\ Writers = {}
      BY DEF RwLockSleepersServed, Readers, Writers
    <3>2. get_locker(word) = 0
      BY <3>1, <2>f DEF RWInv, RWHeld
    <3>3. rw_waiters # 0
      <4>1. Counted # {}
        BY DEF Counted, RWSleepers
      <4>2. QED
        BY <4>1, FS_EmptySet DEF RWInv, CountedExactly
    <3>4. PICK t \in RWThreads :
             \/ rwpc[t] \in {"wake", "uncount", "again", "reload", "count", "mark", "futex_wait"}
             \/ rwpc[t] = "unlocked" /\ get_locker(seen[t]) \in {1, WriterLocked}
      BY <3>2 DEF RWInv, RWAttended
    <3>5. QED
      BY <3>3, <3>4 DEF RwLockSleepersServed, MustWake
  <2>3. QED
    BY <2>1, <2>2 DEF RwLockCorrect
<1>2. QED
  BY <1>1, RWInvInit, RWInductive, PTL DEF RWSpec
=============================================================================
