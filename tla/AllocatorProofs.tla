-------------------------- MODULE AllocatorProofs --------------------------
(***************************************************************************)
(* Proofs about the free list of the memory manager: for any number of     *)
(* pages and any sizes and alignments, the list stays in address order     *)
(* with neighbours joined and holds exactly the pages that nobody has, and *)
(* it implements the allocator of page runs.                               *)
(***************************************************************************)
EXTENDS Allocator, SequenceTheorems, WellFoundedInduction, TLAPS

-----------------------------------------------------------------------------
(* Least elements and multiples                                            *)

\* A set of numbers that has a member has a least one.
LEMMA LeastNat ==
    ASSUME NEW S \in SUBSET Nat, S # {}
    PROVE  \E n \in S : \A m \in S : n <= m
<1> DEFINE R == OpToRel(<, Nat)
<1>1. IsWellFoundedOn(R, Nat)
  BY NatLessThanWellFounded
<1>2. \A x, y \in Nat : x < y => <<x, y>> \in R
  BY DEF OpToRel
<1> HIDE DEF R
<1>3. PICK n \in S : \A m \in S : ~(<<m, n>> \in R)
  BY <1>1, WFMin
<1>4. \A m \in S : ~(m < n)
  BY <1>2, <1>3
<1>5. QED
  BY <1>4

\* The first of a set of indices is the least of them.
LEMMA FirstOfLeast ==
    ASSUME NEW S \in SUBSET (Nat \ {0})
    PROVE  /\ S = {} => FirstOf(S) = 0
           /\ S # {} => FirstOf(S) \in S /\ \A j \in S : FirstOf(S) <= j
           /\ FirstOf(S) # 0 => S # {}
<1>1. S = {} => FirstOf(S) = 0
  BY DEF FirstOf
<1>2. ASSUME S # {} PROVE FirstOf(S) \in S /\ \A j \in S : FirstOf(S) <= j
  <2>1. S \in SUBSET Nat
    OBVIOUS
  <2>2. \E n \in S : \A m \in S : n <= m
    BY <2>1, <1>2, LeastNat
  <2>3. FirstOf(S) = CHOOSE i \in S : \A j \in S : i <= j
    BY <1>2 DEF FirstOf
  <2>4. QED
    BY <2>2, <2>3, Zenon
<1>3. QED
  BY <1>1, <1>2

\* Division with remainder.
LEMMA DivMod ==
    ASSUME NEW x \in Nat, NEW a \in Nat \ {0}
    PROVE  /\ x \div a \in Nat /\ x % a \in 0 .. a - 1
           /\ x = (x \div a) * a + (x % a)
  BY SMTT(60)

LEMMA MultipleMod ==
    ASSUME NEW k \in Nat, NEW a \in Nat \ {0}
    PROVE  (k * a) % a = 0
  BY SMTT(60)

LEMMA TimesMonotonic ==
    ASSUME NEW k \in Nat, NEW m \in Nat, NEW a \in Nat \ {0}
    PROVE  k <= m <=> k * a <= m * a
  BY SMTT(60)

\* AlignUp gives the lowest multiple of the alignment from a page on (align_up).
LEMMA AlignUpLowest ==
    ASSUME NEW page \in Nat, NEW align \in Nat \ {0}
    PROVE  /\ AlignUp(page, align) \in Nat /\ page <= AlignUp(page, align)
           /\ AlignUp(page, align) % align = 0
           /\ \A q \in Nat : q % align = 0 /\ page <= q => AlignUp(page, align) <= q
<1> DEFINE x == page + align - 1
           k == x \div align
<1>1. x \in Nat
  OBVIOUS
<1>2. k \in Nat /\ x % align \in 0 .. align - 1 /\ x = k * align + (x % align)
  BY <1>1, DivMod
<1>3. AlignUp(page, align) = k * align
  BY DEF AlignUp
<1> HIDE DEF k
<1>4. k * align \in Nat
  BY <1>2, SMTT(30)
<1>5. page <= k * align
  BY <1>2, <1>4
<1>6. (k * align) % align = 0
  BY <1>2, MultipleMod
<1>7. ASSUME NEW q \in Nat, q % align = 0, page <= q PROVE k * align <= q
  <2> DEFINE m == q \div align
  <2>1. m \in Nat /\ q = m * align + (q % align)
    BY DivMod
  <2> HIDE DEF m
  <2>2. q = m * align
    BY <2>1, <1>7, SMTT(30)
  <2>3. (m + 1) * align = m * align + align
    BY <2>1, SMTT(30)
  <2>4. k * align < (m + 1) * align
    BY <2>2, <2>3, <1>2, <1>4, <1>7
  <2>5. k < m + 1
    BY <2>4, <2>1, <1>2, TimesMonotonic
  <2>6. k <= m
    BY <2>5, <2>1, <1>2
  <2>7. QED
    BY <2>2, <2>6, <2>1, <1>2, TimesMonotonic
<1>8. QED
  BY <1>3, <1>4, <1>5, <1>6, <1>7

-----------------------------------------------------------------------------
(* Lists of ranges                                                         *)

Separated(l) == \A i, j \in 1 .. Len(l) : i < j => l[i].end < l[j].start
Entries(l) == {l[i] : i \in 1 .. Len(l)}

\* s is l with the entries i to j replaced by new.
Spliced(s, l, i, j, new) ==
    /\ Len(s) = (i - 1) + Len(new) + (Len(l) - j)
    /\ \A k \in 1 .. i - 1 : s[k] = l[k]
    /\ \A k \in 1 .. Len(new) : s[i - 1 + k] = new[k]
    /\ \A k \in 1 .. Len(l) - j : s[i - 1 + Len(new) + k] = l[j + k]

\* What a splice leaves, moves and puts in.
LEMMA SpliceShape ==
    ASSUME NEW S, NEW l \in Seq(S), NEW new \in Seq(S),
           NEW i \in 1 .. Len(l) + 1, NEW j \in i - 1 .. Len(l)
    PROVE  Splice(l, i, j, new) \in Seq(S) /\ Spliced(Splice(l, i, j, new), l, i, j, new)
<1> DEFINE a == SubSeq(l, 1, i - 1)
           b == SubSeq(l, j + 1, Len(l))
           c == a \o new
           s == Splice(l, i, j, new)
<1>1. Len(l) \in Nat /\ Len(new) \in Nat /\ i \in Nat /\ j \in Nat /\ i >= 1 /\ j <= Len(l)
      /\ i - 1 <= Len(l) /\ i - 1 <= j
  BY LenProperties
<1>2. \A k \in 1 .. Len(l) : l[k] \in S
  BY ElementOfSeq
<1>3. /\ a \in Seq(S) /\ Len(a) = i - 1
      /\ \A k \in 1 .. i - 1 : a[k] = l[k]
  <2>1. \A k \in 1 .. i - 1 : l[k] \in S
    BY <1>1, <1>2
  <2>2. QED
    BY <2>1, <1>1, SubSeqProperties
<1>4. /\ b \in Seq(S) /\ Len(b) = Len(l) - j
      /\ \A k \in 1 .. Len(l) - j : b[k] = l[j + k]
  <2>1. \A k \in j + 1 .. Len(l) : l[k] \in S
    BY <1>1, <1>2
  <2>2. /\ b \in Seq(S) /\ Len(b) = (IF j + 1 <= Len(l) THEN Len(l) - (j + 1) + 1 ELSE 0)
        /\ \A k \in 1 .. Len(l) - (j + 1) + 1 : b[k] = l[(j + 1) + k - 1]
    BY <2>1, <1>1, SubSeqProperties
  <2>3. QED
    BY <2>2, <1>1
<1>5. s = c \o b
  BY DEF Splice
<1> HIDE DEF a, b, s
<1>6. /\ c \in Seq(S) /\ Len(c) = (i - 1) + Len(new)
      /\ \A k \in 1 .. (i - 1) + Len(new) : c[k] = IF k <= i - 1 THEN a[k] ELSE new[k - (i - 1)]
  <2>1. /\ c \in Seq(S) /\ Len(c) = Len(a) + Len(new)
        /\ \A k \in 1 .. Len(a) + Len(new) : c[k] = IF k <= Len(a) THEN a[k] ELSE new[k - Len(a)]
    BY <1>3, ConcatProperties
  <2>2. QED
    BY <2>1, <1>3, Zenon
<1> HIDE DEF c
<1>7. /\ s \in Seq(S) /\ Len(s) = Len(c) + Len(b)
      /\ \A k \in 1 .. Len(c) + Len(b) : s[k] = IF k <= Len(c) THEN c[k] ELSE b[k - Len(c)]
  BY <1>4, <1>5, <1>6, ConcatProperties
<1>8. Len(s) = (i - 1) + Len(new) + (Len(l) - j)
  BY <1>7, <1>6, <1>4
<1>9. ASSUME NEW k \in 1 .. i - 1 PROVE s[k] = l[k]
  <2>1. k \in 1 .. Len(c) + Len(b) /\ k <= Len(c) /\ k \in 1 .. (i - 1) + Len(new) /\ k <= i - 1
    BY <1>1, <1>4, <1>6
  <2>2. QED
    BY <2>1, <1>3, <1>6, <1>7
<1>10. ASSUME NEW k \in 1 .. Len(new) PROVE s[i - 1 + k] = new[k]
  <2> DEFINE m == i - 1 + k
  <2>1. /\ m \in 1 .. Len(c) + Len(b) /\ m <= Len(c) /\ m \in 1 .. (i - 1) + Len(new)
        /\ ~(m <= i - 1) /\ m - (i - 1) = k
    BY <1>1, <1>4, <1>6
  <2> HIDE DEF m
  <2>2. s[m] = new[k]
    BY <2>1, <1>6, <1>7
  <2>3. QED
    BY <2>2 DEF m
<1>11. ASSUME NEW k \in 1 .. Len(l) - j PROVE s[i - 1 + Len(new) + k] = l[j + k]
  <2> DEFINE m == i - 1 + Len(new) + k
  <2>1. m \in 1 .. Len(c) + Len(b) /\ ~(m <= Len(c)) /\ m - Len(c) = k
    BY <1>1, <1>4, <1>6
  <2> HIDE DEF m
  <2>2. s[m] = l[j + k]
    BY <2>1, <1>4, <1>7
  <2>3. QED
    BY <2>2 DEF m
<1>12. QED
  BY <1>7, <1>8, <1>9, <1>10, <1>11 DEF s, Spliced

\* The new ranges lie between the entries of l that stay.
FitBetween(l, i, j, new) ==
    /\ \A k \in 1 .. Len(new), m \in 1 .. i - 1 : l[m].end < new[k].start
    /\ \A k \in 1 .. Len(new), m \in j + 1 .. Len(l) : new[k].end < l[m].start

\* s has the entries that stay and the new ones.
HasEntries(s, l, i, j, new) ==
    \A x : x \in Entries(s) <=> \/ \E m \in 1 .. i - 1 : x = l[m]
                               \/ x \in Entries(new)
                               \/ \E m \in j + 1 .. Len(l) : x = l[m]

\* A splice whose new ranges lie between those that stay keeps the list in order.
LEMMA SpliceSeparated ==
    ASSUME NEW l \in Seq(NonEmptyRanges), NEW new \in Seq(NonEmptyRanges),
           Separated(l), Separated(new),
           NEW i \in 1 .. Len(l) + 1, NEW j \in i - 1 .. Len(l),
           FitBetween(l, i, j, new)
    PROVE  /\ Splice(l, i, j, new) \in Seq(NonEmptyRanges)
           /\ Separated(Splice(l, i, j, new))
           /\ HasEntries(Splice(l, i, j, new), l, i, j, new)
<1> DEFINE s == Splice(l, i, j, new)
           n == Len(new)
           N == Len(l)
<1>1. N \in Nat /\ n \in Nat /\ i \in Nat /\ j \in Nat /\ i >= 1 /\ j <= N /\ i - 1 <= j
  BY LenProperties
<1>2. /\ s \in Seq(NonEmptyRanges) /\ Len(s) = (i - 1) + n + (N - j)
      /\ \A k \in 1 .. i - 1 : s[k] = l[k]
      /\ \A k \in 1 .. n : s[i - 1 + k] = new[k]
      /\ \A k \in 1 .. N - j : s[i - 1 + n + k] = l[j + k]
  <2>1. s \in Seq(NonEmptyRanges) /\ Spliced(s, l, i, j, new)
    BY SpliceShape, Zenon
  <2>2. QED
    BY <2>1, Zenon DEF Spliced
<1> HIDE DEF s, n, N
<1>3. ASSUME NEW k \in 1 .. Len(s)
      PROVE  \/ k \in 1 .. i - 1 /\ s[k] = l[k]
             \/ k - (i - 1) \in 1 .. n /\ s[k] = new[k - (i - 1)]
             \/ k - (i - 1) - n \in 1 .. N - j /\ s[k] = l[j + (k - (i - 1) - n)]
  <2>1. CASE k <= i - 1
    BY <2>1, <1>1, <1>2
  <2>2. CASE k > i - 1 /\ k <= i - 1 + n
    <3>1. k - (i - 1) \in 1 .. n /\ i - 1 + (k - (i - 1)) = k
      BY <2>2, <1>1, <1>2
    <3>2. QED
      BY <3>1, <1>2
  <2>3. CASE k > i - 1 + n
    <3>1. k - (i - 1) - n \in 1 .. N - j /\ i - 1 + n + (k - (i - 1) - n) = k
      BY <2>3, <1>1, <1>2
    <3>2. QED
      BY <3>1, <1>2
  <2>4. QED
    BY <2>1, <2>2, <2>3, <1>1, <1>2
<1>4. Separated(s)
  <2> SUFFICES ASSUME NEW k \in 1 .. Len(s), NEW m \in 1 .. Len(s), k < m
               PROVE  s[k].end < s[m].start
    BY DEF Separated
  <2>1. CASE k \in 1 .. i - 1 /\ s[k] = l[k]
    <3>1. CASE m \in 1 .. i - 1 /\ s[m] = l[m]
      <4>1. k \in 1 .. Len(l) /\ m \in 1 .. Len(l)
        BY <3>1, <2>1, <1>1 DEF N
      <4>2. QED
        BY <4>1, <3>1, <2>1 DEF Separated
    <3>2. CASE m - (i - 1) \in 1 .. n /\ s[m] = new[m - (i - 1)]
      BY <3>2, <2>1 DEF n, FitBetween
    <3>3. CASE m - (i - 1) - n \in 1 .. N - j /\ s[m] = l[j + (m - (i - 1) - n)]
      <4> DEFINE q == j + (m - (i - 1) - n)
      <4>1. q \in j + 1 .. N
        BY <3>3, <1>1
      <4> HIDE DEF q
      <4>2. q \in 1 .. N /\ k \in 1 .. N /\ k < q
        BY <4>1, <2>1, <1>1
      <4>3. l[k].end < l[q].start
        BY <4>2 DEF Separated, N
      <4>4. QED
        BY <4>3, <3>3, <2>1 DEF q
    <3>4. QED
      BY <3>1, <3>2, <3>3, <1>3
  <2>2. CASE k - (i - 1) \in 1 .. n /\ s[k] = new[k - (i - 1)]
    <3>1. CASE m \in 1 .. i - 1
      BY <3>1, <2>2, <1>1
    <3>2. CASE m - (i - 1) \in 1 .. n /\ s[m] = new[m - (i - 1)]
      <4>1. k - (i - 1) < m - (i - 1)
        BY <1>1
      <4>2. QED
        BY <4>1, <3>2, <2>2 DEF Separated, n
    <3>3. CASE m - (i - 1) - n \in 1 .. N - j /\ s[m] = l[j + (m - (i - 1) - n)]
      <4> DEFINE q == j + (m - (i - 1) - n)
      <4>1. q \in j + 1 .. Len(l)
        BY <3>3, <1>1 DEF N
      <4>2. QED
        BY <4>1, <3>3, <2>2 DEF n, FitBetween
    <3>4. QED
      BY <3>1, <3>2, <3>3, <1>3
  <2>3. CASE k - (i - 1) - n \in 1 .. N - j /\ s[k] = l[j + (k - (i - 1) - n)]
    <3>1. m - (i - 1) - n \in 1 .. N - j /\ s[m] = l[j + (m - (i - 1) - n)]
      BY <2>3, <1>1, <1>3
    <3> DEFINE q == j + (k - (i - 1) - n)
               r == j + (m - (i - 1) - n)
    <3>2. q \in j + 1 .. N /\ r \in j + 1 .. N /\ q < r
      <4>1. k \in Int /\ m \in Int
        OBVIOUS
      <4>2. k - (i - 1) - n \in 1 .. N - j /\ m - (i - 1) - n \in 1 .. N - j
        BY <3>1, <2>3
      <4>3. QED
        BY ONLY <4>1, <4>2, <1>1, k < m, SMTT(30)
    <3> HIDE DEF q, r
    <3>3. q \in 1 .. N /\ r \in 1 .. N
      BY <3>2, <1>1
    <3>4. l[q].end < l[r].start
      BY <3>2, <3>3 DEF Separated, N
    <3>5. QED
      BY <3>1, <3>4, <2>3 DEF q, r
  <2>4. QED
    BY <2>1, <2>2, <2>3, <1>3
<1>5. ASSUME NEW x
      PROVE  x \in Entries(s) <=> \/ \E m \in 1 .. i - 1 : x = l[m]
                                \/ x \in Entries(new)
                                \/ \E m \in j + 1 .. Len(l) : x = l[m]
  <2>1. ASSUME x \in Entries(s)
        PROVE  \/ \E m \in 1 .. i - 1 : x = l[m]
               \/ x \in Entries(new)
               \/ \E m \in j + 1 .. Len(l) : x = l[m]
    <3>1. PICK k \in 1 .. Len(s) : x = s[k]
      BY <2>1 DEF Entries
    <3>2. k - (i - 1) - n \in 1 .. N - j => j + (k - (i - 1) - n) \in j + 1 .. Len(l)
      BY <1>1 DEF N
    <3>3. QED
      BY <3>1, <3>2, <1>3 DEF Entries, n
  <2>2. ASSUME NEW m \in 1 .. i - 1, x = l[m] PROVE x \in Entries(s)
    <3>1. m \in 1 .. Len(s)
      BY <1>1, <1>2
    <3>2. QED
      BY <3>1, <2>2, <1>2 DEF Entries
  <2>3. ASSUME x \in Entries(new) PROVE x \in Entries(s)
    <3>1. PICK k \in 1 .. n : x = new[k]
      BY <2>3 DEF Entries, n
    <3>2. i - 1 + k \in 1 .. Len(s)
      BY <1>1, <1>2
    <3>3. QED
      BY <3>1, <3>2, <1>2 DEF Entries
  <2>4. ASSUME NEW m \in j + 1 .. Len(l), x = l[m] PROVE x \in Entries(s)
    <3> DEFINE k == m - j
    <3>1. k \in 1 .. N - j /\ j + k = m /\ i - 1 + n + k \in 1 .. Len(s)
      BY <1>1, <1>2 DEF N
    <3>2. QED
      BY <3>1, <2>4, <1>2 DEF Entries
  <2>5. QED
    BY <2>1, <2>2, <2>3, <2>4
<1>6. QED
  BY <1>2, <1>4, <1>5 DEF s, HasEntries

PagesIn(l) == UNION {PagesOf(l[i]) : i \in 1 .. Len(l)}

LEMMA RangeBounds ==
    ASSUME NEW r \in NonEmptyRanges
    PROVE  /\ r.start \in 0 .. NumPages /\ r.end \in 0 .. NumPages /\ r.start < r.end
           /\ r.start \in Nat /\ r.end \in Nat /\ r.end <= NumPages
           /\ \A p : p \in PagesOf(r) <=> p \in Nat /\ r.start <= p /\ p < r.end
<1>1. r.start \in 0 .. NumPages /\ r.end \in 0 .. NumPages /\ r.start < r.end
  BY DEF NonEmptyRanges
<1>2. QED
  BY <1>1, NumPagesAssumption DEF PagesOf

\* A range put in place of the entries i to j.
LEMMA SpliceOne ==
    ASSUME NEW l \in Seq(NonEmptyRanges), Separated(l),
           NEW x \in NonEmptyRanges,
           NEW i \in 1 .. Len(l) + 1, NEW j \in i - 1 .. Len(l),
           \A m \in 1 .. i - 1 : l[m].end < x.start,
           \A m \in j + 1 .. Len(l) : x.end < l[m].start
    PROVE  /\ Splice(l, i, j, <<x>>) \in Seq(NonEmptyRanges)
           /\ Separated(Splice(l, i, j, <<x>>))
           /\ \A p : p \in PagesIn(Splice(l, i, j, <<x>>)) <=>
                   \/ \E m \in 1 .. i - 1 : p \in PagesOf(l[m])
                   \/ p \in PagesOf(x)
                   \/ \E m \in j + 1 .. Len(l) : p \in PagesOf(l[m])
<1> DEFINE new == <<x>>
           s == Splice(l, i, j, new)
<1>1. new \in Seq(NonEmptyRanges) /\ Len(new) = 1 /\ new[1] = x
  OBVIOUS
<1>2. Separated(new)
  BY <1>1 DEF Separated
<1>3. Entries(new) = {x}
  BY <1>1 DEF Entries
<1>4. FitBetween(l, i, j, new)
  BY <1>1 DEF FitBetween
<1> HIDE DEF new
<1>5. /\ s \in Seq(NonEmptyRanges) /\ Separated(s)
      /\ HasEntries(s, l, i, j, new)
  BY <1>1, <1>2, <1>4, SpliceSeparated, Zenon
<1> HIDE DEF s
<1>6. \A p : p \in PagesIn(s) <=> \E e \in Entries(s) : p \in PagesOf(e)
  BY DEF PagesIn, Entries
<1>7. ASSUME NEW p
      PROVE  p \in PagesIn(s) <=> \/ \E m \in 1 .. i - 1 : p \in PagesOf(l[m])
                                \/ p \in PagesOf(x)
                                \/ \E m \in j + 1 .. Len(l) : p \in PagesOf(l[m])
  BY <1>3, <1>5, <1>6, Zenon DEF HasEntries
<1>8. QED
  BY <1>5, <1>7 DEF s, new

\* What VMRange::subtract leaves of a range when a part of it is taken out.
LEMMA SubtractParts ==
    ASSUME NEW e \in NonEmptyRanges, NEW r \in NonEmptyRanges,
           e.start <= r.start, r.end <= e.end
    PROVE  /\ Subtract(e, r) \in Seq(NonEmptyRanges) /\ Separated(Subtract(e, r))
           /\ \A x \in Entries(Subtract(e, r)) : e.start <= x.start /\ x.end <= e.end
           /\ \A p : (\E x \in Entries(Subtract(e, r)) : p \in PagesOf(x)) <=>
                     p \in PagesOf(e) /\ p \notin PagesOf(r)
<1> DEFINE x == VMRange(e.start, r.start)
           y == VMRange(r.end, e.end)
           a == IF e.start < r.start THEN <<x>> ELSE <<>>
           b == IF r.end < e.end THEN <<y>> ELSE <<>>
           new == Subtract(e, r)
<1>1. /\ e.start \in 0 .. NumPages /\ e.end \in 0 .. NumPages /\ e.start < e.end
      /\ r.start \in 0 .. NumPages /\ r.end \in 0 .. NumPages /\ r.start < r.end
  BY RangeBounds
<1>2. new = a \o b
  <2>1. OverlapWith(e, r)
    BY <1>1, NumPagesAssumption DEF OverlapWith, MaxOf, MinOf
  <2>2. QED
    BY <2>1 DEF Subtract
<1>3. /\ x.start = e.start /\ x.end = r.start /\ y.start = r.end /\ y.end = e.end
      /\ e.start < r.start => x \in NonEmptyRanges
      /\ r.end < e.end => y \in NonEmptyRanges
  BY <1>1 DEF VMRange, NonEmptyRanges
<1>4. /\ \A p : p \in PagesOf(e) <=> p \in Nat /\ e.start <= p /\ p < e.end
      /\ \A p : p \in PagesOf(r) <=> p \in Nat /\ r.start <= p /\ p < r.end
      /\ \A p : p \in PagesOf(x) <=> p \in Nat /\ e.start <= p /\ p < r.start
      /\ \A p : p \in PagesOf(y) <=> p \in Nat /\ r.end <= p /\ p < e.end
  BY <1>1, <1>3, NumPagesAssumption DEF PagesOf
<1> HIDE DEF x, y, new
<1>5. ASSUME new \in Seq(NonEmptyRanges), Separated(new),
             \A z : z \in Entries(new) <=> (z = x /\ e.start < r.start) \/ (z = y /\ r.end < e.end)
      PROVE  /\ new \in Seq(NonEmptyRanges) /\ Separated(new)
             /\ \A z \in Entries(new) : e.start <= z.start /\ z.end <= e.end
             /\ \A p : (\E z \in Entries(new) : p \in PagesOf(z)) <=>
                       p \in PagesOf(e) /\ p \notin PagesOf(r)
  <2>1. \A z \in Entries(new) : e.start <= z.start /\ z.end <= e.end
    BY <1>1, <1>3, <1>5, NumPagesAssumption
  <2>2. ASSUME NEW p
        PROVE  (\E z \in Entries(new) : p \in PagesOf(z)) <=>
                  (p \in PagesOf(x) /\ e.start < r.start) \/ (p \in PagesOf(y) /\ r.end < e.end)
    BY <1>5, Zenon
  <2>3. ASSUME NEW p
        PROVE  (p \in PagesOf(x) /\ e.start < r.start) \/ (p \in PagesOf(y) /\ r.end < e.end)
                  <=> p \in PagesOf(e) /\ p \notin PagesOf(r)
    BY <1>1, <1>4, NumPagesAssumption
  <2>4. QED
    BY <2>1, <2>2, <2>3, <1>5, Zenon
<1>6. CASE e.start < r.start /\ r.end < e.end
  <2>1. new = <<x>> \o <<y>>
    BY <1>2, <1>6
  <2>2. x \in NonEmptyRanges /\ y \in NonEmptyRanges
    BY <1>3, <1>6
  <2>3. <<x>> \in Seq(NonEmptyRanges) /\ <<y>> \in Seq(NonEmptyRanges) /\ Len(<<x>>) = 1 /\ Len(<<y>>) = 1
        /\ <<x>>[1] = x /\ <<y>>[1] = y
    BY <2>2
  <2>4. new \in Seq(NonEmptyRanges) /\ Len(new) = 2 /\ new[1] = x /\ new[2] = y
    <3>1. /\ new \in Seq(NonEmptyRanges) /\ Len(new) = 1 + 1
          /\ \A k \in 1 .. 1 + 1 : new[k] = IF k <= 1 THEN <<x>>[k] ELSE <<y>>[k - 1]
      BY <2>1, <2>3, ConcatProperties
    <3>2. QED
      BY <3>1, <2>3
  <2>5. Separated(new)
    BY <2>4, <1>1, <1>3, NumPagesAssumption DEF Separated
  <2>6. \A z : z \in Entries(new) <=> z = x \/ z = y
    BY <2>4 DEF Entries
  <2>7. QED
    BY <2>4, <2>5, <2>6, <1>5, <1>6 DEF new
<1>7. CASE e.start < r.start /\ ~(r.end < e.end)
  <2>1. x \in NonEmptyRanges /\ <<x>> \in Seq(NonEmptyRanges)
    BY <1>3, <1>7
  <2>2. new = <<x>>
    <3>1. new = <<x>> \o <<>>
      BY <1>2, <1>7
    <3>2. QED
      BY <3>1, <2>1, ConcatEmptySeq
  <2>3. new \in Seq(NonEmptyRanges) /\ Len(new) = 1 /\ new[1] = x
    BY <2>1, <2>2
  <2>4. Separated(new) /\ \A z : z \in Entries(new) <=> z = x
    BY <2>3 DEF Separated, Entries
  <2>5. QED
    BY <2>3, <2>4, <1>5, <1>7 DEF new
<1>8. CASE ~(e.start < r.start) /\ r.end < e.end
  <2>1. y \in NonEmptyRanges /\ <<y>> \in Seq(NonEmptyRanges)
    BY <1>3, <1>8
  <2>2. new = <<y>>
    <3>1. new = <<>> \o <<y>>
      BY <1>2, <1>8
    <3>2. QED
      BY <3>1, <2>1, ConcatEmptySeq
  <2>3. new \in Seq(NonEmptyRanges) /\ Len(new) = 1 /\ new[1] = y
    BY <2>1, <2>2
  <2>4. Separated(new) /\ \A z : z \in Entries(new) <=> z = y
    BY <2>3 DEF Separated, Entries
  <2>5. QED
    BY <2>3, <2>4, <1>5, <1>8 DEF new
<1>9. CASE ~(e.start < r.start) /\ ~(r.end < e.end)
  <2>1. new = <<>>
    <3>1. new = <<>> \o <<>>
      BY <1>2, <1>9
    <3>2. <<>> \in Seq(NonEmptyRanges)
      OBVIOUS
    <3>3. QED
      BY <3>1, <3>2, ConcatEmptySeq
  <2>2. new \in Seq(NonEmptyRanges) /\ Len(new) = 0
    BY <2>1
  <2>3. Separated(new) /\ \A z : z \notin Entries(new)
    BY <2>2 DEF Separated, Entries
  <2>4. QED
    BY <2>2, <2>3, <1>5, <1>9 DEF new
<1>10. QED
  BY <1>6, <1>7, <1>8, <1>9

\* Taking a part of a free range: free_list_update_range.
LEMMA TakeRange ==
    ASSUME NEW l \in Seq(NonEmptyRanges), Separated(l), NEW i \in 1 .. Len(l),
           NEW r \in NonEmptyRanges, l[i].start <= r.start, r.end <= l[i].end
    PROVE  /\ free_list_update_range(l, i, r) \in Seq(NonEmptyRanges)
           /\ Separated(free_list_update_range(l, i, r))
           /\ PagesIn(free_list_update_range(l, i, r)) = PagesIn(l) \ PagesOf(r)
<1> DEFINE e == l[i]
           new == Subtract(e, r)
           s == Splice(l, i, i, new)
<1>1. Len(l) \in Nat /\ i \in Nat /\ i >= 1 /\ i <= Len(l)
  BY LenProperties
<1>2. \A m \in 1 .. Len(l) : l[m] \in NonEmptyRanges
  BY ElementOfSeq
<1>3. /\ new \in Seq(NonEmptyRanges) /\ Separated(new)
      /\ \A x \in Entries(new) : e.start <= x.start /\ x.end <= e.end
      /\ \A p : (\E x \in Entries(new) : p \in PagesOf(x)) <=> p \in PagesOf(e) /\ p \notin PagesOf(r)
  BY <1>2, SubtractParts
<1>4. i \in 1 .. Len(l) + 1 /\ i \in i - 1 .. Len(l)
  BY <1>1
<1> HIDE DEF new
<1>5. FitBetween(l, i, i, new)
  <2>1. \A k \in 1 .. Len(new) : new[k] \in NonEmptyRanges /\ e.start <= new[k].start /\ new[k].end <= e.end
    BY <1>3, ElementOfSeq DEF Entries
  <2>2. ASSUME NEW k \in 1 .. Len(new), NEW m \in 1 .. i - 1 PROVE l[m].end < new[k].start
    <3>1. m \in 1 .. Len(l) /\ m < i /\ l[m].end < e.start
      BY <1>1 DEF Separated
    <3>2. l[m].end \in Nat /\ e.start \in Nat /\ new[k].start \in Nat
      BY <3>1, <2>1, <1>2, RangeBounds
    <3>3. e.start <= new[k].start
      BY <2>1, Zenon
    <3>4. QED
      BY ONLY <3>1, <3>2, <3>3, SMT
  <2>3. ASSUME NEW k \in 1 .. Len(new), NEW m \in i + 1 .. Len(l) PROVE new[k].end < l[m].start
    <3>1. m \in 1 .. Len(l) /\ i < m /\ e.end < l[m].start
      BY <1>1 DEF Separated
    <3>2. l[m].start \in Nat /\ e.end \in Nat /\ new[k].end \in Nat
      BY <3>1, <2>1, <1>2, RangeBounds
    <3>3. QED
      BY <3>1, <3>2, <2>1
  <2>4. QED
    BY <2>2, <2>3 DEF FitBetween
<1>6. s \in Seq(NonEmptyRanges) /\ Separated(s) /\ HasEntries(s, l, i, i, new)
  BY <1>3, <1>4, <1>5, SpliceSeparated, Zenon
<1> HIDE DEF s
<1>7. \A p : p \in PagesIn(s) <=> \E x \in Entries(s) : p \in PagesOf(x)
  BY DEF PagesIn, Entries
<1>8. \A p : p \in PagesIn(s) <=> \/ \E m \in 1 .. i - 1 : p \in PagesOf(l[m])
                               \/ (p \in PagesOf(e) /\ p \notin PagesOf(r))
                               \/ \E m \in i + 1 .. Len(l) : p \in PagesOf(l[m])
  BY <1>3, <1>6, <1>7, Zenon DEF HasEntries
<1>9. ASSUME NEW m \in 1 .. Len(l), m # i, NEW p \in PagesOf(l[m]) PROVE p \notin PagesOf(r)
  <2>1. l[m].end < e.start \/ e.end < l[m].start
    BY <1>1, <1>9 DEF Separated
  <2>2. /\ p \in Nat /\ l[m].start <= p /\ p < l[m].end /\ l[m].start \in Nat /\ l[m].end \in Nat
        /\ e.start \in Nat /\ e.end \in Nat
    BY <1>2, RangeBounds
  <2>3. r.start \in Nat /\ r.end \in Nat /\ (p \in PagesOf(r) => r.start <= p /\ p < r.end)
    BY RangeBounds
  <2>4. e.start <= r.start /\ r.end <= e.end
    OBVIOUS
  <2>5. QED
    BY ONLY <2>1, <2>2, <2>3, <2>4
<1>10. \A p : p \in PagesIn(l) <=> \E m \in 1 .. Len(l) : p \in PagesOf(l[m])
  BY DEF PagesIn
<1>11. \A m : m \in 1 .. Len(l) <=> m \in 1 .. i - 1 \/ m = i \/ m \in i + 1 .. Len(l)
  BY <1>1
<1>12. \A m : m \in 1 .. i - 1 \/ m \in i + 1 .. Len(l) => m # i
  BY <1>1
<1>13. \A p : p \in PagesIn(s) <=> p \in PagesIn(l) /\ p \notin PagesOf(r)
  BY <1>8, <1>9, <1>10, <1>11, <1>12, Zenon
<1>14. s = free_list_update_range(l, i, r)
  BY DEF s, new, free_list_update_range
<1>15. QED
  BY <1>6, <1>13, <1>14

\* Giving a range back: add_range_back_to_free_manager.
LEMMA GiveRange ==
    ASSUME NEW l \in Seq(NonEmptyRanges), Separated(l), NEW r \in NonEmptyRanges,
           \A p \in PagesOf(r) : p \notin PagesIn(l)
    PROVE  /\ add_range_back_to_free_manager(l, r) \in Seq(NonEmptyRanges)
           /\ Separated(add_range_back_to_free_manager(l, r))
           /\ PagesIn(add_range_back_to_free_manager(l, r)) = PagesIn(l) \cup PagesOf(r)
<1> DEFINE n == Len(l)
           s == add_range_back_to_free_manager(l, r)
           Goal(t) == /\ t \in Seq(NonEmptyRanges)
                      /\ Separated(t)
                      /\ PagesIn(t) = PagesIn(l) \cup PagesOf(r)
<1>1. n \in Nat
  BY LenProperties
<1>2. /\ r.start \in 0 .. NumPages /\ r.end \in 0 .. NumPages /\ r.start < r.end
      /\ r.start \in Nat /\ r.end \in Nat
      /\ \A p : p \in PagesOf(r) <=> p \in Nat /\ r.start <= p /\ p < r.end
  BY RangeBounds
<1>3. \A m \in 1 .. n : /\ l[m] \in NonEmptyRanges
                       /\ l[m].start \in 0 .. NumPages /\ l[m].end \in 0 .. NumPages
                       /\ l[m].start \in Nat /\ l[m].end \in Nat /\ l[m].start < l[m].end
                       /\ \A p : p \in PagesOf(l[m]) <=> p \in Nat /\ l[m].start <= p /\ p < l[m].end
  BY ElementOfSeq, RangeBounds
<1>4. \A p : p \in PagesIn(l) <=> \E m \in 1 .. n : p \in PagesOf(l[m])
  BY DEF PagesIn
<1>5. ASSUME NEW m \in 1 .. n PROVE r.end <= l[m].start \/ l[m].end <= r.start
  <2>1. r.start \notin PagesOf(l[m])
    <3>1. r.start \in PagesOf(r)
      BY <1>2
    <3>2. QED
      BY <3>1, <1>4, Zenon
  <2>2. l[m].start \notin PagesOf(r)
    <3>1. l[m].start \in PagesOf(l[m])
      BY <1>3
    <3>2. QED
      BY <3>1, <1>4, Zenon
  <2>3. QED
    BY <2>1, <2>2, <1>2, <1>3
<1>6. \A m, k \in 1 .. n : m < k => l[m].end < l[k].start
  BY DEF Separated
<1>7. ASSUME NEW i \in 1 .. n + 1, NEW j \in i - 1 .. n, NEW x \in NonEmptyRanges,
             \A m \in 1 .. i - 1 : l[m].end < x.start,
             \A m \in j + 1 .. n : x.end < l[m].start,
             \A p : p \in PagesOf(x) <=> p \in PagesOf(r) \/ \E m \in i .. j : p \in PagesOf(l[m])
      PROVE  Goal(Splice(l, i, j, <<x>>))
  <2> DEFINE t == Splice(l, i, j, <<x>>)
  <2>1. /\ t \in Seq(NonEmptyRanges) /\ Separated(t)
        /\ \A p : p \in PagesIn(t) <=> \/ \E m \in 1 .. i - 1 : p \in PagesOf(l[m])
                                     \/ p \in PagesOf(x)
                                     \/ \E m \in j + 1 .. n : p \in PagesOf(l[m])
    BY <1>7, SpliceOne
  <2> HIDE DEF t
  <2>2. \A m : m \in 1 .. n <=> m \in 1 .. i - 1 \/ m \in i .. j \/ m \in j + 1 .. n
    BY <1>1
  <2>3. \A p : p \in PagesIn(t) <=> p \in PagesIn(l) \/ p \in PagesOf(r)
    BY <2>1, <2>2, <1>4, <1>7, Zenon
  <2>4. PagesIn(t) = PagesIn(l) \cup PagesOf(r)
    BY <2>3
  <2>5. QED
    BY <2>1, <2>4 DEF t
<1> HIDE DEF Goal
<1>8. ASSUME NEW a \in 0 .. NumPages, NEW b \in 0 .. NumPages, a < b
      PROVE  /\ VMRange(a, b) \in NonEmptyRanges
             /\ VMRange(a, b).start = a /\ VMRange(a, b).end = b
             /\ \A p : p \in PagesOf(VMRange(a, b)) <=> p \in Nat /\ a <= p /\ p < b
  <2>1. VMRange(a, b) \in NonEmptyRanges /\ VMRange(a, b).start = a /\ VMRange(a, b).end = b
    BY <1>8 DEF VMRange, NonEmptyRanges
  <2>2. QED
    BY <2>1, RangeBounds
<1>9. ASSUME n = 0 PROVE Goal(s)
  <2>1. s = <<r>>
    BY <1>9 DEF add_range_back_to_free_manager
  <2>2. <<r>> \in Seq(NonEmptyRanges) /\ Len(<<r>>) = 1 /\ <<r>>[1] = r
    OBVIOUS
  <2>3. Separated(<<r>>)
    BY <2>2 DEF Separated
  <2>4. \A p : p \in PagesIn(<<r>>) <=> p \in PagesOf(r)
    BY <2>2 DEF PagesIn
  <2>5. \A p : p \notin PagesIn(l)
    BY <1>4, <1>9
  <2>6. PagesIn(<<r>>) = PagesIn(l) \cup PagesOf(r)
    BY <2>4, <2>5
  <2>7. QED
    BY <2>1, <2>2, <2>3, <2>6 DEF Goal
<1>10. ASSUME n > 0, r.end = l[1].start PROVE Goal(s)
  <2> DEFINE x == VMRange(r.start, l[1].end)
  <2>1. 1 \in 1 .. n + 1 /\ 1 \in 1 - 1 .. n /\ 1 \in 1 .. n
    BY <1>1, <1>10
  <2>2. r.start < l[1].end
    BY <1>2, <1>3, <1>10, <2>1
  <2>3. x \in NonEmptyRanges /\ x.start = r.start /\ x.end = l[1].end
        /\ \A p : p \in PagesOf(x) <=> p \in Nat /\ r.start <= p /\ p < l[1].end
    BY <1>2, <1>3, <1>8, <2>1, <2>2
  <2> HIDE DEF x
  <2>4. \A p : p \in PagesOf(x) <=> p \in PagesOf(r) \/ p \in PagesOf(l[1])
    <3>1. /\ l[1].start \in Nat /\ l[1].end \in Nat /\ l[1].start < l[1].end
          /\ \A p : p \in PagesOf(l[1]) <=> p \in Nat /\ l[1].start <= p /\ p < l[1].end
      BY <2>1, <1>3
    <3>2. QED
      BY ONLY <3>1, <2>3, <1>2, <1>10
  <2>5. \A m \in 1 + 1 .. n : x.end < l[m].start
    BY <1>1, <1>6, <2>1, <2>3
  <2>6. Goal(Splice(l, 1, 1, <<x>>))
    BY <2>1, <2>3, <2>4, <2>5, <1>7
  <2>7. s = Splice(l, 1, 1, <<x>>)
    BY <1>2, <1>3, <1>10, <2>1 DEF add_range_back_to_free_manager, x
  <2>8. QED
    BY <2>6, <2>7
<1>11. ASSUME n > 0, r.end < l[1].start PROVE Goal(s)
  <2>1. 1 \in 1 .. n + 1 /\ 0 \in 1 - 1 .. n /\ 1 \in 1 .. n
    BY <1>1, <1>11
  <2>2. ASSUME NEW m \in 0 + 1 .. n PROVE r.end < l[m].start
    <3>1. CASE m = 1
      BY <3>1, <1>11
    <3>2. CASE m # 1
      BY <3>2, <1>1, <1>2, <1>3, <1>6, <1>11, <2>1
    <3>3. QED
      BY <3>1, <3>2
  <2>3. Goal(Splice(l, 1, 0, <<r>>))
    BY <2>1, <2>2, <1>7
  <2>4. s = Splice(l, 1, 0, <<r>>)
    BY <1>2, <1>3, <1>11, <2>1 DEF add_range_back_to_free_manager
  <2>5. QED
    BY <2>3, <2>4
<1>12. ASSUME n > 0, r.end > l[1].start, r.start = l[n].end PROVE Goal(s)
  <2> DEFINE x == VMRange(l[n].start, r.end)
  <2>1. n \in 1 .. n + 1 /\ n \in n - 1 .. n /\ n \in 1 .. n /\ 1 \in 1 .. n
    BY <1>1, <1>12
  <2>2. l[n].start < r.end
    BY <1>2, <1>3, <1>12, <2>1
  <2>3. x \in NonEmptyRanges /\ x.start = l[n].start /\ x.end = r.end
        /\ \A p : p \in PagesOf(x) <=> p \in Nat /\ l[n].start <= p /\ p < r.end
    BY <1>2, <1>3, <1>8, <2>1, <2>2
  <2> HIDE DEF x
  <2>4. \A p : p \in PagesOf(x) <=> p \in PagesOf(r) \/ p \in PagesOf(l[n])
    <3>1. /\ l[n].start \in Nat /\ l[n].end \in Nat /\ l[n].start < l[n].end
          /\ \A p : p \in PagesOf(l[n]) <=> p \in Nat /\ l[n].start <= p /\ p < l[n].end
      BY <2>1, <1>3
    <3>2. QED
      BY ONLY <3>1, <2>3, <1>2, <1>12
  <2>5. \A m \in 1 .. n - 1 : l[m].end < x.start
    BY <1>1, <1>6, <2>1, <2>3
  <2>6. Goal(Splice(l, n, n, <<x>>))
    <3>1. \A m : m \in n .. n <=> m = n
      BY <1>1
    <3>2. \A m : m \notin n + 1 .. n
      BY <1>1
    <3>3. QED
      BY <2>1, <2>3, <2>4, <2>5, <3>1, <3>2, <1>7
  <2>7. s = Splice(l, n, n, <<x>>)
    BY <1>2, <1>3, <1>12, <2>1 DEF add_range_back_to_free_manager, x
  <2>8. QED
    BY <2>6, <2>7
<1>13. ASSUME n > 0, r.end > l[1].start, r.start > l[n].end PROVE Goal(s)
  <2>1. n + 1 \in 1 .. n + 1 /\ n \in (n + 1) - 1 .. n /\ n \in 1 .. n /\ 1 \in 1 .. n
    BY <1>1, <1>13
  <2>2. ASSUME NEW m \in 1 .. (n + 1) - 1 PROVE l[m].end < r.start
    <3>0. m \in 1 .. n
      BY <1>1
    <3>1. CASE m = n
      BY <3>1, <1>13, <1>2, <1>3, <3>0
    <3>2. CASE m # n
      BY <3>0, <3>2, <1>1, <1>2, <1>3, <1>6, <1>13, <2>1
    <3>3. QED
      BY <3>1, <3>2
  <2>3. Goal(Splice(l, n + 1, n, <<r>>))
    <3>1. \A m : m \notin n + 1 .. n
      BY <1>1
    <3>2. QED
      BY <2>1, <2>2, <3>1, <1>7
  <2>4. s = Splice(l, n + 1, n, <<r>>)
    BY <1>2, <1>3, <1>13, <2>1 DEF add_range_back_to_free_manager
  <2>5. QED
    BY <2>3, <2>4
<1>14. ASSUME n > 0, r.end > l[1].start, r.start < l[n].end PROVE Goal(s)
  <2> DEFINE gaps == {i \in 1 .. n - 1 : l[i].end <= r.start /\ r.end <= l[i + 1].start}
             after == {m \in 1 .. n : r.end <= l[m].start}
             g == GapFor(l, r)
  <2>1. 1 \in 1 .. n /\ n \in 1 .. n
    BY <1>1, <1>14
  <2>2. l[1].end <= r.start /\ r.end <= l[n].start
    BY <1>2, <1>3, <1>5, <1>14, <2>1
  <2>3. gaps # {}
    <3>1. after # {} /\ after \in SUBSET Nat
      BY <2>1, <2>2
    <3>2. PICK m \in after : \A k \in after : m <= k
      BY <3>1, LeastNat
    <3>3. m \in 1 .. n /\ r.end <= l[m].start
      OBVIOUS
    <3>4. m # 1
      BY <3>3, <2>1, <1>2, <1>3, <1>14
    <3>5. m - 1 \in 1 .. n - 1 /\ m - 1 \in 1 .. n /\ (m - 1) + 1 = m
      BY <3>3, <3>4, <1>1
    <3>6. m - 1 \notin after
      BY <3>2, <3>3, <1>1
    <3>7. l[m - 1].end <= r.start
      BY <3>5, <3>6, <1>5
    <3>8. m - 1 \in gaps
      BY <3>3, <3>5, <3>7
    <3>9. QED
      BY <3>8
  <2>4. g \in gaps
    <3>1. gaps \in SUBSET (Nat \ {0})
      BY <1>1
    <3>2. g = FirstOf(gaps)
      BY DEF GapFor
    <3>3. FirstOf(gaps) \in gaps
      <4> HIDE DEF gaps
      <4>1. QED
        BY <3>1, <2>3, FirstOfLeast
    <3>4. QED
      BY <3>2, <3>3
  <2>5. s = InsertBetween(l, g, r)
    <3>1. g # 0
      BY <2>4, <1>1
    <3>2. QED
      BY <3>1, <1>2, <1>3, <1>14, <2>1 DEF add_range_back_to_free_manager
  <2>6. /\ g \in Nat /\ g \in 1 .. n /\ g + 1 \in 1 .. n
        /\ l[g].end <= r.start /\ r.end <= l[g + 1].start
    BY <2>4, <1>1
  <2> HIDE DEF g, gaps, after, s
  <2> DEFINE a == l[g]
             b == l[g + 1]
  <2>7. /\ a.start \in 0 .. NumPages /\ a.end \in 0 .. NumPages /\ a.start < a.end
        /\ b.start \in 0 .. NumPages /\ b.end \in 0 .. NumPages /\ b.start < b.end
        /\ \A p : p \in PagesOf(a) <=> p \in Nat /\ a.start <= p /\ p < a.end
        /\ \A p : p \in PagesOf(b) <=> p \in Nat /\ b.start <= p /\ p < b.end
    BY <2>6, <1>3
  <2>8. \A m \in 1 .. g - 1 : l[m].end < a.start /\ l[m].end \in Nat
    <3> SUFFICES ASSUME NEW m \in 1 .. g - 1 PROVE l[m].end < a.start /\ l[m].end \in Nat
      OBVIOUS
    <3>1. m \in 1 .. n /\ m < g
      BY <1>1, <2>6
    <3>2. QED
      BY <3>1, <1>3, <1>6, <2>6
  <2>9. \A m \in (g + 1) + 1 .. n : b.end < l[m].start /\ l[m].start \in Nat
    BY <1>1, <1>3, <1>6, <2>6
  <2>10. /\ ContiguousWith(r, a) <=> r.start = a.end
         /\ ContiguousWith(r, b) <=> r.end = b.start
    BY <1>2, <2>6, <2>7, NumPagesAssumption DEF ContiguousWith
  <2>11. /\ g \in 1 .. n + 1 /\ g + 1 \in 1 .. n + 1
         /\ g \in g - 1 .. n /\ g + 1 \in g - 1 .. n
         /\ g \in (g + 1) - 1 .. n /\ g + 1 \in (g + 1) - 1 .. n
    BY <1>1, <2>6
  <2>12. a.end <= r.start /\ r.end <= b.start
    BY <2>6
  <2> HIDE DEF a, b
  <2>13. CASE r.start = a.end /\ r.end = b.start
    <3> DEFINE x == VMRange(a.start, b.end)
    <3>1. s = Splice(l, g, g + 1, <<x>>)
      BY <2>5, <2>10, <2>13 DEF InsertBetween, a, b
    <3>2. a.start < b.end
      BY <2>7, <2>13, <1>2, NumPagesAssumption
    <3>3. x \in NonEmptyRanges /\ x.start = a.start /\ x.end = b.end
          /\ \A p : p \in PagesOf(x) <=> p \in Nat /\ a.start <= p /\ p < b.end
      BY <3>2, <2>7, <1>8
    <3> HIDE DEF x
    <3>4. ASSUME NEW p
          PROVE  p \in PagesOf(x) <=> p \in PagesOf(r) \/ p \in PagesOf(a) \/ p \in PagesOf(b)
      <4>1. p \in PagesOf(x) <=> p \in Nat /\ a.start <= p /\ p < b.end
        BY <3>3
      <4>2. p \in PagesOf(r) <=> p \in Nat /\ r.start <= p /\ p < r.end
        BY <1>2
      <4>3. /\ p \in PagesOf(a) <=> p \in Nat /\ a.start <= p /\ p < r.start
            /\ p \in PagesOf(b) <=> p \in Nat /\ r.end <= p /\ p < b.end
        BY <2>7, <2>13
      <4>4. /\ a.start \in Nat /\ b.end \in Nat /\ r.start \in Nat /\ r.end \in Nat
            /\ a.start < r.start /\ r.start < r.end /\ r.end < b.end
        BY <2>7, <2>13, <1>2, NumPagesAssumption
      <4>5. QED
        BY ONLY <4>1, <4>2, <4>3, <4>4
    <3>5. \A m : m \in g .. g + 1 <=> m = g \/ m = g + 1
      BY <2>6
    <3>6. \A p : p \in PagesOf(x) <=> p \in PagesOf(r) \/ \E m \in g .. g + 1 : p \in PagesOf(l[m])
      BY <3>4, <3>5, Zenon DEF a, b
    <3>7. Goal(Splice(l, g, g + 1, <<x>>))
      BY <3>3, <3>6, <2>8, <2>9, <2>11, <1>7
    <3>8. QED
      BY <3>1, <3>7
  <2>14. CASE r.start = a.end /\ r.end # b.start
    <3> DEFINE x == VMRange(a.start, r.end)
    <3>1. s = Splice(l, g, g, <<x>>)
      BY <2>5, <2>10, <2>14 DEF InsertBetween, a, b
    <3>2. a.start < r.end
      BY <2>7, <2>14, <1>2, NumPagesAssumption
    <3>3. x \in NonEmptyRanges /\ x.start = a.start /\ x.end = r.end
          /\ \A p : p \in PagesOf(x) <=> p \in Nat /\ a.start <= p /\ p < r.end
      BY <3>2, <2>7, <1>2, <1>8
    <3> HIDE DEF x
    <3>4. \A p : p \in PagesOf(x) <=> p \in PagesOf(r) \/ p \in PagesOf(a)
      BY <3>3, <2>7, <2>14, <1>2, NumPagesAssumption
    <3>5. \A m : m \in g .. g <=> m = g
      BY <2>6
    <3>6. \A p : p \in PagesOf(x) <=> p \in PagesOf(r) \/ \E m \in g .. g : p \in PagesOf(l[m])
      BY <3>4, <3>5, Zenon DEF a, b
    <3>7. ASSUME NEW m \in g + 1 .. n PROVE x.end < l[m].start
      <4>1. r.end < b.start
        BY <2>7, <2>12, <2>14, <1>2
      <4>2. CASE m = g + 1
        BY <4>1, <4>2, <3>3 DEF b
      <4>3. CASE m # g + 1
        <5>1. m \in (g + 1) + 1 .. n
          BY <4>3, <1>1, <2>6
        <5>2. b.end < l[m].start /\ l[m].start \in Nat
          BY <5>1, <2>9
        <5>3. QED
          BY <4>1, <5>2, <3>3, <2>7, <1>2, NumPagesAssumption
      <4>4. QED
        BY <4>2, <4>3
    <3>8. Goal(Splice(l, g, g, <<x>>))
      BY <3>3, <3>6, <3>7, <2>8, <2>11, <1>7
    <3>9. QED
      BY <3>1, <3>8
  <2>15. ASSUME r.start # a.end, NEW m \in 1 .. (g + 1) - 1 PROVE l[m].end < r.start
    <3>1. a.end < r.start
      BY <2>7, <2>12, <2>15, <1>2
    <3>2. CASE m = g
      BY <3>1, <3>2 DEF a
    <3>3. CASE m # g
      <4>1. m \in 1 .. g - 1
        BY <3>3, <2>6
      <4>2. l[m].end < a.start /\ l[m].end \in Nat
        BY <4>1, <2>8
      <4>3. QED
        BY <3>1, <4>2, <2>7, <1>2, NumPagesAssumption
    <3>4. QED
      BY <3>2, <3>3
  <2>16. CASE r.start # a.end /\ r.end = b.start
    <3> DEFINE x == VMRange(r.start, b.end)
    <3>1. s = Splice(l, g + 1, g + 1, <<x>>)
      BY <2>5, <2>10, <2>16 DEF InsertBetween, a, b
    <3>2. r.start < b.end
      BY <2>7, <2>16, <1>2, NumPagesAssumption
    <3>3. x \in NonEmptyRanges /\ x.start = r.start /\ x.end = b.end
          /\ \A p : p \in PagesOf(x) <=> p \in Nat /\ r.start <= p /\ p < b.end
      BY <3>2, <2>7, <1>2, <1>8
    <3> HIDE DEF x
    <3>4. \A p : p \in PagesOf(x) <=> p \in PagesOf(r) \/ p \in PagesOf(b)
      BY <3>3, <2>7, <2>16, <1>2, NumPagesAssumption
    <3>5. \A m : m \in g + 1 .. g + 1 <=> m = g + 1
      BY <2>6
    <3>6. \A p : p \in PagesOf(x) <=> p \in PagesOf(r) \/ \E m \in g + 1 .. g + 1 : p \in PagesOf(l[m])
      BY <3>4, <3>5, Zenon DEF a, b
    <3>7. Goal(Splice(l, g + 1, g + 1, <<x>>))
      BY <3>3, <3>6, <2>9, <2>11, <2>15, <2>16, <1>7
    <3>8. QED
      BY <3>1, <3>7
  <2>17. CASE r.start # a.end /\ r.end # b.start
    <3>1. s = Splice(l, g + 1, g, <<r>>)
      BY <2>5, <2>10, <2>17 DEF InsertBetween, a, b
    <3>2. ASSUME NEW m \in g + 1 .. n PROVE r.end < l[m].start
      <4>1. r.end < b.start
        BY <2>7, <2>12, <2>17, <1>2
      <4>2. CASE m = g + 1
        BY <4>1, <4>2 DEF b
      <4>3. CASE m # g + 1
        <5>1. m \in (g + 1) + 1 .. n
          BY <4>3, <1>1, <2>6
        <5>2. b.end < l[m].start /\ l[m].start \in Nat
          BY <5>1, <2>9
        <5>3. QED
          BY <4>1, <5>2, <2>7, <1>2, NumPagesAssumption
      <4>4. QED
        BY <4>2, <4>3
    <3>3. \A m : m \notin g + 1 .. g
      BY <2>6
    <3>4. Goal(Splice(l, g + 1, g, <<r>>))
      BY <3>2, <3>3, <2>11, <2>15, <2>17, <1>7
    <3>5. QED
      BY <3>1, <3>4
  <2>18. QED
    BY <2>13, <2>14, <2>16, <2>17
<1>15. Goal(s)
  <2>1. CASE n = 0
    BY <2>1, <1>9
  <2>2. CASE n # 0
    <3>1. n > 0 /\ 1 \in 1 .. n /\ n \in 1 .. n
      BY <2>2, <1>1
    <3>2. l[1].start \in Nat /\ l[n].end \in Nat
      BY <3>1, <1>3
    <3>3. QED
      BY <3>1, <3>2, <1>2, <1>10, <1>11, <1>12, <1>13, <1>14
  <2>3. QED
    BY <2>1, <2>2
<1>16. QED
  BY <1>15 DEF Goal

-----------------------------------------------------------------------------
(* What the searches find: the runs of free pages.                         *)

Fits(l, i, p, size) == l[i].start <= p /\ p + size <= l[i].end

StartsIn(l, size, align) ==
    {p \in Pages : p % align = 0 /\ p .. p + size - 1 \subseteq PagesIn(l)}

\* A run of free pages lies within one range: separate ranges do not touch.
LEMMA RunInOneRange ==
    ASSUME NEW l \in Seq(NonEmptyRanges), Separated(l), NEW p \in Nat, NEW size \in Nat \ {0},
           p .. p + size - 1 \subseteq PagesIn(l)
    PROVE  \E i \in 1 .. Len(l) : Fits(l, i, p, size)
<1>1. \A m \in 1 .. Len(l) : l[m] \in NonEmptyRanges
  BY ElementOfSeq
<1>2. \A q : q \in PagesIn(l) <=> \E m \in 1 .. Len(l) : q \in PagesOf(l[m])
  BY DEF PagesIn
<1>3. p \in p .. p + size - 1
  OBVIOUS
<1>4. PICK i \in 1 .. Len(l) : p \in PagesOf(l[i])
  BY <1>2, <1>3, Zenon
<1>5. /\ l[i].start \in Nat /\ l[i].end \in Nat /\ l[i].start < l[i].end
      /\ l[i].start <= p /\ p < l[i].end
  BY <1>1, <1>4, RangeBounds
<1>6. ASSUME l[i].end < p + size PROVE FALSE
  <2> DEFINE q == l[i].end
  <2>1. q \in p .. p + size - 1
    BY <1>5, <1>6
  <2>2. PICK k \in 1 .. Len(l) : q \in PagesOf(l[k])
    BY <2>1, <1>2, Zenon
  <2>3. /\ l[k].start \in Nat /\ l[k].end \in Nat /\ l[k].start <= q /\ q < l[k].end
    BY <1>1, <2>2, RangeBounds
  <2>4. k # i
    BY <2>3, <1>5
  <2>5. l[k].end < l[i].start \/ l[i].end < l[k].start
    <3>1. Len(l) \in Nat /\ (k < i \/ i < k)
      BY <2>4, LenProperties
    <3>2. QED
      BY <3>1 DEF Separated
  <2>6. QED
    BY <2>3, <2>5, <1>5
<1>7. QED
  BY <1>5, <1>6 DEF Fits

\* An aligned free run begins at a page exactly if the run fits into one of the ranges.
LEMMA StartsFit ==
    ASSUME NEW l \in Seq(NonEmptyRanges), Separated(l),
           NEW size \in Nat \ {0}, NEW align \in Nat \ {0}
    PROVE  /\ \A p : p \in StartsIn(l, size, align) <=>
                   p \in Nat /\ p % align = 0 /\ \E i \in 1 .. Len(l) : Fits(l, i, p, size)
<1>1. \A m \in 1 .. Len(l) : l[m] \in NonEmptyRanges
  BY ElementOfSeq
<1>2. ASSUME NEW p \in StartsIn(l, size, align)
      PROVE  p \in Nat /\ p % align = 0 /\ \E i \in 1 .. Len(l) : Fits(l, i, p, size)
  <2>1. p \in Nat /\ p % align = 0 /\ p .. p + size - 1 \subseteq PagesIn(l)
    BY DEF StartsIn, Pages
  <2>2. QED
    BY <2>1, RunInOneRange
<1>3. ASSUME NEW p \in Nat, p % align = 0, NEW i \in 1 .. Len(l), Fits(l, i, p, size)
      PROVE  p \in StartsIn(l, size, align)
  <2>1. /\ l[i].start \in Nat /\ l[i].end \in Nat /\ l[i].end <= NumPages
        /\ \A q : q \in PagesOf(l[i]) <=> q \in Nat /\ l[i].start <= q /\ q < l[i].end
    BY <1>1, RangeBounds
  <2>2. l[i].start <= p /\ p + size <= l[i].end
    BY <1>3 DEF Fits
  <2>3. p \in Pages
    BY <2>1, <2>2, NumPagesAssumption DEF Pages
  <2>4. \A q \in p .. p + size - 1 : q \in PagesOf(l[i])
    BY <2>1, <2>2
  <2>5. \A q \in PagesOf(l[i]) : q \in PagesIn(l)
    BY DEF PagesIn
  <2>6. QED
    BY <2>3, <2>4, <2>5, <1>3 DEF StartsIn
<1>4. QED
  BY <1>2, <1>3

\* The first fit is the lowest aligned run there is.
LEMMA FirstFitLowest ==
    ASSUME NEW l \in Seq(NonEmptyRanges), Separated(l),
           NEW size \in Nat \ {0}, NEW align \in Nat \ {0}
    PROVE  LET i == FirstFit(l, size, align)
               p == AlignUp(l[i].start, align)
           IN  /\ i = 0 => StartsIn(l, size, align) = {}
               /\ i # 0 => /\ i \in 1 .. Len(l) /\ p \in Nat /\ Fits(l, i, p, size)
                          /\ p \in StartsIn(l, size, align)
                          /\ \A q \in StartsIn(l, size, align) : p <= q
<1> DEFINE i == FirstFit(l, size, align)
           p == AlignUp(l[i].start, align)
           S == {k \in 1 .. Len(l) : AlignUp(l[k].start, align) + size <= l[k].end}
<1>1. \A m \in 1 .. Len(l) : /\ l[m] \in NonEmptyRanges
                            /\ l[m].start \in Nat /\ l[m].end \in Nat
  BY ElementOfSeq, RangeBounds
<1>2. Len(l) \in Nat
  BY LenProperties
<1>3. S \in SUBSET (Nat \ {0}) /\ i = FirstOf(S)
  BY <1>2 DEF FirstFit
<1>4. /\ S = {} => i = 0
      /\ S # {} => i \in S /\ \A j \in S : i <= j
      /\ i # 0 => S # {}
  <2> HIDE DEF S
  <2>1. QED
    BY <1>3, FirstOfLeast
<1>5. ASSUME NEW k \in 1 .. Len(l)
      PROVE  /\ AlignUp(l[k].start, align) \in Nat
             /\ AlignUp(l[k].start, align) % align = 0
             /\ l[k].start <= AlignUp(l[k].start, align)
             /\ \A q \in Nat : q % align = 0 /\ l[k].start <= q => AlignUp(l[k].start, align) <= q
  BY <1>1, AlignUpLowest
<1>6. ASSUME NEW q \in StartsIn(l, size, align)
      PROVE  /\ q \in Nat
             /\ \E k \in S : AlignUp(l[k].start, align) <= q /\ l[k].start <= q
  <2>1. PICK k \in 1 .. Len(l) : q \in Nat /\ q % align = 0 /\ Fits(l, k, q, size)
    BY StartsFit
  <2>2. l[k].start <= q /\ q + size <= l[k].end
    BY <2>1 DEF Fits
  <2>3. AlignUp(l[k].start, align) <= q /\ AlignUp(l[k].start, align) \in Nat
    BY <2>1, <2>2, <1>5
  <2>4. AlignUp(l[k].start, align) + size <= l[k].end
    BY <2>1, <2>2, <2>3, <1>1
  <2>5. QED
    BY <2>1, <2>2, <2>3, <2>4
<1>7. ASSUME i = 0 PROVE StartsIn(l, size, align) = {}
  <2>1. S = {}
    BY <1>3, <1>4, <1>7
  <2>2. QED
    BY <2>1, <1>6
<1>8. ASSUME i # 0 PROVE /\ i \in 1 .. Len(l) /\ p \in Nat /\ Fits(l, i, p, size)
                         /\ p \in StartsIn(l, size, align)
                         /\ \A q \in StartsIn(l, size, align) : p <= q
  <2>1. i \in S /\ \A j \in S : i <= j
    BY <1>4, <1>8
  <2>2. i \in 1 .. Len(l) /\ p + size <= l[i].end
    BY <2>1
  <2> HIDE DEF i
  <2>3. p \in Nat /\ p % align = 0 /\ l[i].start <= p
    BY <2>2, <1>5
  <2>4. Fits(l, i, p, size)
    BY <2>2, <2>3 DEF Fits
  <2>5. p \in StartsIn(l, size, align)
    BY <2>2, <2>3, <2>4, StartsFit
  <2>6. ASSUME NEW q \in StartsIn(l, size, align) PROVE p <= q
    <3>1. PICK k \in S : AlignUp(l[k].start, align) <= q /\ l[k].start <= q
      BY <1>6
    <3>2. k \in 1 .. Len(l) /\ i <= k /\ q \in Nat
      BY <2>1, <1>6
    <3>3. CASE k = i
      BY <3>1, <3>3
    <3>4. CASE k # i
      <4>1. l[i].end < l[k].start
        BY <2>2, <3>2, <3>4 DEF Separated
      <4>2. l[i].end \in Nat /\ l[k].start \in Nat
        BY <2>2, <3>2, <1>1
      <4> HIDE DEF p
      <4>3. QED
        BY <4>1, <4>2, <3>1, <3>2, <2>2, <2>3
    <3>5. QED
      BY <3>3, <3>4
  <2>7. QED
    BY <2>2, <2>3, <2>4, <2>5, <2>6
<1>9. QED
  BY <1>7, <1>8

\* A hint and a need find the range around the page they ask for, and only that.
Hits(l, size, page, i) ==
    /\ i # 0 => i \in 1 .. Len(l) /\ Fits(l, i, page, size)
    /\ i = 0 => \A k \in 1 .. Len(l) : ~Fits(l, k, page, size)

LEMMA RoomFits ==
    ASSUME NEW l \in Seq(NonEmptyRanges), NEW k \in 1 .. Len(l), NEW size \in Nat \ {0}, NEW page \in Nat
    PROVE  Room(l[k], page, size) <=> Fits(l, k, page, size)
<1>1. l[k].start \in Nat /\ l[k].end \in Nat
  BY ElementOfSeq, RangeBounds
<1>2. QED
  BY <1>1 DEF Room, Fits, ContainsPage

LEMMA HintHits ==
    ASSUME NEW l \in Seq(NonEmptyRanges), NEW size \in Nat \ {0}, NEW page \in Nat
    PROVE  Hits(l, size, page, HintFit(l, size, page))
<1> DEFINE S == {k \in 1 .. Len(l) : Room(l[k], page, size)}
           i == HintFit(l, size, page)
<1>1. S \in SUBSET (Nat \ {0}) /\ i = FirstOf(S)
  BY LenProperties DEF HintFit
<1>2. (S = {} => i = 0) /\ (S # {} => i \in S) /\ (i # 0 => S # {}) /\ 0 \notin S
  <2> HIDE DEF S
  <2>1. QED
    BY <1>1, FirstOfLeast
<1>3. QED
  BY <1>2, RoomFits DEF Hits

LEMMA NeedHits ==
    ASSUME NEW l \in Seq(NonEmptyRanges), Separated(l), NEW size \in Nat \ {0}, NEW page \in Nat
    PROVE  Hits(l, size, page, NeedFit(l, size, page))
<1> DEFINE S == {k \in 1 .. Len(l) : Size(l[k]) >= size /\ page < l[k].end}
           i == FirstOf(S)
           j == NeedFit(l, size, page)
<1>0. j = IF i # 0 /\ Room(l[i], page, size) THEN i ELSE 0
  BY DEF NeedFit
<1>1. S \in SUBSET (Nat \ {0})
  BY LenProperties
<1>2. /\ S # {} => i \in S /\ \A k \in S : i <= k
      /\ i # 0 => S # {}
  <2> HIDE DEF S
  <2>1. QED
    BY <1>1, FirstOfLeast
<1>3. \A k \in 1 .. Len(l) : l[k].start \in Nat /\ l[k].end \in Nat /\ l[k].start < l[k].end
  BY ElementOfSeq, RangeBounds
<1>4. ASSUME NEW k \in 1 .. Len(l), Fits(l, k, page, size) PROVE i = k
  <2>1. l[k].start <= page /\ page + size <= l[k].end
    BY <1>4 DEF Fits
  <2>2. k \in S
    BY <2>1, <1>3 DEF Size
  <2>3. i \in S /\ i <= k
    BY <2>2, <1>2
  <2>4. i \in 1 .. Len(l) /\ page < l[i].end
    BY <2>3
  <2> HIDE DEF i, S
  <2>5. ASSUME i < k PROVE FALSE
    <3>1. l[i].end < l[k].start
      BY <2>4, <2>5 DEF Separated
    <3>2. l[i].end \in Nat /\ l[k].start \in Nat
      BY <2>4, <1>3
    <3>3. QED
      BY <3>1, <3>2, <2>1, <2>4
  <2>6. QED
    BY <2>3, <2>4, <2>5
<1>5. ASSUME i # 0 PROVE i \in 1 .. Len(l)
  <2>1. i \in S
    BY <1>2, <1>5
  <2>2. QED
    BY <2>1
<1> HIDE DEF i, S, j
<1>6. CASE i # 0 /\ Room(l[i], page, size)
  <2>1. j = i /\ i \in 1 .. Len(l) /\ Fits(l, i, page, size)
    BY <1>0, <1>5, <1>6, RoomFits
  <2>2. QED
    BY <2>1, <1>6 DEF Hits, j
<1>7. CASE ~(i # 0 /\ Room(l[i], page, size))
  <2>1. j = 0
    BY <1>0, <1>7
  <2>2. ASSUME NEW k \in 1 .. Len(l), Fits(l, k, page, size) PROVE FALSE
    <3>1. i = k /\ k # 0
      BY <2>2, <1>4
    <3>2. Room(l[k], page, size)
      BY <2>2, RoomFits
    <3>3. QED
      BY <3>1, <3>2, <1>7
  <2>3. QED
    BY <2>1, <2>2 DEF Hits, j
<1>8. QED
  BY <1>6, <1>7

\* Whatever is found lies in one range of the list.
FoundIn(l, f, size) ==
    f.index # 0 => f.index \in 1 .. Len(l) /\ f.start \in Nat /\ Fits(l, f.index, f.start, size)

\* It is the lowest run, or there is none.
LowestOf(f, S) ==
    /\ f.index = 0 => S = {}
    /\ f.index # 0 => f.start \in S /\ \A q \in S : f.start <= q

Answers(f, addr, align, S) ==
    /\ addr.kind = "any" => LowestOf(f, S)
    /\ addr.kind = "hint" /\ addr.page % align # 0 => f.index = 0
    /\ addr.kind = "hint" /\ addr.page % align = 0 /\ addr.page \notin S => LowestOf(f, S)
    /\ addr.kind = "need" /\ addr.page \notin S => f.index = 0
    /\ addr.kind # "any" /\ addr.page \in S => f.index # 0 /\ f.start = addr.page

LEMMA FoundExact ==
    ASSUME NEW l \in Seq(NonEmptyRanges), Separated(l),
           NEW size \in Nat \ {0}, NEW align \in Nat \ {0}, NEW addr \in Addresses
    PROVE  /\ FoundIn(l, Found(l, size, align, addr), size)
           /\ Answers(Found(l, size, align, addr), addr, align, StartsIn(l, size, align))
<1> DEFINE fit == FirstFit(l, size, align)
           first == [index |-> fit, start |-> IF fit = 0 THEN 0 ELSE AlignUp(l[fit].start, align)]
           hint == HintFit(l, size, addr.page)
           need == NeedFit(l, size, addr.page)
           none == [index |-> 0, start |-> 0]
           at(i) == [index |-> i, start |-> addr.page]
           S == StartsIn(l, size, align)
           f == Found(l, size, align, addr)
<1>1. addr.kind \in {"any", "hint", "need"} /\ addr.page \in Nat
  BY NumPagesAssumption DEF Addresses, AnyAddr, Pages
<1>2. FoundIn(l, first, size) /\ LowestOf(first, S)
  BY FirstFitLowest DEF FoundIn, LowestOf
<1>3. \A p : p \in S <=> p \in Nat /\ p % align = 0 /\ \E i \in 1 .. Len(l) : Fits(l, i, p, size)
  BY StartsFit
<1>4. Hits(l, size, addr.page, hint) /\ Hits(l, size, addr.page, need)
  BY <1>1, HintHits, NeedHits
<1> HIDE DEF S, first, hint, need
<1>5. ASSUME NEW i, Hits(l, size, addr.page, i)
      PROVE  /\ FoundIn(l, at(i), size)
             /\ addr.page % align = 0 => (i # 0 <=> addr.page \in S)
  BY <1>1, <1>3, <1>5 DEF Hits, FoundIn
<1>6. /\ addr.kind = "any" => f = first
      /\ addr.kind # "any" /\ addr.page % align # 0 => f = none
      /\ addr.kind = "hint" /\ addr.page % align = 0 => f = IF hint # 0 THEN at(hint) ELSE first
      /\ addr.kind = "need" /\ addr.page % align = 0 => f = at(need)
  BY <1>1 DEF Found, Exactly, first, hint, need
<1>7. none.index = 0 /\ \A i : at(i).index = i /\ at(i).start = addr.page
  OBVIOUS
<1>8. addr.page \in S => addr.page % align = 0
  BY <1>3
<1> HIDE DEF f, at, none
<1>9. CASE addr.kind = "any"
  BY <1>2, <1>6, <1>9 DEF Answers, f, S
<1>10. CASE addr.kind # "any" /\ addr.page % align # 0
  <2>1. f = none /\ f.index = 0 /\ addr.page \notin S
    BY <1>6, <1>7, <1>8, <1>10
  <2>2. QED
    BY <2>1, <1>10 DEF Answers, FoundIn, f, S
<1>11. CASE addr.kind = "hint" /\ addr.page % align = 0
  <2>1. CASE hint # 0
    BY <2>1, <1>4, <1>5, <1>6, <1>7, <1>11 DEF Answers, f, S
  <2>2. CASE hint = 0
    BY <2>2, <1>2, <1>4, <1>5, <1>6, <1>11 DEF Answers, f, S
  <2>3. QED
    BY <2>1, <2>2
<1>12. CASE addr.kind = "need" /\ addr.page % align = 0
  BY <1>4, <1>5, <1>6, <1>7, <1>12 DEF Answers, f, S
<1>13. QED
  BY <1>1, <1>9, <1>10, <1>11, <1>12 DEF f, S

-----------------------------------------------------------------------------
\* The invariant, with the library's names for its parts.
LEMMA ExactPages == Exact <=> PagesIn(list) = Pages \ used
BY DEF Exact, PagesIn

LEMMA CanonicalSeparated == Canonical <=> Separated(list)
BY DEF Canonical, Separated

\* A request that is met takes free pages out of the list, each of them once.
LEMMA FindStep ==
    ASSUME FreeListExact, NEW size \in Sizes, NEW align \in Aligns, NEW addr \in Addresses,
           find_free_range_internal(size, align, addr)
    PROVE  FreeListExact'
<1> DEFINE f == Found(list, size, align, addr)
           r == VMRange(f.start, f.start + size)
<1>1. /\ list \in Seq(NonEmptyRanges) /\ used \subseteq Pages /\ Separated(list)
      /\ PagesIn(list) = Pages \ used
  BY ExactPages, CanonicalSeparated DEF FreeListExact, TypeOK
<1>2. size \in Nat \ {0} /\ align \in Nat \ {0}
  BY RequestsAssumption
<1>3. FoundIn(list, f, size)
  BY <1>1, <1>2, FoundExact
<1>4. CASE f.index = 0
  <2>1. reply' = NoRange /\ UNCHANGED <<list, used>>
    BY <1>4 DEF find_free_range_internal
  <2>2. QED
    BY <2>1 DEF FreeListExact, TypeOK, Canonical, Exact
<1>5. CASE f.index # 0
  <2>1. /\ reply' = r /\ list' = free_list_update_range(list, f.index, r)
        /\ used' = used \cup PagesOf(r)
    BY <1>5 DEF find_free_range_internal
  <2>2. /\ f.index \in 1 .. Len(list) /\ f.start \in Nat
        /\ list[f.index].start <= f.start /\ f.start + size <= list[f.index].end
    BY <1>3, <1>5 DEF FoundIn, Fits
  <2> HIDE DEF f
  <2>3. list[f.index].start \in Nat /\ list[f.index].end \in Nat /\ list[f.index].end <= NumPages
    BY <1>1, <2>2, ElementOfSeq, RangeBounds
  <2>4. r \in NonEmptyRanges /\ r.start = f.start /\ r.end = f.start + size
    <3> DEFINE e == f.start + size
    <3>1. f.start \in 0 .. NumPages /\ e \in 0 .. NumPages /\ f.start < e
      BY ONLY <1>2, <2>2, <2>3, NumPagesAssumption, SMTT(30)
    <3> HIDE DEF e
    <3>2. VMRange(f.start, e) \in NonEmptyRanges
          /\ VMRange(f.start, e).start = f.start /\ VMRange(f.start, e).end = e
      BY ONLY <3>1 DEF NonEmptyRanges, VMRange
    <3>3. QED
      BY <3>2 DEF e
  <2> HIDE DEF r
  <2>5. \A p \in PagesOf(r) : p \in Pages
    BY <2>4, RangeBounds, NumPagesAssumption DEF Pages
  <2>6. /\ list' \in Seq(NonEmptyRanges) /\ Separated(list')
        /\ PagesIn(list') = PagesIn(list) \ PagesOf(r)
    BY <1>1, <2>1, <2>2, <2>4, TakeRange
  <2>7. TypeOK'
    BY <1>1, <2>1, <2>4, <2>5, <2>6 DEF TypeOK
  <2>8. Canonical'
    BY <2>6 DEF Canonical, Separated
  <2>9. PagesIn(list') = Pages \ used'
    BY <2>1, <2>6, <1>1
  <2>10. Exact'
    BY <2>9 DEF Exact, PagesIn
  <2>11. QED
    BY <2>7, <2>8, <2>10 DEF FreeListExact
<1>6. QED
  BY <1>4, <1>5

\* A range that comes back is joined with its neighbours and none of its pages is lost.
LEMMA GiveBackStep ==
    ASSUME FreeListExact, NEW r \in NonEmptyRanges, GiveBack(r)
    PROVE  FreeListExact'
<1>1. /\ list \in Seq(NonEmptyRanges) /\ used \subseteq Pages /\ Separated(list)
      /\ PagesIn(list) = Pages \ used
  BY ExactPages, CanonicalSeparated DEF FreeListExact, TypeOK
<1>2. /\ PagesOf(r) \subseteq used /\ used' = used \ PagesOf(r) /\ reply' = r
      /\ list' = add_range_back_to_free_manager(list, r)
  BY DEF GiveBack
<1>3. \A p \in PagesOf(r) : p \notin PagesIn(list)
  BY <1>1, <1>2
<1>4. /\ list' \in Seq(NonEmptyRanges) /\ Separated(list')
      /\ PagesIn(list') = PagesIn(list) \cup PagesOf(r)
  BY <1>1, <1>2, <1>3, GiveRange
<1>5. TypeOK'
  BY <1>1, <1>2, <1>4 DEF TypeOK
<1>6. Canonical'
  BY <1>4 DEF Canonical, Separated
<1>7. PagesIn(list') = Pages \ used'
  BY <1>1, <1>2, <1>4
<1>8. QED
  BY <1>5, <1>6, <1>7 DEF FreeListExact, Exact, PagesIn

\* Whatever is requested and given back, and for every number of pages: the free list is in
\* address order with its neighbours joined, and it holds exactly the pages nobody has.
THEOREM FreeListSafe == Spec => []FreeListExact
<1>1. Init => FreeListExact
  <2> SUFFICES ASSUME Init PROVE FreeListExact
    OBVIOUS
  <2> DEFINE r == VMRange(0, NumPages)
  <2>1. list = <<r>> /\ used = {} /\ reply = NoRange
    BY DEF Init
  <2>2. r \in NonEmptyRanges /\ r.start = 0 /\ r.end = NumPages
    BY NumPagesAssumption DEF NonEmptyRanges, VMRange
  <2> HIDE DEF r
  <2>3. list \in Seq(NonEmptyRanges) /\ Len(list) = 1 /\ list[1] = r
    BY <2>1, <2>2
  <2>4. \A p : p \in PagesOf(r) <=> p \in Pages
    BY <2>2, NumPagesAssumption DEF PagesOf, Pages
  <2>5. \A p : p \in PagesIn(list) <=> p \in PagesOf(r)
    BY <2>3 DEF PagesIn
  <2>6. PagesIn(list) = Pages \ used
    BY <2>1, <2>4, <2>5
  <2>7. QED
    BY <2>1, <2>3, <2>6, ExactPages DEF FreeListExact, TypeOK, Canonical
<1>2. FreeListExact /\ [Next]_vars => FreeListExact'
  <2> SUFFICES ASSUME FreeListExact, [Next]_vars PROVE FreeListExact'
    OBVIOUS
  <2>1. CASE Next
    BY <2>1, FindStep, GiveBackStep DEF Next
  <2>2. CASE UNCHANGED vars
    BY <2>2 DEF vars, FreeListExact, TypeOK, Canonical, Exact
  <2>3. QED
    BY <2>1, <2>2
<1>3. QED
  BY <1>1, <1>2, PTL DEF Spec

-----------------------------------------------------------------------------
(* The refinement: every step is a step of the allocator of page runs.     *)

LEMMA SameStarts ==
    ASSUME FreeListExact, NEW size, NEW align
    PROVE  Promise!Starts(size, align) = StartsIn(list, size, align)
<1>1. PagesIn(list) = Pages \ used
  BY ExactPages DEF FreeListExact
<1>2. QED
  BY <1>1 DEF Promise!Starts, Promise!Run, StartsIn, Pages

LEMMA Refused ==
    ASSUME NEW size, NEW align, NEW addr, find_free_range_internal(size, align, addr),
           Found(list, size, align, addr).index = 0
    PROVE  Promise!Refuse
<1>1. reply' = NoRange /\ used' = used
  BY DEF find_free_range_internal
<1>2. NoRange = [start |-> 0, end |-> 0]
  BY DEF NoRange, VMRange
<1>3. Pages \ used' = Pages \ used
  BY <1>1
<1>4. QED
  BY <1>1, <1>2, <1>3 DEF Promise!Refuse, Promise!NoRange, Pages

LEMMA Taken ==
    ASSUME NEW size \in Nat, NEW align, NEW addr, find_free_range_internal(size, align, addr),
           Found(list, size, align, addr).index # 0, Found(list, size, align, addr).start \in Nat
    PROVE  Promise!Take(Found(list, size, align, addr).start, size)
<1> DEFINE p == Found(list, size, align, addr).start
           r == VMRange(p, p + size)
<1>1. reply' = r /\ used' = used \cup PagesOf(r)
  BY DEF find_free_range_internal
<1>0. p \in Nat
  OBVIOUS
<1> HIDE DEF p
<1>2. PagesOf(r) = p .. p + size - 1 /\ r = [start |-> p, end |-> p + size]
  <2>1. r = [start |-> p, end |-> p + size] /\ r.start = p /\ r.end = p + size
    BY DEF VMRange
  <2> HIDE DEF r
  <2>2. QED
    BY <1>0, <2>1 DEF PagesOf
<1> HIDE DEF r
<1>3. Pages \ used' = (Pages \ used) \ (p .. p + size - 1)
  BY <1>1, <1>2
<1>4. Promise!Take(p, size)
  BY <1>1, <1>2, <1>3 DEF Promise!Take, Promise!Run, Pages
<1>5. QED
  BY <1>4 DEF p

LEMMA LowestTaken ==
    ASSUME FreeListExact, NEW size \in Sizes, NEW align \in Aligns, NEW addr \in Addresses,
           find_free_range_internal(size, align, addr),
           LowestOf(Found(list, size, align, addr), StartsIn(list, size, align))
    PROVE  Promise!Lowest(size, align)
<1> DEFINE f == Found(list, size, align, addr)
           S == Promise!Starts(size, align)
           low == CHOOSE p \in S : \A q \in S : p <= q
<1>1. LowestOf(f, S)
  BY SameStarts
<1>2. \A p \in S : p \in Nat
  BY DEF Promise!Starts
<1>3. CASE f.index = 0
  <2>1. S = {}
    BY <1>1, <1>3 DEF LowestOf
  <2>2. Promise!Refuse
    BY <1>3, Refused
  <2>3. QED
    BY <2>1, <2>2 DEF Promise!Lowest
<1>4. CASE f.index # 0
  <2>1. f.start \in S /\ \A q \in S : f.start <= q
    BY <1>1, <1>4 DEF LowestOf
  <2>2. Promise!Take(f.start, size)
    BY <2>1, <1>2, <1>4, Taken, RequestsAssumption
  <2>3. f.start = low
    <3> HIDE DEF f, S
    <3>1. low \in S /\ \A q \in S : low <= q
      BY <2>1, Zenon
    <3> HIDE DEF low
    <3>2. low <= f.start /\ f.start <= low /\ low \in Nat /\ f.start \in Nat
      BY <2>1, <3>1, <1>2
    <3>3. QED
      BY <3>2
  <2>4. S # {}
    BY <2>1
  <2>5. Promise!Take(low, size)
    BY <2>2, <2>3
  <2>6. QED
    BY <2>4, <2>5 DEF Promise!Lowest
<1>5. QED
  BY <1>3, <1>4

LEMMA FindRefines ==
    ASSUME FreeListExact, NEW size \in Sizes, NEW align \in Aligns, NEW addr \in Addresses,
           find_free_range_internal(size, align, addr)
    PROVE  Promise!Next
<1> DEFINE f == Found(list, size, align, addr)
           S == StartsIn(list, size, align)
<1>1. list \in Seq(NonEmptyRanges) /\ Separated(list)
  BY CanonicalSeparated DEF FreeListExact, TypeOK
<1>2. size \in Nat \ {0} /\ align \in Nat \ {0}
  BY RequestsAssumption
<1>3. Answers(f, addr, align, S)
  BY <1>1, <1>2, FoundExact
<1>4. addr \in [kind : {"any", "hint", "need"}, page : 0 .. NumPages - 1]
  BY NumPagesAssumption DEF Addresses, AnyAddr, Pages
<1>5. S = Promise!Starts(size, align)
  BY SameStarts
<1>6. LowestOf(f, S) => Promise!Lowest(size, align)
  BY LowestTaken
<1>7. f.index = 0 => Promise!Refuse
  BY Refused
<1>8. f.index # 0 => Promise!Take(f.start, size)
  BY <1>1, <1>2, FoundExact, Taken DEF FoundIn
<1> HIDE DEF f, S
<1>9. Promise!Allocate(size, align, addr)
  <2>1. CASE addr.kind = "any"
    BY <2>1, <1>3, <1>6 DEF Answers, Promise!Allocate
  <2>2. CASE addr.kind # "any" /\ addr.page \in S
    BY <2>2, <1>3, <1>5, <1>8 DEF Answers, Promise!Allocate
  <2>3. CASE addr.kind = "hint" /\ addr.page \notin S /\ addr.page % align = 0
    BY <2>3, <1>3, <1>5, <1>6 DEF Answers, Promise!Allocate
  <2>4. CASE addr.kind = "hint" /\ addr.page \notin S /\ addr.page % align # 0
    BY <2>4, <1>3, <1>7 DEF Answers, Promise!Allocate
  <2>5. CASE addr.kind = "need" /\ addr.page \notin S
    BY <2>5, <1>3, <1>5, <1>7 DEF Answers, Promise!Allocate
  <2>6. addr.kind \in {"any", "hint", "need"}
    BY <1>4
  <2>7. QED
    BY <2>1, <2>2, <2>3, <2>4, <2>5, <2>6
<1>10. QED
  BY <1>4, <1>9 DEF Promise!Next

LEMMA GiveBackRefines ==
    ASSUME FreeListExact, NEW r \in NonEmptyRanges, GiveBack(r)
    PROVE  Promise!Next
<1> DEFINE page == r.start
           size == r.end - r.start
<1>1. /\ PagesOf(r) \subseteq used /\ used' = used \ PagesOf(r) /\ reply' = r
      /\ used \subseteq Pages
  BY DEF GiveBack, FreeListExact, TypeOK
<1>2. r.start \in Nat /\ r.end \in Nat /\ r.start < r.end /\ r.end <= NumPages
  BY RangeBounds
<1>3. page \in 0 .. NumPages - 1 /\ size \in 1 .. NumPages /\ page + size = r.end
  BY <1>2, NumPagesAssumption
<1>4. PagesOf(r) = page .. page + size - 1
  BY <1>3 DEF PagesOf
<1>5. reply' = [start |-> page, end |-> page + size]
  BY <1>1, <1>3 DEF NonEmptyRanges
<1> HIDE DEF page, size
<1>6. /\ (page .. page + size - 1) \cap (Pages \ used) = {}
      /\ page .. page + size - 1 \subseteq Pages
      /\ Pages \ used' = (Pages \ used) \cup (page .. page + size - 1)
  BY <1>1, <1>4
<1>7. Promise!Release(page, size)
  BY <1>5, <1>6 DEF Promise!Release, Promise!Run, Pages
<1>8. QED
  BY <1>3, <1>7 DEF Promise!Next

\* The free list is an allocator of aligned page runs: a request is answered with the lowest
\* run that satisfies it, or with the page it asks for, and an error means that no such run
\* exists, for every number of pages, set of sizes and set of alignments.
THEOREM FreeListRefines == Spec => ImplementsPageAllocator
<1>1. Init => Promise!Init
  <2> SUFFICES ASSUME Init PROVE Promise!Init
    OBVIOUS
  <2>1. used = {} /\ reply = VMRange(0, 0)
    BY DEF Init, NoRange
  <2>2. Pages \ used = 0 .. NumPages - 1
    BY <2>1 DEF Pages
  <2>3. QED
    BY <2>1, <2>2 DEF Promise!Init, Promise!NoRange, VMRange
<1>2. FreeListExact /\ [Next]_vars => [Promise!Next]_<<Pages \ used, reply>>
  <2> SUFFICES ASSUME FreeListExact, [Next]_vars PROVE [Promise!Next]_<<Pages \ used, reply>>
    OBVIOUS
  <2>1. CASE Next
    BY <2>1, FindRefines, GiveBackRefines DEF Next
  <2>2. CASE UNCHANGED vars
    BY <2>2 DEF vars, Pages
  <2>3. QED
    BY <2>1, <2>2
<1>3. QED
  BY <1>1, <1>2, FreeListSafe, PTL DEF Spec, ImplementsPageAllocator, Promise!Spec
=============================================================================
