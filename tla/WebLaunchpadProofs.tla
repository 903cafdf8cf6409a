------------------------- MODULE WebLaunchpadProofs -------------------------
(***************************************************************************)
(* What MCWebLaunchpad checks of the navigation page - its locks, its      *)
(* sorting and the truth of what it shows - for any tabs, groups, sites    *)
(* and bounds.                                                             *)
(***************************************************************************)
EXTENDS MCWebLaunchpad, FiniteSetTheorems, SequenceTheorems, WellFoundedInduction, TLAPS

-----------------------------------------------------------------------------
(* Rows in their order.  A row comes before another by its place, and by   *)
(* its title (the number of its site) among those of equal place.          *)

Unique(rows) == \A r, q \in rows : r.site = q.site => r = q
Rows == {q \in Seq(Row) : IsInjective(SitesOf(q))}
InOrder(q) == \A i, j \in DOMAIN q : i < j => Before(q[i], q[j])

LEMMA LeastNat ==
    ASSUME NEW T \in SUBSET Nat, T # {}
    PROVE  \E m \in T : \A n \in T : m <= n
<1> DEFINE Segments == {0..n : n \in T}
           R == StrictSubsetOrdering(Nat)
<1>1. Segments \subseteq FiniteSubsetsOf(Nat) /\ Segments # {}
  <2>1. ASSUME NEW n \in T PROVE 0..n \in FiniteSubsetsOf(Nat)
    <3>1. n \in Int /\ 0 \in Int /\ 0..n \subseteq Nat
      OBVIOUS
    <3>2. IsFiniteSet(0..n)
      BY <3>1, FS_Interval
    <3> QED
      BY <3>1, <3>2 DEF FiniteSubsetsOf
  <2> QED
    BY <2>1
<1>2. IsWellFoundedOn(R, FiniteSubsetsOf(Nat))
  BY FS_StrictSubsetOrderingWellFounded
<1> HIDE DEF Segments, R
<1>3. \E x \in Segments : \A y \in Segments : ~(<<y, x>> \in R)
  BY <1>1, <1>2, WFMin
<1>4. PICK m \in T : \A y \in Segments : ~(<<y, 0..m>> \in R)
  BY <1>3 DEF Segments
<1>5. ASSUME NEW n \in T, n < m PROVE FALSE
  <2>1. n \in Nat /\ m \in Nat
    OBVIOUS
  <2>2. 0..n \in Segments /\ 0..n \subseteq 0..m /\ 0..n \subseteq Nat /\ 0..m \subseteq Nat
    BY <1>5, <2>1 DEF Segments
  <2>3. m \in 0..m /\ m \notin 0..n
    BY <1>5, <2>1
  <2> QED
    BY <1>4, <2>2, <2>3 DEF R, StrictSubsetOrdering
<1> QED
  BY <1>5

LEMMA RowFacts ==
    /\ MaxSites \in Nat /\ Sites \subseteq Nat /\ 0 \notin Sites
    /\ \A r \in Row : r.site \in Sites /\ r.site \in Nat /\ r.place \in Nat /\ r.place <= MaxSites
                      /\ r = [site |-> r.site, place |-> r.place]
    /\ \A s \in Sites, k \in 0..MaxSites : [site |-> s, place |-> k] \in Row
  BY WebLaunchpadAssumption DEF Sites, Row

LEMMA BeforeIsTotal ==
    \A a, b \in Row :
        /\ ~(Before(a, b) /\ Before(b, a))
        /\ ~Before(a, a)
        /\ a.site # b.site => Before(a, b) \/ Before(b, a)
  BY RowFacts DEF Before

LEMMA BeforeIsTransitive ==
    \A a, b, c \in Row : Before(a, b) /\ Before(b, c) => Before(a, c)
  BY RowFacts DEF Before

LEMMA RowsAreFinite ==
    ASSUME NEW S \in SUBSET Row PROVE IsFiniteSet(S) /\ Cardinality(S) \in Nat
<1>1. 1 \in Int /\ 0 \in Int /\ MaxSites \in Int
  BY RowFacts
<1>2. IsFiniteSet(1..MaxSites) /\ IsFiniteSet(0..MaxSites)
  BY <1>1, FS_Interval
<1>3. IsFiniteSet((1..MaxSites) \X (0..MaxSites))
  BY <1>2, FS_Product
<1> DEFINE f == [r \in Row |-> <<r.site, r.place>>]
<1>4. f \in [Row -> (1..MaxSites) \X (0..MaxSites)]
  BY DEF Row, Sites
<1>5. ASSUME NEW a \in Row, NEW b \in Row, f[a] = f[b] PROVE a = b
  <2>1. a.site = b.site /\ a.place = b.place
    BY <1>5
  <2> QED
    BY <2>1, RowFacts
<1>6. f \in Injection(Row, (1..MaxSites) \X (0..MaxSites))
  BY <1>4, <1>5 DEF Injection, IsInjective
<1>7. IsFiniteSet(Row)
  BY <1>3, <1>6, FS_Injection
<1>8. IsFiniteSet(S)
  BY <1>7, FS_Subset
<1> QED
  BY <1>8, FS_CardinalityType

(* A row can be put where it belongs among rows in order.                  *)
LEMMA Insertion ==
    ASSUME NEW S \in SUBSET Row, Unique(S), NEW r \in S,
           NEW q \in SetToSeqs(S \ {r}), InOrder(q)
    PROVE  \E p \in SetToSeqs(S) : InOrder(p)
<1> DEFINE n == Cardinality(S \ {r})
           K == {k \in 0..n : \A i \in 1..n : k < i => Before(r, q[i])}
<1>1. IsFiniteSet(S) /\ IsFiniteSet(S \ {r}) /\ n \in Nat /\ Cardinality(S) = n + 1
  <2>1. IsFiniteSet(S) /\ IsFiniteSet(S \ {r}) /\ n \in Nat /\ Cardinality(S) \in Nat
    BY RowsAreFinite
  <2>2. n = Cardinality(S) - 1
    BY <2>1, FS_RemoveElement
  <2> QED
    BY <2>1, <2>2
<1>2. q \in [1..n -> S \ {r}] /\ DOMAIN q = 1..n /\ \A i, j \in 1..n : i # j => q[i] # q[j]
  BY DEF SetToSeqs
<1>x. \A s \in S \ {r} : \E i \in 1..n : q[i] = s
  <2>1. q \in Injection(1..n, S \ {r})
    BY <1>2 DEF Injection, IsInjective
  <2>2. Cardinality(1..n) = n
    BY <1>1, FS_Interval
  <2>3. q \in Surjection(1..n, S \ {r})
    BY <2>1, <2>2, <1>1, FS_Injection
  <2> QED
    BY <2>3 DEF Surjection
<1> HIDE DEF n
<1>3. n \in K
  BY <1>1
<1>4. K \in SUBSET Nat /\ K # {}
  <2>1. K \subseteq 0..n /\ 0..n \subseteq Nat
    BY <1>1 DEF K
  <2> QED
    BY <2>1, <1>3
<1> HIDE DEF K
<1>5. PICK k \in K : \A m \in K : k <= m
  BY <1>4, LeastNat
<1>6. k \in 0..n /\ k \in Nat /\ \A i \in 1..n : k < i => Before(r, q[i])
  BY <1>1 DEF K
<1>r. \A i \in 1..n : q[i] \in Row /\ r \in Row
  BY <1>2
<1>7. k # 0 => Before(q[k], r)
  <2> SUFFICES ASSUME k # 0, ~Before(q[k], r) PROVE FALSE
    OBVIOUS
  <2>1. k \in 1..n /\ k - 1 \in 0..n /\ ~(k <= k - 1)
    BY <1>6, <1>1
  <2>2. q[k] \in S /\ q[k] # r /\ q[k] \in Row /\ r \in Row
    BY <1>2, <2>1
  <2>3. Before(r, q[k])
    BY <2>2, BeforeIsTotal DEF Unique
  <2>4. k - 1 \in K
    <3> SUFFICES ASSUME NEW i \in 1..n, k - 1 < i PROVE Before(r, q[i])
      BY <2>1 DEF K
    <3>1. i = k \/ k < i
      BY <1>6, <1>1
    <3> QED
      BY <3>1, <2>3, <1>6
  <2> QED
    BY <2>1, <2>4, <1>5
<1>8. \A i \in 1..n : i <= k => Before(q[i], r)
  <2> SUFFICES ASSUME NEW i \in 1..n, i <= k PROVE Before(q[i], r)
    OBVIOUS
  <2>1. k # 0 /\ k \in 1..n /\ (i = k \/ i < k)
    BY <1>6, <1>1
  <2>2. i < k => Before(q[i], q[k])
    BY <2>1, <1>2 DEF InOrder
  <2> QED
    BY <2>1, <2>2, <1>7, <1>r, BeforeIsTransitive
<1> DEFINE p == [i \in 1..(n + 1) |-> IF i <= k THEN q[i] ELSE IF i = k + 1 THEN r ELSE q[i - 1]]
<1>9. ASSUME NEW i \in 1..(n + 1)
      PROVE  \/ i <= k /\ i \in 1..n /\ p[i] = q[i]
             \/ i = k + 1 /\ p[i] = r
             \/ i > k + 1 /\ i - 1 \in 1..n /\ k < i - 1 /\ p[i] = q[i - 1]
  BY <1>6, <1>1
<1>10. ASSUME NEW i \in 1..(n + 1), NEW j \in 1..(n + 1), i < j
       PROVE  p[i] # p[j] /\ Before(p[i], p[j])
  <2>n. n \in Nat /\ k \in Nat /\ i \in Nat /\ j \in Nat
    BY <1>1, <1>6
  <2>1. CASE i <= k /\ i \in 1..n /\ p[i] = q[i]
    <3>1. CASE j <= k /\ j \in 1..n /\ p[j] = q[j]
      BY <1>10, <2>1, <3>1, <1>2, <2>n DEF InOrder
    <3>2. CASE j = k + 1 /\ p[j] = r
      BY <2>1, <3>2, <1>8, <1>2
    <3>3. CASE j > k + 1 /\ j - 1 \in 1..n /\ k < j - 1 /\ p[j] = q[j - 1]
      <4>1. i < j - 1
        BY <2>1, <3>3, <2>n
      <4> QED
        BY <4>1, <2>1, <3>3, <1>2, <2>n DEF InOrder
    <3> QED
      BY <3>1, <3>2, <3>3, <1>9
  <2>2. CASE i = k + 1 /\ p[i] = r
    <3>1. j > k + 1 /\ j - 1 \in 1..n /\ k < j - 1 /\ p[j] = q[j - 1]
      BY <1>9, <1>10, <2>2, <2>n
    <3> QED
      BY <2>2, <3>1, <1>6, <1>2
  <2>3. CASE i > k + 1 /\ i - 1 \in 1..n /\ k < i - 1 /\ p[i] = q[i - 1]
    <3>1. j > k + 1 /\ j - 1 \in 1..n /\ k < j - 1 /\ p[j] = q[j - 1]
      BY <1>9, <1>10, <2>3, <2>n
    <3>2. i - 1 < j - 1 /\ i - 1 # j - 1
      BY <1>10, <2>n
    <3> QED
      BY <2>3, <3>1, <3>2, <1>2 DEF InOrder
  <2> QED
    BY <2>1, <2>2, <2>3, <1>9
<1>11. p \in [1..(n + 1) -> S] /\ DOMAIN p = 1..(n + 1)
  <2>1. \A i \in 1..(n + 1) : p[i] \in S
    BY <1>9, <1>2
  <2> QED
    BY <2>1
<1>12. \A i, j \in 1..(n + 1) : i # j => p[i] # p[j]
  <2> SUFFICES ASSUME NEW i \in 1..(n + 1), NEW j \in 1..(n + 1), i # j PROVE p[i] # p[j]
    OBVIOUS
  <2>1. i < j \/ j < i
    BY <1>1
  <2> QED
    BY <2>1, <1>10
<1> HIDE DEF p
<1>13. p \in SetToSeqs(S)
  BY <1>11, <1>12, <1>1 DEF SetToSeqs
<1>14. InOrder(p)
  BY <1>10, <1>11 DEF InOrder
<1> QED
  BY <1>13, <1>14

LEMMA SortedExists ==
    ASSUME NEW S \in SUBSET Row, Unique(S)
    PROVE  \E q \in SetToSeqs(S) : InOrder(q)
<1> DEFINE Bad == {T \in SUBSET Row : Unique(T) /\ ~\E q \in SetToSeqs(T) : InOrder(q)}
           R == StrictSubsetOrdering(Row)
<1>1. Bad \subseteq FiniteSubsetsOf(Row)
  BY RowsAreFinite DEF FiniteSubsetsOf
<1>2. IsWellFoundedOn(R, FiniteSubsetsOf(Row))
  BY FS_StrictSubsetOrderingWellFounded
<1> SUFFICES ASSUME S \in Bad PROVE FALSE
  OBVIOUS
<1> HIDE DEF R, Bad
<1>3. \E x \in Bad : \A y \in Bad : ~(<<y, x>> \in R)
  BY <1>1, <1>2, WFMin
<1>4. PICK T \in Bad : \A y \in Bad : ~(<<y, T>> \in R)
  BY <1>3
<1>5. T \in SUBSET Row /\ Unique(T) /\ ~\E q \in SetToSeqs(T) : InOrder(q)
  BY DEF Bad
<1>6. T # {}
  <2> SUFFICES ASSUME T = {} PROVE FALSE
    OBVIOUS
  <2>1. Cardinality(T) = 0 /\ 1..0 = {}
    BY FS_EmptySet
  <2>2. <<>> \in [1..0 -> T] /\ DOMAIN <<>> = {}
    BY <2>1
  <2>3. <<>> \in SetToSeqs(T)
    BY <2>1, <2>2 DEF SetToSeqs
  <2> QED
    BY <2>2, <2>3, <1>5 DEF InOrder
<1>7. PICK r \in T : TRUE
  BY <1>6
<1>8. T \ {r} \in SUBSET Row /\ Unique(T \ {r}) /\ <<T \ {r}, T>> \in R
  BY <1>5 DEF Unique, R, StrictSubsetOrdering
<1>9. T \ {r} \notin Bad
  BY <1>4, <1>8
<1>10. PICK q \in SetToSeqs(T \ {r}) : InOrder(q)
  BY <1>8, <1>9 DEF Bad
<1> QED
  BY <1>5, <1>10, Insertion

(* What Sorted gives: the rows, each once, in order.                       *)
LEMMA SortedRows ==
    ASSUME NEW S \in SUBSET Row, Unique(S)
    PROVE  /\ Sorted(S) \in Rows /\ ToSet(Sorted(S)) = S
           /\ S = {} => Sorted(S) = <<>>
<1> DEFINE q == Sorted(S)
           n == Cardinality(S)
<1>1. q \in SetToSeqs(S) /\ InOrder(q)
  BY SortedExists DEF Sorted, InOrder
<1> HIDE DEF q
<1>2. n \in Nat /\ IsFiniteSet(S)
  BY RowsAreFinite
<1>3. q \in [1..n -> S] /\ DOMAIN q = 1..n /\ \A i, j \in 1..n : i # j => q[i] # q[j]
  BY <1>1 DEF SetToSeqs
<1>4. \A s \in S : \E i \in 1..n : q[i] = s
  <2>1. q \in Injection(1..n, S)
    BY <1>3 DEF Injection, IsInjective
  <2>2. Cardinality(1..n) = n
    BY <1>2, FS_Interval
  <2>3. q \in Surjection(1..n, S)
    BY <2>1, <2>2, <1>2, FS_Injection
  <2> QED
    BY <2>3 DEF Surjection
<1> HIDE DEF n
<1>5. q \in Seq(Row)
  BY <1>2, <1>3, SeqDef
<1>6. IsInjective(SitesOf(q))
  BY <1>3 DEF SitesOf, IsInjective, Unique
<1>7. ToSet(q) = S
  BY <1>3, <1>4 DEF ToSet
<1>8. S = {} => q = <<>>
  <2> SUFFICES ASSUME S = {} PROVE q = <<>>
    OBVIOUS
  <2>1. n = 0
    BY FS_EmptySet DEF n
  <2> QED
    BY <2>1, <1>3
<1> QED
  BY <1>5, <1>6, <1>7, <1>8 DEF Rows, q

(* What the server sends of an unlocked group, in whatever order.          *)
LEMMA ByPlaceRows ==
    ASSUME NEW S \in SUBSET Row, Unique(S), NEW q \in ByPlace(S)
    PROVE  q \in Rows /\ ToSet(q) = S
<1> DEFINE n == Cardinality(S)
<1>1. q \in SetToSeqs(S)
  BY DEF ByPlace
<1>2. n \in Nat /\ IsFiniteSet(S)
  BY RowsAreFinite
<1>3. q \in [1..n -> S] /\ DOMAIN q = 1..n /\ \A i, j \in 1..n : i # j => q[i] # q[j]
  BY <1>1 DEF SetToSeqs
<1>4. \A s \in S : \E i \in 1..n : q[i] = s
  <2>1. q \in Injection(1..n, S)
    BY <1>3 DEF Injection, IsInjective
  <2>2. Cardinality(1..n) = n
    BY <1>2, FS_Interval
  <2>3. q \in Surjection(1..n, S)
    BY <2>1, <2>2, <1>2, FS_Injection
  <2> QED
    BY <2>3 DEF Surjection
<1> HIDE DEF n
<1>5. q \in Seq(Row)
  BY <1>2, <1>3, SeqDef
<1>6. IsInjective(SitesOf(q))
  BY <1>3 DEF SitesOf, IsInjective, Unique
<1> QED
  BY <1>3, <1>4, <1>5, <1>6 DEF Rows, ToSet

LEMMA RowsFacts ==
    ASSUME NEW q \in Rows
    PROVE  /\ q \in Seq(Row) /\ Len(q) \in Nat /\ DOMAIN q = 1..Len(q)
           /\ \A i \in 1..Len(q) : q[i] \in Row /\ q[i] \in ToSet(q)
           /\ \A i, j \in 1..Len(q) : q[i].site = q[j].site => i = j
           /\ ToSet(q) \in SUBSET Row /\ Unique(ToSet(q))
           /\ DOMAIN SitesOf(q) = 1..Len(q) /\ \A i \in 1..Len(q) : SitesOf(q)[i] = q[i].site
           /\ q = <<>> <=> ToSet(q) = {}
           /\ Len(q) <= MaxSites
<1>1. q \in Seq(Row) /\ Len(q) \in Nat /\ DOMAIN q = 1..Len(q) /\ \A i \in 1..Len(q) : q[i] \in Row
  BY DEF Rows
<1>2. DOMAIN SitesOf(q) = 1..Len(q) /\ \A i \in 1..Len(q) : SitesOf(q)[i] = q[i].site
  BY <1>1 DEF SitesOf
<1>3. \A i, j \in 1..Len(q) : q[i].site = q[j].site => i = j
  BY <1>2 DEF Rows, IsInjective
<1>4. ToSet(q) = {q[i] : i \in 1..Len(q)}
  BY <1>1 DEF ToSet
<1>5. Unique(ToSet(q))
  BY <1>3, <1>4 DEF Unique
<1>6. q = <<>> <=> ToSet(q) = {}
  <2>1. q = <<>> => Len(q) = 0
    OBVIOUS
  <2>2. Len(q) = 0 => q = <<>>
    BY <1>1
  <2>3. Len(q) = 0 <=> ToSet(q) = {}
    BY <1>1, <1>4
  <2> QED
    BY <2>1, <2>2, <2>3
<1>7. Len(q) <= MaxSites
  <2>1. MaxSites \in Int /\ 1 \in Int /\ Len(q) \in Int /\ MaxSites \in Nat
    BY RowFacts, <1>1
  <2>2. IsFiniteSet(1..MaxSites) /\ Cardinality(1..MaxSites) = MaxSites /\ Cardinality(1..Len(q)) = Len(q)
    <3>1. /\ IsFiniteSet(1..MaxSites)
          /\ Cardinality(1..MaxSites) = IF 1 > MaxSites THEN 0 ELSE MaxSites - 1 + 1
      BY <2>1, FS_Interval
    <3>2. Cardinality(1..Len(q)) = IF 1 > Len(q) THEN 0 ELSE Len(q) - 1 + 1
      BY <2>1, FS_Interval
    <3> QED
      BY <3>1, <3>2, <2>1, <1>1
  <2>3. SitesOf(q) \in [1..Len(q) -> 1..MaxSites]
    <3>1. \A i \in 1..Len(q) : q[i].site \in 1..MaxSites
      BY <1>1, RowFacts DEF Sites
    <3> QED
      BY <3>1, <1>1 DEF SitesOf
  <2>4. SitesOf(q) \in Injection(1..Len(q), 1..MaxSites)
    BY <2>3 DEF Injection, Rows
  <2> QED
    BY <2>2, <2>4, FS_Injection
<1>8. ToSet(q) \in SUBSET Row /\ \A i \in 1..Len(q) : q[i] \in ToSet(q)
  BY <1>1, <1>4
<1> QED
  BY <1>1, <1>2, <1>3, <1>5, <1>6, <1>7, <1>8

LEMMA NoRows == <<>> \in Rows /\ ToSet(<<>>) = {} /\ \A s : Without(<<>>, s) = <<>>
<1>1. <<>> \in Seq(Row) /\ DOMAIN <<>> = {}
  OBVIOUS
<1>2. DOMAIN SitesOf(<<>>) = {}
  BY <1>1 DEF SitesOf
<1>3. ToSet(<<>>) = {} /\ ToSet(SitesOf(<<>>)) = {}
  BY <1>1, <1>2 DEF ToSet
<1> QED
  BY <1>1, <1>2, <1>3 DEF Rows, IsInjective, Without

LEMMA OneRow ==
    ASSUME NEW r \in Row PROVE <<r>> \in Rows /\ ToSet(<<r>>) = {r}
<1>1. <<r>> \in Seq(Row) /\ DOMAIN <<r>> = {1} /\ <<r>>[1] = r
  OBVIOUS
<1> QED
  BY <1>1 DEF Rows, ToSet, IsInjective, SitesOf

(* A row taken out of an array, by its index.                              *)
LEMMA Removed ==
    ASSUME NEW q \in Seq(Row), NEW k \in 1..Len(q)
    PROVE  LET r == RemoveAt(q, k)
           IN /\ r \in Seq(Row) /\ Len(r) = Len(q) - 1
              /\ \A i \in 1..Len(r) : r[i] = IF i < k THEN q[i] ELSE q[i + 1]
<1> DEFINE a == SubSeq(q, 1, k - 1)
           b == SubSeq(q, k + 1, Len(q))
<1>1. Len(q) \in Nat /\ k \in Nat /\ k - 1 \in Int /\ k + 1 \in Int /\ 1 \in Int /\ Len(q) \in Int
      /\ \A i \in 1..Len(q) : q[i] \in Row
  OBVIOUS
<1>2. a \in Seq(Row) /\ Len(a) = k - 1 /\ \A i \in 1..(k - 1) : a[i] = q[i]
  <2>1. \A i \in 1..(k - 1) : q[i] \in Row
    BY <1>1
  <2>2. /\ a \in Seq(Row)
        /\ Len(a) = IF 1 <= k - 1 THEN (k - 1) - 1 + 1 ELSE 0
        /\ \A i \in 1..((k - 1) - 1 + 1) : a[i] = q[1 + i - 1]
    BY <2>1, <1>1, SubSeqProperties
  <2> HIDE DEF a
  <2>3. \A i \in 1..(k - 1) : 1 + i - 1 = i
    OBVIOUS
  <2> QED
    BY <2>2, <2>3, <1>1
<1>3. b \in Seq(Row) /\ Len(b) = Len(q) - k /\ \A i \in 1..(Len(q) - k) : b[i] = q[k + i]
  <2>1. \A i \in (k + 1)..Len(q) : q[i] \in Row
    BY <1>1
  <2>2. /\ b \in Seq(Row)
        /\ Len(b) = IF k + 1 <= Len(q) THEN Len(q) - (k + 1) + 1 ELSE 0
        /\ \A i \in 1..(Len(q) - (k + 1) + 1) : b[i] = q[k + 1 + i - 1]
    BY <2>1, <1>1, SubSeqProperties
  <2> HIDE DEF b
  <2>3. \A i \in 1..(Len(q) - k) : k + 1 + i - 1 = k + i
    BY <1>1
  <2> QED
    BY <2>2, <2>3, <1>1
<1> HIDE DEF a, b
<1>4. /\ a \o b \in Seq(Row) /\ Len(a \o b) = Len(a) + Len(b)
      /\ \A i \in 1..(Len(a) + Len(b)) : (a \o b)[i] = IF i <= Len(a) THEN a[i] ELSE b[i - Len(a)]
  BY <1>2, <1>3, ConcatProperties
<1>5. RemoveAt(q, k) = a \o b
  BY DEF RemoveAt, a, b
<1>6. ASSUME NEW i \in 1..(Len(q) - 1)
      PROVE  (a \o b)[i] = IF i < k THEN q[i] ELSE q[i + 1]
  <2>1. Len(a) + Len(b) = Len(q) - 1 /\ i \in Nat
    BY <1>1, <1>2, <1>3
  <2>2. CASE i < k
    BY <2>1, <2>2, <1>1, <1>2, <1>4
  <2>3. CASE ~(i < k)
    <3>1. i - (k - 1) \in 1..(Len(q) - k) /\ k + (i - (k - 1)) = i + 1 /\ ~(i <= k - 1)
      BY <2>3, <1>1
    <3>2. (a \o b)[i] = b[i - (k - 1)]
      BY <3>1, <2>1, <1>2, <1>4
    <3> QED
      BY <3>1, <3>2, <2>3, <1>3
  <2> QED
    BY <2>2, <2>3
<1> QED
  BY <1>1, <1>2, <1>3, <1>4, <1>5, <1>6

LEMMA WithoutRows ==
    ASSUME NEW q \in Rows, NEW s
    PROVE  Without(q, s) \in Rows /\ ToSet(Without(q, s)) = {r \in ToSet(q) : r.site # s}
<1>0. /\ q \in Seq(Row) /\ Len(q) \in Nat /\ DOMAIN q = 1..Len(q)
      /\ \A i \in 1..Len(q) : q[i] \in Row
      /\ \A i, j \in 1..Len(q) : q[i].site = q[j].site => i = j
      /\ DOMAIN SitesOf(q) = 1..Len(q) /\ \A i \in 1..Len(q) : SitesOf(q)[i] = q[i].site
  BY RowsFacts
<1>1. ToSet(q) = {q[i] : i \in 1..Len(q)} /\ ToSet(SitesOf(q)) = {q[i].site : i \in 1..Len(q)}
  BY <1>0 DEF ToSet
<1>2. CASE s \notin ToSet(SitesOf(q))
  <2>1. Without(q, s) = q
    BY <1>2 DEF Without
  <2> QED
    BY <2>1, <1>1, <1>2
<1>3. CASE s \in ToSet(SitesOf(q))
  <2> DEFINE k == CHOOSE i \in DOMAIN q : q[i].site = s
             r == RemoveAt(q, k)
  <2>1. k \in 1..Len(q) /\ q[k].site = s
    BY <1>3, <1>0, <1>1
  <2>2. Without(q, s) = r
    BY <1>3 DEF Without
  <2> HIDE DEF k
  <2>3. /\ r \in Seq(Row) /\ Len(r) = Len(q) - 1
        /\ \A i \in 1..Len(r) : r[i] = IF i < k THEN q[i] ELSE q[i + 1]
    BY <2>1, <1>0, Removed
  <2> HIDE DEF r
  <2>4. Len(r) \in Nat /\ DOMAIN r = 1..Len(r) /\ k \in Nat
    BY <2>1, <2>3, <1>0
  <2>5. \A i \in 1..Len(r) : i < k => i \in 1..Len(q) /\ r[i] = q[i] /\ i # k
    BY <2>1, <2>3, <2>4, <1>0
  <2>6. \A i \in 1..Len(r) : ~(i < k) => i + 1 \in 1..Len(q) /\ r[i] = q[i + 1] /\ i + 1 # k
    BY <2>1, <2>3, <2>4, <1>0
  <2>7. ASSUME NEW i \in 1..Len(r), NEW j \in 1..Len(r), r[i].site = r[j].site PROVE i = j
    <3>1. i \in Nat /\ j \in Nat
      BY <2>4
    <3>2. CASE i < k /\ j < k
      BY <3>2, <2>5, <2>7, <1>0
    <3>3. CASE ~(i < k) /\ ~(j < k)
      <4>1. i + 1 = j + 1
        BY <3>3, <2>6, <2>7, <1>0
      <4> QED
        BY <4>1, <3>1
    <3>4. CASE i < k /\ ~(j < k)
      <4>1. i = j + 1
        BY <3>4, <2>5, <2>6, <2>7, <1>0
      <4> QED
        BY <4>1, <3>1, <3>4, <2>4
    <3>5. CASE ~(i < k) /\ j < k
      <4>1. i + 1 = j
        BY <3>5, <2>5, <2>6, <2>7, <1>0
      <4> QED
        BY <4>1, <3>1, <3>5, <2>4
    <3> QED
      BY <3>2, <3>3, <3>4, <3>5
  <2>8. r \in Rows
    BY <2>3, <2>4, <2>7 DEF Rows, IsInjective, SitesOf
  <2>9. ToSet(r) = {x \in ToSet(q) : x.site # s}
    <3>1. ASSUME NEW i \in 1..Len(r) PROVE r[i] \in {x \in ToSet(q) : x.site # s}
      <4>1. CASE i < k
        BY <4>1, <2>1, <2>5, <1>0, <1>1
      <4>2. CASE ~(i < k)
        BY <4>2, <2>1, <2>6, <1>0, <1>1
      <4> QED
        BY <4>1, <4>2
    <3>2. ASSUME NEW i \in 1..Len(q), q[i].site # s PROVE \E j \in 1..Len(r) : r[j] = q[i]
      <4>1. i # k /\ i \in Nat
        BY <3>2, <2>1
      <4>2. CASE i < k
        <5>1. i \in 1..Len(r)
          BY <4>2, <2>1, <2>3, <1>0
        <5> QED
          BY <4>2, <5>1, <2>5
      <4>3. CASE i > k
        <5>1. i - 1 \in 1..Len(r) /\ ~(i - 1 < k) /\ (i - 1) + 1 = i
          BY <4>1, <4>3, <2>1, <2>3, <2>4, <1>0
        <5> QED
          BY <5>1, <2>6
      <4> QED
        BY <4>1, <4>2, <4>3, <2>4
    <3>3. ToSet(r) = {r[i] : i \in 1..Len(r)}
      BY <2>4 DEF ToSet
    <3>4. ASSUME NEW x \in ToSet(q), x.site # s PROVE x \in ToSet(r)
      <4>1. PICK i \in 1..Len(q) : x = q[i]
        BY <1>1
      <4> QED
        BY <4>1, <3>2, <3>3, <3>4
    <3> QED
      BY <3>1, <3>3, <3>4
  <2> QED
    BY <2>2, <2>8, <2>9
<1> QED
  BY <1>2, <1>3

(* The array of a group with the saved site behind the others.             *)
LEMMA AppendedRows ==
    ASSUME NEW q \in Rows, NEW r \in Row, \A x \in ToSet(q) : x.site # r.site
    PROVE  q \o <<r>> \in Rows /\ ToSet(q \o <<r>>) = ToSet(q) \cup {r}
<1>0. /\ q \in Seq(Row) /\ Len(q) \in Nat /\ DOMAIN q = 1..Len(q)
      /\ \A i \in 1..Len(q) : q[i] \in Row /\ q[i] \in ToSet(q)
      /\ \A i, j \in 1..Len(q) : q[i].site = q[j].site => i = j
  BY RowsFacts
<1>1. ToSet(q) = {q[i] : i \in 1..Len(q)}
  BY <1>0 DEF ToSet
<1> DEFINE p == q \o <<r>>
<1>2. /\ p \in Seq(Row) /\ Len(p) = Len(q) + 1
      /\ \A i \in 1..Len(q) : p[i] = q[i]
      /\ p[Len(q) + 1] = r
  <2>1. <<r>> \in Seq(Row) /\ Len(<<r>>) = 1 /\ <<r>>[1] = r
    OBVIOUS
  <2>2. /\ p \in Seq(Row) /\ Len(p) = Len(q) + 1
        /\ \A i \in 1..(Len(q) + 1) : p[i] = IF i <= Len(q) THEN q[i] ELSE <<r>>[i - Len(q)]
    BY <1>0, <2>1, ConcatProperties
  <2> QED
    BY <2>1, <2>2, <1>0
<1> HIDE DEF p
<1>3. DOMAIN p = 1..(Len(q) + 1)
  BY <1>2
<1>4. ToSet(p) = ToSet(q) \cup {r}
  BY <1>0, <1>1, <1>2, <1>3 DEF ToSet
<1>5. \A i, j \in 1..(Len(q) + 1) : p[i].site = p[j].site => i = j
  BY <1>0, <1>2
<1>6. p \in Rows
  BY <1>2, <1>3, <1>5 DEF Rows, IsInjective, SitesOf
<1> QED
  BY <1>4, <1>6 DEF p

(* A drag moves a row and numbers all of them.                             *)
SitesIn(rows) == {r.site : r \in rows}
Numbered(q) == \A k \in DOMAIN q : q[k].place = k
Moved(q, i, j) == InsertAt(RemoveAt(q, i), j, q[i])
Renumbered(q) == [k \in DOMAIN q |-> [q[k] EXCEPT !.place = k]]

LEMMA Inserted ==
    ASSUME NEW q \in Seq(Row), NEW k \in 1..(Len(q) + 1), NEW e \in Row
    PROVE  LET r == InsertAt(q, k, e)
           IN /\ r \in Seq(Row) /\ Len(r) = Len(q) + 1
              /\ \A i \in 1..Len(r) : r[i] = IF i < k THEN q[i] ELSE IF i = k THEN e ELSE q[i - 1]
<1> DEFINE a == SubSeq(q, 1, k - 1)
           b == SubSeq(q, k, Len(q))
           ae == a \o <<e>>
<1>1. Len(q) \in Nat /\ k \in Nat /\ k - 1 \in Int /\ k \in Int /\ 1 \in Int /\ Len(q) \in Int
      /\ \A i \in 1..Len(q) : q[i] \in Row
  OBVIOUS
<1>2. a \in Seq(Row) /\ Len(a) = k - 1 /\ \A i \in 1..(k - 1) : a[i] = q[i]
  <2>1. \A i \in 1..(k - 1) : q[i] \in Row
    BY <1>1
  <2>2. /\ a \in Seq(Row)
        /\ Len(a) = IF 1 <= k - 1 THEN (k - 1) - 1 + 1 ELSE 0
        /\ \A i \in 1..((k - 1) - 1 + 1) : a[i] = q[1 + i - 1]
    BY <2>1, <1>1, SubSeqProperties
  <2> HIDE DEF a
  <2>3. \A i \in 1..(k - 1) : 1 + i - 1 = i
    OBVIOUS
  <2> QED
    BY <2>2, <2>3, <1>1
<1>3. b \in Seq(Row) /\ Len(b) = Len(q) - k + 1 /\ \A i \in 1..(Len(q) - k + 1) : b[i] = q[k + i - 1]
  <2>1. \A i \in k..Len(q) : q[i] \in Row
    BY <1>1
  <2>2. /\ b \in Seq(Row)
        /\ Len(b) = IF k <= Len(q) THEN Len(q) - k + 1 ELSE 0
        /\ \A i \in 1..(Len(q) - k + 1) : b[i] = q[k + i - 1]
    BY <2>1, <1>1, SubSeqProperties
  <2> HIDE DEF b
  <2> QED
    BY <2>2, <1>1
<1> HIDE DEF a, b
<1>4. /\ ae \in Seq(Row) /\ Len(ae) = k
      /\ \A i \in 1..(k - 1) : ae[i] = q[i]
      /\ ae[k] = e
  <2>1. <<e>> \in Seq(Row) /\ Len(<<e>>) = 1 /\ <<e>>[1] = e
    OBVIOUS
  <2>2. /\ ae \in Seq(Row) /\ Len(ae) = Len(a) + Len(<<e>>)
        /\ \A i \in 1..(Len(a) + Len(<<e>>)) : ae[i] = IF i <= Len(a) THEN a[i] ELSE <<e>>[i - Len(a)]
    BY <1>2, <2>1, ConcatProperties
  <2> HIDE DEF ae
  <2>3. Len(a) + Len(<<e>>) = k /\ k - Len(a) = 1 /\ k \in 1..k /\ ~(k <= Len(a))
    BY <1>1, <1>2, <2>1
  <2>4. \A i \in 1..(k - 1) : i \in 1..k /\ i <= Len(a)
    BY <1>1, <1>2
  <2> QED
    BY <2>1, <2>2, <2>3, <2>4, <1>2
<1> HIDE DEF ae
<1>5. /\ ae \o b \in Seq(Row) /\ Len(ae \o b) = Len(ae) + Len(b)
      /\ \A i \in 1..(Len(ae) + Len(b)) : (ae \o b)[i] = IF i <= Len(ae) THEN ae[i] ELSE b[i - Len(ae)]
  BY <1>3, <1>4, ConcatProperties
<1>6. InsertAt(q, k, e) = ae \o b
  BY DEF InsertAt, ae, a, b
<1>7. ASSUME NEW i \in 1..(Len(q) + 1)
      PROVE  (ae \o b)[i] = IF i < k THEN q[i] ELSE IF i = k THEN e ELSE q[i - 1]
  <2>1. Len(ae) + Len(b) = Len(q) + 1 /\ i \in Nat
    BY <1>1, <1>3, <1>4
  <2>2. CASE i <= k
    BY <2>1, <2>2, <1>1, <1>4, <1>5
  <2>3. CASE i > k
    <3>1. i - k \in 1..(Len(q) - k + 1) /\ k + (i - k) - 1 = i - 1 /\ ~(i <= k)
      BY <2>3, <1>1
    <3>2. (ae \o b)[i] = b[i - k]
      BY <3>1, <2>1, <1>4, <1>5
    <3> QED
      BY <3>1, <3>2, <2>3, <1>3
  <2> QED
    BY <2>1, <2>2, <2>3, <1>1
<1> QED
  BY <1>1, <1>3, <1>4, <1>5, <1>6, <1>7

LEMMA MovedRows ==
    ASSUME NEW q \in Rows, NEW i \in 1..Len(q), NEW j \in 1..Len(q)
    PROVE  LET p == Renumbered(Moved(q, i, j))
           IN p \in Rows /\ SitesIn(ToSet(p)) = SitesIn(ToSet(q)) /\ Numbered(p)
<1>0. /\ q \in Seq(Row) /\ Len(q) \in Nat /\ DOMAIN q = 1..Len(q)
      /\ \A k \in 1..Len(q) : q[k] \in Row
      /\ \A k, l \in 1..Len(q) : q[k].site = q[l].site => k = l
      /\ Len(q) <= MaxSites
  BY RowsFacts
<1> DEFINE n == Len(q)
           r == RemoveAt(q, i)
           m == Moved(q, i, j)
           p == Renumbered(m)
           from(k) == IF k = j THEN i ELSE IF k < j THEN (IF k < i THEN k ELSE k + 1)
                                           ELSE (IF k - 1 < i THEN k - 1 ELSE k)
           to(k) == IF k = i THEN j ELSE IF k < i THEN (IF k < j THEN k ELSE k + 1)
                                         ELSE (IF k - 1 < j THEN k - 1 ELSE k)
<1>1. /\ r \in Seq(Row) /\ Len(r) = n - 1
      /\ \A k \in 1..Len(r) : r[k] = IF k < i THEN q[k] ELSE q[k + 1]
  BY <1>0, Removed
<1> HIDE DEF r
<1>2. /\ m \in Seq(Row) /\ Len(m) = n
      /\ \A k \in 1..n : m[k] = IF k < j THEN r[k] ELSE IF k = j THEN q[i] ELSE r[k - 1]
  <2>1. j \in 1..(Len(r) + 1) /\ q[i] \in Row /\ Len(r) + 1 = n
    BY <1>0, <1>1
  <2>2. m = InsertAt(r, j, q[i])
    BY DEF Moved, r
  <2> HIDE DEF m
  <2> DEFINE t == InsertAt(r, j, q[i])
  <2>a. /\ t \in Seq(Row) /\ Len(t) = Len(r) + 1
        /\ \A k \in 1..Len(t) : t[k] = IF k < j THEN r[k] ELSE IF k = j THEN q[i] ELSE r[k - 1]
    BY <2>1, <1>1, Inserted
  <2> HIDE DEF t
  <2>3. /\ m \in Seq(Row) /\ Len(m) = Len(r) + 1
        /\ \A k \in 1..Len(m) : m[k] = IF k < j THEN r[k] ELSE IF k = j THEN q[i] ELSE r[k - 1]
    BY <2>a, <2>2 DEF t
  <2> QED
    BY <2>1, <2>3
<1> HIDE DEF m
<1>3. DOMAIN m = 1..n
  BY <1>2
<1>4. ASSUME NEW k \in 1..n
      PROVE  /\ from(k) \in 1..n /\ m[k] = q[from(k)]
             /\ to(k) \in 1..n /\ from(to(k)) = k
  <2>1. k \in Nat /\ i \in Nat /\ j \in Nat /\ n \in Nat
    BY <1>0
  <2>2. from(k) \in 1..n /\ to(k) \in 1..n /\ from(to(k)) = k
    BY <2>1
  <2>3. m[k] = q[from(k)]
    <3>1. CASE k = j
      BY <3>1, <1>2
    <3>2. CASE k < j
      <4>1. k \in 1..Len(r) /\ k # j
        BY <3>2, <2>1, <1>1
      <4> QED
        BY <4>1, <3>2, <1>1, <1>2
    <3>3. CASE k > j
      <4>1. k - 1 \in 1..Len(r) /\ k # j /\ ~(k < j) /\ (k - 1) + 1 = k
        BY <3>3, <2>1, <1>1
      <4> QED
        BY <4>1, <3>3, <1>1, <1>2
    <3> QED
      BY <3>1, <3>2, <3>3, <2>1
  <2> QED
    BY <2>2, <2>3
<1>5. ASSUME NEW k \in 1..n, NEW l \in 1..n, from(k) = from(l) PROVE k = l
  BY <1>5, <1>0
<1> HIDE DEF from, to, n
<1>6. DOMAIN p = 1..n /\ \A k \in 1..n : p[k] = [m[k] EXCEPT !.place = k]
  BY <1>3 DEF Renumbered
<1> HIDE DEF p
<1>7. ASSUME NEW k \in 1..n
      PROVE  p[k] \in Row /\ p[k].place = k /\ p[k].site = q[from(k)].site
  <2>1. m[k] \in Row /\ m[k] = q[from(k)]
    BY <1>0, <1>4 DEF n
  <2>2. k \in 0..MaxSites
    BY <1>0, RowFacts DEF n
  <2>3. p[k] = [site |-> m[k].site, place |-> k]
    BY <2>1, <1>6 DEF Row
  <2> QED
    BY <2>1, <2>2, <2>3, RowFacts
<1>8. p \in Seq(Row) /\ Len(p) = n
  <2>1. p = [k \in 1..n |-> p[k]] /\ n \in Nat
    BY <1>6, <1>0 DEF n, p, Renumbered
  <2>2. p \in [1..n -> Row]
    BY <2>1, <1>7
  <2> QED
    BY <2>1, <2>2, SeqDef
<1>9. ASSUME NEW k \in 1..n, NEW l \in 1..n, p[k].site = p[l].site PROVE k = l
  <2>1. from(k) \in 1..Len(q) /\ from(l) \in 1..Len(q) /\ q[from(k)].site = q[from(l)].site
    BY <1>4, <1>7, <1>9 DEF n
  <2>2. from(k) = from(l)
    BY <2>1, <1>0
  <2> QED
    BY <2>2, <1>5
<1>10. p \in Rows
  BY <1>6, <1>8, <1>9 DEF Rows, IsInjective, SitesOf
<1>11. SitesIn(ToSet(p)) = SitesIn(ToSet(q))
  <2>1. ToSet(p) = {p[k] : k \in 1..n} /\ ToSet(q) = {q[k] : k \in 1..n}
    BY <1>0, <1>6 DEF ToSet, n
  <2>2. \A k \in 1..n : \E l \in 1..n : p[k].site = q[l].site
    BY <1>4, <1>7
  <2>3. ASSUME NEW k \in 1..n PROVE \E l \in 1..n : p[l].site = q[k].site
    <3>1. to(k) \in 1..n /\ from(to(k)) = k
      BY <1>4
    <3>2. p[to(k)].site = q[from(to(k))].site
      BY <3>1, <1>7
    <3> QED
      BY <3>1, <3>2
  <2>4. SitesIn(ToSet(p)) = {p[k].site : k \in 1..n} /\ SitesIn(ToSet(q)) = {q[k].site : k \in 1..n}
    BY <2>1 DEF SitesIn
  <2>5. SitesIn(ToSet(p)) \subseteq SitesIn(ToSet(q))
    BY <2>2, <2>4
  <2>6. SitesIn(ToSet(q)) \subseteq SitesIn(ToSet(p))
    BY <2>3, <2>4
  <2> QED
    BY <2>5, <2>6
<1>12. Numbered(p)
  BY <1>6, <1>7 DEF Numbered
<1> QED
  BY <1>10, <1>11, <1>12 DEF p, m

-----------------------------------------------------------------------------
(* Types.                                                                  *)

Phases(op) ==
    {"sent", "answered", "failed"}
    \cup (IF op = "load" THEN {"groups"} ELSE {})
    \cup (IF op = "setup" THEN {"password"} ELSE {})
    \cup (IF op \in {"unlock", "lock"} THEN {"status", "configured", "missing"} ELSE {})
    \cup (IF op \in {"lock", "setup"} THEN {"checked", "refused"} ELSE {})
OfGroup == {"unlock", "dialog", "lock", "setup", "disable", "save", "order"}
Call ==
    [tab : Tabs, op : Op, group : Groups \cup {NoGroup}, site : 0..MaxSites,
     rows : [Groups -> Rows], seen : SUBSET Groups, at : UNION {Phases(op) : op \in Op}]
Asks(c) ==
    /\ c \in Call
    /\ c.at \in Phases(c.op)
    /\ c.op \in OfGroup => c.group \in Groups
    /\ c.op \in {"save", "delete"} => c.site \in Sites
    /\ c.op = "save" => \A g \in Groups :
           \/ c.rows[g] = <<>>
           \/ g = c.group /\ \E k \in 0..MaxSites : c.rows[g] = <<[site |-> c.site, place |-> k]>>

ServerTypes ==
    /\ status \in [Sites -> Status] /\ home \in [Sites -> Groups] /\ place \in [Sites -> 0..MaxSites]
    /\ locks \subseteq Groups /\ password \in BOOLEAN
PageTypes ==
    /\ shelf \in [Tabs -> [Groups -> Rows]]
    /\ marked \in [Tabs -> SUBSET Groups] /\ open \in [Tabs -> SUBSET Groups]
    /\ screen \in [Tabs -> [loading: BOOLEAN, error: BOOLEAN]]
    /\ hits \in [Tabs -> SUBSET Sites]
    /\ sorting \in [Tabs -> Groups \cup {NoGroup}]
    /\ snapshot \in [Tabs -> [group : Groups \cup {NoGroup}, rows : Rows]]
    /\ dialog \in [Tabs -> Dialog] /\ banner \in [Tabs -> Groups \cup {NoGroup}]
    /\ \A t \in Tabs : dialog[t].mode # "none" => dialog[t].group \in Groups
Types ==
    /\ ServerTypes
    /\ PageTypes
    /\ \A c \in calls : Asks(c)
    /\ crossed \subseteq Tabs /\ raced \in BOOLEAN /\ events \in 0..MaxEvents

-----------------------------------------------------------------------------
(* A page that nobody overtook: it waits for one answer at most, and what  *)
(* it shows is what the server has, but for what that answer will tell.    *)

Shows(t, g) == ToSet(shelf[t][g]) = RowsOf(g)
ShowsAll(t, but) == \A g \in Groups \ but : ~IsLocked(t, g) => Shows(t, g)
Settled(t) == marked[t] = locks /\ ShowsAll(t, {})

(* What a page knows while it waits for the answer to c.                   *)
KnowsLock(t, c) ==
    IF c.at = "answered" THEN marked[t] \cup {c.group} = locks /\ ShowsAll(t, {c.group}) ELSE Settled(t)
KnowsUnlock(t, c) ==
    /\ Settled(t) /\ c.group \in marked[t]
    /\ c.at = "answered" => ToSet(c.rows[c.group]) = RowsOf(c.group)
KnowsDisable(t, c) ==
    /\ ToSet(c.rows[c.group]) = RowsOf(c.group)
    /\ IF c.at = "answered" THEN locks = marked[t] \ {c.group} /\ ShowsAll(t, {c.group}) ELSE Settled(t)
KnowsClear(t, c) == c.at # "failed" /\ (c.at = "sent" => Settled(t))
KnowsLoad(t, c) ==
    /\ c.at # "failed"
    /\ c.at \in {"groups", "answered"} => c.seen = locks
    /\ c.at = "answered" => c.rows = [g \in Groups |-> IF g \in locks THEN <<>> ELSE Sorted(RowsOf(g))]
KnowsSave(t, c) ==
    /\ c.seen = open[t]
    /\ IF c.at = "answered"
       THEN /\ marked[t] = locks
            /\ c.rows[c.group] = <<[site |-> c.site, place |-> place[c.site]]>>
            /\ \A g \in Groups : ~IsLocked(t, g) =>
                   {r \in ToSet(shelf[t][g]) : r.site # c.site}
                   \cup (IF g = c.group THEN ToSet(c.rows[g]) ELSE {}) = RowsOf(g)
       ELSE Settled(t)
KnowsDelete(t, c) ==
    IF c.at = "answered"
    THEN /\ marked[t] = locks
         /\ \A g \in Groups : ~IsLocked(t, g) => {r \in ToSet(shelf[t][g]) : r.site # c.site} = RowsOf(g)
    ELSE Settled(t)
KnowsOrder(t, c) ==
    /\ sorting[t] = c.group
    /\ c.rows[c.group] = shelf[t][c.group] /\ Numbered(shelf[t][c.group])
    /\ c.at = "answered" => Shows(t, c.group)
Knows(t, c) ==
    /\ c.op \in {"lock", "setup"} => KnowsLock(t, c)
    /\ c.op \in {"unlock", "dialog"} => KnowsUnlock(t, c)
    /\ c.op = "disable" => KnowsDisable(t, c)
    /\ c.op = "clear" => KnowsClear(t, c)
    /\ c.op = "load" => KnowsLoad(t, c)
    /\ c.op = "save" => KnowsSave(t, c)
    /\ c.op = "delete" => KnowsDelete(t, c)
    /\ c.op = "order" => KnowsOrder(t, c)

(* The order a sorting began with is the server's until it is saved.       *)
Draft(t) ==
    LET g == sorting[t]
    IN /\ ToSet(snapshot[t].rows) = RowsOf(g)
       /\ SitesIn(ToSet(shelf[t][g])) = SitesIn(RowsOf(g))
       /\ shelf[t][g] = snapshot[t].rows \/ Numbered(shelf[t][g])
Sorts(t) ==
    /\ sorting[t] = NoGroup => snapshot[t] = NoSnapshot
    /\ sorting[t] # NoGroup =>
        /\ snapshot[t].group = sorting[t]
        /\ ~IsLocked(t, sorting[t])
        /\ marked[t] = locks /\ ShowsAll(t, {sorting[t]})
        /\ \A c \in Mine(t) : c.op = "order"
        /\ (\A c \in Mine(t) : c.at # "answered") => Draft(t)

(* Only a locked group is asked about.                                     *)
AsksFor(t) ==
    dialog[t].mode = "unlock" =>
        dialog[t].group \in marked[t] /\ \A c \in Mine(t) : c.op = "dialog"

Empty(t) == \A g \in Groups : IsLocked(t, g) => shelf[t][g] = <<>>

PageInv(t) ==
    /\ \A c, d \in Mine(t) : c = d
    /\ Empty(t)
    /\ Mine(t) = {} /\ sorting[t] = NoGroup => Settled(t)
    /\ \A c \in Mine(t) : Knows(t, c)
    /\ AsksFor(t)
    /\ Sorts(t)

Inv ==
    /\ Types
    /\ LockedGroupsHaveAPassword
    /\ SortingCanBeFinished
    /\ \A t \in Tabs \ crossed : PageInv(t)

-----------------------------------------------------------------------------
(* Types are kept.                                                         *)

LEMMA ThePhases ==
    /\ \A op \in Op : Phases(op) \subseteq UNION {Phases(o) : o \in Op}
    /\ OfGroup \subseteq Op /\ {"save", "delete", "load", "clear"} \subseteq Op
    /\ \A op : {"sent", "answered", "failed"} \subseteq Phases(op)
    /\ \A op : op \in {"unlock", "lock"} => {"status", "configured", "missing"} \subseteq Phases(op)
    /\ \A op : op \in {"lock", "setup"} => {"checked", "refused"} \subseteq Phases(op)
    /\ "groups" \in Phases("load") /\ "password" \in Phases("setup")
    /\ \A op : "status" \in Phases(op) => op \in {"unlock", "lock"}
    /\ \A op : "checked" \in Phases(op) => op \in {"lock", "setup"}
<1>1. \A op \in Op : Phases(op) \subseteq UNION {Phases(o) : o \in Op}
  OBVIOUS
<1>2. OfGroup \subseteq Op /\ {"save", "delete", "load", "clear"} \subseteq Op
  BY DEF OfGroup, Op
<1> QED
  BY <1>1, <1>2 DEF Phases

LEMMA NewCalls ==
    ASSUME NEW t \in Tabs, NEW op \in Op, NEW g \in Groups \cup {NoGroup}, NEW s \in 0..MaxSites,
           op \in OfGroup => g \in Groups, op \in {"save", "delete"} => s \in Sites
    PROVE  LET c == NewCall(t, op, g, s)
           IN /\ Asks(c)
              /\ c.tab = t /\ c.op = op /\ c.group = g /\ c.site = s /\ c.at = "sent"
              /\ c.rows = [h \in Groups |-> <<>>] /\ c.seen = {}
<1> DEFINE c == NewCall(t, op, g, s)
<1>1. /\ c.tab = t /\ c.op = op /\ c.group = g /\ c.site = s /\ c.at = "sent"
      /\ c.rows = [h \in Groups |-> <<>>] /\ c.seen = {}
  BY DEF NewCall
<1>2. c.rows \in [Groups -> Rows]
  BY <1>1, NoRows
<1>3. "sent" \in UNION {Phases(o) : o \in Op} /\ "sent" \in Phases(op)
  BY ThePhases
<1>4. c \in Call
  BY <1>2, <1>3 DEF NewCall, Call
<1> QED
  BY <1>1, <1>3, <1>4 DEF Asks

LEMMA NewOfGroup ==
    ASSUME NEW t \in Tabs, NEW op \in OfGroup \ {"save"}, NEW g \in Groups
    PROVE  LET c == NewCall(t, op, g, 0)
           IN /\ Asks(c)
              /\ c.tab = t /\ c.op = op /\ c.group = g /\ c.site = 0 /\ c.at = "sent"
              /\ c.rows = [h \in Groups |-> <<>>] /\ c.seen = {}
<1>1. op \in Op /\ g \in Groups \cup {NoGroup} /\ 0 \in 0..MaxSites /\ op \notin {"save", "delete"}
  BY ThePhases, RowFacts DEF OfGroup
<1> QED
  BY <1>1, NewCalls

(* A call that goes on.                                                    *)
LEMMA CallAt ==
    ASSUME NEW c, Asks(c), NEW a \in Phases(c.op)
    PROVE  LET d == [c EXCEPT !.at = a]
           IN /\ Asks(d) /\ d.at = a /\ d.tab = c.tab /\ d.op = c.op /\ d.group = c.group
              /\ d.site = c.site /\ d.rows = c.rows /\ d.seen = c.seen
<1>1. a \in UNION {Phases(op) : op \in Op}
  BY ThePhases DEF Asks, Call
<1> QED
  BY <1>1 DEF Asks, Call

LEMMA CallSees ==
    ASSUME NEW c, Asks(c), NEW a \in Phases(c.op), NEW S \in SUBSET Groups
    PROVE  LET d == [c EXCEPT !.seen = S, !.at = a]
           IN /\ Asks(d) /\ d.at = a /\ d.tab = c.tab /\ d.op = c.op /\ d.group = c.group
              /\ d.site = c.site /\ d.rows = c.rows /\ d.seen = S
<1>1. a \in UNION {Phases(op) : op \in Op}
  BY ThePhases DEF Asks, Call
<1> QED
  BY <1>1 DEF Asks, Call

LEMMA CallGets ==
    ASSUME NEW c, Asks(c), NEW a \in Phases(c.op), NEW R \in [Groups -> Rows],
           c.op = "save" => \A g \in Groups :
               \/ R[g] = <<>>
               \/ g = c.group /\ \E k \in 0..MaxSites : R[g] = <<[site |-> c.site, place |-> k]>>
    PROVE  LET d == [c EXCEPT !.rows = R, !.at = a]
           IN /\ Asks(d) /\ d.at = a /\ d.tab = c.tab /\ d.op = c.op /\ d.group = c.group
              /\ d.site = c.site /\ d.rows = R /\ d.seen = c.seen
<1>1. a \in UNION {Phases(op) : op \in Op}
  BY ThePhases DEF Asks, Call
<1> QED
  BY <1>1 DEF Asks, Call

LEMMA CallRows ==
    ASSUME NEW c, Asks(c), NEW a \in Phases(c.op), c.group \in Groups, NEW q \in Rows,
           c.op = "save" => \E k \in 0..MaxSites : q = <<[site |-> c.site, place |-> k]>>
    PROVE  LET d == [c EXCEPT !.rows[c.group] = q, !.at = a]
           IN /\ Asks(d) /\ d.at = a /\ d.tab = c.tab /\ d.op = c.op /\ d.group = c.group
              /\ d.site = c.site /\ d.rows = [c.rows EXCEPT ![c.group] = q] /\ d.rows[c.group] = q
              /\ d.seen = c.seen
<1> DEFINE R == [c.rows EXCEPT ![c.group] = q]
<1>1. c.rows \in [Groups -> Rows]
  BY DEF Asks, Call
<1>2. R \in [Groups -> Rows] /\ R[c.group] = q /\ \A g \in Groups : g # c.group => R[g] = c.rows[g]
  BY <1>1
<1>3. c.op = "save" => \A g \in Groups :
               \/ R[g] = <<>>
               \/ g = c.group /\ \E k \in 0..MaxSites : R[g] = <<[site |-> c.site, place |-> k]>>
  <2> SUFFICES ASSUME c.op = "save", NEW g \in Groups
               PROVE  \/ R[g] = <<>>
                      \/ g = c.group /\ \E k \in 0..MaxSites : R[g] = <<[site |-> c.site, place |-> k]>>
    OBVIOUS
  <2>1. CASE g = c.group
    BY <2>1, <1>2
  <2>2. CASE g # c.group
    BY <2>2, <1>2 DEF Asks
  <2> QED
    BY <2>1, <2>2
<1>4. [c EXCEPT !.rows[c.group] = q, !.at = a] = [c EXCEPT !.rows = R, !.at = a]
  BY DEF Asks, Call
<1> HIDE DEF R
<1> DEFINE d == [c EXCEPT !.rows = R, !.at = a]
<1>5. a \in UNION {Phases(op) : op \in Op}
  BY ThePhases DEF Asks, Call
<1>6. /\ d \in Call /\ d.at = a /\ d.tab = c.tab /\ d.op = c.op /\ d.group = c.group
      /\ d.site = c.site /\ d.rows = R /\ d.seen = c.seen
  BY <1>2, <1>5 DEF Asks, Call
<1> HIDE DEF d
<1>7. Asks(d)
  BY <1>3, <1>6 DEF Asks
<1> QED
  BY <1>2, <1>4, <1>6, <1>7 DEF R, d

(* The rows of a group in a table.                                         *)
LEMMA TableRows ==
    ASSUME NEW S \in SUBSET Sites, NEW pl \in [Sites -> 0..MaxSites]
    PROVE  LET T == {[site |-> s, place |-> pl[s]] : s \in S}
           IN T \in SUBSET Row /\ Unique(T) /\ SitesIn(T) = S
<1> DEFINE T == {[site |-> s, place |-> pl[s]] : s \in S}
<1>1. T \in SUBSET Row
  BY RowFacts
<1>2. Unique(T)
  BY DEF Unique
<1>3. SitesIn(T) = S
  <2>1. \A r \in T : r.site \in S
    OBVIOUS
  <2>2. ASSUME NEW s \in S PROVE \E r \in T : r.site = s
    <3>1. [site |-> s, place |-> pl[s]] \in T /\ [site |-> s, place |-> pl[s]].site = s
      OBVIOUS
    <3> QED
      BY <3>1
  <2> HIDE DEF T
  <2> QED
    BY <2>1, <2>2 DEF SitesIn
<1> QED
  BY <1>1, <1>2, <1>3

LEMMA GroupRows ==
    ASSUME ServerTypes
    PROVE  \A g \in Groups : RowsOf(g) \in SUBSET Row /\ Unique(RowsOf(g))
                             /\ SitesIn(RowsOf(g)) = {s \in Sites : status[s] = "live" /\ home[s] = g}
                             /\ Sorted(RowsOf(g)) \in Rows /\ ToSet(Sorted(RowsOf(g))) = RowsOf(g)
<1> SUFFICES ASSUME NEW g \in Groups
             PROVE  RowsOf(g) \in SUBSET Row /\ Unique(RowsOf(g))
                    /\ SitesIn(RowsOf(g)) = {s \in Sites : status[s] = "live" /\ home[s] = g}
                    /\ Sorted(RowsOf(g)) \in Rows /\ ToSet(Sorted(RowsOf(g))) = RowsOf(g)
  OBVIOUS
<1> DEFINE S == {s \in Sites : status[s] = "live" /\ home[s] = g}
<1>1. S \in SUBSET Sites /\ place \in [Sites -> 0..MaxSites]
  BY DEF ServerTypes
<1>2. RowsOf(g) = {[site |-> s, place |-> place[s]] : s \in S}
  BY DEF RowsOf
<1> HIDE DEF S
<1>3. RowsOf(g) \in SUBSET Row /\ Unique(RowsOf(g)) /\ SitesIn(RowsOf(g)) = S
  BY <1>1, <1>2, TableRows
<1> QED
  BY <1>3, SortedRows DEF S

LEMMA ShownRows ==
    ASSUME PageTypes, NEW t \in Tabs, NEW g \in Groups
    PROVE  /\ Drawn(t, g) \in Rows
           /\ ToSet(Drawn(t, g)) = {r \in ToSet(shelf[t][g]) : r.site \in hits[t]}
           /\ ~Searching(t) => ToSet(Drawn(t, g)) = ToSet(shelf[t][g])
<1> DEFINE S == ToSet(shelf[t][g])
           T == {r \in S : r.site \in hits[t]}
<1>1. shelf[t][g] \in Rows
  BY DEF PageTypes
<1>2. S \in SUBSET Row /\ Unique(S)
  BY <1>1, RowsFacts
<1>3. T \in SUBSET Row /\ Unique(T)
  BY <1>2 DEF Unique
<1>4. ~Searching(t) => T = S
  BY <1>2, RowFacts DEF Searching
<1> HIDE DEF S, T
<1>5. Sorted(T) \in Rows /\ ToSet(Sorted(T)) = T
  BY <1>3, SortedRows
<1> QED
  BY <1>4, <1>5 DEF Drawn, S, T

LEMMA CallsGoOn ==
    ASSUME \A c \in calls : Asks(c), NEW D, NEW E, \A d \in E : Asks(d), calls' = (calls \ D) \cup E
    PROVE  \A c \in calls' : Asks(c)
  OBVIOUS

LEMMA ServerStays == ASSUME ServerTypes, UNCHANGED Server PROVE ServerTypes'
  BY DEF ServerTypes, Server

LEMMA PageStays == ASSUME PageTypes, UNCHANGED Page PROVE PageTypes'
  BY DEF PageTypes, Page

LEMMA Served ==
    ASSUME Types, NEW c \in calls, NEW d, Asks(d), Serve(c, d), ServerTypes',
           crossed' = crossed \/ Writes(c), raced' \in BOOLEAN
    PROVE  Types'
<1>1. PageTypes'
  BY PageStays DEF Types, Serve
<1>2. \A x \in calls' : Asks(x)
  BY DEF Types, Serve
<1>3. crossed' \subseteq Tabs
  BY DEF Types, Writes
<1>4. events' \in 0..MaxEvents
  BY DEF Types, Serve
<1> QED
  BY <1>1, <1>2, <1>3, <1>4 DEF Types

LEMMA TypesServed == ASSUME Types, NEW c \in calls, Serves(c) PROVE Types'
<1>c. /\ Asks(c) /\ c.op \in Op /\ c.tab \in Tabs /\ c.at \in Phases(c.op) /\ c.rows \in [Groups -> Rows]
      /\ c.op \in OfGroup => c.group \in Groups
      /\ ServerTypes /\ raced \in BOOLEAN
  BY DEF Types, Asks, Call
<1>u. UNCHANGED Server => ServerTypes'
  BY <1>c, ServerStays
<1>p. {"sent", "answered", "failed"} \subseteq Phases(c.op)
  BY ThePhases
<1>1. CASE ReadGroups(c)
  <2> DEFINE d == [c EXCEPT !.seen = locks, !.at = "groups"]
  <2>1. Serve(c, d) /\ UNCHANGED <<Server, crossed, raced>> /\ c.op = "load"
    BY <1>1 DEF ReadGroups
  <2>2. "groups" \in Phases(c.op) /\ locks \in SUBSET Groups
    BY <2>1, <1>c, ThePhases DEF ServerTypes
  <2>3. Asks(d)
    BY <2>2, <1>c, CallSees
  <2> HIDE DEF d
  <2> QED
    BY <2>1, <2>3, <1>u, <1>c, Served
<1>2. CASE ReadSites(c)
  <2> DEFINE R == [g \in Groups |-> IF g \in locks THEN <<>> ELSE Sorted(RowsOf(g))]
             d == [c EXCEPT !.rows = R, !.at = "answered"]
  <2>1. Serve(c, d) /\ UNCHANGED <<Server, crossed, raced>> /\ c.op = "load"
    BY <1>2 DEF ReadSites
  <2>2. R \in [Groups -> Rows]
    BY <1>c, GroupRows, NoRows
  <2> HIDE DEF R
  <2>3. Asks(d)
    BY <2>1, <2>2, <1>c, <1>p, CallGets
  <2> HIDE DEF d
  <2> QED
    BY <2>1, <2>3, <1>u, <1>c, Served
<1>3. CASE StatusRead(c)
  <2>1. PICK a \in {"configured", "missing"} :
            Serve(c, [c EXCEPT !.at = a]) /\ UNCHANGED <<Server, crossed, raced>> /\ c.at = "status"
    BY <1>3 DEF StatusRead
  <2> DEFINE d == [c EXCEPT !.at = a]
  <2>2. a \in Phases(c.op)
    BY <2>1, <1>c, ThePhases
  <2>3. Asks(d)
    BY <2>2, <1>c, CallAt
  <2> HIDE DEF d
  <2>4. Serve(c, d)
    BY <2>1 DEF d
  <2> QED
    BY <2>1, <2>3, <2>4, <1>u, <1>c, Served
<1>4. CASE UnlockGroup(c)
  <2>0. c.group \in Groups /\ c.op # "save" /\ UNCHANGED <<Server, crossed, raced>>
    BY <1>4, <1>c DEF UnlockGroup, OfGroup
  <2>1. CASE \E q \in ByPlace(RowsOf(c.group)) : Serve(c, [c EXCEPT !.rows[c.group] = q, !.at = "answered"])
    <3>1. PICK q \in ByPlace(RowsOf(c.group)) : Serve(c, [c EXCEPT !.rows[c.group] = q, !.at = "answered"])
      BY <2>1
    <3> DEFINE d == [c EXCEPT !.rows[c.group] = q, !.at = "answered"]
    <3>2. q \in Rows
      BY <2>0, <1>c, GroupRows, ByPlaceRows
    <3>3. Asks(d)
      BY <2>0, <3>2, <1>c, <1>p, CallRows
    <3> HIDE DEF d
    <3>4. Serve(c, d)
      BY <3>1 DEF d
    <3> QED
      BY <2>0, <3>3, <3>4, <1>u, <1>c, Served
  <2>2. CASE Serve(c, [c EXCEPT !.at = "failed"])
    <3> DEFINE d == [c EXCEPT !.at = "failed"]
    <3>1. Asks(d)
      BY <1>c, <1>p, CallAt
    <3> HIDE DEF d
    <3>2. Serve(c, d)
      BY <2>2 DEF d
    <3> QED
      BY <2>0, <3>1, <3>2, <1>u, <1>c, Served
  <2> QED
    BY <1>4, <2>1, <2>2 DEF UnlockGroup
<1>5. CASE SetLockPassword(c)
  <2> DEFINE d == [c EXCEPT !.at = "sent"]
  <2>1. Serve(c, d) /\ Writes(c) /\ password' = TRUE /\ UNCHANGED <<status, home, place, locks, raced>>
    BY <1>5 DEF SetLockPassword
  <2>2. Asks(d)
    BY <1>c, <1>p, CallAt
  <2> HIDE DEF d
  <2>3. ServerTypes'
    BY <2>1, <1>c DEF ServerTypes
  <2> QED
    BY <2>1, <2>2, <2>3, <1>c, Served
<1>6. CASE LockChecked(c)
  <2>1. PICK a \in {"checked", "refused"} :
            /\ Serve(c, [c EXCEPT !.at = a]) /\ UNCHANGED <<Server, crossed, raced>>
            /\ c.op \in {"lock", "setup"}
    BY <1>6 DEF LockChecked
  <2> DEFINE d == [c EXCEPT !.at = a]
  <2>2. a \in Phases(c.op)
    BY <2>1, <1>c, ThePhases
  <2>3. Asks(d)
    BY <2>2, <1>c, CallAt
  <2> HIDE DEF d
  <2>4. Serve(c, d)
    BY <2>1 DEF d
  <2> QED
    BY <2>1, <2>3, <2>4, <1>u, <1>c, Served
<1>7. CASE LockInserted(c)
  <2> DEFINE d == [c EXCEPT !.at = "answered"]
  <2>1. Serve(c, d) /\ Writes(c) /\ c.at = "checked" /\ locks' = locks \cup {c.group}
        /\ raced' = (raced \/ ~password) /\ UNCHANGED <<status, home, place, password>>
    BY <1>7 DEF LockInserted
  <2>2. Asks(d)
    BY <1>c, <1>p, CallAt
  <2> HIDE DEF d
  <2>3. c.group \in Groups
    BY <2>1, <1>c, ThePhases DEF OfGroup
  <2>4. ServerTypes' /\ raced' \in BOOLEAN
    BY <2>1, <2>3, <1>c DEF ServerTypes
  <2> QED
    BY <2>1, <2>2, <2>4, Served
<1>8. CASE LockRemoved(c)
  <2> DEFINE d == [c EXCEPT !.at = "answered"]
  <2>1. Serve(c, d) /\ Writes(c) /\ locks' = locks \ {c.group} /\ UNCHANGED <<status, home, place, password, raced>>
    BY <1>8 DEF LockRemoved
  <2>2. Asks(d)
    BY <1>c, <1>p, CallAt
  <2> HIDE DEF d
  <2>3. ServerTypes' /\ raced' \in BOOLEAN
    BY <2>1, <1>c DEF ServerTypes
  <2> QED
    BY <2>1, <2>2, <2>3, Served
<1>9. CASE ClearLockPassword(c)
  <2> DEFINE d == [c EXCEPT !.at = "answered"]
  <2>1. Serve(c, d) /\ Writes(c) /\ locks' = {} /\ password' = FALSE /\ UNCHANGED <<status, home, place, raced>>
    BY <1>9 DEF ClearLockPassword
  <2>2. Asks(d)
    BY <1>c, <1>p, CallAt
  <2> HIDE DEF d
  <2>3. ServerTypes' /\ raced' \in BOOLEAN
    BY <2>1, <1>c DEF ServerTypes
  <2> QED
    BY <2>1, <2>2, <2>3, Served
<1>10. CASE SiteWritten(c)
  <2>0. c.op = "save" /\ c.group \in Groups /\ c.site \in Sites /\ UNCHANGED <<place, locks, password, raced>>
    BY <1>10, <1>c DEF SiteWritten, Asks, OfGroup
  <2>1. CASE Serve(c, [c EXCEPT !.at = "failed"]) /\ UNCHANGED <<status, home, crossed>>
    <3> DEFINE d == [c EXCEPT !.at = "failed"]
    <3>1. Asks(d)
      BY <1>c, <1>p, CallAt
    <3> HIDE DEF d
    <3>2. Serve(c, d)
      BY <2>1 DEF d
    <3> QED
      BY <2>0, <2>1, <3>1, <3>2, <1>u, <1>c, Served DEF Server
  <2>2. CASE /\ status' = [status EXCEPT ![c.site] = "live"]
             /\ home' = [home EXCEPT ![c.site] = c.group]
             /\ Serve(c, [c EXCEPT !.rows[c.group] = <<[site |-> c.site, place |-> place[c.site]]>>, !.at = "answered"])
             /\ Writes(c)
    <3> DEFINE q == <<[site |-> c.site, place |-> place[c.site]]>>
               d == [c EXCEPT !.rows[c.group] = q, !.at = "answered"]
    <3>1. place[c.site] \in 0..MaxSites
      BY <2>0, <1>c DEF ServerTypes
    <3>2. q \in Rows
      BY <2>0, <3>1, RowFacts, OneRow
    <3>2a. \E k \in 0..MaxSites : q = <<[site |-> c.site, place |-> k]>>
      BY <3>1
    <3> HIDE DEF q
    <3>3. Asks(d)
      BY <2>0, <3>2, <3>2a, <1>c, <1>p, CallRows
    <3> HIDE DEF d
    <3>4. Serve(c, d)
      BY <2>2 DEF d, q
    <3>5. ServerTypes'
      BY <2>0, <2>2, <1>c DEF ServerTypes, Status
    <3> QED
      BY <2>0, <2>2, <3>3, <3>4, <3>5, <1>c, Served
  <2> QED
    BY <1>10, <2>1, <2>2 DEF SiteWritten
<1>11. CASE SiteRemoved(c)
  <2>0. c.op = "delete" /\ c.site \in Sites /\ UNCHANGED <<home, place, locks, password, raced>>
    BY <1>11, <1>c DEF SiteRemoved, Asks
  <2>1. PICK a \in {"answered", "failed"} :
            /\ Serve(c, [c EXCEPT !.at = a])
            /\ status' \in {status, [status EXCEPT ![c.site] = "deleted"]}
            /\ crossed' = crossed \/ Writes(c)
    BY <1>11 DEF SiteRemoved
  <2> DEFINE d == [c EXCEPT !.at = a]
  <2>2. Asks(d)
    BY <1>c, <1>p, CallAt
  <2> HIDE DEF d
  <2>3. Serve(c, d)
    BY <2>1 DEF d
  <2>4. ServerTypes' /\ raced' \in BOOLEAN
    BY <2>0, <2>1, <1>c DEF ServerTypes, Status
  <2> QED
    BY <2>1, <2>2, <2>3, <2>4, Served
<1>12. CASE OrderWritten(c)
  <2> DEFINE items == SitesOf(c.rows[c.group])
  <2>0. c.op = "order" /\ c.group \in Groups /\ UNCHANGED <<status, home, locks, password, raced>>
    BY <1>12, <1>c DEF OrderWritten, OfGroup
  <2>1. PICK a \in {"answered", "failed"} :
            /\ Serve(c, [c EXCEPT !.at = a])
            /\ \/ place' = place
               \/ place' = [s \in Sites |-> IF s \in ToSet(items)
                                            THEN CHOOSE i \in DOMAIN items : items[i] = s ELSE place[s]]
            /\ crossed' = crossed \/ Writes(c)
    BY <1>12 DEF OrderWritten
  <2> DEFINE d == [c EXCEPT !.at = a]
  <2>2. Asks(d)
    BY <1>c, <1>p, CallAt
  <2> HIDE DEF d
  <2>3. Serve(c, d)
    BY <2>1 DEF d
  <2>4. DOMAIN items \subseteq 0..MaxSites /\ ToSet(items) = {items[i] : i \in DOMAIN items}
    <3>1. c.rows[c.group] \in Rows
      BY <2>0, <1>c
    <3>2. DOMAIN items = 1..Len(c.rows[c.group]) /\ Len(c.rows[c.group]) \in Nat
          /\ Len(c.rows[c.group]) <= MaxSites
      BY <3>1, RowsFacts
    <3> QED
      BY <3>2, RowFacts DEF ToSet
  <2> HIDE DEF items
  <2>5. \A s \in ToSet(items) : (CHOOSE i \in DOMAIN items : items[i] = s) \in 0..MaxSites
    <3> SUFFICES ASSUME NEW s \in ToSet(items)
                 PROVE  (CHOOSE i \in DOMAIN items : items[i] = s) \in DOMAIN items
      BY <2>4
    <3>1. \E i \in DOMAIN items : items[i] = s
      BY <2>4
    <3> QED
      BY <3>1
  <2>6. place' \in [Sites -> 0..MaxSites]
    BY <2>1, <2>5, <1>c DEF ServerTypes
  <2>7. ServerTypes' /\ raced' \in BOOLEAN
    BY <2>0, <2>6, <1>c DEF ServerTypes
  <2> QED
    BY <2>1, <2>2, <2>3, <2>7, Served
<1> QED
  BY <1>1, <1>2, <1>3, <1>4, <1>5, <1>6, <1>7, <1>8, <1>9, <1>10, <1>11, <1>12 DEF Serves

(* A page that takes an answer, gives up a call or goes on to another.     *)
LEMMA Answered ==
    ASSUME Types, NEW c \in calls, NEW E, \A d \in E : Asks(d), calls' = (calls \ {c}) \cup E,
           UNCHANGED <<Server, crossed, raced, events>>, PageTypes'
    PROVE  Types'
<1>1. ServerTypes'
  BY ServerStays DEF Types
<1>2. \A x \in calls' : Asks(x)
  BY DEF Types
<1> QED
  BY <1>1, <1>2 DEF Types

LEMMA Ended ==
    ASSUME Types, NEW c \in calls, NEW a, Ends(c, a), PageTypes' PROVE Types'
<1>1. calls' = calls \ {c} /\ UNCHANGED <<Server, crossed, raced, events>>
  BY DEF Ends
<1>2. ServerTypes'
  BY <1>1, ServerStays DEF Types
<1> QED
  BY <1>1, <1>2 DEF Types

LEMMA Restored ==
    ASSUME PageTypes, NEW t \in Tabs, RestoreSortingSnapshot(t)
    PROVE  /\ shelf' \in [Tabs -> [Groups -> Rows]]
           /\ sorting' \in [Tabs -> Groups \cup {NoGroup}]
           /\ snapshot' \in [Tabs -> [group : Groups \cup {NoGroup}, rows : Rows]]
<1>1. CASE snapshot[t] = NoSnapshot
  BY <1>1 DEF RestoreSortingSnapshot, PageTypes
<1>2. CASE snapshot[t] # NoSnapshot
  <2>1. snapshot[t].group \in Groups \cup {NoGroup} /\ snapshot[t].rows \in Rows
    BY DEF PageTypes
  <2>2. /\ shelf' = [shelf EXCEPT ![t][snapshot[t].group] = snapshot[t].rows]
        /\ sorting' = [sorting EXCEPT ![t] = NoGroup]
        /\ snapshot' = [snapshot EXCEPT ![t] = NoSnapshot]
    BY <1>2 DEF RestoreSortingSnapshot, Shelve
  <2>3. shelf' \in [Tabs -> [Groups -> Rows]]
    BY <2>1, <2>2 DEF PageTypes
  <2>4. NoSnapshot \in [group : Groups \cup {NoGroup}, rows : Rows]
    BY NoRows DEF NoSnapshot
  <2> QED
    BY <2>2, <2>3, <2>4 DEF PageTypes
<1> QED
  BY <1>1, <1>2

LEMMA TypesGoOn == ASSUME Types, NEW c \in calls, GoesOn(c) PROVE Types'
<1>c. /\ Asks(c) /\ c.op \in Op /\ c.tab \in Tabs /\ c.at \in Phases(c.op) /\ c.rows \in [Groups -> Rows]
      /\ c.op \in OfGroup => c.group \in Groups
      /\ c.group \in Groups \cup {NoGroup} /\ c.seen \in SUBSET Groups
      /\ c.rows = [g \in Groups |-> c.rows[g]]
      /\ PageTypes /\ ServerTypes
  BY DEF Types, Asks, Call
<1>p. {"sent", "answered", "failed"} \subseteq Phases(c.op)
  BY ThePhases
<1>n. NoSnapshot \in [group : Groups \cup {NoGroup}, rows : Rows] /\ NoDialog \in Dialog /\ NoDialog.mode = "none"
  BY NoRows DEF NoSnapshot, NoDialog, Dialog
<1>1. CASE Loaded(c)
  <2>1. PageTypes'
    BY <1>1, <1>c DEF Loaded, PageTypes
  <2> QED
    BY <2>1, <1>1, Ended DEF Loaded
<1>2. CASE AsksForPassword(c)
  <2>1. PageTypes'
    BY <1>2, <1>c DEF AsksForPassword, PageTypes, Dialog, OfGroup
  <2> QED
    BY <2>1, <1>2, Ended DEF AsksForPassword
<1>3. CASE NeedsNoPassword(c)
  <2>1. PageTypes'
    BY <1>3, <1>c, PageStays DEF NeedsNoPassword
  <2>2. PICK E \in {{}, {[c EXCEPT !.at = "sent"]}} : calls' = (calls \ {c}) \cup E
    BY <1>3 DEF NeedsNoPassword
  <2>3. \A d \in E : Asks(d)
    BY <2>2, <1>c, <1>p, CallAt
  <2> QED
    BY <2>1, <2>2, <2>3, <1>3, Answered DEF NeedsNoPassword
<1>4. CASE Unlocked(c)
  <2>0. c.group \in Groups /\ c.rows[c.group] \in Rows
    BY <1>4, <1>c DEF Unlocked, OfGroup
  <2>1. PageTypes'
    BY <1>4, <2>0, <1>c, <1>n DEF Unlocked, Shelve, PageTypes
  <2> QED
    BY <2>1, <1>4, Ended DEF Unlocked
<1>5. CASE LockGoesOn(c)
  <2> DEFINE d == [c EXCEPT !.at = "sent"]
  <2>1. Serve(c, d) /\ UNCHANGED <<Server, crossed, raced>>
    BY <1>5 DEF LockGoesOn
  <2>2. Asks(d)
    BY <1>c, <1>p, CallAt
  <2> HIDE DEF d
  <2>3. ServerTypes' /\ raced' \in BOOLEAN
    BY <2>1, <1>c, ServerStays DEF Types
  <2> QED
    BY <2>1, <2>2, <2>3, Served
<1>6. CASE LockNeedsPassword(c)
  <2>1. PageTypes'
    BY <1>6, <1>c DEF LockNeedsPassword, PageTypes
  <2> QED
    BY <2>1, <1>6, Ended DEF LockNeedsPassword
<1>7. CASE Locked(c)
  <2>0. c.group \in Groups
    BY <1>7, <1>c DEF Locked, OfGroup
  <2>1. shelf' \in [Tabs -> [Groups -> Rows]] /\ marked' \in [Tabs -> SUBSET Groups] /\ open' \in [Tabs -> SUBSET Groups]
    BY <1>7, <2>0, <1>c, NoRows DEF Locked, Shelve, PageTypes
  <2>2. /\ snapshot' \in [Tabs -> [group : Groups \cup {NoGroup}, rows : Rows]]
        /\ sorting' \in [Tabs -> Groups \cup {NoGroup}] /\ banner' \in [Tabs -> Groups \cup {NoGroup}]
    BY <1>7, <1>c, <1>n DEF Locked, PageTypes
  <2>3. dialog' \in [Tabs -> Dialog] /\ (\A t \in Tabs : dialog'[t].mode # "none" => dialog'[t].group \in Groups)
        /\ UNCHANGED <<screen, hits>>
    BY <1>7, <1>c, <1>n DEF Locked, PageTypes
  <2>4. PageTypes'
    BY <2>1, <2>2, <2>3, <1>c DEF PageTypes
  <2> QED
    BY <2>4, <1>7, Ended DEF Locked
<1>8. CASE LockDisabled(c)
  <2>0. c.group \in Groups /\ c.rows[c.group] \in Rows
    BY <1>8, <1>c DEF LockDisabled, OfGroup
  <2>1. PageTypes'
    BY <1>8, <2>0, <1>c DEF LockDisabled, Shelve, PageTypes
  <2> QED
    BY <2>1, <1>8, Ended DEF LockDisabled
<1>9. CASE LockPasswordCleared(c)
  <2>1. PageTypes'
    BY <1>9, <1>c DEF LockPasswordCleared, PageTypes
  <2>2. Asks(NewCall(c.tab, "load", NoGroup, 0))
    <3>1. "load" \in Op /\ "load" \notin OfGroup /\ NoGroup \in Groups \cup {NoGroup} /\ 0 \in 0..MaxSites
      BY RowFacts DEF Op, OfGroup
    <3> QED
      BY <3>1, <1>c, NewCalls
  <2> QED
    BY <2>1, <2>2, <1>9, Answered DEF LockPasswordCleared
<1>10. CASE SiteSaved(c)
  <2>0. /\ c.op = "save" /\ c.group \in Groups /\ c.site \in Sites
        /\ shelf' = [shelf EXCEPT ![c.tab] = [g \in Groups |->
                       Without(shelf[c.tab][g], c.site)
                       \o (IF g = c.group /\ g \notin marked[c.tab] \ c.seen THEN c.rows[g] ELSE <<>>)]]
        /\ UNCHANGED <<marked, open, screen, hits, sorting, snapshot, dialog, banner>>
    BY <1>10, <1>c DEF SiteSaved, OfGroup, Asks
  <2>1. ASSUME NEW g \in Groups, NEW q \in {<<>>, c.rows[g]} PROVE Without(shelf[c.tab][g], c.site) \o q \in Rows
    <3>1. shelf[c.tab][g] \in Rows
      BY <1>c DEF PageTypes
    <3> DEFINE w == Without(shelf[c.tab][g], c.site)
    <3>2. w \in Rows /\ \A r \in ToSet(w) : r.site # c.site
      BY <3>1, WithoutRows
    <3> HIDE DEF w
    <3>3. w \o <<>> = w
      BY <3>2, ConcatEmptySeq DEF Rows
    <3>4. CASE q = <<>>
      BY <3>4, <3>2, <3>3 DEF w
    <3>5. CASE q # <<>>
      <4>1. PICK k \in 0..MaxSites : q = <<[site |-> c.site, place |-> k]>>
        BY <3>5, <2>1, <2>0, <1>c DEF Asks
      <4>2. [site |-> c.site, place |-> k] \in Row /\ [site |-> c.site, place |-> k].site = c.site
        BY <2>0, RowFacts
      <4>3. w \o q \in Rows
        BY <4>1, <4>2, <3>2, AppendedRows
      <4> QED
        BY <4>3 DEF w
    <3> QED
      BY <3>4, <3>5
  <2> DEFINE new == [g \in Groups |->
                       Without(shelf[c.tab][g], c.site)
                       \o (IF g = c.group /\ g \notin marked[c.tab] \ c.seen THEN c.rows[g] ELSE <<>>)]
  <2>2. new \in [Groups -> Rows]
    BY <2>1
  <2> HIDE DEF new
  <2>3. shelf' = [shelf EXCEPT ![c.tab] = new]
    BY <2>0 DEF new
  <2>4. PageTypes'
    BY <2>0, <2>2, <2>3, <1>c DEF PageTypes
  <2> QED
    BY <2>4, <1>10, Ended DEF SiteSaved
<1>11. CASE SiteDeleted(c)
  <2> DEFINE new == [g \in Groups |-> Without(shelf[c.tab][g], c.site)]
  <2>1. new \in [Groups -> Rows]
    BY <1>c, WithoutRows DEF PageTypes
  <2> HIDE DEF new
  <2>2. shelf' = [shelf EXCEPT ![c.tab] = new]
    BY <1>11 DEF new, SiteDeleted
  <2>3. PageTypes'
    BY <1>11, <2>1, <2>2, <1>c DEF PageTypes, SiteDeleted
  <2> QED
    BY <2>3, <1>11, Ended DEF SiteDeleted
<1>12. CASE OrderSaved(c)
  <2>1. PageTypes'
    BY <1>12, <1>c, <1>n DEF OrderSaved, PageTypes
  <2> QED
    BY <2>1, <1>12, Ended DEF OrderSaved
<1>13. CASE OrderFailed(c)
  <2>1. PageTypes'
    BY <1>13, <1>c, Restored DEF OrderFailed, PageTypes
  <2> QED
    BY <2>1, <1>13, Ended DEF OrderFailed
<1>14. CASE FailureShown(c)
  <2>1. PageTypes'
    BY <1>14, <1>c DEF FailureShown, PageTypes
  <2> QED
    BY <2>1, <1>14, Ended DEF FailureShown
<1> QED
  BY <1>1, <1>2, <1>3, <1>4, <1>5, <1>6, <1>7, <1>8, <1>9, <1>10, <1>11, <1>12, <1>13, <1>14 DEF GoesOn

LEMMA TypesCallFails == ASSUME Types, NEW c \in calls, CallFails(c) PROVE Types'
<1> DEFINE d == [c EXCEPT !.at = "failed"]
<1>1. Asks(c) /\ c.tab \in Tabs
  BY DEF Types, Asks, Call
<1>2. Asks(d)
  BY <1>1, CallAt, ThePhases
<1> HIDE DEF d
<1>3. /\ calls' = (calls \ {c}) \cup {d} /\ crossed' = crossed \cup {c.tab}
      /\ UNCHANGED <<Server, Page, raced>> /\ events < MaxEvents /\ events' = events + 1
  BY DEF CallFails, Event, d
<1>4. ServerTypes' /\ PageTypes'
  BY <1>3, ServerStays, PageStays DEF Types
<1>5. events' \in 0..MaxEvents
  BY <1>3, WebLaunchpadAssumption DEF Types
<1> QED
  BY <1>1, <1>2, <1>3, <1>4, <1>5 DEF Types

LEMMA Overtaken == ASSUME Types, NEW t \in Tabs, NEW a, Overtakes(t, a) PROVE crossed' \subseteq Tabs
  BY DEF Overtakes, Types

LEMMA Acted ==
    ASSUME Types, NEW t \in Tabs, Acts(t) PROVE ServerTypes' /\ crossed' \subseteq Tabs /\ raced' \in BOOLEAN /\ events' \in 0..MaxEvents
<1>1. /\ events < MaxEvents /\ events' = events + 1 /\ UNCHANGED <<Server, raced>>
      /\ Overtakes(t, Alone(t))
  BY DEF Acts, Event
<1>2. ServerTypes' /\ crossed' \subseteq Tabs /\ raced' \in BOOLEAN
  BY <1>1, ServerStays, Overtaken DEF Types
<1> QED
  BY <1>1, <1>2, WebLaunchpadAssumption DEF Types

LEMMA Started ==
    ASSUME Types, NEW t \in Tabs, NEW c, Asks(c), Start(t, c) PROVE Types'
<1>1. ServerTypes' /\ crossed' \subseteq Tabs /\ raced' \in BOOLEAN /\ events' \in 0..MaxEvents
  BY Acted DEF Start
<1>2. PageTypes'
  BY PageStays DEF Start, Types
<1>3. \A x \in calls' : Asks(x)
  BY DEF Start, Types
<1> QED
  BY <1>1, <1>2, <1>3 DEF Types

(* An act that starts no call.                                             *)
LEMMA Acting ==
    ASSUME Types, UNCHANGED <<Server, raced>>, calls' \subseteq calls, crossed' \subseteq Tabs,
           events' = events \/ Event, PageTypes'
    PROVE  Types'
<1>1. ServerTypes'
  BY ServerStays DEF Types
<1>2. events' \in 0..MaxEvents
  BY WebLaunchpadAssumption DEF Types, Event
<1> QED
  BY <1>1, <1>2 DEF Types

LEMMA TypesUserActs == ASSUME Types, NEW t \in Tabs, UserActs(t) PROVE Types'
<1>c. PageTypes /\ ServerTypes /\ calls \subseteq calls /\ crossed \subseteq Tabs
  BY DEF Types
<1>n. NoSnapshot \in [group : Groups \cup {NoGroup}, rows : Rows] /\ NoDialog \in Dialog /\ NoDialog.mode = "none"
  BY NoRows DEF NoSnapshot, NoDialog, Dialog
<1>o. /\ {"load", "clear", "dialog", "setup", "unlock", "lock", "disable", "save", "delete", "order"} = Op
      /\ "load" \notin OfGroup /\ "clear" \notin OfGroup /\ "delete" \notin OfGroup
      /\ 0 \in 0..MaxSites /\ NoGroup \in Groups \cup {NoGroup} /\ Sites \subseteq 0..MaxSites
  BY RowFacts DEF Op, OfGroup, Sites
<1>l. Asks(NewCall(t, "load", NoGroup, 0)) /\ Asks(NewCall(t, "clear", NoGroup, 0))
  BY <1>o, NewCalls
<1>1. CASE Reload(t)
  <2>1. PageTypes'
    <3>1. shelf' \in [Tabs -> [Groups -> Rows]]
      BY <1>1, <1>c, NoRows DEF Reload, PageTypes
    <3>2. snapshot' \in [Tabs -> [group : Groups \cup {NoGroup}, rows : Rows]] /\ dialog' \in [Tabs -> Dialog]
          /\ (\A x \in Tabs : dialog'[x].mode # "none" => dialog'[x].group \in Groups)
      BY <1>1, <1>c, <1>n DEF Reload, PageTypes
    <3> QED
      BY <1>1, <3>1, <3>2, <1>c DEF Reload, PageTypes
  <2>2. \A c \in calls' : Asks(c)
    BY <1>1, <1>l DEF Reload, Types
  <2>3. ServerTypes' /\ crossed' \subseteq Tabs /\ raced' \in BOOLEAN
    BY <1>1, ServerStays DEF Reload, Types
  <2>4. events' \in 0..MaxEvents
    BY <1>1, WebLaunchpadAssumption DEF Reload, Event, Types
  <2> QED
    BY <2>1, <2>2, <2>3, <2>4 DEF Types
<1>2. CASE LanguageChanges(t)
  <2>1. PageTypes'
    BY <1>2, <1>c DEF LanguageChanges, PageTypes
  <2>2. \A c \in calls' : Asks(c)
    BY <1>2, <1>l DEF LanguageChanges, Types
  <2>3. ServerTypes' /\ crossed' \subseteq Tabs /\ raced' \in BOOLEAN /\ events' \in 0..MaxEvents
    BY <1>2, Acted DEF LanguageChanges
  <2> QED
    BY <2>1, <2>2, <2>3 DEF Types
<1>3. CASE HandleClearLockPassword(t)
  BY <1>3, <1>l, Started DEF HandleClearLockPassword
<1>4. CASE SubmitUnlock(t)
  <2> DEFINE c == NewCall(t, "dialog", dialog[t].group, 0)
  <2>1. dialog[t].group \in Groups /\ Start(t, c)
    BY <1>4, <1>c DEF SubmitUnlock, PageTypes
  <2>2. Asks(c)
    BY <2>1, NewOfGroup DEF OfGroup
  <2> HIDE DEF c
  <2> QED
    BY <2>1, <2>2, Started
<1>5. CASE CloseDialog(t)
  <2>1. PageTypes'
    BY <1>5, <1>c, <1>n DEF CloseDialog, PageTypes
  <2> QED
    BY <2>1, <1>5, <1>c, Acting DEF CloseDialog
<1>6. CASE OpenSetup(t)
  <2>1. PageTypes'
    <3>1. banner[t] \in Groups /\ [mode |-> "setup", group |-> banner[t]] \in Dialog
      BY <1>6, <1>c DEF OpenSetup, PageTypes, Dialog
    <3> QED
      BY <3>1, <1>6, <1>c DEF OpenSetup, PageTypes
  <2> QED
    BY <2>1, <1>6, <1>c, Acting DEF OpenSetup
<1>7. CASE SubmitSetup(t)
  <2> DEFINE n == NewCall(t, "setup", dialog[t].group, 0)
             c == [n EXCEPT !.at = "password"]
  <2>1. dialog[t].group \in Groups /\ Start(t, c)
    BY <1>7, <1>c DEF SubmitSetup, PageTypes
  <2>a. dialog[t].group \in Groups
    BY <2>1
  <2>2. Asks(n) /\ n.op = "setup"
    BY <2>a, NewOfGroup DEF OfGroup
  <2> HIDE DEF n
  <2>3. Asks(c)
    BY <2>2, CallAt, ThePhases
  <2> HIDE DEF c
  <2> QED
    BY <2>1, <2>3, Started
<1>8. ASSUME NEW g \in Groups, HandleUnlockGroup(t, g) PROVE Types'
  <2> DEFINE n == NewCall(t, "unlock", g, 0)
             c == [n EXCEPT !.at = "status"]
  <2>1. Start(t, c)
    BY <1>8 DEF HandleUnlockGroup
  <2>2. Asks(n) /\ n.op = "unlock"
    BY NewOfGroup DEF OfGroup
  <2> HIDE DEF n
  <2>3. Asks(c)
    BY <2>2, CallAt, ThePhases
  <2> HIDE DEF c
  <2> QED
    BY <2>1, <2>3, Started
<1>9. ASSUME NEW g \in Groups, HandleLockGroup(t, g) PROVE Types'
  <2> DEFINE n == NewCall(t, "lock", g, 0)
             c == [n EXCEPT !.at = "status"]
  <2>1. Start(t, c)
    BY <1>9 DEF HandleLockGroup
  <2>2. Asks(n) /\ n.op = "lock"
    BY NewOfGroup DEF OfGroup
  <2> HIDE DEF n
  <2>3. Asks(c)
    BY <2>2, CallAt, ThePhases
  <2> HIDE DEF c
  <2> QED
    BY <2>1, <2>3, Started
<1>10. ASSUME NEW g \in Groups, HandleDisableGroupLock(t, g) PROVE Types'
  <2> DEFINE n == NewCall(t, "disable", g, 0)
             c == [n EXCEPT !.rows[g] = Drawn(t, g)]
             R == [n.rows EXCEPT ![g] = Drawn(t, g)]
  <2>1. /\ Event /\ calls' = calls \cup {c} /\ Overtakes(t, Alone(t) /\ ~Searching(t))
        /\ UNCHANGED <<Server, Page, raced>>
    BY <1>10 DEF HandleDisableGroupLock
  <2>2. Asks(n) /\ n.op = "disable" /\ n.at = "sent" /\ n.rows \in [Groups -> Rows]
    <3>1. Asks(n) /\ n.op = "disable" /\ n.at = "sent"
      BY NewOfGroup DEF OfGroup
    <3> QED
      BY <3>1 DEF Asks, Call
  <2>3. Drawn(t, g) \in Rows
    BY <1>c, ShownRows
  <2>4. R \in [Groups -> Rows]
    BY <2>2, <2>3
  <2>5. c = [n EXCEPT !.rows = R, !.at = "sent"]
    BY <2>2 DEF Asks, Call
  <2> HIDE DEF n, R, c
  <2>6. Asks(c)
    BY <2>2, <2>4, <2>5, CallGets, ThePhases
  <2>7. ServerTypes' /\ PageTypes' /\ crossed' \subseteq Tabs
    BY <2>1, <1>c, ServerStays, PageStays, Overtaken
  <2>8. events' \in 0..MaxEvents
    BY <2>1, WebLaunchpadAssumption DEF Types, Event
  <2> QED
    BY <2>1, <2>6, <2>7, <2>8 DEF Types
<1>11. ASSUME NEW g \in Groups, StartSorting(t, g) PROVE Types'
  <2>1. PageTypes'
    <3>1. [group |-> g, rows |-> shelf[t][g]] \in [group : Groups \cup {NoGroup}, rows : Rows]
      BY <1>c DEF PageTypes
    <3> QED
      BY <3>1, <1>11, <1>c DEF StartSorting, PageTypes
  <2>2. ServerTypes' /\ crossed' \subseteq Tabs /\ raced' \in BOOLEAN /\ events' \in 0..MaxEvents
    BY <1>11, Acted DEF StartSorting
  <2> QED
    BY <2>1, <2>2, <1>11 DEF StartSorting, Types
<1>12. ASSUME NEW g \in Groups, NEW s \in Sites, HandleSaveSite(t, s, g) PROVE Types'
  <2> DEFINE n == NewCall(t, "save", g, s)
             c == [n EXCEPT !.seen = open[t]]
  <2>1. Start(t, c)
    BY <1>12 DEF HandleSaveSite
  <2>2. Asks(n) /\ n.op = "save" /\ n.at = "sent"
    BY <1>o, NewCalls
  <2>3. open[t] \in SUBSET Groups
    BY <1>c DEF PageTypes
  <2>4. c = [n EXCEPT !.seen = open[t], !.at = "sent"]
    BY <2>2 DEF Asks, Call
  <2> HIDE DEF n, c
  <2>5. Asks(c)
    BY <2>2, <2>3, <2>4, CallSees, ThePhases
  <2> QED
    BY <2>1, <2>5, Started
<1>13. ASSUME NEW s \in Sites, HandleDeleteSite(t, s) PROVE Types'
  <2>1. Asks(NewCall(t, "delete", NoGroup, s))
    BY <1>o, NewCalls
  <2> QED
    BY <2>1, <1>13, Started DEF HandleDeleteSite
<1>14. ASSUME NEW i \in Sites, NEW j \in Sites, HandleSiteDragEnd(t, i, j) PROVE Types'
  <2> DEFINE g == sorting[t]
             q == shelf[t][g]
  <2>1. /\ g \in Groups /\ {i, j} \subseteq DOMAIN q /\ Event
        /\ shelf' = [shelf EXCEPT ![t][g] = Renumbered(Moved(q, i, j))]
        /\ UNCHANGED <<Server, marked, open, screen, hits, sorting, snapshot, dialog, banner, calls, crossed, raced>>
    BY <1>14, <1>c DEF HandleSiteDragEnd, Shelve, Renumbered, Moved, PageTypes
  <2>2. q \in Rows
    BY <2>1, <1>c DEF PageTypes
  <2>3. Renumbered(Moved(q, i, j)) \in Rows
    BY <2>1, <2>2, RowsFacts, MovedRows
  <2>4. PageTypes'
    BY <2>1, <2>3, <1>c DEF PageTypes
  <2> QED
    BY <2>1, <2>4, <1>c, Acting
<1>15. ASSUME NEW found \in SUBSET Sites, HandleSearchTermChange(t, found) PROVE Types'
  <2>1. PageTypes'
    BY <1>15, <1>c, Restored DEF HandleSearchTermChange, PageTypes
  <2>2. crossed' \subseteq Tabs
    BY <1>15, Overtaken DEF HandleSearchTermChange
  <2> QED
    BY <2>1, <2>2, <1>15, Acting DEF HandleSearchTermChange
<1>16. CASE FinishSorting(t)
  <2> DEFINE g == sorting[t]
  <2>1. /\ g \in Groups /\ UNCHANGED <<Server, shelf, marked, open, screen, hits, dialog, banner, raced, events>>
        /\ crossed' \subseteq Tabs
    BY <1>16, <1>c, Overtaken DEF FinishSorting, PageTypes
  <2>2. CASE calls' = calls \cup {[NewCall(t, "order", g, 0) EXCEPT !.rows[g] = shelf[t][g]]} /\ UNCHANGED <<sorting, snapshot>>
    <3> DEFINE n == NewCall(t, "order", g, 0)
               c == [n EXCEPT !.rows[g] = shelf[t][g]]
               R == [n.rows EXCEPT ![g] = shelf[t][g]]
    <3>1. Asks(n) /\ n.op = "order" /\ n.at = "sent" /\ n.rows \in [Groups -> Rows]
      <4>1. Asks(n) /\ n.op = "order" /\ n.at = "sent"
        BY <2>1, NewOfGroup DEF OfGroup
      <4> QED
        BY <4>1 DEF Asks, Call
    <3>2. R \in [Groups -> Rows]
      BY <2>1, <3>1, <1>c DEF PageTypes
    <3>3. c = [n EXCEPT !.rows = R, !.at = "sent"]
      BY <3>1 DEF Asks, Call
    <3>4. calls' = calls \cup {c}
      BY <2>2
    <3> HIDE DEF n, R, c
    <3>5. Asks(c)
      BY <3>1, <3>2, <3>3, CallGets, ThePhases
    <3>6. ServerTypes' /\ PageTypes'
      BY <2>1, <2>2, <1>c, ServerStays DEF PageTypes
    <3> QED
      BY <2>1, <3>4, <3>5, <3>6 DEF Types
  <2>3. CASE /\ sorting' = [sorting EXCEPT ![t] = NoGroup]
             /\ snapshot' = [snapshot EXCEPT ![t] = NoSnapshot]
             /\ UNCHANGED calls
    <3>1. PageTypes'
      BY <2>1, <2>3, <1>c, <1>n DEF PageTypes
    <3> QED
      BY <3>1, <2>1, <2>3, <1>c, Acting
  <2> QED
    BY <1>16, <2>2, <2>3 DEF FinishSorting
<1>17. CASE HandleClearSearch(t)
  <2>1. PageTypes'
    BY <1>17, <1>c DEF HandleClearSearch, PageTypes
  <2> QED
    BY <2>1, <1>17, <1>c, Acting DEF HandleClearSearch
<1>18. CASE ToggleGroup(t)
  <2>1. PageTypes'
    BY <1>18, <1>c DEF ToggleGroup, PageTypes
  <2>2. crossed' \subseteq Tabs
    BY <1>18, Overtaken DEF ToggleGroup
  <2> QED
    BY <2>1, <2>2, <1>18, <1>c, Acting DEF ToggleGroup
<1> QED
  BY <1>1, <1>2, <1>3, <1>4, <1>5, <1>6, <1>7, <1>8, <1>9, <1>10, <1>11, <1>12, <1>13, <1>14, <1>15,
     <1>16, <1>17, <1>18 DEF UserActs

LEMMA TypesKept == ASSUME Types, [Next]_vars PROVE Types'
<1>1. CASE Next
  BY <1>1, TypesServed, TypesGoOn, TypesCallFails, TypesUserActs DEF Next
<1>2. CASE UNCHANGED vars
  BY <1>2, ServerStays, PageStays DEF vars, Types
<1> QED
  BY <1>1, <1>2

LEMMA TypesInit == ASSUME Init PROVE Types
<1>1. ServerTypes
  BY RowFacts DEF Init, ServerTypes, Status
<1>2. PageTypes
  <2>1. shelf \in [Tabs -> [Groups -> Rows]]
    BY <1>1, GroupRows, NoRows DEF Init
  <2>2. NoSnapshot \in [group : Groups \cup {NoGroup}, rows : Rows] /\ NoDialog \in Dialog /\ NoDialog.mode = "none"
    BY NoRows DEF NoSnapshot, NoDialog, Dialog
  <2> QED
    BY <2>1, <2>2 DEF Init, PageTypes
<1>3. calls = {} /\ crossed = {} /\ raced = FALSE /\ events = 0
  BY DEF Init
<1>4. (\A c \in calls : Asks(c)) /\ crossed \subseteq Tabs /\ raced \in BOOLEAN
  BY <1>3
<1>5. events \in 0..MaxEvents
  BY <1>3, WebLaunchpadAssumption
<1> QED
  BY <1>1, <1>2, <1>4, <1>5 DEF Types

-----------------------------------------------------------------------------
(* Locks and sortings, on every page.                                      *)

LEMMA LocksKeepAPassword ==
    ASSUME Types, LockedGroupsHaveAPassword, [Next]_vars PROVE LockedGroupsHaveAPassword'
<1> USE DEF LockedGroupsHaveAPassword
<1>1. CASE UNCHANGED <<locks, password, raced>>
  BY <1>1
<1>2. ASSUME NEW c \in calls, SetLockPassword(c) PROVE LockedGroupsHaveAPassword'
  BY <1>2 DEF SetLockPassword
<1>3. ASSUME NEW c \in calls, LockInserted(c) PROVE LockedGroupsHaveAPassword'
  BY <1>3 DEF LockInserted
<1>4. ASSUME NEW c \in calls, LockRemoved(c) PROVE LockedGroupsHaveAPassword'
  BY <1>4 DEF LockRemoved
<1>5. ASSUME NEW c \in calls, ClearLockPassword(c) PROVE LockedGroupsHaveAPassword'
  BY <1>5 DEF ClearLockPassword
<1>6. ASSUME NEW c \in calls, Serves(c) PROVE LockedGroupsHaveAPassword'
  BY <1>1, <1>2, <1>3, <1>4, <1>5, <1>6 DEF Serves, ReadGroups, ReadSites, StatusRead, UnlockGroup, LockChecked,
     SiteWritten, SiteRemoved, OrderWritten, Server
<1>7. ASSUME NEW c \in calls, GoesOn(c) PROVE LockedGroupsHaveAPassword'
  BY <1>1, <1>7 DEF GoesOn, Loaded, AsksForPassword, NeedsNoPassword, Unlocked, LockGoesOn, LockNeedsPassword,
     Locked, LockDisabled, LockPasswordCleared, SiteSaved, SiteDeleted, OrderSaved, OrderFailed, FailureShown,
     Ends, Server
<1>8. ASSUME NEW c \in calls, CallFails(c) PROVE LockedGroupsHaveAPassword'
  BY <1>1, <1>8 DEF CallFails, Server
<1>9. ASSUME NEW t \in Tabs, UserActs(t) PROVE LockedGroupsHaveAPassword'
  BY <1>1, <1>9 DEF UserActs, Reload, LanguageChanges, HandleClearLockPassword, SubmitUnlock, CloseDialog,
     OpenSetup, SubmitSetup, HandleUnlockGroup, HandleLockGroup, HandleDisableGroupLock, StartSorting,
     HandleSaveSite, HandleDeleteSite, HandleSiteDragEnd, HandleSearchTermChange, FinishSorting,
     HandleClearSearch, ToggleGroup, Start, Acts, Server
<1> QED
  BY <1>1, <1>6, <1>7, <1>8, <1>9 DEF Next, vars, Server

LEMMA SortingsCanBeFinished ==
    ASSUME Types, SortingCanBeFinished, [Next]_vars PROVE SortingCanBeFinished'
<1> USE DEF SortingCanBeFinished
<1>t. sorting \in [Tabs -> Groups \cup {NoGroup}] /\ DOMAIN snapshot = Tabs
      /\ \A c \in calls : c.tab \in Tabs
  BY DEF Types, PageTypes, Asks, Call
<1>1. CASE UNCHANGED <<sorting, snapshot>>
  BY <1>1
<1>r. ASSUME NEW t \in Tabs, RestoreSortingSnapshot(t) PROVE SortingCanBeFinished'
  BY <1>r, <1>t DEF RestoreSortingSnapshot
<1>6. ASSUME NEW c \in calls, Serves(c) PROVE SortingCanBeFinished'
  BY <1>1, <1>6 DEF Serves, ReadGroups, ReadSites, StatusRead, UnlockGroup, SetLockPassword, LockChecked, LockInserted,
     LockRemoved, ClearLockPassword, SiteWritten, SiteRemoved, OrderWritten, Serve, Page
<1>7. ASSUME NEW c \in calls, GoesOn(c) PROVE SortingCanBeFinished'
  <2>1. CASE Locked(c)
    BY <2>1, <1>t DEF Locked, NoSnapshot
  <2>2. CASE OrderSaved(c)
    BY <2>2, <1>t DEF OrderSaved
  <2>3. CASE OrderFailed(c)
    BY <2>3, <1>t, <1>r DEF OrderFailed
  <2> QED
    BY <1>1, <1>7, <2>1, <2>2, <2>3 DEF GoesOn, Loaded, AsksForPassword, NeedsNoPassword, Unlocked, LockGoesOn,
       LockNeedsPassword, LockDisabled, LockPasswordCleared, SiteSaved, SiteDeleted, FailureShown, Serve, Page
<1>8. ASSUME NEW c \in calls, CallFails(c) PROVE SortingCanBeFinished'
  BY <1>1, <1>8 DEF CallFails, Page
<1>9. ASSUME NEW t \in Tabs, UserActs(t) PROVE SortingCanBeFinished'
  <2>1. CASE Reload(t)
    BY <2>1, <1>t DEF Reload
  <2>2. ASSUME NEW g \in Groups, StartSorting(t, g) PROVE SortingCanBeFinished'
    BY <2>2, <1>t DEF StartSorting
  <2>3. CASE FinishSorting(t)
    BY <2>3, <1>t DEF FinishSorting
  <2>4. ASSUME NEW found \in SUBSET Sites, HandleSearchTermChange(t, found) PROVE SortingCanBeFinished'
    BY <2>4, <1>r DEF HandleSearchTermChange
  <2>5. CASE ToggleGroup(t)
    BY <2>5, <1>t DEF ToggleGroup
  <2> QED
    BY <1>1, <1>9, <2>1, <2>2, <2>3, <2>4, <2>5 DEF UserActs, LanguageChanges, HandleClearLockPassword, SubmitUnlock,
       CloseDialog, OpenSetup, SubmitSetup, HandleUnlockGroup, HandleLockGroup, HandleDisableGroupLock,
       HandleSaveSite, HandleDeleteSite, HandleSiteDragEnd, HandleClearSearch, Start, Acts, Page
<1> QED
  BY <1>1, <1>6, <1>7, <1>8, <1>9 DEF Next, vars, Page

-----------------------------------------------------------------------------
(* A page that nobody overtook.                                            *)

Still(t) == UNCHANGED <<shelf[t], marked[t], open[t], sorting[t], snapshot[t], dialog[t]>>
Kept(t)  == UNCHANGED <<shelf[t], marked[t], open[t], sorting[t], snapshot[t]>>

LEMMA SameRows ==
    ASSUME UNCHANGED <<status, home, place>> PROVE \A g \in Groups : RowsOf(g)' = RowsOf(g)
  BY DEF RowsOf

LEMMA SameSettled ==
    ASSUME NEW t \in Tabs, UNCHANGED <<shelf[t], marked[t], open[t]>>,
           UNCHANGED <<status, home, place, locks>>
    PROVE  /\ \A g \in Groups : (IsLocked(t, g)' <=> IsLocked(t, g)) /\ (Shows(t, g)' <=> Shows(t, g))
           /\ \A but : ShowsAll(t, but)' <=> ShowsAll(t, but)
           /\ Settled(t)' <=> Settled(t)
           /\ Empty(t)' <=> Empty(t)
<1>1. \A g \in Groups : (IsLocked(t, g)' <=> IsLocked(t, g)) /\ (Shows(t, g)' <=> Shows(t, g))
  BY SameRows DEF IsLocked, Shows
<1>2. \A but : ShowsAll(t, but)' <=> ShowsAll(t, but)
  BY <1>1 DEF ShowsAll
<1>3. Settled(t)' <=> Settled(t)
  BY <1>2 DEF Settled
<1>4. Empty(t)' <=> Empty(t)
  BY <1>1 DEF Empty
<1> QED
  BY <1>1, <1>2, <1>3, <1>4

LEMMA SameDraft ==
    ASSUME NEW t \in Tabs, Kept(t), UNCHANGED Server, sorting[t] \in Groups PROVE Draft(t)' <=> Draft(t)
<1>1. RowsOf(sorting[t])' = RowsOf(sorting[t])
  BY SameRows DEF Server, Kept, RowsOf
<1> QED
  BY <1>1 DEF Draft, Kept

LEMMA SameKnows ==
    ASSUME NEW t \in Tabs, Kept(t), UNCHANGED Server, NEW c, Asks(c)
    PROVE  Knows(t, c)' <=> Knows(t, c)
<1>1. \A g \in Groups : /\ RowsOf(g)' = RowsOf(g) /\ (IsLocked(t, g)' <=> IsLocked(t, g))
                        /\ (Shows(t, g)' <=> Shows(t, g))
  BY SameRows, SameSettled DEF Server, Kept
<1>2. (\A but : ShowsAll(t, but)' <=> ShowsAll(t, but)) /\ (Settled(t)' <=> Settled(t))
  BY SameSettled DEF Server, Kept
<1>3. c.op \in OfGroup => c.group \in Groups
  BY DEF Asks
<1>4. KnowsLock(t, c)' <=> KnowsLock(t, c)
  BY <1>2 DEF KnowsLock, Kept, Server
<1>5. c.op \in {"unlock", "dialog"} => (KnowsUnlock(t, c)' <=> KnowsUnlock(t, c))
  BY <1>1, <1>2, <1>3 DEF KnowsUnlock, Kept, Server, OfGroup
<1>6. c.op = "disable" => (KnowsDisable(t, c)' <=> KnowsDisable(t, c))
  BY <1>1, <1>2, <1>3 DEF KnowsDisable, Kept, Server, OfGroup
<1>7. KnowsClear(t, c)' <=> KnowsClear(t, c)
  BY <1>2 DEF KnowsClear
<1>8. KnowsLoad(t, c)' <=> KnowsLoad(t, c)
  <2>1. locks' = locks
    BY DEF Server
  <2>2. [g \in Groups |-> IF g \in locks THEN <<>> ELSE Sorted(RowsOf(g))]'
        = [g \in Groups |-> IF g \in locks THEN <<>> ELSE Sorted(RowsOf(g))]
    <3>1. ASSUME NEW g \in Groups PROVE Sorted(RowsOf(g))' = Sorted(RowsOf(g))
      BY DEF RowsOf, Server
    <3> QED
      BY <2>1, <3>1
  <2> QED
    BY <2>1, <2>2 DEF KnowsLoad
<1>9. KnowsSave(t, c)' <=> KnowsSave(t, c)
  BY <1>1, <1>2 DEF KnowsSave, Kept, Server
<1>10. KnowsDelete(t, c)' <=> KnowsDelete(t, c)
  BY <1>1, <1>2 DEF KnowsDelete, Kept, Server
<1>11. c.op = "order" => (KnowsOrder(t, c)' <=> KnowsOrder(t, c))
  BY <1>1, <1>3 DEF KnowsOrder, Kept, OfGroup, Numbered
<1> QED
  BY <1>4, <1>5, <1>6, <1>7, <1>8, <1>9, <1>10, <1>11 DEF Knows

(* Nothing that concerns the page has changed, but for a dialog.           *)
LEMMA UntouchedBut ==
    ASSUME Types, NEW t \in Tabs, PageInv(t), Kept(t), UNCHANGED Server, Mine(t)' = Mine(t), AsksFor(t)'
    PROVE  PageInv(t)'
<1>1. \A c \in Mine(t) : Asks(c)
  BY DEF Types, Mine
<1>2. \A c \in Mine(t)' : Knows(t, c)'
  <2> SUFFICES ASSUME NEW c \in Mine(t) PROVE Knows(t, c)'
    OBVIOUS
  <2> QED
    BY <1>1, SameKnows DEF PageInv
<1>3. Empty(t)' /\ (Mine(t)' = {} /\ sorting'[t] = NoGroup => Settled(t)')
  BY SameSettled DEF PageInv, Kept, Server
<1>5. Sorts(t)'
  <2>1. sorting[t] # NoGroup => /\ sorting[t] \in Groups /\ (Draft(t)' <=> Draft(t))
                                /\ (IsLocked(t, sorting[t])' <=> IsLocked(t, sorting[t]))
                                /\ (ShowsAll(t, {sorting[t]})' <=> ShowsAll(t, {sorting[t]}))
    <3> SUFFICES ASSUME sorting[t] # NoGroup
                 PROVE  /\ sorting[t] \in Groups /\ (Draft(t)' <=> Draft(t))
                        /\ (IsLocked(t, sorting[t])' <=> IsLocked(t, sorting[t]))
                        /\ (ShowsAll(t, {sorting[t]})' <=> ShowsAll(t, {sorting[t]}))
      OBVIOUS
    <3>1. sorting[t] \in Groups /\ sorting'[t] = sorting[t]
      BY DEF Types, PageTypes, Kept
    <3> QED
      BY <3>1, SameDraft, SameSettled DEF Server, Kept
  <2> QED
    BY <2>1 DEF PageInv, Sorts, Kept, Server
<1> QED
  BY <1>2, <1>3, <1>5 DEF PageInv

LEMMA Untouched ==
    ASSUME Types, NEW t \in Tabs, PageInv(t), Still(t), UNCHANGED Server, Mine(t)' = Mine(t)
    PROVE  PageInv(t)'
<1>1. AsksFor(t)' /\ Kept(t)
  BY DEF PageInv, AsksFor, Still, Kept
<1> QED
  BY <1>1, UntouchedBut

(* The server's steps.  A page that did not ask is not concerned, or       *)
(* overtaken.                                                              *)
LEMMA MineServed ==
    ASSUME NEW c \in calls, NEW d, Serve(c, d), d.tab = c.tab
    PROVE  /\ Page' = Page /\ \A t \in Tabs : Still(t)
           /\ \A t \in Tabs \ {c.tab} : Mine(t)' = Mine(t)
           /\ Mine(c.tab) = {c} => Mine(c.tab)' = {d}
<1>1. calls' = (calls \ {c}) \cup {d} /\ UNCHANGED <<shelf, marked, open, sorting, snapshot, dialog>> /\ Page' = Page
  BY DEF Serve, Page
<1>2. \A t \in Tabs : Still(t)
  BY <1>1 DEF Still
<1>3. \A t \in Tabs \ {c.tab} : Mine(t)' = Mine(t)
  BY <1>1 DEF Mine
<1>4. Mine(c.tab) = {c} => Mine(c.tab)' = {d}
  <2> SUFFICES ASSUME Mine(c.tab) = {c} PROVE {x \in calls' : x.tab = c.tab} = {d}
    BY DEF Mine
  <2>1. \A x \in calls : x.tab = c.tab => x = c
    BY DEF Mine
  <2> QED
    BY <1>1, <2>1
<1> QED
  BY <1>1, <1>2, <1>3, <1>4

LEMMA OneCall ==
    ASSUME NEW c \in calls, PageInv(c.tab)
    PROVE  Mine(c.tab) = {c} /\ Knows(c.tab, c)
<1>1. c \in Mine(c.tab) /\ \A d \in Mine(c.tab) : d = c
  BY DEF PageInv, Mine
<1> QED
  BY <1>1 DEF PageInv

LEMMA ServedElsewhere ==
    ASSUME Types, NEW c \in calls, Serves(c), NEW t \in Tabs \ crossed', t # c.tab, t \notin crossed => PageInv(t)
    PROVE  t \notin crossed /\ PageInv(t)'
<1>1. c \in Call
  BY DEF Types, Asks
<1>2. \A x : [c EXCEPT !.at = x].tab = c.tab
  BY <1>1 DEF Call
<1>3. \A x, y : [c EXCEPT !.seen = x, !.at = y].tab = c.tab /\ [c EXCEPT !.rows = x, !.at = y].tab = c.tab
                /\ [c EXCEPT !.rows[c.group] = x, !.at = y].tab = c.tab
  BY <1>1 DEF Call
<1>4. (\E d : Serve(c, d) /\ d.tab = c.tab) /\ (UNCHANGED <<Server, crossed>> \/ Writes(c))
  <2>1. CASE ReadGroups(c) \/ StatusRead(c) \/ LockChecked(c)
    <3>1. CASE ReadGroups(c)
      BY <3>1, <1>3 DEF ReadGroups
    <3>2. CASE StatusRead(c)
      BY <3>2, <1>2 DEF StatusRead
    <3>3. CASE LockChecked(c)
      BY <3>3, <1>2 DEF LockChecked
    <3> QED
      BY <2>1, <3>1, <3>2, <3>3
  <2>6. CASE ReadSites(c)
    <3> DEFINE R == [g \in Groups |-> IF g \in locks THEN <<>> ELSE Sorted(RowsOf(g))]
    <3>1. Serve(c, [c EXCEPT !.rows = R, !.at = "answered"]) /\ UNCHANGED <<Server, crossed>>
      BY <2>6 DEF ReadSites
    <3> HIDE DEF R
    <3> QED
      BY <3>1, <1>3
  <2>0. CASE UnlockGroup(c)
    <3>1. UNCHANGED <<Server, crossed>>
      BY <2>0 DEF UnlockGroup
    <3>2. CASE Serve(c, [c EXCEPT !.at = "failed"])
      BY <3>1, <3>2, <1>2
    <3>3. CASE \E q \in ByPlace(RowsOf(c.group)) : Serve(c, [c EXCEPT !.rows[c.group] = q, !.at = "answered"])
      <4>1. PICK q : Serve(c, [c EXCEPT !.rows[c.group] = q, !.at = "answered"])
        BY <3>3
      <4> DEFINE d == [c EXCEPT !.rows[c.group] = q, !.at = "answered"]
      <4>2. Serve(c, d) /\ d.tab = c.tab
        BY <4>1, <1>3
      <4> HIDE DEF d
      <4> QED
        BY <3>1, <4>2
    <3> QED
      BY <2>0, <3>2, <3>3 DEF UnlockGroup
  <2>2. CASE SetLockPassword(c) \/ LockInserted(c) \/ LockRemoved(c) \/ ClearLockPassword(c)
    BY <2>2, <1>2, <1>3 DEF SetLockPassword, LockInserted, LockRemoved, ClearLockPassword
  <2>3. CASE SiteWritten(c)
    <3>1. CASE Serve(c, [c EXCEPT !.at = "failed"]) /\ UNCHANGED <<status, home, crossed>>
      BY <2>3, <3>1, <1>2 DEF SiteWritten, Server
    <3>2. CASE Writes(c) /\ Serve(c, [c EXCEPT !.rows[c.group] = <<[site |-> c.site, place |-> place[c.site]]>>,
                                             !.at = "answered"])
      <4> DEFINE q == <<[site |-> c.site, place |-> place[c.site]]>>
      <4> HIDE DEF q
      <4> DEFINE d == [c EXCEPT !.rows[c.group] = q, !.at = "answered"]
      <4>2. Serve(c, d) /\ d.tab = c.tab
        BY <3>2, <1>3 DEF q
      <4> HIDE DEF d
      <4> QED
        BY <3>2, <4>2
    <3> QED
      BY <2>3, <3>1, <3>2 DEF SiteWritten
  <2>4. CASE SiteRemoved(c)
    BY <2>4, <1>2, <1>3 DEF SiteRemoved, Server
  <2>5. CASE OrderWritten(c)
    BY <2>5, <1>2, <1>3 DEF OrderWritten, Server
  <2> QED
    BY <2>0, <2>1, <2>2, <2>3, <2>4, <2>5, <2>6 DEF Serves
<1>5. UNCHANGED <<Server, crossed>>
  BY <1>4 DEF Writes
<1>6. PICK d : Serve(c, d) /\ d.tab = c.tab
  BY <1>4
<1>7. Still(t) /\ Mine(t)' = Mine(t)
  BY <1>6, MineServed
<1> QED
  BY <1>5, <1>7, Untouched

(* The page that asked goes on waiting.                                    *)
LEMMA WaitsOn ==
    ASSUME Types, NEW c \in calls, NEW d, calls' = (calls \ {c}) \cup {d}, Still(c.tab), d.tab = c.tab,
           c.op # "order", d.op = "dialog" <=> c.op = "dialog", PageInv(c.tab), Knows(c.tab, d)'
    PROVE  PageInv(c.tab)'
<1> DEFINE t == c.tab
<1>0. t \in Tabs
  BY DEF Types, Asks, Call
<1>1. Mine(t) = {c}
  BY OneCall
<1>2. Mine(t)' = {d}
  <2> SUFFICES {x \in calls' : x.tab = t} = {d}
    BY DEF Mine
  <2>1. \A x \in calls : x.tab = t => x = c
    BY <1>1 DEF Mine
  <2> QED
    BY <2>1
<1>3. sorting[t] = NoGroup /\ snapshot[t] = NoSnapshot
  BY <1>1 DEF PageInv, Sorts
<1>4. (\A x, y \in Mine(t)' : x = y) /\ Mine(t)' # {} /\ \A x \in Mine(t)' : Knows(t, x)'
  <2>1. \A x \in Mine(t)' : x = d
    BY <1>2
  <2> QED
    BY <2>1, <1>2
<1>5. Empty(t)'
  BY DEF PageInv, Empty, IsLocked, Still
<1>6. AsksFor(t)'
  BY <1>1, <1>2 DEF PageInv, AsksFor, Still
<1>7. Sorts(t)'
  BY <1>3 DEF Sorts, Still
<1> QED
  BY <1>4, <1>5, <1>6, <1>7 DEF PageInv

LEMMA ServedKnows ==
    ASSUME Types, NEW c \in calls, NEW d, Serve(c, d), d.tab = c.tab, d.op = c.op, c.op # "order",
           PageInv(c.tab), Knows(c.tab, d)'
    PROVE  PageInv(c.tab)'
<1>1. calls' = (calls \ {c}) \cup {d} /\ Still(c.tab)
  BY DEF Serve, Page, Still
<1> QED
  BY <1>1, WaitsOn

(* The rows of the groups after a site was written, deleted, or its group  *)
(* put in order.                                                           *)
LEMMA RowsWritten ==
    ASSUME ServerTypes, NEW s \in Sites, NEW h \in Groups,
           status' = [status EXCEPT ![s] = "live"], home' = [home EXCEPT ![s] = h], place' = place
    PROVE  \A g \in Groups :
               RowsOf(g)' = {r \in RowsOf(g) : r.site # s}
                            \cup (IF g = h THEN {[site |-> s, place |-> place[s]]} ELSE {})
<1> SUFFICES ASSUME NEW g \in Groups
             PROVE  RowsOf(g)' = {r \in RowsOf(g) : r.site # s}
                                 \cup (IF g = h THEN {[site |-> s, place |-> place[s]]} ELSE {})
  OBVIOUS
<1> DEFINE now(x) == [site |-> x, place |-> place[x]]
<1>1. RowsOf(g)' = {now(x) : x \in {y \in Sites : status'[y] = "live" /\ home'[y] = g}}
  BY DEF RowsOf
<1>2. RowsOf(g) = {now(x) : x \in {y \in Sites : status[y] = "live" /\ home[y] = g}}
  BY DEF RowsOf
<1>3. /\ status'[s] = "live" /\ home'[s] = h
      /\ \A y \in Sites : y # s => status'[y] = status[y] /\ home'[y] = home[y]
  BY DEF ServerTypes
<1>4. \A x : now(x).site = x
  OBVIOUS
<1> HIDE DEF now
<1>5. ASSUME NEW r \in RowsOf(g)' PROVE r \in {q \in RowsOf(g) : q.site # s} \/ (g = h /\ r = now(s))
  BY <1>1, <1>2, <1>3, <1>4, <1>5
<1>6. ASSUME NEW r \in RowsOf(g), r.site # s PROVE r \in RowsOf(g)'
  BY <1>1, <1>2, <1>3, <1>4, <1>6
<1>7. g = h => now(s) \in RowsOf(g)'
  BY <1>1, <1>3
<1> QED
  BY <1>5, <1>6, <1>7 DEF now

LEMMA RowsDeleted ==
    ASSUME ServerTypes, NEW s \in Sites, status' = [status EXCEPT ![s] = "deleted"],
           UNCHANGED <<home, place>>
    PROVE  \A g \in Groups : RowsOf(g)' = {r \in RowsOf(g) : r.site # s}
<1> SUFFICES ASSUME NEW g \in Groups PROVE RowsOf(g)' = {r \in RowsOf(g) : r.site # s}
  OBVIOUS
<1> DEFINE now(x) == [site |-> x, place |-> place[x]]
<1>1. RowsOf(g)' = {now(x) : x \in {y \in Sites : status'[y] = "live" /\ home[y] = g}}
  BY DEF RowsOf
<1>2. RowsOf(g) = {now(x) : x \in {y \in Sites : status[y] = "live" /\ home[y] = g}}
  BY DEF RowsOf
<1>3. status'[s] = "deleted" /\ \A y \in Sites : y # s => status'[y] = status[y]
  BY DEF ServerTypes
<1>4. \A x : now(x).site = x
  OBVIOUS
<1> HIDE DEF now
<1>5. ASSUME NEW r \in RowsOf(g)' PROVE r \in RowsOf(g) /\ r.site # s
  BY <1>1, <1>2, <1>3, <1>4, <1>5
<1>6. ASSUME NEW r \in RowsOf(g), r.site # s PROVE r \in RowsOf(g)'
  BY <1>1, <1>2, <1>3, <1>4, <1>6
<1> QED
  BY <1>5, <1>6

LEMMA RowsOrdered ==
    ASSUME ServerTypes, NEW h \in Groups, NEW q \in Rows, Numbered(q),
           ToSet(SitesOf(q)) = {r.site : r \in RowsOf(h)},
           place' = [s \in Sites |-> IF s \in ToSet(SitesOf(q))
                                     THEN CHOOSE i \in DOMAIN SitesOf(q) : SitesOf(q)[i] = s ELSE place[s]],
           UNCHANGED <<status, home>>
    PROVE  /\ RowsOf(h)' = ToSet(q)
           /\ \A g \in Groups \ {h} : RowsOf(g)' = RowsOf(g)
<1> DEFINE items == SitesOf(q)
           live(g) == {y \in Sites : status[y] = "live" /\ home[y] = g}
           now(x) == [site |-> x, place |-> place[x]]
           next(x) == [site |-> x, place |-> place'[x]]
<1>q. /\ Len(q) \in Nat /\ DOMAIN q = 1..Len(q) /\ DOMAIN items = 1..Len(q)
      /\ \A i \in 1..Len(q) : q[i] \in Row /\ items[i] = q[i].site
      /\ \A i, j \in 1..Len(q) : q[i].site = q[j].site => i = j
  BY RowsFacts
<1>i. ToSet(items) = {items[i] : i \in 1..Len(q)} /\ ToSet(q) = {q[i] : i \in 1..Len(q)}
  BY <1>q DEF ToSet
<1>l. ToSet(items) = live(h)
  BY GroupRows DEF SitesIn
<1>p. place' = [s \in Sites |-> IF s \in ToSet(items)
                                THEN CHOOSE i \in DOMAIN items : items[i] = s ELSE place[s]]
  OBVIOUS
<1>1. \A g : RowsOf(g)' = {next(x) : x \in live(g)}
  BY DEF RowsOf
<1>2. \A g : RowsOf(g) = {now(x) : x \in live(g)}
  BY DEF RowsOf
<1> HIDE DEF items
<1>3. ASSUME NEW i \in 1..Len(q) PROVE next(q[i].site) = q[i]
  <2>1. q[i].site \in ToSet(items) /\ q[i].site \in Sites
    BY <1>q, <1>i, <1>l
  <2>2. (CHOOSE k \in DOMAIN items : items[k] = q[i].site) = i
    BY <1>q
  <2>3. q[i].place = i
    BY <1>q DEF Numbered
  <2>4. q[i] = [site |-> q[i].site, place |-> q[i].place]
    BY <1>q, RowFacts
  <2> QED
    BY <2>1, <2>2, <2>3, <2>4, <1>p
<1>4. ASSUME NEW g \in Groups \ {h}, NEW x \in live(g) PROVE next(x) = now(x)
  BY <1>p, <1>l
<1> HIDE DEF now, next
<1>5. RowsOf(h)' = ToSet(q)
  <2>1. ASSUME NEW r \in RowsOf(h)' PROVE r \in ToSet(q)
    <3>1. PICK x \in live(h) : r = next(x)
      BY <1>1
    <3>2. PICK i \in 1..Len(q) : items[i] = x
      BY <1>l, <1>i
    <3> QED
      BY <3>1, <3>2, <1>3, <1>q, <1>i
  <2>2. ASSUME NEW r \in ToSet(q) PROVE r \in RowsOf(h)'
    <3>1. PICK i \in 1..Len(q) : r = q[i]
      BY <1>i
    <3>2. items[i] \in live(h) /\ items[i] = q[i].site
      BY <1>i, <1>l, <1>q
    <3> QED
      BY <3>1, <3>2, <1>3, <1>1
  <2> QED
    BY <2>1, <2>2
<1>6. ASSUME NEW g \in Groups \ {h} PROVE RowsOf(g)' = RowsOf(g)
  <2> HIDE DEF live
  <2> QED
    BY <1>1, <1>2, <1>4
<1> QED
  BY <1>5, <1>6

LEMMA OrderWrittenHere ==
    ASSUME Types, NEW c \in calls, OrderWritten(c), PageInv(c.tab)
    PROVE  PageInv(c.tab)'
<1> DEFINE t == c.tab
           h == c.group
           q == c.rows[h]
<1>c. /\ Asks(c) /\ c \in Call /\ t \in Tabs /\ c.op = "order" /\ c.at = "sent"
      /\ h \in Groups /\ h # NoGroup /\ c.rows \in [Groups -> Rows] /\ ServerTypes /\ PageTypes
  BY WebLaunchpadAssumption DEF OrderWritten, Types, Asks, Call, OfGroup
<1>1. Mine(t) = {c} /\ Knows(t, c)
  BY OneCall
<1>2. sorting[t] = h /\ q = shelf[t][h] /\ Numbered(q) /\ q \in Rows
  BY <1>1, <1>c DEF Knows, KnowsOrder
<1>3. PICK a \in {"answered", "failed"} :
          /\ Serve(c, [c EXCEPT !.at = a]) /\ UNCHANGED <<status, home, locks>>
          /\ a = "failed" => place' = place
          /\ a = "answered" =>
               /\ ToSet(SitesOf(q)) = {r.site : r \in RowsOf(h)}
               /\ place' = [s \in Sites |-> IF s \in ToSet(SitesOf(q))
                                            THEN CHOOSE i \in DOMAIN SitesOf(q) : SitesOf(q)[i] = s ELSE place[s]]
  BY DEF OrderWritten
<1> DEFINE d == [c EXCEPT !.at = a]
<1>4. d.tab = t /\ d.op = "order" /\ d.group = h /\ d.rows = c.rows /\ d.at = a
  BY <1>c DEF Call
<1> HIDE DEF d
<1>5. Mine(t)' = {d} /\ Still(t)
  BY <1>1, <1>3, <1>4, <1>c, MineServed DEF d
<1>6. \A g \in Groups \ {h} : RowsOf(g)' = RowsOf(g)
  BY <1>2, <1>3, <1>c, RowsOrdered, SameRows
<1>7. a = "answered" => RowsOf(h)' = ToSet(shelf[t][h])
  BY <1>2, <1>3, <1>c, RowsOrdered
<1>8. a = "failed" => RowsOf(h)' = RowsOf(h)
  BY <1>3, <1>c, SameRows
<1>9. Shows(t, h)' \/ a = "failed"
  BY <1>7, <1>5 DEF Shows, Still
<1>10. Knows(t, d)'
  BY <1>2, <1>4, <1>5, <1>9, <1>c DEF Knows, KnowsOrder, Still, Numbered
<1>11. /\ snapshot[t].group = h /\ ~IsLocked(t, h) /\ marked[t] = locks /\ ShowsAll(t, {h})
       /\ Draft(t)
  BY <1>1, <1>2, <1>c DEF PageInv, Sorts
<1>12. Sorts(t)'
  <2>1. sorting'[t] = h /\ snapshot'[t].group = h /\ ~IsLocked(t, h)' /\ marked'[t] = locks'
    BY <1>2, <1>3, <1>5, <1>11 DEF Still, IsLocked
  <2>2. ShowsAll(t, {h})'
    BY <1>5, <1>6, <1>11 DEF ShowsAll, Shows, Still, IsLocked
  <2>3. \A x \in Mine(t)' : x.op = "order" /\ x.at = a
    BY <1>4, <1>5
  <2>4. a = "failed" => Draft(t)'
    <3>1. a = "failed" => UNCHANGED Server
      BY <1>3 DEF OrderWritten, Server
    <3> QED
      BY <3>1, <1>2, <1>5, <1>11, <1>c, SameDraft DEF Still, Kept
  <2>5. Mine(t)' # {}
    BY <1>5
  <2>6. (\A x \in Mine(t)' : x.at # "answered") => Draft(t)'
    BY <2>3, <2>4, <2>5
  <2> QED
    BY <2>1, <2>2, <2>3, <2>6, <1>c DEF Sorts
<1>13. (\A x, y \in Mine(t)' : x = y) /\ Mine(t)' # {} /\ \A x \in Mine(t)' : Knows(t, x)'
  <2>1. \A x \in Mine(t)' : x = d
    BY <1>5
  <2> QED
    BY <2>1, <1>5, <1>10
<1>14. Empty(t)'
  BY <1>5 DEF PageInv, Empty, IsLocked, Still
<1>15. AsksFor(t)'
  BY <1>1, <1>5, <1>c DEF PageInv, AsksFor, Still
<1> QED
  BY <1>12, <1>13, <1>14, <1>15 DEF PageInv

LEMMA ServedHere ==
    ASSUME Types, NEW c \in calls, Serves(c), PageInv(c.tab)
    PROVE  PageInv(c.tab)'
<1> DEFINE t == c.tab
<1>c. /\ Asks(c) /\ c \in Call /\ t \in Tabs /\ c.at \in Phases(c.op) /\ c.rows \in [Groups -> Rows]
      /\ c.op \in OfGroup => c.group \in Groups
      /\ c.op \in {"save", "delete"} => c.site \in Sites
      /\ ServerTypes /\ PageTypes
  BY DEF Types, Asks, Call
<1>k. Mine(t) = {c} /\ Knows(t, c)
  BY OneCall
<1>s. ASSUME NEW d, Serve(c, d), UNCHANGED <<status, home, place, locks>>
      PROVE  /\ Still(t)
             /\ \A g \in Groups : (IsLocked(t, g)' <=> IsLocked(t, g)) /\ (Shows(t, g)' <=> Shows(t, g))
             /\ \A but : ShowsAll(t, but)' <=> ShowsAll(t, but)
             /\ Settled(t)' <=> Settled(t)
  <2>1. Still(t)
    BY <1>s DEF Serve, Page, Still
  <2> QED
    BY <2>1, <1>s, <1>c, SameSettled DEF Still
<1>r. ASSUME NEW q, c.group \in Groups
      PROVE  LET d == [c EXCEPT !.rows[c.group] = q, !.at = "answered"]
             IN /\ d.tab = t /\ d.op = c.op /\ d.group = c.group /\ d.site = c.site
                /\ d.rows[c.group] = q /\ d.seen = c.seen /\ d.at = "answered"
  <2> DEFINE R == [c.rows EXCEPT ![c.group] = q]
  <2>1. [c EXCEPT !.rows[c.group] = q, !.at = "answered"] = [c EXCEPT !.rows = R, !.at = "answered"]
    BY <1>c DEF Call
  <2>2. R[c.group] = q
    BY <1>r, <1>c
  <2> HIDE DEF R
  <2> QED
    BY <2>1, <2>2, <1>c DEF Call
<1>a. ASSUME NEW x
      PROVE  LET d == [c EXCEPT !.at = x]
             IN /\ d.tab = t /\ d.op = c.op /\ d.group = c.group /\ d.site = c.site
                /\ d.rows = c.rows /\ d.seen = c.seen /\ d.at = x
  BY <1>c DEF Call
<1>1. CASE ReadGroups(c)
  <2>0. PICK d : d = [c EXCEPT !.seen = locks, !.at = "groups"]
    OBVIOUS
  <2>1. d.tab = t /\ d.op = "load" /\ d.seen = locks /\ d.at = "groups"
    BY <2>0, <1>1, <1>c DEF ReadGroups, Call
  <2>2. Serve(c, d) /\ c.op = "load" /\ locks' = locks
    BY <2>0, <1>1 DEF ReadGroups, Server
  <2>3. Knows(t, d)'
    BY <2>1, <2>2 DEF Knows, KnowsLoad
  <2> QED
    BY <2>1, <2>2, <2>3, ServedKnows
<1>2. CASE ReadSites(c)
  <2> DEFINE R == [g \in Groups |-> IF g \in locks THEN <<>> ELSE Sorted(RowsOf(g))]
  <2>0. PICK d : d = [c EXCEPT !.rows = R, !.at = "answered"]
    OBVIOUS
  <2>1. d.tab = t /\ d.op = "load" /\ d.seen = c.seen /\ d.at = "answered" /\ d.rows = R
    BY <2>0, <1>2, <1>c DEF ReadSites, Call
  <2>2. Serve(c, d) /\ c.op = "load" /\ c.at = "groups" /\ locks' = locks /\ UNCHANGED <<status, home, place>>
    BY <2>0, <1>2 DEF ReadSites, Server
  <2>3. [g \in Groups |-> IF g \in locks THEN <<>> ELSE Sorted(RowsOf(g))]' = R
    <3>1. ASSUME NEW g \in Groups PROVE Sorted(RowsOf(g))' = Sorted(RowsOf(g))
      BY <2>2 DEF RowsOf
    <3> QED
      BY <2>2, <3>1
  <2> HIDE DEF R
  <2>4. Knows(t, d)'
    BY <2>1, <2>2, <2>3, <1>k DEF Knows, KnowsLoad
  <2> QED
    BY <2>1, <2>2, <2>4, ServedKnows
<1>3. CASE StatusRead(c)
  <2>1. PICK a \in {"configured", "missing"} : Serve(c, [c EXCEPT !.at = a]) /\ UNCHANGED Server /\ c.at = "status"
    BY <1>3 DEF StatusRead
  <2> DEFINE d == [c EXCEPT !.at = a]
  <2>2. d.tab = t /\ d.op = c.op /\ d.group = c.group /\ d.at = a
    BY <1>a
  <2> HIDE DEF d
  <2>3. Serve(c, d) /\ c.op \in {"unlock", "lock"} /\ UNCHANGED <<status, home, place, locks>>
    BY <2>1, <1>c, ThePhases DEF d, Server
  <2>4. Settled(t) /\ (c.op = "unlock" => c.group \in marked[t])
    BY <2>1, <2>3, <1>k DEF Knows, KnowsLock, KnowsUnlock
  <2>5. Settled(t)' /\ marked'[t] = marked[t]
    BY <2>3, <2>4, <1>s DEF Still
  <2>6. Knows(t, d)'
    BY <2>1, <2>2, <2>3, <2>4, <2>5 DEF Knows, KnowsLock, KnowsUnlock
  <2> QED
    BY <2>2, <2>3, <2>6, ServedKnows
<1>4. CASE UnlockGroup(c)
  <2>0. c.group \in Groups /\ c.op \in {"unlock", "dialog"} /\ c.at = "sent" /\ UNCHANGED <<status, home, place, locks>>
    BY <1>4, <1>c DEF UnlockGroup, OfGroup, Server
  <2>1. Settled(t) /\ c.group \in marked[t]
    BY <2>0, <1>k DEF Knows, KnowsUnlock
  <2>2. CASE \E q \in ByPlace(RowsOf(c.group)) : Serve(c, [c EXCEPT !.rows[c.group] = q, !.at = "answered"])
    <3>1. PICK q \in ByPlace(RowsOf(c.group)) : Serve(c, [c EXCEPT !.rows[c.group] = q, !.at = "answered"])
      BY <2>2
    <3> DEFINE d == [c EXCEPT !.rows[c.group] = q, !.at = "answered"]
    <3>2. q \in Rows /\ ToSet(q) = RowsOf(c.group)
      BY <2>0, <1>c, GroupRows, ByPlaceRows
    <3>3. d.tab = t /\ d.op = c.op /\ d.group = c.group /\ d.at = "answered" /\ d.rows[c.group] = q
      BY <2>0, <1>r
    <3> HIDE DEF d
    <3>4. Serve(c, d)
      BY <3>1 DEF d
    <3>5. Settled(t)' /\ marked'[t] = marked[t]
      BY <3>4, <2>0, <2>1, <1>s DEF Still
    <3>6. RowsOf(c.group)' = RowsOf(c.group)
      BY <2>0, SameRows
    <3>7. Knows(t, d)'
      BY <2>0, <2>1, <3>2, <3>3, <3>5, <3>6 DEF Knows, KnowsUnlock
    <3> QED
      BY <2>0, <3>3, <3>4, <3>7, ServedKnows
  <2>3. CASE Serve(c, [c EXCEPT !.at = "failed"])
    <3> DEFINE d == [c EXCEPT !.at = "failed"]
    <3>1. d.tab = t /\ d.op = c.op /\ d.group = c.group /\ d.at = "failed"
      BY <1>a
    <3> HIDE DEF d
    <3>2. Serve(c, d)
      BY <2>3 DEF d
    <3>3. Settled(t)' /\ marked'[t] = marked[t]
      BY <3>2, <2>0, <2>1, <1>s DEF Still
    <3>4. Knows(t, d)'
      BY <2>0, <2>1, <3>1, <3>3 DEF Knows, KnowsUnlock
    <3> QED
      BY <2>0, <3>1, <3>2, <3>4, ServedKnows
  <2> QED
    BY <1>4, <2>2, <2>3 DEF UnlockGroup
<1>5. CASE SetLockPassword(c) \/ LockChecked(c)
  <2>1. PICK a \in {"sent", "checked", "refused"} :
            /\ Serve(c, [c EXCEPT !.at = a]) /\ UNCHANGED <<status, home, place, locks>>
            /\ c.op \in {"lock", "setup"} /\ c.at \in {"password", "sent"}
    BY <1>5 DEF SetLockPassword, LockChecked, Server
  <2> DEFINE d == [c EXCEPT !.at = a]
  <2>2. d.tab = t /\ d.op = c.op /\ d.at = a
    BY <1>a
  <2> HIDE DEF d
  <2>3. Serve(c, d)
    BY <2>1 DEF d
  <2>4. Settled(t)
    BY <2>1, <1>k DEF Knows, KnowsLock
  <2>5. Settled(t)'
    BY <2>1, <2>3, <2>4, <1>s
  <2>6. Knows(t, d)'
    BY <2>1, <2>2, <2>5 DEF Knows, KnowsLock
  <2> QED
    BY <2>1, <2>2, <2>3, <2>6, ServedKnows
<1>7. CASE LockInserted(c)
  <2> DEFINE d == [c EXCEPT !.at = "answered"]
  <2>1. Serve(c, d) /\ c.at = "checked" /\ locks' = locks \cup {c.group} /\ UNCHANGED <<status, home, place>>
    BY <1>7 DEF LockInserted
  <2>2. d.tab = t /\ d.op = c.op /\ d.at = "answered" /\ d.group = c.group
    BY <1>a
  <2> HIDE DEF d
  <2>3. c.op \in {"lock", "setup"}
    BY <2>1, <1>c, ThePhases
  <2>4. Settled(t)
    BY <2>1, <2>3, <1>k DEF Knows, KnowsLock
  <2>5. Still(t)
    BY <2>1 DEF Serve, Page, Still
  <2>6. marked'[t] \cup {c.group} = locks' /\ ShowsAll(t, {c.group})'
    BY <2>1, <2>4, <2>5, SameRows DEF Settled, ShowsAll, Shows, Still, IsLocked
  <2>7. Knows(t, d)'
    BY <2>2, <2>3, <2>6 DEF Knows, KnowsLock
  <2> QED
    BY <2>1, <2>2, <2>3, <2>7, ServedKnows
<1>8. CASE LockRemoved(c)
  <2> DEFINE d == [c EXCEPT !.at = "answered"]
  <2>1. Serve(c, d) /\ c.op = "disable" /\ c.at = "sent" /\ locks' = locks \ {c.group} /\ UNCHANGED <<status, home, place>>
    BY <1>8 DEF LockRemoved
  <2>2. d.tab = t /\ d.op = c.op /\ d.at = "answered" /\ d.group = c.group /\ d.rows = c.rows
    BY <1>a
  <2> HIDE DEF d
  <2>3. c.group \in Groups
    BY <2>1, <1>c DEF OfGroup
  <2>4. Settled(t) /\ ToSet(c.rows[c.group]) = RowsOf(c.group)
    BY <2>1, <1>k DEF Knows, KnowsDisable
  <2>5. Still(t)
    BY <2>1 DEF Serve, Page, Still
  <2>6. locks' = marked'[t] \ {c.group} /\ ShowsAll(t, {c.group})' /\ ToSet(c.rows[c.group]) = RowsOf(c.group)'
    BY <2>1, <2>3, <2>4, <2>5, SameRows DEF Settled, ShowsAll, Shows, Still, IsLocked
  <2>7. Knows(t, d)'
    BY <2>1, <2>2, <2>6 DEF Knows, KnowsDisable
  <2> QED
    BY <2>1, <2>2, <2>7, ServedKnows
<1>9. CASE ClearLockPassword(c)
  <2> DEFINE d == [c EXCEPT !.at = "answered"]
  <2>1. Serve(c, d) /\ c.op = "clear"
    BY <1>9 DEF ClearLockPassword
  <2>2. d.tab = t /\ d.op = c.op /\ d.at = "answered"
    BY <1>a
  <2> HIDE DEF d
  <2>3. Knows(t, d)'
    BY <2>1, <2>2 DEF Knows, KnowsClear
  <2> QED
    BY <2>1, <2>2, <2>3, ServedKnows
<1>10. CASE SiteWritten(c)
  <2>0. c.op = "save" /\ c.at = "sent" /\ c.group \in Groups /\ c.site \in Sites /\ UNCHANGED <<place, locks>>
    BY <1>10, <1>c DEF SiteWritten, OfGroup
  <2>1. Settled(t) /\ c.seen = open[t]
    BY <2>0, <1>k DEF Knows, KnowsSave
  <2>2. CASE Serve(c, [c EXCEPT !.at = "failed"]) /\ UNCHANGED <<status, home, crossed>>
    <3> DEFINE d == [c EXCEPT !.at = "failed"]
    <3>1. d.tab = t /\ d.op = c.op /\ d.at = "failed" /\ d.seen = c.seen
      BY <1>a
    <3> HIDE DEF d
    <3>2. Serve(c, d)
      BY <2>2 DEF d
    <3>3. Settled(t)' /\ open'[t] = open[t]
      BY <3>2, <2>0, <2>1, <2>2, <1>s DEF Still
    <3>4. Knows(t, d)'
      BY <2>0, <2>1, <3>1, <3>3 DEF Knows, KnowsSave
    <3> QED
      BY <2>0, <3>1, <3>2, <3>4, ServedKnows
  <2>3. CASE /\ status' = [status EXCEPT ![c.site] = "live"]
             /\ home' = [home EXCEPT ![c.site] = c.group]
             /\ Serve(c, [c EXCEPT !.rows[c.group] = <<[site |-> c.site, place |-> place[c.site]]>>, !.at = "answered"])
    <3> DEFINE r == [site |-> c.site, place |-> place[c.site]]
    <3>0. PICK d : d = [c EXCEPT !.rows[c.group] = <<r>>, !.at = "answered"]
      OBVIOUS
    <3>1. place[c.site] \in 0..MaxSites
      BY <2>0, <1>c DEF ServerTypes
    <3>2. r \in Row
      BY <2>0, <3>1, RowFacts
    <3>3. \E k \in 0..MaxSites : <<r>> = <<[site |-> c.site, place |-> k]>>
      BY <3>1
    <3> HIDE DEF r
    <3>4. <<r>> \in Rows /\ ToSet(<<r>>) = {r}
      BY <3>2, OneRow
    <3>5. /\ d.tab = t /\ d.op = c.op /\ d.group = c.group /\ d.site = c.site /\ d.at = "answered"
          /\ d.rows[c.group] = <<r>> /\ d.seen = c.seen
      <4> DEFINE e == [c EXCEPT !.rows[c.group] = <<r>>, !.at = "answered"]
      <4>1. /\ e.at = "answered" /\ e.tab = t /\ e.op = c.op /\ e.group = c.group
            /\ e.site = c.site /\ e.rows[c.group] = <<r>> /\ e.seen = c.seen
        BY <2>0, <1>r
      <4> HIDE DEF e
      <4> QED
        BY <3>0, <4>1 DEF e
    <3>6. Serve(c, d)
      BY <2>3, <3>0 DEF r
    <3>7. Still(t)
      BY <3>6 DEF Serve, Page, Still
    <3>8. \A g \in Groups : RowsOf(g)' = {x \in RowsOf(g) : x.site # c.site} \cup (IF g = c.group THEN {r} ELSE {})
      BY <2>0, <2>3, <1>c, RowsWritten DEF r
    <3>9. ASSUME NEW g \in Groups, ~IsLocked(t, g)'
          PROVE  {x \in ToSet(shelf'[t][g]) : x.site # c.site}
                 \cup (IF g = c.group THEN ToSet(d.rows[g]) ELSE {}) = RowsOf(g)'
      <4>1. ToSet(shelf[t][g]) = RowsOf(g) /\ shelf'[t] = shelf[t]
        BY <2>1, <3>7, <3>9 DEF Settled, ShowsAll, Shows, IsLocked, Still
      <4>2. g = c.group => ToSet(d.rows[g]) = {r}
        BY <3>4, <3>5
      <4> QED
        BY <4>1, <4>2, <3>8
    <3>10. d.rows[c.group] = <<[site |-> c.site, place |-> place'[c.site]]>>
      BY <2>0, <3>5 DEF r
    <3>11. marked'[t] = locks' /\ d.seen = open'[t]
      BY <2>0, <2>1, <3>5, <3>7 DEF Settled, Still
    <3>12. Knows(t, d)'
      BY <2>0, <3>5, <3>9, <3>10, <3>11 DEF Knows, KnowsSave
    <3> QED
      BY <2>0, <3>5, <3>6, <3>12, ServedKnows
  <2> QED
    BY <1>10, <2>2, <2>3 DEF SiteWritten
<1>11. CASE SiteRemoved(c)
  <2>0. c.op = "delete" /\ c.at = "sent" /\ c.site \in Sites /\ UNCHANGED <<home, place, locks>>
    BY <1>11, <1>c DEF SiteRemoved
  <2>1. Settled(t)
    BY <2>0, <1>k DEF Knows, KnowsDelete
  <2>2. PICK a \in {"answered", "failed"} :
            /\ Serve(c, [c EXCEPT !.at = a])
            /\ status' = IF a = "answered" THEN [status EXCEPT ![c.site] = "deleted"] ELSE status
    BY <1>11 DEF SiteRemoved
  <2> DEFINE d == [c EXCEPT !.at = a]
  <2>3. d.tab = t /\ d.op = c.op /\ d.at = a /\ d.site = c.site
    BY <1>a
  <2> HIDE DEF d
  <2>4. Serve(c, d)
    BY <2>2 DEF d
  <2>5. Still(t)
    BY <2>4 DEF Serve, Page, Still
  <2>6. a = "failed" => Settled(t)'
    BY <2>0, <2>1, <2>2, <2>4, <1>s
  <2>7. ASSUME a = "answered"
        PROVE  marked'[t] = locks' /\ \A g \in Groups : ~IsLocked(t, g)' =>
                   {r \in ToSet(shelf'[t][g]) : r.site # c.site} = RowsOf(g)'
    <3>1. \A g \in Groups : RowsOf(g)' = {x \in RowsOf(g) : x.site # c.site}
      BY <2>0, <2>2, <2>7, <1>c, RowsDeleted
    <3> QED
      BY <3>1, <2>0, <2>1, <2>5 DEF Settled, ShowsAll, Shows, IsLocked, Still
  <2>8. Knows(t, d)'
    BY <2>0, <2>3, <2>6, <2>7 DEF Knows, KnowsDelete
  <2> QED
    BY <2>0, <2>3, <2>4, <2>8, ServedKnows
<1>12. CASE OrderWritten(c)
  BY <1>12, OrderWrittenHere
<1> QED
  BY <1>1, <1>2, <1>3, <1>4, <1>5, <1>7, <1>8, <1>9, <1>10, <1>11, <1>12 DEF Serves

(* The page's steps.  It waits for nothing more, and has what the server   *)
(* has.                                                                    *)
LEMMA WaitsNoMore ==
    ASSUME Types, NEW c \in calls, PageInv(c.tab), calls' = calls \ {c},
           Settled(c.tab)', Empty(c.tab)',
           sorting'[c.tab] = NoGroup, snapshot'[c.tab] = NoSnapshot,
           dialog'[c.tab].mode = "unlock" => dialog'[c.tab].group \in marked'[c.tab]
    PROVE  PageInv(c.tab)'
<1> DEFINE t == c.tab
<1>1. Mine(t)' = {}
  <2> SUFFICES {x \in calls' : x.tab = t} = {}
    BY DEF Mine
  <2>1. \A x \in calls : x.tab = t => x = c
    BY OneCall DEF Mine
  <2> QED
    BY <2>1
<1>2. Sorts(t)'
  BY DEF Sorts
<1>3. AsksFor(t)'
  BY <1>1 DEF AsksFor
<1> QED
  BY <1>1, <1>2, <1>3 DEF PageInv

LEMMA GoneElsewhere ==
    ASSUME Types, NEW c \in calls, GoesOn(c), NEW t \in Tabs, t # c.tab, PageInv(t)
    PROVE  PageInv(t)'
<1>c. c \in Call /\ c.tab \in Tabs /\ PageTypes
  BY DEF Types, Asks, Call
<1>d. /\ DOMAIN shelf = Tabs /\ DOMAIN marked = Tabs /\ DOMAIN open = Tabs /\ DOMAIN sorting = Tabs
      /\ DOMAIN snapshot = Tabs /\ DOMAIN dialog = Tabs
  BY <1>c DEF PageTypes
<1>e. \A f, x : DOMAIN f = Tabs => [f EXCEPT ![c.tab] = x][t] = f[t]
  OBVIOUS
<1>s. \A g, rows : [shelf EXCEPT ![c.tab][g] = rows][t] = shelf[t]
  BY <1>d
<1>n. \A x : [c EXCEPT !.at = x].tab = c.tab
  BY <1>c DEF Call
<1>m. ASSUME NEW E, \A d \in E : d.tab = c.tab, calls' = (calls \ {c}) \cup E PROVE Mine(t)' = Mine(t)
  <2> SUFFICES {x \in calls' : x.tab = t} = {x \in calls : x.tab = t}
    BY DEF Mine
  <2> QED
    BY <1>m
<1>f. (\E a : Ends(c, a)) => UNCHANGED Server /\ Mine(t)' = Mine(t)
  <2>1. (\E a : Ends(c, a)) => UNCHANGED Server /\ calls' = (calls \ {c}) \cup {}
    BY DEF Ends
  <2>2. PICK E : E = {}
    OBVIOUS
  <2>3. (\E a : Ends(c, a)) => calls' = (calls \ {c}) \cup E
    BY <2>1, <2>2
  <2>4. \A d \in E : d.tab = c.tab
    BY <2>2
  <2> QED
    BY <2>1, <2>3, <2>4, <1>m
<1>r. RestoreSortingSnapshot(c.tab) => UNCHANGED <<shelf[t], sorting[t], snapshot[t]>>
  BY <1>d, <1>s DEF RestoreSortingSnapshot, Shelve
<1>1. CASE Loaded(c)
  <2>1. Still(t)
    BY <1>1, <1>d DEF Loaded, Still
  <2> QED
    BY <1>1, <2>1, <1>f, Untouched DEF Loaded
<1>2. CASE AsksForPassword(c)
  <2>1. Still(t)
    BY <1>2, <1>d DEF AsksForPassword, Still
  <2> QED
    BY <1>2, <2>1, <1>f, Untouched DEF AsksForPassword
<1>3. CASE NeedsNoPassword(c)
  <2>1. Still(t) /\ UNCHANGED Server
    BY <1>3 DEF NeedsNoPassword, Still, Page
  <2>2. PICK E \in {{}, {[c EXCEPT !.at = "sent"]}} : calls' = (calls \ {c}) \cup E
    BY <1>3 DEF NeedsNoPassword
  <2>a. \A d \in E : d.tab = c.tab
    BY <2>2, <1>n
  <2>3. Mine(t)' = Mine(t)
    BY <2>2, <2>a, <1>m
  <2> QED
    BY <2>1, <2>3, Untouched
<1>4. CASE Unlocked(c)
  <2>1. Still(t)
    BY <1>4, <1>d, <1>s DEF Unlocked, Still, Shelve
  <2> QED
    BY <1>4, <2>1, <1>f, Untouched DEF Unlocked
<1>5. CASE LockGoesOn(c)
  <2>1. Still(t) /\ UNCHANGED Server
    BY <1>5 DEF LockGoesOn, Serve, Still, Page
  <2>2. PICK E : E = {[c EXCEPT !.at = "sent"]} /\ calls' = (calls \ {c}) \cup E
    BY <1>5 DEF LockGoesOn, Serve
  <2>a. \A d \in E : d.tab = c.tab
    BY <2>2, <1>n
  <2>3. Mine(t)' = Mine(t)
    BY <2>2, <2>a, <1>m
  <2> QED
    BY <2>1, <2>3, Untouched
<1>6. CASE LockNeedsPassword(c)
  <2>1. Still(t)
    BY <1>6, <1>d DEF LockNeedsPassword, Still
  <2> QED
    BY <1>6, <2>1, <1>f, Untouched DEF LockNeedsPassword
<1>7. CASE Locked(c)
  <2>1. Still(t)
    BY <1>7, <1>d, <1>s DEF Locked, Still, Shelve
  <2> QED
    BY <1>7, <2>1, <1>f, Untouched DEF Locked
<1>8. CASE LockDisabled(c)
  <2>1. Still(t)
    BY <1>8, <1>d, <1>s DEF LockDisabled, Still, Shelve
  <2> QED
    BY <1>8, <2>1, <1>f, Untouched DEF LockDisabled
<1>9. CASE LockPasswordCleared(c)
  <2>1. Still(t) /\ UNCHANGED Server
    BY <1>9 DEF LockPasswordCleared, Still
  <2>2. PICK E : E = {NewCall(c.tab, "load", NoGroup, 0)} /\ calls' = (calls \ {c}) \cup E
    BY <1>9 DEF LockPasswordCleared
  <2>a. \A d \in E : d.tab = c.tab
    BY <2>2 DEF NewCall
  <2>3. Mine(t)' = Mine(t)
    BY <2>2, <2>a, <1>m
  <2> QED
    BY <2>1, <2>3, Untouched
<1>10. CASE SiteSaved(c)
  <2>1. PICK new : shelf' = [shelf EXCEPT ![c.tab] = new]
    BY <1>10 DEF SiteSaved
  <2>2. Still(t)
    BY <1>10, <2>1, <1>d DEF SiteSaved, Still
  <2> QED
    BY <1>10, <2>2, <1>f, Untouched DEF SiteSaved
<1>11. CASE SiteDeleted(c)
  <2>1. PICK new : shelf' = [shelf EXCEPT ![c.tab] = new]
    BY <1>11 DEF SiteDeleted
  <2>2. Still(t)
    BY <1>11, <2>1, <1>d DEF SiteDeleted, Still
  <2> QED
    BY <1>11, <2>2, <1>f, Untouched DEF SiteDeleted
<1>12. CASE OrderSaved(c)
  <2>1. Still(t)
    BY <1>12, <1>d DEF OrderSaved, Still
  <2> QED
    BY <1>12, <2>1, <1>f, Untouched DEF OrderSaved
<1>13. CASE OrderFailed(c)
  <2>1. Still(t)
    BY <1>13, <1>r DEF OrderFailed, Still
  <2> QED
    BY <1>13, <2>1, <1>f, Untouched DEF OrderFailed
<1>14. CASE FailureShown(c)
  <2>1. Still(t)
    BY <1>14 DEF FailureShown, Still
  <2> QED
    BY <1>14, <2>1, <1>f, Untouched DEF FailureShown
<1> QED
  BY <1>1, <1>2, <1>3, <1>4, <1>5, <1>6, <1>7, <1>8, <1>9, <1>10, <1>11, <1>12, <1>13, <1>14 DEF GoesOn

LEMMA GoneHere ==
    ASSUME Types, NEW c \in calls, GoesOn(c), PageInv(c.tab)
    PROVE  PageInv(c.tab)'
<1> DEFINE t == c.tab
<1>c. /\ Asks(c) /\ c \in Call /\ t \in Tabs /\ c.at \in Phases(c.op) /\ c.rows \in [Groups -> Rows]
      /\ c.op \in OfGroup => c.group \in Groups
      /\ c.op \in {"save", "delete"} => c.site \in Sites
      /\ ServerTypes /\ PageTypes
  BY DEF Types, Asks, Call
<1>k. Mine(t) = {c} /\ Knows(t, c) /\ Empty(t)
  BY OneCall DEF PageInv
<1>t. /\ DOMAIN shelf = Tabs /\ DOMAIN marked = Tabs /\ DOMAIN open = Tabs /\ DOMAIN sorting = Tabs
      /\ DOMAIN snapshot = Tabs /\ DOMAIN dialog = Tabs /\ DOMAIN shelf[t] = Groups
      /\ marked[t] \in SUBSET Groups /\ open[t] \in SUBSET Groups
      /\ \A g \in Groups : shelf[t][g] \in Rows
  BY <1>c DEF PageTypes
<1>o. c.op # "order" => sorting[t] = NoGroup /\ snapshot[t] = NoSnapshot
  BY <1>k DEF PageInv, Sorts
<1>d. c.op # "dialog" => dialog[t].mode # "unlock"
  BY <1>k DEF PageInv, AsksFor
<1>u. dialog[t].mode = "unlock" => dialog[t].group \in marked[t]
  BY DEF PageInv, AsksFor
<1>r. UNCHANGED Server => /\ UNCHANGED <<status, home, place, locks>>
                          /\ \A g \in Groups : RowsOf(g)' = RowsOf(g)
  BY SameRows DEF Server
<1>n. NoDialog.mode # "unlock"
  BY DEF NoDialog
<1>e. \A a : Ends(c, a) => calls' = calls \ {c} /\ UNCHANGED Server /\ c.at = a
  BY DEF Ends
<1>1. CASE Loaded(c)
  <2>1. /\ calls' = calls \ {c} /\ UNCHANGED Server /\ c.at = "answered" /\ c.op = "load"
        /\ shelf'[t] = c.rows /\ marked'[t] = c.seen /\ open'[t] = {}
        /\ UNCHANGED <<sorting, snapshot, dialog>>
    BY <1>1, <1>e, <1>t, <1>c DEF Loaded
  <2>2. c.seen = locks /\ c.rows = [g \in Groups |-> IF g \in locks THEN <<>> ELSE Sorted(RowsOf(g))]
    BY <2>1, <1>k DEF Knows, KnowsLoad
  <2>3. \A g \in Groups : IsLocked(t, g)' <=> g \in locks
    BY <2>1, <2>2 DEF IsLocked
  <2>4. ASSUME NEW g \in Groups, g \notin locks PROVE ToSet(shelf'[t][g]) = RowsOf(g)'
    <3>1. shelf'[t][g] = Sorted(RowsOf(g))
      BY <2>1, <2>2, <2>4
    <3> QED
      BY <2>1, <3>1, <1>r, <1>c, GroupRows
  <2>5. Settled(t)'
    BY <2>1, <2>2, <2>3, <2>4, <1>r DEF Settled, ShowsAll, Shows
  <2>6. Empty(t)'
    BY <2>1, <2>2, <2>3 DEF Empty
  <2> QED
    BY <2>1, <2>5, <2>6, <1>o, <1>d, WaitsNoMore
<1>2. CASE AsksForPassword(c)
  <2>1. /\ calls' = calls \ {c} /\ UNCHANGED Server /\ c.at = "configured" /\ c.op = "unlock"
        /\ dialog'[t] = [mode |-> "unlock", group |-> c.group]
        /\ UNCHANGED <<shelf, marked, open, sorting, snapshot>>
    BY <1>2, <1>e, <1>t, <1>c DEF AsksForPassword
  <2>2. Settled(t) /\ c.group \in marked[t]
    BY <2>1, <1>k DEF Knows, KnowsUnlock
  <2>3. Settled(t)' /\ Empty(t)'
    BY <2>1, <2>2, <1>k, <1>r, <1>c, SameSettled
  <2> QED
    BY <2>1, <2>2, <2>3, <1>o, WaitsNoMore
<1>3. CASE NeedsNoPassword(c)
  <2>1. c.op = "unlock" /\ c.at = "missing" /\ UNCHANGED <<Server, Page>>
    BY <1>3 DEF NeedsNoPassword
  <2>2. Settled(t) /\ c.group \in marked[t]
    BY <2>1, <1>k DEF Knows, KnowsUnlock
  <2>3. Settled(t)' /\ Empty(t)' /\ Still(t)
    BY <2>1, <2>2, <1>k, <1>r, <1>c, SameSettled DEF Page, Still
  <2>4. CASE calls' = (calls \ {c}) \cup {[c EXCEPT !.at = "sent"]}
    <3>1. PICK d : d = [c EXCEPT !.at = "sent"]
      OBVIOUS
    <3>2. d.tab = t /\ d.op = "unlock" /\ d.group = c.group /\ d.at = "sent"
      BY <2>1, <3>1, <1>c DEF Call
    <3>3. Knows(t, d)'
      BY <2>2, <2>3, <3>2 DEF Knows, KnowsUnlock, Still
    <3> QED
      BY <2>1, <2>3, <2>4, <3>1, <3>2, <3>3, WaitsOn
  <2>5. CASE calls' = calls \ {c}
    BY <2>1, <2>3, <2>5, <1>o, <1>d, WaitsNoMore DEF Still
  <2>6. calls' = calls \ {c} \/ calls' = (calls \ {c}) \cup {[c EXCEPT !.at = "sent"]}
    BY <1>3 DEF NeedsNoPassword
  <2> QED
    BY <2>4, <2>5, <2>6
<1>4. CASE Unlocked(c)
  <2>0. c.group \in Groups
    BY <1>4, <1>c DEF Unlocked, OfGroup
  <2>1. /\ calls' = calls \ {c} /\ UNCHANGED Server /\ c.at = "answered" /\ c.op \in {"unlock", "dialog"}
        /\ shelf' = [shelf EXCEPT ![t][c.group] = c.rows[c.group]]
        /\ marked'[t] = marked[t] \cup {c.group} /\ open'[t] = open[t] \cup {c.group}
        /\ dialog'[t] = (IF c.op = "dialog" THEN NoDialog ELSE dialog[t])
        /\ UNCHANGED <<sorting, snapshot>>
    BY <1>4, <1>e, <1>t, <1>c DEF Unlocked, Shelve
  <2>2. Settled(t) /\ c.group \in marked[t] /\ ToSet(c.rows[c.group]) = RowsOf(c.group)
    BY <2>1, <1>k DEF Knows, KnowsUnlock
  <2>3. /\ shelf'[t][c.group] = c.rows[c.group] /\ \A g \in Groups : g # c.group => shelf'[t][g] = shelf[t][g]
        /\ marked'[t] = marked[t]
    BY <2>0, <2>1, <2>2, <1>t, <1>c
  <2>4. \A g \in Groups : IsLocked(t, g)' <=> IsLocked(t, g) /\ g # c.group
    BY <2>1, <2>3 DEF IsLocked
  <2>5. Settled(t)'
    BY <2>0, <2>1, <2>2, <2>3, <2>4, <1>r DEF Settled, ShowsAll, Shows
  <2>6. Empty(t)'
    BY <2>3, <2>4, <1>k DEF Empty
  <2> QED
    BY <2>1, <2>5, <2>6, <1>o, <1>d, <1>n, WaitsNoMore
<1>5. CASE LockGoesOn(c)
  <2>0. PICK d : d = [c EXCEPT !.at = "sent"]
    OBVIOUS
  <2>1. Serve(c, d) /\ c.op = "lock" /\ c.at = "configured" /\ UNCHANGED Server
    BY <2>0, <1>5 DEF LockGoesOn
  <2>2. d.tab = t /\ d.op = "lock" /\ d.at = "sent"
    BY <2>0, <2>1, <1>c DEF Call
  <2>3. Settled(t)
    BY <2>1, <1>k DEF Knows, KnowsLock
  <2>4. UNCHANGED <<shelf[t], marked[t], open[t]>>
    BY <2>1 DEF Serve, Page
  <2>5. Settled(t)'
    BY <2>1, <2>3, <2>4, <1>r, <1>c, SameSettled
  <2>6. Knows(t, d)'
    BY <2>2, <2>5 DEF Knows, KnowsLock
  <2> QED
    BY <2>1, <2>2, <2>6, ServedKnows
<1>6. CASE LockNeedsPassword(c)
  <2>1. /\ calls' = calls \ {c} /\ UNCHANGED Server /\ c.at \in {"missing", "refused"} /\ c.op = "lock"
        /\ UNCHANGED <<shelf, marked, open, sorting, snapshot, dialog>>
    BY <1>6, <1>e DEF LockNeedsPassword
  <2>2. Settled(t)
    BY <2>1, <1>k DEF Knows, KnowsLock
  <2>3. Settled(t)' /\ Empty(t)'
    BY <2>1, <2>2, <1>k, <1>r, <1>c, SameSettled
  <2> QED
    BY <2>1, <2>3, <1>o, <1>d, WaitsNoMore
<1>7. CASE Locked(c)
  <2>0. c.group \in Groups
    BY <1>7, <1>c DEF Locked, OfGroup
  <2>1. /\ calls' = calls \ {c} /\ UNCHANGED Server /\ c.at = "answered" /\ c.op \in {"lock", "setup"}
        /\ shelf' = [shelf EXCEPT ![t][c.group] = <<>>]
        /\ marked'[t] = marked[t] \cup {c.group} /\ open'[t] = open[t] \ {c.group}
        /\ dialog'[t] \in {NoDialog, dialog[t]}
        /\ snapshot'[t] \in {NoSnapshot, snapshot[t]} /\ sorting'[t] \in {NoGroup, sorting[t]}
    BY <1>7, <1>e, <1>t, <1>c DEF Locked, Shelve
  <2>2. marked[t] \cup {c.group} = locks /\ ShowsAll(t, {c.group})
    BY <2>1, <1>k DEF Knows, KnowsLock
  <2>3. shelf'[t][c.group] = <<>> /\ \A g \in Groups : g # c.group => shelf'[t][g] = shelf[t][g]
    BY <2>0, <2>1, <1>t, <1>c
  <2>4. \A g \in Groups : IsLocked(t, g)' <=> IsLocked(t, g) \/ g = c.group
    BY <2>1 DEF IsLocked
  <2>5. Settled(t)'
    BY <2>0, <2>1, <2>2, <2>3, <2>4, <1>r DEF Settled, ShowsAll, Shows
  <2>6. Empty(t)'
    BY <2>3, <2>4, <1>k DEF Empty
  <2> QED
    BY <2>1, <2>5, <2>6, <1>o, <1>d, <1>n, WaitsNoMore
<1>8. CASE LockDisabled(c)
  <2>0. c.group \in Groups
    BY <1>8, <1>c DEF LockDisabled, OfGroup
  <2>1. /\ calls' = calls \ {c} /\ UNCHANGED Server /\ c.at = "answered" /\ c.op = "disable"
        /\ shelf' = [shelf EXCEPT ![t][c.group] = c.rows[c.group]]
        /\ marked'[t] = marked[t] \ {c.group} /\ open'[t] = open[t] \ {c.group}
        /\ UNCHANGED <<sorting, snapshot, dialog>>
    BY <1>8, <1>e, <1>t, <1>c DEF LockDisabled, Shelve
  <2>2. ToSet(c.rows[c.group]) = RowsOf(c.group) /\ locks = marked[t] \ {c.group} /\ ShowsAll(t, {c.group})
    BY <2>1, <1>k DEF Knows, KnowsDisable
  <2>3. shelf'[t][c.group] = c.rows[c.group] /\ \A g \in Groups : g # c.group => shelf'[t][g] = shelf[t][g]
    BY <2>0, <2>1, <1>t, <1>c
  <2>4. \A g \in Groups : IsLocked(t, g)' <=> IsLocked(t, g) /\ g # c.group
    BY <2>1 DEF IsLocked
  <2>5. Settled(t)'
    BY <2>0, <2>1, <2>2, <2>3, <2>4, <1>r DEF Settled, ShowsAll, Shows
  <2>6. Empty(t)'
    BY <2>3, <2>4, <1>k DEF Empty
  <2> QED
    BY <2>1, <2>5, <2>6, <1>o, <1>d, WaitsNoMore
<1>9. CASE LockPasswordCleared(c)
  <2>0. PICK d : d = NewCall(t, "load", NoGroup, 0)
    OBVIOUS
  <2>1. c.op = "clear" /\ calls' = (calls \ {c}) \cup {d} /\ Still(t)
    BY <2>0, <1>9 DEF LockPasswordCleared, Still
  <2>2. d.tab = t /\ d.op = "load" /\ d.at = "sent"
    BY <2>0 DEF NewCall
  <2>3. Knows(t, d)'
    BY <2>2 DEF Knows, KnowsLoad
  <2> QED
    BY <2>1, <2>2, <2>3, WaitsOn
<1>10. CASE SiteSaved(c)
  <2>0. c.group \in Groups /\ c.site \in Sites /\ c.op = "save"
    BY <1>10, <1>c DEF SiteSaved, OfGroup
  <2>1. /\ calls' = calls \ {c} /\ UNCHANGED Server /\ c.at = "answered"
        /\ UNCHANGED <<marked, open, sorting, snapshot, dialog>>
    BY <1>10, <1>e DEF SiteSaved
  <2>2. \A g \in Groups : shelf'[t][g] =
            Without(shelf[t][g], c.site) \o (IF g = c.group /\ g \notin marked[t] \ c.seen THEN c.rows[g] ELSE <<>>)
    BY <1>10, <1>t, <1>c DEF SiteSaved
  <2>3. /\ marked[t] = locks /\ c.seen = open[t]
        /\ c.rows[c.group] = <<[site |-> c.site, place |-> place[c.site]]>>
        /\ \A g \in Groups : ~IsLocked(t, g) =>
               {r \in ToSet(shelf[t][g]) : r.site # c.site}
               \cup (IF g = c.group THEN ToSet(c.rows[g]) ELSE {}) = RowsOf(g)
    BY <2>0, <2>1, <1>k DEF Knows, KnowsSave
  <2>4. \A g \in Groups : IsLocked(t, g)' <=> IsLocked(t, g)
    BY <2>1 DEF IsLocked
  <2>w. \A q \in Rows : Without(q, c.site) \in Rows
                        /\ ToSet(Without(q, c.site)) = {r \in ToSet(q) : r.site # c.site}
                        /\ Without(q, c.site) \o <<>> = Without(q, c.site)
    BY WithoutRows, ConcatEmptySeq DEF Rows
  <2>5. ASSUME NEW g \in Groups, ~IsLocked(t, g) PROVE ToSet(shelf'[t][g]) = RowsOf(g)
    <3> DEFINE w == Without(shelf[t][g], c.site)
               r == [site |-> c.site, place |-> place[c.site]]
    <3>1. w \in Rows /\ ToSet(w) = {x \in ToSet(shelf[t][g]) : x.site # c.site} /\ w \o <<>> = w
      BY <2>w, <1>t
    <3>2. r \in Row /\ r.site = c.site
      BY <2>0, <1>c, RowFacts DEF ServerTypes
    <3>3. g \notin marked[t] \ c.seen
      BY <2>3, <2>5 DEF IsLocked
    <3>4. shelf'[t][g] = w \o (IF g = c.group THEN c.rows[g] ELSE <<>>)
      BY <2>2, <3>3
    <3>5. g = c.group => c.rows[g] = <<r>>
      BY <2>3
    <3>6. (IF g = c.group THEN ToSet(c.rows[g]) ELSE {}) = IF g = c.group THEN {r} ELSE {}
      BY <3>2, <3>5, OneRow
    <3> HIDE DEF w, r
    <3>7. ToSet(w \o <<r>>) = ToSet(w) \cup {r}
      BY <3>1, <3>2, AppendedRows
    <3>8. ToSet(shelf'[t][g]) = ToSet(w) \cup (IF g = c.group THEN {r} ELSE {})
      BY <3>1, <3>4, <3>5, <3>7
    <3>9. RowsOf(g) = ToSet(w) \cup (IF g = c.group THEN {r} ELSE {})
      BY <2>3, <2>5, <3>1, <3>6
    <3> QED
      BY <3>8, <3>9
  <2>6. Settled(t)'
    BY <2>1, <2>3, <2>4, <2>5, <1>r DEF Settled, ShowsAll, Shows
  <2>7. Empty(t)'
    <3> SUFFICES ASSUME NEW g \in Groups, IsLocked(t, g) PROVE shelf'[t][g] = <<>>
      BY <2>4 DEF Empty
    <3>1. shelf[t][g] = <<>> /\ g \in marked[t] \ c.seen
      BY <2>3, <1>k DEF Empty, IsLocked
    <3>2. Without(<<>>, c.site) = <<>> /\ <<>> \in Rows
      BY NoRows
    <3>3. shelf'[t][g] = Without(<<>>, c.site) \o <<>>
      BY <2>2, <3>1
    <3> QED
      BY <2>w, <3>2, <3>3
  <2> QED
    BY <2>0, <2>1, <2>6, <2>7, <1>o, <1>d, WaitsNoMore
<1>11. CASE SiteDeleted(c)
  <2>0. c.site \in Sites /\ c.op = "delete"
    BY <1>11, <1>c DEF SiteDeleted
  <2>1. /\ calls' = calls \ {c} /\ UNCHANGED Server /\ c.at = "answered"
        /\ UNCHANGED <<marked, open, sorting, snapshot, dialog>>
    BY <1>11, <1>e DEF SiteDeleted
  <2>2. \A g \in Groups : shelf'[t][g] = Without(shelf[t][g], c.site)
    BY <1>11, <1>t, <1>c DEF SiteDeleted
  <2>3. marked[t] = locks /\ \A g \in Groups : ~IsLocked(t, g) => {r \in ToSet(shelf[t][g]) : r.site # c.site} = RowsOf(g)
    BY <2>0, <2>1, <1>k DEF Knows, KnowsDelete
  <2>4. \A g \in Groups : IsLocked(t, g)' <=> IsLocked(t, g)
    BY <2>1 DEF IsLocked
  <2>5. \A g \in Groups : ToSet(shelf'[t][g]) = {r \in ToSet(shelf[t][g]) : r.site # c.site}
    BY <2>2, <1>t, WithoutRows
  <2>6. Settled(t)'
    BY <2>1, <2>3, <2>4, <2>5, <1>r DEF Settled, ShowsAll, Shows
  <2>7. Empty(t)'
    BY <2>2, <2>4, <1>k, NoRows DEF Empty
  <2> QED
    BY <2>0, <2>1, <2>6, <2>7, <1>o, <1>d, WaitsNoMore
<1>12. CASE OrderSaved(c)
  <2>1. /\ calls' = calls \ {c} /\ UNCHANGED Server /\ c.at = "answered" /\ c.op = "order"
        /\ UNCHANGED <<shelf, marked, open, dialog>>
        /\ snapshot'[t] = NoSnapshot /\ sorting'[t] = NoGroup
    BY <1>12, <1>e, <1>t, <1>c DEF OrderSaved
  <2>2. c.group \in Groups /\ c.group # NoGroup
    BY <2>1, <1>c, WebLaunchpadAssumption DEF OfGroup
  <2>3. sorting[t] = c.group /\ Shows(t, c.group)
    BY <2>1, <1>k DEF Knows, KnowsOrder
  <2>4. marked[t] = locks /\ ShowsAll(t, {c.group})
    BY <2>2, <2>3 DEF PageInv, Sorts
  <2>5. Settled(t)
    BY <2>3, <2>4 DEF Settled, ShowsAll
  <2>6. Settled(t)' /\ Empty(t)'
    BY <2>1, <2>5, <1>k, <1>r, <1>c, SameSettled
  <2> QED
    BY <2>1, <2>6, <1>d, WaitsNoMore
<1>13. CASE OrderFailed(c)
  <2>1. /\ calls' = calls \ {c} /\ UNCHANGED Server /\ c.at = "failed" /\ c.op = "order"
        /\ UNCHANGED <<marked, open, dialog>> /\ RestoreSortingSnapshot(t)
    BY <1>13, <1>e DEF OrderFailed
  <2>2. c.group \in Groups /\ c.group # NoGroup
    BY <2>1, <1>c, WebLaunchpadAssumption DEF OfGroup
  <2>3. sorting[t] = c.group
    BY <2>1, <1>k DEF Knows, KnowsOrder
  <2>4. /\ marked[t] = locks /\ ShowsAll(t, {c.group}) /\ ~IsLocked(t, c.group)
        /\ snapshot[t].group = c.group /\ Draft(t)
    BY <2>1, <2>2, <2>3, <1>k DEF PageInv, Sorts
  <2>5. ToSet(snapshot[t].rows) = RowsOf(c.group)
    BY <2>3, <2>4 DEF Draft
  <2>6. snapshot[t] # NoSnapshot
    BY <2>2, <2>4 DEF NoSnapshot
  <2>7. /\ shelf'[t][c.group] = snapshot[t].rows /\ \A g \in Groups : g # c.group => shelf'[t][g] = shelf[t][g]
        /\ snapshot'[t] = NoSnapshot /\ sorting'[t] = NoGroup
    BY <2>1, <2>2, <2>4, <2>6, <1>t, <1>c DEF RestoreSortingSnapshot, Shelve
  <2>8. \A g \in Groups : IsLocked(t, g)' <=> IsLocked(t, g)
    BY <2>1 DEF IsLocked
  <2>9. Settled(t)'
    BY <2>1, <2>2, <2>4, <2>5, <2>7, <2>8, <1>r DEF Settled, ShowsAll, Shows
  <2>10. Empty(t)'
    BY <2>4, <2>7, <2>8, <1>k DEF Empty
  <2> QED
    BY <2>1, <2>7, <2>9, <2>10, <1>d, WaitsNoMore
<1>14. CASE FailureShown(c)
  <2>1. /\ calls' = calls \ {c} /\ UNCHANGED Server /\ c.op # "order"
        /\ c.at = "failed" \/ (c.op = "setup" /\ c.at = "refused")
        /\ UNCHANGED <<shelf, marked, open, sorting, snapshot, dialog>>
    BY <1>14, <1>e DEF FailureShown
  <2>2. Settled(t)
    <3>1. c.op \in {"lock", "setup", "unlock", "dialog", "disable", "clear", "load", "save", "delete"}
      BY <2>1, <1>c DEF Call, Op
    <3> QED
      BY <2>1, <3>1, <1>k DEF Knows, KnowsLock, KnowsUnlock, KnowsDisable, KnowsClear, KnowsLoad, KnowsSave, KnowsDelete
  <2>3. Settled(t)' /\ Empty(t)'
    BY <2>1, <2>2, <1>k, <1>r, <1>c, SameSettled
  <2> QED
    BY <2>1, <2>3, <1>o, <1>u, WaitsNoMore
<1> QED
  BY <1>1, <1>2, <1>3, <1>4, <1>5, <1>6, <1>7, <1>8, <1>9, <1>10, <1>11, <1>12, <1>13, <1>14 DEF GoesOn

LEMMA FailsElsewhere ==
    ASSUME Types, NEW c \in calls, CallFails(c), NEW t \in Tabs \ crossed', t \notin crossed => PageInv(t)
    PROVE  t \notin crossed /\ PageInv(t)'
<1>1. /\ calls' = (calls \ {c}) \cup {[c EXCEPT !.at = "failed"]} /\ crossed' = crossed \cup {c.tab}
      /\ UNCHANGED Server /\ Still(t)
  BY DEF CallFails, Page, Still
<1>2. c \in Call
  BY DEF Types, Asks
<1>3. [c EXCEPT !.at = "failed"].tab = c.tab
  BY <1>2 DEF Call
<1>4. t # c.tab /\ t \notin crossed
  BY <1>1
<1>5. Mine(t)' = Mine(t)
  <2> SUFFICES {x \in calls' : x.tab = t} = {x \in calls : x.tab = t}
    BY DEF Mine
  <2> QED
    BY <1>1, <1>3, <1>4
<1> QED
  BY <1>1, <1>4, <1>5, Untouched

(* The user's acts concern the page they are done on.                      *)
LEMMA ActsElsewhere ==
    ASSUME Types, NEW t \in Tabs, UserActs(t), NEW x \in Tabs \ crossed', x # t, x \notin crossed => PageInv(x)
    PROVE  x \notin crossed /\ PageInv(x)'
<1>d. /\ DOMAIN shelf = Tabs /\ DOMAIN marked = Tabs /\ DOMAIN open = Tabs /\ DOMAIN sorting = Tabs
      /\ DOMAIN snapshot = Tabs /\ DOMAIN dialog = Tabs
  BY DEF Types, PageTypes
<1>s. \A g, rows : [shelf EXCEPT ![t][g] = rows][x] = shelf[x]
  BY <1>d
<1>n. \A op, g, s : NewCall(t, op, g, s).tab = t /\ (\A y : [NewCall(t, op, g, s) EXCEPT !.at = y].tab = t)
                    /\ (\A y : [NewCall(t, op, g, s) EXCEPT !.seen = y].tab = t)
                    /\ (\A h, y : [NewCall(t, op, g, s) EXCEPT !.rows[h] = y].tab = t)
  BY DEF NewCall
<1>m. ASSUME NEW c, c.tab = t, calls' = calls \cup {c} PROVE Mine(x)' = Mine(x)
  <2> SUFFICES {y \in calls' : y.tab = x} = {y \in calls : y.tab = x}
    BY DEF Mine
  <2> QED
    BY <1>m
<1>u. calls' = calls => Mine(x)' = Mine(x)
  BY DEF Mine
<1>o. \A a : Overtakes(t, a) => x \notin crossed
  BY DEF Overtakes
<1>p. ASSUME NEW c, c.tab = t, Start(t, c) PROVE Still(x) /\ UNCHANGED Server /\ Mine(x)' = Mine(x) /\ x \notin crossed
  BY <1>p, <1>m, <1>o DEF Start, Acts, Still, Page
<1>q. ASSUME x \notin crossed, Still(x), UNCHANGED Server, Mine(x)' = Mine(x) PROVE x \notin crossed /\ PageInv(x)'
  BY <1>q, Untouched
<1>r. RestoreSortingSnapshot(t) => UNCHANGED <<shelf[x], sorting[x], snapshot[x]>>
  BY <1>d, <1>s DEF RestoreSortingSnapshot, Shelve
<1>1. CASE Reload(t)
  <2>1. Still(x) /\ UNCHANGED Server /\ x \notin crossed
    BY <1>1, <1>d DEF Reload, Still
  <2>2. calls' = (calls \ Mine(t)) \cup {NewCall(t, "load", NoGroup, 0)}
    BY <1>1 DEF Reload
  <2>3. Mine(x)' = Mine(x)
    <3> SUFFICES {y \in calls' : y.tab = x} = {y \in calls : y.tab = x}
      BY DEF Mine
    <3> QED
      BY <2>2, <1>n DEF Mine
  <2> QED
    BY <2>1, <2>3, <1>q
<1>2. CASE LanguageChanges(t)
  <2>0. PICK c : c = NewCall(t, "load", NoGroup, 0)
    OBVIOUS
  <2>1. c.tab = t /\ calls' = calls \cup {c} /\ Still(x) /\ UNCHANGED Server /\ x \notin crossed
    BY <2>0, <1>2, <1>n, <1>o DEF LanguageChanges, Acts, Still
  <2> QED
    BY <2>1, <1>m, <1>q
<1>3. CASE HandleClearLockPassword(t)
  <2>0. PICK c : c = NewCall(t, "clear", NoGroup, 0)
    OBVIOUS
  <2>1. c.tab = t /\ Start(t, c)
    BY <2>0, <1>3, <1>n DEF HandleClearLockPassword
  <2> QED
    BY <2>1, <1>p, <1>q
<1>4. CASE SubmitUnlock(t)
  <2>0. PICK c : c = NewCall(t, "dialog", dialog[t].group, 0)
    OBVIOUS
  <2>1. c.tab = t /\ Start(t, c)
    BY <2>0, <1>4, <1>n DEF SubmitUnlock
  <2> QED
    BY <2>1, <1>p, <1>q
<1>5. CASE CloseDialog(t) \/ OpenSetup(t) \/ HandleClearSearch(t)
  <2>1. Still(x) /\ UNCHANGED <<Server, calls, crossed>>
    BY <1>5, <1>d DEF CloseDialog, OpenSetup, HandleClearSearch, Still
  <2> QED
    BY <2>1, <1>u, <1>q
<1>7. CASE SubmitSetup(t)
  <2>0. PICK c : c = [NewCall(t, "setup", dialog[t].group, 0) EXCEPT !.at = "password"]
    OBVIOUS
  <2>1. c.tab = t /\ Start(t, c)
    BY <2>0, <1>7, <1>n DEF SubmitSetup
  <2> QED
    BY <2>1, <1>p, <1>q
<1>8. ASSUME NEW g \in Groups, HandleUnlockGroup(t, g) PROVE x \notin crossed /\ PageInv(x)'
  <2>0. PICK c : c = [NewCall(t, "unlock", g, 0) EXCEPT !.at = "status"]
    OBVIOUS
  <2>1. c.tab = t /\ Start(t, c)
    BY <2>0, <1>8, <1>n DEF HandleUnlockGroup
  <2> QED
    BY <2>1, <1>p, <1>q
<1>9. ASSUME NEW g \in Groups, HandleLockGroup(t, g) PROVE x \notin crossed /\ PageInv(x)'
  <2>0. PICK c : c = [NewCall(t, "lock", g, 0) EXCEPT !.at = "status"]
    OBVIOUS
  <2>1. c.tab = t /\ Start(t, c)
    BY <2>0, <1>9, <1>n DEF HandleLockGroup
  <2> QED
    BY <2>1, <1>p, <1>q
<1>10. ASSUME NEW g \in Groups, HandleDisableGroupLock(t, g) PROVE x \notin crossed /\ PageInv(x)'
  <2>0. PICK c : c = [NewCall(t, "disable", g, 0) EXCEPT !.rows[g] = Drawn(t, g)]
    OBVIOUS
  <2>1. c.tab = t /\ calls' = calls \cup {c} /\ Still(x) /\ UNCHANGED Server /\ x \notin crossed
    BY <2>0, <1>10, <1>n, <1>o DEF HandleDisableGroupLock, Still, Page
  <2> QED
    BY <2>1, <1>m, <1>q
<1>11. ASSUME NEW g \in Groups, StartSorting(t, g) PROVE x \notin crossed /\ PageInv(x)'
  <2>1. Still(x) /\ UNCHANGED <<Server, calls>> /\ x \notin crossed
    BY <1>11, <1>d, <1>o DEF StartSorting, Acts, Still
  <2> QED
    BY <2>1, <1>u, <1>q
<1>12. ASSUME NEW g \in Groups, NEW s \in Sites, HandleSaveSite(t, s, g) PROVE x \notin crossed /\ PageInv(x)'
  <2>0. PICK c : c = [NewCall(t, "save", g, s) EXCEPT !.seen = open[t]]
    OBVIOUS
  <2>1. c.tab = t /\ Start(t, c)
    BY <2>0, <1>12, <1>n DEF HandleSaveSite
  <2> QED
    BY <2>1, <1>p, <1>q
<1>13. ASSUME NEW s \in Sites, HandleDeleteSite(t, s) PROVE x \notin crossed /\ PageInv(x)'
  <2>0. PICK c : c = NewCall(t, "delete", NoGroup, s)
    OBVIOUS
  <2>1. c.tab = t /\ Start(t, c)
    BY <2>0, <1>13, <1>n DEF HandleDeleteSite
  <2> QED
    BY <2>1, <1>p, <1>q
<1>14. ASSUME NEW i \in Sites, NEW j \in Sites, HandleSiteDragEnd(t, i, j) PROVE x \notin crossed /\ PageInv(x)'
  <2>1. PICK g, rows : shelf' = [shelf EXCEPT ![t][g] = rows]
    BY <1>14 DEF HandleSiteDragEnd, Shelve
  <2>2. Still(x) /\ UNCHANGED <<Server, calls, crossed>>
    BY <2>1, <1>14, <1>s DEF HandleSiteDragEnd, Still
  <2> QED
    BY <2>2, <1>u, <1>q
<1>15. ASSUME NEW found \in SUBSET Sites, HandleSearchTermChange(t, found) PROVE x \notin crossed /\ PageInv(x)'
  <2>1. Still(x) /\ UNCHANGED <<Server, calls>> /\ x \notin crossed
    BY <1>15, <1>r, <1>o DEF HandleSearchTermChange, Still
  <2> QED
    BY <2>1, <1>u, <1>q
<1>16. CASE FinishSorting(t)
  <2>1. /\ UNCHANGED <<Server, shelf, marked, open, dialog>> /\ x \notin crossed
    BY <1>16, <1>o DEF FinishSorting
  <2>2. CASE calls' = calls \cup {[NewCall(t, "order", sorting[t], 0) EXCEPT !.rows[sorting[t]] = shelf[t][sorting[t]]]}
             /\ UNCHANGED <<sorting, snapshot>>
    <3>0. PICK c : c = [NewCall(t, "order", sorting[t], 0) EXCEPT !.rows[sorting[t]] = shelf[t][sorting[t]]]
      OBVIOUS
    <3>1. c.tab = t /\ calls' = calls \cup {c} /\ Still(x)
      BY <2>1, <2>2, <3>0, <1>n DEF Still
    <3> QED
      BY <2>1, <3>1, <1>m, <1>q
  <2>3. CASE sorting' = [sorting EXCEPT ![t] = NoGroup] /\ snapshot' = [snapshot EXCEPT ![t] = NoSnapshot] /\ UNCHANGED calls
    <3>1. Still(x)
      BY <2>1, <2>3, <1>d DEF Still
    <3> QED
      BY <2>1, <2>3, <3>1, <1>u, <1>q
  <2> QED
    BY <1>16, <2>2, <2>3 DEF FinishSorting
<1>18. CASE ToggleGroup(t)
  <2>1. Still(x) /\ UNCHANGED <<Server, calls>> /\ x \notin crossed
    BY <1>18, <1>d, <1>o DEF ToggleGroup, Still
  <2> QED
    BY <2>1, <1>u, <1>q
<1> QED
  BY <1>1, <1>2, <1>3, <1>4, <1>5, <1>7, <1>8, <1>9, <1>10, <1>11, <1>12, <1>13, <1>14, <1>15,
     <1>16, <1>18 DEF UserActs

(* A page at rest that starts to wait.                                     *)
LEMMA StartsToWait ==
    ASSUME Types, NEW t \in Tabs, PageInv(t), Alone(t), NEW c, c.tab = t, calls' = calls \cup {c},
           Kept(t), Knows(t, c)', AsksFor(t)'
    PROVE  PageInv(t)'
<1>1. Mine(t) = {} /\ sorting[t] = NoGroup /\ snapshot[t] = NoSnapshot
  BY DEF Alone, PageInv, Sorts
<1>2. Mine(t)' = {c}
  <2> SUFFICES {x \in calls' : x.tab = t} = {c}
    BY DEF Mine
  <2>1. \A x \in calls : x.tab # t
    BY <1>1 DEF Mine
  <2> QED
    BY <2>1
<1>3. (\A x, y \in Mine(t)' : x = y) /\ Mine(t)' # {} /\ \A x \in Mine(t)' : Knows(t, x)'
  <2>1. \A x \in Mine(t)' : x = c
    BY <1>2
  <2> QED
    BY <2>1, <1>2
<1>4. Empty(t)'
  BY DEF PageInv, Empty, IsLocked, Kept
<1>5. Sorts(t)'
  BY <1>1 DEF Sorts, Kept
<1> QED
  BY <1>3, <1>4, <1>5 DEF PageInv

LEMMA ActsHere ==
    ASSUME Types, NEW t \in Tabs \ crossed', UserActs(t), t \notin crossed => PageInv(t)
    PROVE  PageInv(t)'
<1>c. ServerTypes /\ PageTypes /\ t \in Tabs
  BY DEF Types
<1>d. /\ DOMAIN shelf = Tabs /\ DOMAIN marked = Tabs /\ DOMAIN open = Tabs /\ DOMAIN sorting = Tabs
      /\ DOMAIN snapshot = Tabs /\ DOMAIN dialog = Tabs /\ DOMAIN shelf[t] = Groups
      /\ marked[t] \in SUBSET Groups /\ open[t] \in SUBSET Groups
      /\ \A g \in Groups : shelf[t][g] \in Rows
      /\ sorting[t] \in Groups \cup {NoGroup}
  BY <1>c DEF PageTypes
<1>n. \A op, g, s : /\ NewCall(t, op, g, s).tab = t /\ NewCall(t, op, g, s).op = op
                    /\ NewCall(t, op, g, s).at = "sent" /\ NewCall(t, op, g, s).group = g
  BY DEF NewCall
<1>e. \A op, g, s, y : LET c == [NewCall(t, op, g, s) EXCEPT !.at = y]
                       IN c.tab = t /\ c.op = op /\ c.at = y /\ c.group = g
  BY DEF NewCall
<1>o. \A a : Overtakes(t, a) => t \notin crossed /\ a
  BY DEF Overtakes
<1>r. UNCHANGED Server => /\ UNCHANGED <<status, home, place, locks>>
                          /\ \A g \in Groups : RowsOf(g)' = RowsOf(g)
  BY SameRows DEF Server
<1>a. ASSUME Alone(t), PageInv(t)
      PROVE  Settled(t) /\ Mine(t) = {} /\ sorting[t] = NoGroup /\ snapshot[t] = NoSnapshot
  BY <1>a DEF Alone, PageInv, Sorts
<1>k. ASSUME Acts(t)
      PROVE  /\ UNCHANGED Server /\ Alone(t) /\ PageInv(t) /\ Settled(t) /\ Mine(t) = {}
             /\ sorting[t] = NoGroup /\ snapshot[t] = NoSnapshot
  BY <1>k, <1>o, <1>a DEF Acts
<1>s. ASSUME NEW c, Start(t, c)
      PROVE  /\ Alone(t) /\ PageInv(t) /\ Settled(t) /\ Settled(t)' /\ Kept(t) /\ calls' = calls \cup {c}
             /\ dialog' = dialog
  <2>1. Acts(t) /\ UNCHANGED Page /\ calls' = calls \cup {c}
    BY <1>s DEF Start
  <2>2. UNCHANGED <<shelf[t], marked[t], open[t]>> /\ Kept(t) /\ dialog' = dialog
    BY <2>1 DEF Page, Kept
  <2> QED
    BY <2>1, <2>2, <1>k, <1>r, SameSettled
<1>v. dialog'[t].mode # "unlock" => AsksFor(t)'
  BY DEF AsksFor
<1>x. CanAct(t) => dialog[t].mode = "none"
  BY DEF CanAct
<1>1. CASE Reload(t)
  <2>0. PICK c : c = NewCall(t, "load", NoGroup, 0)
    OBVIOUS
  <2>1. /\ calls' = (calls \ Mine(t)) \cup {c} /\ c.tab = t /\ c.op = "load" /\ c.at = "sent"
        /\ marked'[t] = {} /\ sorting'[t] = NoGroup /\ snapshot'[t] = NoSnapshot /\ dialog'[t] = NoDialog
    BY <2>0, <1>1, <1>d, <1>n DEF Reload
  <2>2. Mine(t)' = {c}
    <3> SUFFICES {x \in calls' : x.tab = t} = {c}
      BY DEF Mine
    <3> QED
      BY <2>1 DEF Mine
  <2>3. Knows(t, c)'
    BY <2>1 DEF Knows, KnowsLoad
  <2>4. (\A x, y \in Mine(t)' : x = y) /\ Mine(t)' # {} /\ \A x \in Mine(t)' : Knows(t, x)'
    <3>1. \A x \in Mine(t)' : x = c
      BY <2>2
    <3> QED
      BY <3>1, <2>2, <2>3
  <2>5. Empty(t)' /\ Sorts(t)' /\ AsksFor(t)'
    BY <2>1 DEF Empty, IsLocked, Sorts, AsksFor, NoDialog
  <2> QED
    BY <2>4, <2>5 DEF PageInv
<1>2. CASE LanguageChanges(t)
  <2>0. PICK c : c = NewCall(t, "load", NoGroup, 0)
    OBVIOUS
  <2>1. /\ Acts(t) /\ calls' = calls \cup {c} /\ c.tab = t /\ c.op = "load" /\ c.at = "sent"
        /\ Kept(t) /\ dialog'[t].mode = "none"
    BY <2>0, <1>2, <1>n DEF LanguageChanges, Kept
  <2>2. Knows(t, c)'
    BY <2>1 DEF Knows, KnowsLoad
  <2> QED
    BY <2>1, <2>2, <1>k, <1>v, StartsToWait
<1>3. CASE HandleClearLockPassword(t)
  <2>0. PICK c : c = NewCall(t, "clear", NoGroup, 0)
    OBVIOUS
  <2>1. Start(t, c) /\ c.tab = t /\ c.op = "clear" /\ c.at = "sent" /\ dialog[t].mode = "none"
    BY <2>0, <1>3, <1>n DEF HandleClearLockPassword
  <2>2. Knows(t, c)'
    BY <2>1, <1>s DEF Knows, KnowsClear
  <2> QED
    BY <2>1, <2>2, <1>s, <1>v, StartsToWait
<1>4. CASE SubmitUnlock(t)
  <2>0. PICK c : c = NewCall(t, "dialog", dialog[t].group, 0)
    OBVIOUS
  <2>1. /\ Start(t, c) /\ c.tab = t /\ c.op = "dialog" /\ c.at = "sent" /\ c.group = dialog[t].group
        /\ dialog[t].mode = "unlock"
    BY <2>0, <1>4, <1>n DEF SubmitUnlock
  <2>2. /\ Settled(t)' /\ Alone(t) /\ PageInv(t) /\ Kept(t) /\ calls' = calls \cup {c} /\ dialog' = dialog
    BY <2>1, <1>s
  <2>3. dialog[t].group \in marked[t]
    BY <2>1, <2>2 DEF PageInv, AsksFor
  <2>4. Knows(t, c)'
    BY <2>1, <2>2, <2>3 DEF Knows, KnowsUnlock, Kept
  <2>5. Mine(t) = {}
    BY <2>2 DEF Alone
  <2>6. \A x \in Mine(t)' : x = c
    BY <2>2, <2>5 DEF Mine
  <2>7. AsksFor(t)'
    BY <2>1, <2>2, <2>3, <2>6 DEF AsksFor, Kept
  <2> QED
    BY <2>1, <2>2, <2>4, <2>7, StartsToWait
<1>5. CASE CloseDialog(t) \/ OpenSetup(t)
  <2>1. UNCHANGED <<Server, calls, crossed>> /\ Kept(t)
    BY <1>5 DEF CloseDialog, OpenSetup, Kept
  <2>2. dialog'[t].mode # "unlock"
    BY <1>5, <1>d DEF CloseDialog, OpenSetup, NoDialog
  <2>3. Mine(t)' = Mine(t)
    BY <2>1 DEF Mine
  <2> QED
    BY <2>1, <2>2, <2>3, <1>v, UntouchedBut
<1>7. CASE SubmitSetup(t)
  <2>0. PICK c : c = [NewCall(t, "setup", dialog[t].group, 0) EXCEPT !.at = "password"]
    OBVIOUS
  <2>1. Start(t, c) /\ c.tab = t /\ c.op = "setup" /\ c.at = "password" /\ dialog[t].mode = "setup"
    BY <2>0, <1>7, <1>e DEF SubmitSetup
  <2>2. Knows(t, c)'
    BY <2>1, <1>s DEF Knows, KnowsLock
  <2> QED
    BY <2>1, <2>2, <1>s, <1>v, StartsToWait
<1>8. ASSUME NEW g \in Groups, HandleUnlockGroup(t, g) PROVE PageInv(t)'
  <2>0. PICK c : c = [NewCall(t, "unlock", g, 0) EXCEPT !.at = "status"]
    OBVIOUS
  <2>1. /\ Start(t, c) /\ c.tab = t /\ c.op = "unlock" /\ c.at = "status" /\ c.group = g
        /\ g \in marked[t] /\ CanAct(t)
    BY <2>0, <1>8, <1>e DEF HandleUnlockGroup, IsLocked
  <2>2. Knows(t, c)'
    BY <2>1, <1>s DEF Knows, KnowsUnlock, Kept
  <2> QED
    BY <2>1, <2>2, <1>s, <1>v, <1>x, StartsToWait
<1>9. ASSUME NEW g \in Groups, HandleLockGroup(t, g) PROVE PageInv(t)'
  <2>0. PICK c : c = [NewCall(t, "lock", g, 0) EXCEPT !.at = "status"]
    OBVIOUS
  <2>1. Start(t, c) /\ c.tab = t /\ c.op = "lock" /\ c.at = "status" /\ CanAct(t)
    BY <2>0, <1>9, <1>e DEF HandleLockGroup
  <2>2. Knows(t, c)'
    BY <2>1, <1>s DEF Knows, KnowsLock
  <2> QED
    BY <2>1, <2>2, <1>s, <1>v, <1>x, StartsToWait
<1>10. ASSUME NEW g \in Groups, HandleDisableGroupLock(t, g) PROVE PageInv(t)'
  <2>0. PICK c : c = [NewCall(t, "disable", g, 0) EXCEPT !.rows[g] = Drawn(t, g)]
    OBVIOUS
  <2>1. c.tab = t /\ c.op = "disable" /\ c.at = "sent" /\ c.group = g /\ c.rows[g] = Drawn(t, g)
    BY <2>0 DEF NewCall
  <2>2. /\ calls' = calls \cup {c} /\ UNCHANGED <<Server, Page>> /\ CanAct(t) /\ g \in marked[t] \cap open[t]
        /\ Overtakes(t, Alone(t) /\ ~Searching(t))
    BY <2>0, <1>10 DEF HandleDisableGroupLock
  <2>3. PageInv(t) /\ Alone(t) /\ ~Searching(t) /\ Settled(t)
    BY <2>2, <1>o, <1>a
  <2>4. ToSet(c.rows[g]) = RowsOf(g)
    BY <2>1, <2>2, <2>3, <1>c, ShownRows DEF Settled, ShowsAll, Shows, IsLocked
  <2>5. Kept(t) /\ UNCHANGED <<shelf[t], marked[t], open[t]>> /\ dialog'[t].mode = "none"
    BY <2>2, <1>x DEF Kept, Page
  <2>6. Settled(t)'
    BY <2>2, <2>3, <2>5, <1>r, SameSettled
  <2>7. Knows(t, c)'
    BY <2>1, <2>2, <2>4, <2>6, <1>r DEF Knows, KnowsDisable
  <2> QED
    BY <2>1, <2>2, <2>3, <2>5, <2>7, <1>v, StartsToWait
<1>11. ASSUME NEW g \in Groups, StartSorting(t, g) PROVE PageInv(t)'
  <2>1. /\ Acts(t) /\ ~IsLocked(t, g) /\ CanAct(t) /\ UNCHANGED <<shelf, marked, open, dialog, calls>>
        /\ snapshot'[t] = [group |-> g, rows |-> shelf[t][g]] /\ sorting'[t] = g
    BY <1>11, <1>d DEF StartSorting
  <2>2. UNCHANGED Server /\ PageInv(t) /\ Settled(t) /\ Mine(t)' = {} /\ g # NoGroup
    BY <2>1, <1>k, WebLaunchpadAssumption DEF Mine
  <2>3. Empty(t)' /\ Settled(t)'
    BY <2>1, <2>2, <1>r, SameSettled DEF PageInv
  <2>4. ToSet(shelf[t][g]) = RowsOf(g)
    BY <2>1, <2>2 DEF Settled, ShowsAll, Shows
  <2>5. Draft(t)'
    <3>1. RowsOf(g)' = RowsOf(g) /\ shelf' = shelf
      BY <2>1, <2>2, <1>r
    <3> QED
      BY <2>1, <2>4, <3>1 DEF Draft
  <2>6. ShowsAll(t, {g})' /\ ~IsLocked(t, g)'
    BY <2>1, <2>3 DEF Settled, ShowsAll, IsLocked
  <2>7. Sorts(t)'
    BY <2>1, <2>2, <2>3, <2>5, <2>6 DEF Sorts, Settled
  <2> QED
    BY <2>1, <2>2, <2>3, <2>7, <1>v, <1>x DEF PageInv
<1>12. ASSUME NEW g \in Groups, NEW s \in Sites, HandleSaveSite(t, s, g) PROVE PageInv(t)'
  <2>0. PICK c : c = [NewCall(t, "save", g, s) EXCEPT !.seen = open[t]]
    OBVIOUS
  <2>1. Start(t, c) /\ c.tab = t /\ c.op = "save" /\ c.at = "sent" /\ c.seen = open[t] /\ CanAct(t)
    BY <2>0, <1>12 DEF HandleSaveSite, NewCall, CanEdit
  <2>2. Knows(t, c)'
    BY <2>1, <1>s DEF Knows, KnowsSave, Kept
  <2> QED
    BY <2>1, <2>2, <1>s, <1>v, <1>x, StartsToWait
<1>13. ASSUME NEW s \in Sites, HandleDeleteSite(t, s) PROVE PageInv(t)'
  <2>0. PICK c : c = NewCall(t, "delete", NoGroup, s)
    OBVIOUS
  <2>1. Start(t, c) /\ c.tab = t /\ c.op = "delete" /\ c.at = "sent" /\ CanAct(t)
    BY <2>0, <1>13, <1>n DEF HandleDeleteSite, CanEdit
  <2>2. Knows(t, c)'
    BY <2>1, <1>s DEF Knows, KnowsDelete
  <2> QED
    BY <2>1, <2>2, <1>s, <1>v, <1>x, StartsToWait
<1>14. ASSUME NEW i \in Sites, NEW j \in Sites, HandleSiteDragEnd(t, i, j) PROVE PageInv(t)'
  <2> DEFINE g == sorting[t]
             q == shelf[t][g]
  <2>1. /\ g # NoGroup /\ {i, j} \subseteq DOMAIN q /\ CanAct(t) /\ ~Ordering(t)
        /\ shelf' = [shelf EXCEPT ![t][g] = Renumbered(Moved(q, i, j))]
        /\ UNCHANGED <<Server, marked, open, sorting, snapshot, dialog, calls, crossed>>
    BY <1>14 DEF HandleSiteDragEnd, Shelve, Renumbered, Moved
  <2>2. g \in Groups /\ q \in Rows /\ PageInv(t)
    BY <2>1, <1>d
  <2>3. Mine(t) = {} /\ Mine(t)' = {}
    BY <2>1, <2>2 DEF PageInv, Sorts, Ordering, Mine
  <2>4. /\ snapshot[t].group = g /\ ~IsLocked(t, g) /\ marked[t] = locks /\ ShowsAll(t, {g}) /\ Draft(t)
    BY <2>1, <2>2, <2>3 DEF PageInv, Sorts
  <2> DEFINE p == Renumbered(Moved(q, i, j))
  <2>5. SitesIn(ToSet(p)) = SitesIn(ToSet(q)) /\ Numbered(p)
    BY <2>1, <2>2, RowsFacts, MovedRows
  <2> HIDE DEF p
  <2>6. shelf'[t][g] = p /\ \A h \in Groups : h # g => shelf'[t][h] = shelf[t][h]
    BY <2>1, <2>2, <1>d DEF p
  <2>7. Empty(t)'
    BY <2>1, <2>2, <2>4, <2>6 DEF PageInv, Empty, IsLocked
  <2>8. ShowsAll(t, {g})' /\ ~IsLocked(t, g)'
    BY <2>1, <2>4, <2>6, <1>r DEF ShowsAll, Shows, IsLocked
  <2>9. Draft(t)'
    <3>1. RowsOf(g)' = RowsOf(g) /\ sorting' = sorting /\ snapshot' = snapshot
      BY <2>1, <2>2, <1>r
    <3>2. ToSet(snapshot[t].rows) = RowsOf(g) /\ SitesIn(ToSet(p)) = SitesIn(RowsOf(g))
      BY <2>4, <2>5 DEF Draft
    <3>3. g' = g
      BY <3>1
    <3> QED
      BY <3>1, <3>2, <3>3, <2>5, <2>6 DEF Draft
  <2>10. Sorts(t)'
    BY <2>1, <2>3, <2>4, <2>8, <2>9 DEF Sorts, Server
  <2> QED
    BY <2>1, <2>3, <2>7, <2>10, <1>v, <1>x DEF PageInv
<1>15. ASSUME NEW found \in SUBSET Sites, HandleSearchTermChange(t, found) PROVE PageInv(t)'
  <2>1. /\ Overtakes(t, Mine(t) = {}) /\ CanAct(t) /\ RestoreSortingSnapshot(t)
        /\ UNCHANGED <<Server, marked, open, dialog, calls>>
    BY <1>15 DEF HandleSearchTermChange
  <2>2. PageInv(t) /\ Mine(t) = {} /\ Mine(t)' = {}
    BY <2>1, <1>o DEF Mine
  <2>3. CASE sorting[t] = NoGroup
    <3>1. snapshot[t] = NoSnapshot
      BY <2>2, <2>3 DEF PageInv, Sorts
    <3>2. Still(t)
      BY <2>1, <3>1 DEF RestoreSortingSnapshot, Still
    <3> QED
      BY <2>1, <2>2, <3>2, Untouched
  <2>4. CASE sorting[t] # NoGroup
    <3> DEFINE g == sorting[t]
    <3>1. g \in Groups /\ snapshot[t].group = g /\ ~IsLocked(t, g) /\ marked[t] = locks /\ ShowsAll(t, {g}) /\ Draft(t)
      BY <2>2, <2>4, <1>d DEF PageInv, Sorts
    <3>2. ToSet(snapshot[t].rows) = RowsOf(g)
      BY <3>1 DEF Draft
    <3>3. snapshot[t] # NoSnapshot
      BY <2>4, <3>1 DEF NoSnapshot
    <3>4. /\ shelf'[t][g] = snapshot[t].rows /\ \A h \in Groups : h # g => shelf'[t][h] = shelf[t][h]
          /\ snapshot'[t] = NoSnapshot /\ sorting'[t] = NoGroup
      BY <2>1, <3>1, <3>3, <1>d DEF RestoreSortingSnapshot, Shelve
    <3>5. \A h \in Groups : IsLocked(t, h)' <=> IsLocked(t, h)
      BY <2>1 DEF IsLocked
    <3>6. Settled(t)'
      BY <2>1, <3>1, <3>2, <3>4, <3>5, <1>r DEF Settled, ShowsAll, Shows
    <3>7. Empty(t)'
      BY <2>2, <3>1, <3>4, <3>5 DEF PageInv, Empty
    <3>8. Sorts(t)'
      BY <3>4 DEF Sorts
    <3> QED
      BY <2>1, <2>2, <3>6, <3>7, <3>8, <1>v, <1>x DEF PageInv
  <2> QED
    BY <2>3, <2>4
<1>16. CASE FinishSorting(t)
  <2> DEFINE g == sorting[t]
             items == SitesOf(shelf[t][g])
             original == SitesOf(snapshot[t].rows)
             changed == \E i \in DOMAIN items : i \notin DOMAIN original \/ items[i] # original[i]
  <2>1. /\ g # NoGroup /\ CanAct(t) /\ UNCHANGED <<Server, shelf, marked, open, dialog>>
        /\ Overtakes(t, Mine(t) = {} /\ (changed \/ shelf[t][g] = snapshot[t].rows))
    BY <1>16 DEF FinishSorting
  <2>2. PageInv(t) /\ Mine(t) = {} /\ (changed \/ shelf[t][g] = snapshot[t].rows) /\ g \in Groups
    BY <2>1, <1>o, <1>d
  <2>3. /\ snapshot[t].group = g /\ ~IsLocked(t, g) /\ marked[t] = locks /\ ShowsAll(t, {g}) /\ Draft(t)
    BY <2>1, <2>2 DEF PageInv, Sorts
  <2>c. changed => shelf[t][g] # snapshot[t].rows
    OBVIOUS
  <2>i. CASE ~changed /\ sorting' = [sorting EXCEPT ![t] = NoGroup] /\ snapshot' = [snapshot EXCEPT ![t] = NoSnapshot]
             /\ UNCHANGED calls
    <3>0. shelf[t][g] = snapshot[t].rows
      BY <2>2, <2>i
    <3> HIDE DEF changed
    <3>1. Mine(t)' = {} /\ sorting'[t] = NoGroup /\ snapshot'[t] = NoSnapshot
      BY <2>i, <2>2, <1>d DEF Mine
    <3>2. Shows(t, g)
      BY <3>0, <2>3 DEF Draft, Shows
    <3>3. Settled(t)
      BY <3>2, <2>2, <2>3 DEF Settled, ShowsAll
    <3>4. Settled(t)' /\ Empty(t)'
      BY <2>1, <2>2, <3>3, <1>r, SameSettled DEF PageInv
    <3>5. Sorts(t)'
      BY <3>1 DEF Sorts
    <3> QED
      BY <2>1, <3>1, <3>4, <3>5, <1>v, <1>x DEF PageInv
  <2>o. CASE /\ changed /\ UNCHANGED <<sorting, snapshot>>
             /\ calls' = calls \cup {[NewCall(t, "order", g, 0) EXCEPT !.rows[g] = shelf[t][g]]}
    <3>n. Numbered(shelf[t][g])
      BY <2>3, <2>c, <2>o DEF Draft
    <3> HIDE DEF changed
    <3>0. PICK c : c = [NewCall(t, "order", g, 0) EXCEPT !.rows[g] = shelf[t][g]]
      OBVIOUS
    <3>1. c.tab = t /\ c.op = "order" /\ c.at = "sent" /\ c.group = g /\ c.rows[g] = shelf[t][g]
      BY <3>0, <2>2 DEF NewCall
    <3>2. Mine(t)' = {c}
      <4> SUFFICES {x \in calls' : x.tab = t} = {c}
        BY DEF Mine
      <4>1. \A x \in calls : x.tab # t
        BY <2>2 DEF Mine
      <4> QED
        BY <2>o, <3>0, <3>1, <4>1
    <3>3. sorting' = sorting /\ shelf' = shelf /\ Kept(t) /\ UNCHANGED <<shelf[t], marked[t], open[t]>>
      BY <2>1, <2>o DEF Kept
    <3>4. Knows(t, c)'
      BY <3>1, <3>3, <3>n DEF Knows, KnowsOrder
    <3>5. (\A x, y \in Mine(t)' : x = y) /\ Mine(t)' # {} /\ \A x \in Mine(t)' : Knows(t, x)' /\ x.op = "order"
      <4>1. \A x \in Mine(t)' : x = c
        BY <3>2
      <4> QED
        BY <4>1, <3>1, <3>2, <3>4
    <3>6. Empty(t)' /\ ShowsAll(t, {g})' /\ ~IsLocked(t, g)'
      <4>1. Empty(t)'
        BY <2>1, <2>2, <3>3, <1>r, SameSettled DEF PageInv
      <4>2. ShowsAll(t, {g})'
        BY <2>1, <2>3, <3>3, <1>r DEF ShowsAll, Shows, IsLocked
      <4> QED
        BY <4>1, <4>2, <2>1, <2>3, <3>3 DEF IsLocked
    <3>7. Draft(t)'
      BY <2>1, <2>2, <2>3, <3>3, <1>r, SameDraft
    <3>8. marked'[t] = locks' /\ snapshot'[t].group = g /\ sorting'[t] = g
      BY <2>1, <2>3, <2>o DEF Server
    <3>9. Sorts(t)'
      BY <2>1, <3>5, <3>6, <3>7, <3>8 DEF Sorts
    <3> QED
      BY <2>1, <3>5, <3>6, <3>9, <1>v, <1>x DEF PageInv
  <2> QED
    BY <1>16, <2>i, <2>o DEF FinishSorting
<1>17. CASE HandleClearSearch(t)
  <2>1. Still(t) /\ UNCHANGED <<Server, calls, crossed>>
    BY <1>17 DEF HandleClearSearch, Still
  <2>2. Mine(t)' = Mine(t)
    BY <2>1 DEF Mine
  <2> QED
    BY <2>1, <2>2, Untouched
<1>18. CASE ToggleGroup(t)
  BY <1>18 DEF ToggleGroup, Overtakes
<1> QED
  BY <1>1, <1>2, <1>3, <1>4, <1>5, <1>7, <1>8, <1>9, <1>10, <1>11, <1>12, <1>13, <1>14, <1>15,
     <1>16, <1>17, <1>18 DEF UserActs

-----------------------------------------------------------------------------
(* The invariant, and what it says.                                        *)

LEMMA InvInit == Init => Inv
<1> SUFFICES ASSUME Init PROVE Inv
  OBVIOUS
<1>1. Types
  BY TypesInit
<1>2. LockedGroupsHaveAPassword /\ SortingCanBeFinished
  BY DEF Init, LockedGroupsHaveAPassword, SortingCanBeFinished
<1>3. ASSUME NEW t \in Tabs PROVE PageInv(t)
  <2>1. /\ shelf[t] = [g \in Groups |-> IF g \in locks THEN <<>> ELSE Sorted(RowsOf(g))]
        /\ marked[t] = locks /\ open[t] = {} /\ sorting[t] = NoGroup /\ snapshot[t] = NoSnapshot
        /\ dialog[t] = NoDialog /\ calls = {}
    BY DEF Init
  <2>2. Mine(t) = {}
    BY <2>1 DEF Mine
  <2>3. \A g \in Groups : IsLocked(t, g) <=> g \in locks
    BY <2>1 DEF IsLocked
  <2>4. Settled(t)
    BY <2>1, <2>3, <1>1, GroupRows DEF Settled, ShowsAll, Shows, Types
  <2>5. Empty(t)
    BY <2>1, <2>3 DEF Empty
  <2>6. AsksFor(t) /\ Sorts(t)
    BY <2>1 DEF AsksFor, Sorts, NoDialog
  <2> QED
    BY <2>2, <2>4, <2>5, <2>6 DEF PageInv
<1> QED
  BY <1>1, <1>2, <1>3 DEF Inv

LEMMA InvKept == Inv /\ [Next]_vars => Inv'
<1> SUFFICES ASSUME Inv, [Next]_vars PROVE Inv'
  OBVIOUS
<1>1. Types /\ LockedGroupsHaveAPassword /\ SortingCanBeFinished /\ \A t \in Tabs \ crossed : PageInv(t)
  BY DEF Inv
<1>2. Types' /\ LockedGroupsHaveAPassword' /\ SortingCanBeFinished'
  BY <1>1, TypesKept, LocksKeepAPassword, SortingsCanBeFinished
<1>3. ASSUME NEW t \in Tabs \ crossed' PROVE PageInv(t)'
  <2>0. t \notin crossed => PageInv(t)
    BY <1>1
  <2>1. ASSUME NEW c \in calls, Serves(c) PROVE PageInv(t)'
    <3>1. CASE t = c.tab
      <4>1. crossed \subseteq crossed'
        BY <2>1 DEF Serves, ReadGroups, ReadSites, StatusRead, UnlockGroup, SetLockPassword, LockChecked,
           LockInserted, LockRemoved, ClearLockPassword, SiteWritten, SiteRemoved, OrderWritten, Writes
      <4>2. PageInv(c.tab)
        BY <2>0, <3>1, <4>1
      <4> QED
        BY <1>1, <2>1, <3>1, <4>2, ServedHere
    <3>2. CASE t # c.tab
      BY <1>1, <2>0, <2>1, <3>2, ServedElsewhere
    <3> QED
      BY <3>1, <3>2
  <2>2. ASSUME NEW c \in calls, GoesOn(c) PROVE PageInv(t)'
    <3>1. crossed' = crossed
      BY <2>2 DEF GoesOn, Loaded, AsksForPassword, NeedsNoPassword, Unlocked, LockGoesOn, LockNeedsPassword,
         Locked, LockDisabled, LockPasswordCleared, SiteSaved, SiteDeleted, OrderSaved, OrderFailed, FailureShown,
         Ends
    <3>2. PageInv(t)
      BY <2>0, <3>1
    <3>3. CASE t = c.tab
      BY <1>1, <2>2, <3>2, <3>3, GoneHere
    <3>4. CASE t # c.tab
      BY <1>1, <2>2, <3>2, <3>4, GoneElsewhere
    <3> QED
      BY <3>3, <3>4
  <2>3. ASSUME NEW c \in calls, CallFails(c) PROVE PageInv(t)'
    BY <1>1, <2>0, <2>3, FailsElsewhere
  <2>4. ASSUME NEW x \in Tabs, UserActs(x) PROVE PageInv(t)'
    <3>1. CASE t = x
      BY <1>1, <2>0, <2>4, <3>1, ActsHere
    <3>2. CASE t # x
      BY <1>1, <2>0, <2>4, <3>2, ActsElsewhere
    <3> QED
      BY <3>1, <3>2
  <2>5. CASE UNCHANGED vars
    <3>1. Still(t) /\ UNCHANGED Server /\ Mine(t)' = Mine(t) /\ crossed' = crossed
      BY <2>5 DEF vars, Page, Still, Mine
    <3> QED
      BY <1>1, <2>0, <3>1, Untouched
  <2> QED
    BY <2>1, <2>2, <2>3, <2>4, <2>5 DEF Next
<1> QED
  BY <1>2, <1>3 DEF Inv

LEMMA AlwaysInv == Spec => []Inv
  BY InvInit, InvKept, PTL DEF Spec

(* A locked group can be opened with a password, and leaves nothing of it  *)
(* on a page that nobody overtook; a sorting can always be finished.       *)
THEOREM LocksAreKept == Spec => []LocksHold
<1>1. Inv => LocksHold
  <2> SUFFICES ASSUME Inv PROVE LocksHold
    OBVIOUS
  <2>1. ServerTypes /\ PageTypes /\ (\A c \in calls : Asks(c)) /\ crossed \subseteq Tabs /\ raced \in BOOLEAN
        /\ events \in 0..MaxEvents
    BY DEF Inv, Types
  <2>2. \A t \in Tabs, g \in Groups : ToSet(shelf[t][g]) \subseteq Row /\ IsInjective(SitesOf(shelf[t][g]))
    <3> SUFFICES ASSUME NEW t \in Tabs, NEW g \in Groups
                 PROVE  ToSet(shelf[t][g]) \subseteq Row /\ IsInjective(SitesOf(shelf[t][g]))
      OBVIOUS
    <3>1. shelf[t][g] \in Rows
      BY <2>1 DEF PageTypes
    <3> QED
      BY <3>1, RowsFacts DEF Rows
  <2>3. \A c \in calls : c.tab \in Tabs /\ c.op \in Op
    BY <2>1 DEF Asks, Call
  <2>4. \A t \in Tabs : snapshot[t].group \in Groups \cup {NoGroup}
    BY <2>1 DEF PageTypes
  <2>5. TypeOK
    BY <2>1, <2>2, <2>3, <2>4 DEF TypeOK, ServerTypes, PageTypes
  <2>6. LockedGroupsAreEmpty
    BY DEF Inv, PageInv, Empty, LockedGroupsAreEmpty
  <2> QED
    BY <2>5, <2>6 DEF Inv, LocksHold
<1> QED
  BY <1>1, AlwaysInv, PTL

(* A page whose handlers came one at a time shows what the server has: the *)
(* groups that are locked, and the sites of the others in their order.     *)
THEOREM ThePageIsTrue == Spec => []PageIsTrue
<1>1. Inv => PageIsTrue
  <2> SUFFICES ASSUME Inv, NEW t \in Tabs \ crossed, Mine(t) = {}, sorting[t] = NoGroup
               PROVE  marked[t] = locks /\ \A g \in Groups : ~IsLocked(t, g) => Shown(t, g) = Sorted(RowsOf(g))
    BY DEF PageIsTrue
  <2>1. Settled(t)
    BY DEF Inv, PageInv
  <2>2. ASSUME NEW g \in Groups, ~IsLocked(t, g) PROVE Shown(t, g) = Sorted(RowsOf(g))
    <3>1. ToSet(shelf[t][g]) = RowsOf(g)
      BY <2>1, <2>2 DEF Settled, ShowsAll, Shows
    <3> QED
      BY <3>1 DEF Shown
  <2> QED
    BY <2>1, <2>2 DEF Settled
<1> QED
  BY <1>1, AlwaysInv, PTL

=============================================================================
