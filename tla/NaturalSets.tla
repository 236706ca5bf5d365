---------------------------- MODULE NaturalSets ----------------------------
(***************************************************************************)
(* Least and greatest elements of sets of natural numbers, for the proofs  *)
(* about cursors, commit numbers and positions in packs, and their         *)
(* enumeration, for the parts of sequences that Pick takes.  The library's *)
(* least-number principle is second order; the well-founded order on       *)
(* finite subsets is not.                                                  *)
(***************************************************************************)
EXTENDS Naturals, FiniteSets, FiniteSetsExt, Subsequences, FiniteSetTheorems, WellFoundedInduction,
  TLAPS

\* A nonempty bounded set of numbers has a greatest element: the one with the
\* fewest elements above it.
LEMMA MaxExists ==
  ASSUME NEW S \in SUBSET Nat, S # {}, NEW n \in Nat, \A m \in S : m <= n
  PROVE  Max(S) \in S /\ \A m \in S : m <= Max(S)
<1> DEFINE Above(x) == {y \in S : y > x}
           T == {Above(x) : x \in S}
<1>1. IsFiniteSet(S)
  BY FS_BoundedSetOfNaturals
<1>2. T \subseteq FiniteSubsetsOf(S) /\ T # {}
  <2>1. ASSUME NEW x \in S PROVE IsFiniteSet(Above(x)) /\ Above(x) \subseteq S
    BY <1>1, FS_Subset
  <2> QED BY <2>1 DEF FiniteSubsetsOf
<1>3. PICK A \in T : \A B \in T : ~(<<B, A>> \in StrictSubsetOrdering(S))
  BY <1>2, FS_StrictSubsetOrderingWellFounded, WFMin
<1>4. PICK x \in S : A = Above(x)
  OBVIOUS
<1>5. ASSUME NEW y \in S, y > x PROVE FALSE
  <2>1. Above(y) \subseteq Above(x)
    <3>1. ASSUME NEW z \in S, z > y PROVE z > x
      <4>1. x \in Nat /\ y \in Nat /\ z \in Nat
        OBVIOUS
      <4> QED BY <1>5, <3>1, <4>1
    <3> QED BY <3>1
  <2>2. y \in Above(x) /\ y \notin Above(y)
    BY <1>5
  <2>3. <<Above(y), Above(x)>> \in StrictSubsetOrdering(S)
    BY <2>1, <2>2 DEF StrictSubsetOrdering
  <2> QED BY <1>3, <1>4, <2>3
<1>6. \A m \in S : m <= x
  BY <1>5
<1> QED BY <1>6 DEF Max

\* The greater of two numbers.
LEMMA MaxOfTwo ==
  ASSUME NEW m \in Nat, NEW n \in Nat
  PROVE  /\ Max({m, n}) \in Nat
         /\ Max({m, n}) \in {m, n}
         /\ Max({m, n}) >= m /\ Max({m, n}) >= n
<1>1. CASE m <= n
  BY <1>1, MaxExists
<1>2. CASE n <= m
  BY <1>2, MaxExists
<1> QED BY <1>1, <1>2

\* A nonempty set of numbers has a least element: the one with the fewest
\* elements below it.
LEMMA LeastExists ==
  ASSUME NEW S \in SUBSET Nat, NEW n \in S
  PROVE  \E m \in S : \A k \in S : m <= k
<1> DEFINE Below(x) == {y \in S : y < x}
           T == {Below(x) : x \in S}
<1>1. T \subseteq FiniteSubsetsOf(S) /\ T # {}
  <2>1. ASSUME NEW x \in S PROVE IsFiniteSet(Below(x)) /\ Below(x) \subseteq S
    <3>1. Below(x) \in SUBSET Nat /\ x \in Nat
      OBVIOUS
    <3>2. ASSUME NEW y \in Below(x) PROVE y <= x
      <4>1. y \in Nat /\ y < x
        OBVIOUS
      <4> QED BY <3>1, <4>1
    <3> QED BY <3>1, <3>2, FS_BoundedSetOfNaturals
  <2> QED BY <2>1 DEF FiniteSubsetsOf
<1>2. PICK A \in T : \A B \in T : ~(<<B, A>> \in StrictSubsetOrdering(S))
  BY <1>1, FS_StrictSubsetOrderingWellFounded, WFMin
<1>3. PICK x \in S : A = Below(x)
  OBVIOUS
<1>4. ASSUME NEW y \in S, y < x PROVE FALSE
  <2>1. Below(y) \subseteq Below(x)
    <3>1. ASSUME NEW z \in S, z < y PROVE z < x
      <4>1. x \in Nat /\ y \in Nat /\ z \in Nat
        OBVIOUS
      <4> QED BY <1>4, <3>1, <4>1
    <3> QED BY <3>1
  <2>2. y \in Below(x) /\ y \notin Below(y)
    BY <1>4
  <2>3. <<Below(y), Below(x)>> \in StrictSubsetOrdering(S)
    BY <2>1, <2>2 DEF StrictSubsetOrdering
  <2> QED BY <1>2, <1>3, <2>3
<1> QED BY <1>4

\* The lesser of two numbers.
LEMMA MinOfTwo ==
  ASSUME NEW m \in Nat, NEW n \in Nat
  PROVE  Min({m, n}) = IF m <= n THEN m ELSE n
BY DEF Min

---------------------------------------------------------------------------
(* Enumerations.                                                           *)

\* g lists the n numbers in I, in increasing order.
Lists(g, n, I) ==
  /\ g \in [1..n -> I]
  /\ \A k, m \in 1..n : k < m => g[k] < g[m]
  /\ \A i \in I : \E k \in 1..n : g[k] = i

\* The rank of a number in a set is its place in the enumeration: the first k
\* places hold exactly the numbers up to the k-th.
LEMMA RankInList ==
  ASSUME NEW I \in SUBSET Nat, NEW n \in Nat, NEW g, Lists(g, n, I)
  PROVE  /\ IsFiniteSet(I) /\ Cardinality(I) = n
         /\ \A k \in 1..n : Cardinality({j \in I : j <= g[k]}) = k
<1>1. /\ g \in [1..n -> I]
      /\ \A k, m \in 1..n : k < m => g[k] < g[m]
      /\ \A i \in I : \E k \in 1..n : g[k] = i
  BY DEF Lists
<1>2. ASSUME NEW k \in 1..n, NEW m \in 1..n PROVE g[k] = g[m] => k = m
  <2>1. g[k] \in Nat /\ g[m] \in Nat
    BY <1>1
  <2>2. k < m \/ m < k \/ k = m
    OBVIOUS
  <2> QED BY <1>1, <2>1, <2>2
<1>3. ASSUME NEW k \in 0..n, NEW J, J = {j \in I : \E m \in 1..k : g[m] = j}
      PROVE  IsFiniteSet(J) /\ Cardinality(J) = k
  <2> DEFINE f == [m \in 1..k |-> g[m]]
  <2>1. \A m \in 1..k : m \in 1..n
    OBVIOUS
  <2>2. f \in [1..k -> J]
    BY <1>1, <1>3, <2>1
  <2>3. ASSUME NEW a \in 1..k, NEW b \in 1..k, f[a] = f[b] PROVE a = b
    BY <1>2, <2>1, <2>3
  <2>4. ASSUME NEW j \in J PROVE \E m \in 1..k : f[m] = j
    BY <1>3
  <2>5. f \in Bijection(1..k, J)
    BY <2>2, <2>3, <2>4 DEF Bijection, Injection, Surjection, IsInjective
  <2>6. IsFiniteSet(1..k) /\ Cardinality(1..k) = k
    BY FS_Interval
  <2> QED BY <2>5, <2>6, FS_Bijection DEF ExistsBijection
<1>4. IsFiniteSet(I) /\ Cardinality(I) = n
  <2>1. I = {j \in I : \E m \in 1..n : g[m] = j}
    BY <1>1
  <2> QED BY <1>3, <2>1
<1>5. ASSUME NEW k \in 1..n PROVE Cardinality({j \in I : j <= g[k]}) = k
  <2>1. ASSUME NEW j \in I PROVE j <= g[k] <=> \E m \in 1..k : g[m] = j
    <3>1. PICK m \in 1..n : g[m] = j
      BY <1>1
    <3>2. g[m] \in Nat /\ g[k] \in Nat
      BY <1>1
    <3>3. m <= k => g[m] <= g[k]
      <4>1. m < k \/ m = k \/ k < m
        OBVIOUS
      <4> QED BY <1>1, <3>2, <4>1
    <3>4. k < m => g[k] < g[m]
      BY <1>1
    <3>5. m <= k <=> g[m] <= g[k]
      BY <3>2, <3>3, <3>4
    <3>6. ASSUME NEW a \in 1..k, g[a] = j PROVE a = m
      BY <1>2, <3>1, <3>6
    <3> QED BY <3>1, <3>5, <3>6
  <2>2. {j \in I : j <= g[k]} = {j \in I : \E m \in 1..k : g[m] = j}
    BY <2>1
  <2> QED BY <1>3, <2>2
<1> QED BY <1>4, <1>5

\* Pick takes the elements at the listed positions.
LEMMA PickOfList ==
  ASSUME NEW s, NEW I \in SUBSET Nat, NEW n \in Nat, NEW g, Lists(g, n, I)
  PROVE  Pick(s, I) = [k \in 1..n |-> s[g[k]]]
<1> DEFINE rank(i) == Cardinality({j \in I : j <= i})
<1>1. Cardinality(I) = n /\ \A k \in 1..n : rank(g[k]) = k
  BY RankInList
<1>2. g \in [1..n -> I] /\ \A i \in I : \E k \in 1..n : g[k] = i
  BY DEF Lists
<1>3. Pick(s, I) = [k \in 1..n |-> s[CHOOSE i \in I : rank(i) = k]]
  BY <1>1 DEF Pick
<1> HIDE DEF rank
<1>4. ASSUME NEW k \in 1..n PROVE (CHOOSE i \in I : rank(i) = k) = g[k]
  <2>1. g[k] \in I /\ rank(g[k]) = k
    BY <1>1, <1>2
  <2>2. \A i \in I : rank(i) = k => i = g[k]
    BY <1>1, <1>2
  <2> QED BY <2>1, <2>2
<1> QED BY <1>3, <1>4

\* Every bounded set of numbers can be listed: ranks run from 1 to the number
\* of elements without a gap.
LEMMA ListExists ==
  ASSUME NEW m \in Nat, NEW I \in SUBSET (1..m)
  PROVE  /\ IsFiniteSet(I) /\ Cardinality(I) \in Nat
         /\ \E g : Lists(g, Cardinality(I), I)
<1> DEFINE upto(i) == {j \in I : j <= i}
           rank(i) == Cardinality(upto(i))
           N == Cardinality(I)
           r == [i \in I |-> rank(i)]
<1>1. IsFiniteSet(I) /\ N \in Nat
  <2>1. IsFiniteSet(1..m)
    BY FS_Interval
  <2> QED BY <2>1, FS_Subset, FS_CardinalityType
<1>2. ASSUME NEW i \in I
      PROVE  IsFiniteSet(upto(i)) /\ rank(i) \in 1..N
  <2>1. IsFiniteSet(upto(i)) /\ rank(i) <= N /\ rank(i) \in Nat
    BY <1>1, FS_Subset, FS_CardinalityType
  <2>2. i \in upto(i)
    OBVIOUS
  <2>3. rank(i) # 0
    BY <2>1, <2>2, FS_EmptySet
  <2> QED BY <1>1, <2>1, <2>3
<1>3. ASSUME NEW i \in I, NEW j \in I, i < j PROVE rank(i) < rank(j)
  <2>1. i \in Nat /\ j \in Nat
    OBVIOUS
  <2>2. upto(i) \subseteq upto(j)
    <3>1. ASSUME NEW x \in I, x <= i PROVE x <= j
      <4>1. x \in Nat
        OBVIOUS
      <4> QED BY <1>3, <2>1, <3>1, <4>1
    <3> QED BY <3>1
  <2>3. j \in upto(j) /\ j \notin upto(i)
    BY <1>3, <2>1
  <2>4. rank(i) <= rank(j) /\ (rank(i) = rank(j) => upto(i) = upto(j))
    BY <1>2, <2>2, FS_Subset
  <2>5. rank(i) \in Nat /\ rank(j) \in Nat
    BY <1>2
  <2> HIDE DEF rank
  <2> QED BY <2>3, <2>4, <2>5
<1>4. r \in Injection(I, 1..N)
  <2>1. r \in [I -> 1..N]
    BY <1>2
  <2>2. ASSUME NEW i \in I, NEW j \in I, r[i] = r[j] PROVE i = j
    <3>1. i \in Nat /\ j \in Nat /\ rank(i) = rank(j) /\ rank(i) \in 1..N
      BY <1>2, <2>2
    <3> HIDE DEF rank
    <3> QED BY <1>3, <3>1
  <2> QED BY <2>1, <2>2 DEF Injection, IsInjective
<1>5. r \in Surjection(I, 1..N)
  <2>1. IsFiniteSet(1..N) /\ Cardinality(1..N) = N
    BY <1>1, FS_Interval
  <2> QED BY <1>4, <2>1, FS_Injection
<1> HIDE DEF rank, N
<1> DEFINE g == [k \in 1..N |-> CHOOSE i \in I : rank(i) = k]
<1>6. ASSUME NEW k \in 1..N PROVE g[k] \in I /\ rank(g[k]) = k
  <2>1. \E i \in I : rank(i) = k
    BY <1>5 DEF Surjection
  <2> QED BY <2>1
<1>7. ASSUME NEW i \in I PROVE rank(i) \in 1..N /\ g[rank(i)] = i
  <2>1. rank(i) \in 1..N
    BY <1>2
  <2>2. g[rank(i)] \in I /\ rank(g[rank(i)]) = rank(i)
    BY <1>6, <2>1
  <2> HIDE DEF g
  <2> QED BY <1>4, <2>1, <2>2 DEF Injection, IsInjective
<1>8. ASSUME NEW k \in 1..N, NEW l \in 1..N, k < l PROVE g[k] < g[l]
  <2>1. g[k] \in I /\ g[l] \in I /\ rank(g[k]) = k /\ rank(g[l]) = l
    BY <1>6
  <2> HIDE DEF g
  <2>2. g[k] \in Nat /\ g[l] \in Nat /\ k \in Nat /\ l \in Nat
    <3>1. g[k] \in 1..m /\ g[l] \in 1..m
      BY <2>1
    <3> QED BY <1>1, <3>1
  <2>3. g[k] # g[l]
    BY <1>8, <2>1, <2>2
  <2>4. ~(g[l] < g[k])
    <3>1. g[l] < g[k] => rank(g[l]) < rank(g[k])
      BY <1>3, <2>1
    <3> QED BY <1>8, <2>1, <2>2, <3>1
  <2> QED BY <2>2, <2>3, <2>4
<1>9. g \in [1..N -> I]
  BY <1>6
<1> HIDE DEF g
<1>10. Lists(g, N, I)
  BY <1>6, <1>7, <1>8, <1>9 DEF Lists
<1> QED BY <1>1, <1>10 DEF N

============================================================================
