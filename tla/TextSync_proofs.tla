--------------------------- MODULE TextSync_proofs -------------------------
(***************************************************************************)
(* Proofs about TextSync, for any clients and bounds.                      *)
(*                                                                         *)
(* Three inductive invariants, each with the one before it.                *)
(*                                                                         *)
(* BaseInv: the line names each character once, documents and updates stay *)
(* within it, commits are numbered and have their parents among them, and  *)
(* what a client knows is closed under parents.  A call works on a         *)
(* document of that graph; TypeOK, SetTextExact and NoReturn follow.       *)
(*                                                                         *)
(* OnceInv: a version token that a client remembers tells the text it was  *)
(* seen with (Sighted), a replica has no more copies of published          *)
(* characters than the document its client recorded, and a character that  *)
(* is not published is with one client.  PublishedOnce follows.            *)
(*                                                                         *)
(* EditInv: as long as no client was given the text of one of several      *)
(* heads, commits never show fewer copies of what no user removed          *)
(* (NoLoss), what was published is still shown (Alive), only texts that    *)
(* users emptied were deleted (Deletions), and a replica has all that its  *)
(* client's recorded document shows and its baseline says (StateKept), so  *)
(* that what a call publishes or writes has it too.  EditsKept follows.    *)
(***************************************************************************)
EXTENDS TextSync, Planner_proofs, NaturalSets, TLAPS, FiniteSetTheorems, SequenceTheorems

---------------------------------------------------------------------------
(* encode_utf16 and diff_middle, for characters of one or two code units.  *)

\* The text d makes of `old' is `new': both begin alike up to the change and
\* end alike after it.
Splices(d, old, new) ==
  /\ d.start \in Nat /\ d.remove \in Nat /\ d.insert \in Text
  /\ d.start + d.remove <= Len(old)
  /\ Len(new) + d.remove = Len(old) + Len(d.insert)
  /\ \A i \in 1..d.start : old[i] = new[i]
  /\ \A i \in 1..Len(d.insert) : d.insert[i] = new[d.start + i]
  /\ \A i \in (d.start + d.remove + 1)..Len(old) : old[i] = new[i - d.remove + Len(d.insert)]

\* The positions i+1..j of a text that hold characters of two units.
WideIn(text, i, j) == {k \in i+1..j : Len(Code(text[k])) = 2}

\* A character has one code unit or two.
LEMMA CodeUnits ==
  ASSUME NEW c
  PROVE  /\ Len(Code(c)) \in {1, 2} /\ {1, Len(Code(c))} \subseteq 1..Len(Code(c))
         /\ c \in Nat => \A i \in 1..Len(Code(c)) : i \in {1, 2} /\ Code(c)[i] = 2 * c + i - 1
<1>1. PICK n : n = Len(Code(c))
  OBVIOUS
<1>2. CASE c \in Wide
  <2>1. n = 2 /\ Code(c)[1] = 2 * c /\ Code(c)[2] = 2 * c + 1
    BY <1>1, <1>2 DEF Code
  <2>2. n \in {1, 2} /\ {1, n} \subseteq 1..n
    BY <2>1
  <2>3. ASSUME c \in Nat, NEW i \in 1..n PROVE i \in {1, 2} /\ Code(c)[i] = 2 * c + i - 1
    <3>1. i = 1 \/ i = 2
      BY <2>1
    <3> QED BY <2>1, <2>3, <3>1
  <2> QED BY <1>1, <2>2, <2>3
<1>3. CASE c \notin Wide
  <2>1. n = 1 /\ Code(c)[1] = 2 * c
    BY <1>1, <1>3 DEF Code
  <2>2. n \in {1, 2} /\ {1, n} \subseteq 1..n
    BY <2>1
  <2>3. ASSUME c \in Nat, NEW i \in 1..n PROVE i \in {1, 2} /\ Code(c)[i] = 2 * c + i - 1
    <3>1. i = 1
      BY <2>1
    <3> QED BY <2>1, <2>3, <3>1
  <2> QED BY <1>1, <2>2, <2>3
<1> QED BY <1>2, <1>3

\* No two characters share a code unit.
LEMMA UnitsDiffer ==
  ASSUME NEW c \in Nat, NEW d \in Nat, NEW i \in 1..Len(Code(c)), NEW j \in 1..Len(Code(d)),
         Code(c)[i] = Code(d)[j]
  PROVE  c = d
<1>1. i \in {1, 2} /\ j \in {1, 2} /\ 2 * c + i - 1 = 2 * d + j - 1
  BY CodeUnits
<1> QED BY <1>1

\* Counted with the cardinality that the facts about finite sets are about.
LEMMA WidthCounts ==
  ASSUME NEW text, NEW n
  PROVE  T!Width(text, n) = n + Cardinality({i \in 1..n : Len(Code(text[i])) = 2})
BY DEF T!Width, T!Cardinality, Cardinality

\* The width of a text grows by that of its characters.
LEMMA Widths ==
  ASSUME NEW text, NEW i \in Nat, NEW j \in Nat, i <= j
  PROVE  /\ T!Width(text, i) \in Nat /\ T!Width(text, j) \in Nat
         /\ IsFiniteSet(WideIn(text, i, j)) /\ Cardinality(WideIn(text, i, j)) \in Nat
         /\ T!Width(text, j) = T!Width(text, i) + (j - i) + Cardinality(WideIn(text, i, j))
<1> DEFINE A == {k \in 1..i : Len(Code(text[k])) = 2}
           B == {k \in 1..j : Len(Code(text[k])) = 2}
           C == WideIn(text, i, j)
<1>1. B = A \cup C /\ A \cap C = {}
  BY DEF WideIn
<1>2. IsFiniteSet(A) /\ IsFiniteSet(C)
  <2>1. A \subseteq 1..i /\ C \subseteq i+1..j /\ IsFiniteSet(1..i) /\ IsFiniteSet(i+1..j)
    BY FS_Interval DEF WideIn
  <2> QED BY <2>1, FS_Subset
<1>3. Cardinality(A) \in Nat /\ Cardinality(C) \in Nat
  BY <1>2, FS_CardinalityType
<1>4. Cardinality(B) = Cardinality(A) + Cardinality(C)
  <2> HIDE DEF A, B, C
  <2>1. Cardinality(A \cup C) = Cardinality(A) + Cardinality(C) - Cardinality(A \cap C)
    BY <1>2, FS_Union
  <2> QED BY <1>1, <1>3, <2>1, FS_EmptySet
<1>5. T!Width(text, i) = i + Cardinality(A) /\ T!Width(text, j) = j + Cardinality(B)
  BY WidthCounts
<1> HIDE DEF A, B, C
<1> QED BY <1>2, <1>3, <1>4, <1>5 DEF C

\* The more characters, the more code units.
LEMMA WidthOrder ==
  ASSUME NEW text, NEW i \in Nat, NEW j \in Nat, i <= j
  PROVE  T!Width(text, i) \in Nat /\ T!Width(text, j) \in Nat /\ T!Width(text, i) <= T!Width(text, j)
<1>1. PICK k \in Nat : T!Width(text, j) = T!Width(text, i) + (j - i) + k
  BY Widths
<1>2. T!Width(text, i) \in Nat /\ T!Width(text, j) \in Nat
  BY Widths
<1> QED BY <1>1, <1>2

\* The width up to a character and the one before it.
LEMMA WidthStep ==
  ASSUME NEW text, NEW k \in Nat \ {0}
  PROVE  T!Width(text, k) = T!Width(text, k - 1) + Len(Code(text[k]))
<1>1. k - 1 \in Nat /\ k - 1 <= k
  OBVIOUS
<1>2. T!Width(text, k) = T!Width(text, k - 1) + 1 + Cardinality(WideIn(text, k - 1, k))
  <2>1. T!Width(text, k) = T!Width(text, k - 1) + (k - (k - 1)) + Cardinality(WideIn(text, k - 1, k))
    BY <1>1, Widths
  <2>2. k - (k - 1) = 1
    OBVIOUS
  <2> QED BY <2>1, <2>2
<1>3. T!Width(text, k - 1) \in Nat
  BY <1>1, Widths
<1>4. CASE Len(Code(text[k])) = 2
  <2>1. WideIn(text, k - 1, k) = {k}
    BY <1>4 DEF WideIn
  <2>2. Cardinality(WideIn(text, k - 1, k)) = 1
    BY <2>1, FS_Singleton
  <2> QED BY <1>2, <1>3, <1>4, <2>2
<1>5. CASE Len(Code(text[k])) = 1
  <2>1. WideIn(text, k - 1, k) = {}
    BY <1>5 DEF WideIn
  <2>2. Cardinality(WideIn(text, k - 1, k)) = 0
    BY <2>1, FS_EmptySet
  <2> QED BY <1>2, <1>3, <1>5, <2>2
<1> QED BY <1>4, <1>5, CodeUnits

\* Where a code unit belongs.
LEMMA BoundaryAt ==
  ASSUME NEW text \in Text, NEW k \in 1..Len(text), NEW o \in 1..Len(Code(text[k]))
  PROVE  T!CharBoundary(text, T!Width(text, k - 1) + o) = k
<1> DEFINE j == T!Width(text, k - 1) + o
           S == {n \in 0..Len(text) : T!Width(text, n) >= j}
<1>1. Len(text) \in Nat /\ k \in Nat \ {0} /\ k - 1 \in Nat /\ o \in Nat /\ o >= 1 /\ o <= Len(Code(text[k]))
  BY LenProperties, CodeUnits DEF Text
<1>2. T!Width(text, k - 1) \in Nat /\ Len(Code(text[k])) \in Nat
      /\ T!Width(text, k) = T!Width(text, k - 1) + Len(Code(text[k]))
  BY <1>1, WidthStep, Widths, CodeUnits
<1>3. k \in S
  BY <1>1, <1>2
<1>4. ASSUME NEW n \in S PROVE k <= n
  <2>1. SUFFICES ASSUME n < k PROVE FALSE
    BY <1>1
  <2>2. n \in Nat /\ n <= k - 1
    BY <1>1, <2>1
  <2>3. PICK x \in Nat : T!Width(text, k - 1) = T!Width(text, n) + (k - 1 - n) + x /\ T!Width(text, n) \in Nat
    BY <1>1, <2>2, Widths
  <2>4. T!Width(text, n) >= j
    OBVIOUS
  <2> QED BY <1>1, <1>2, <2>2, <2>3, <2>4
<1>5. T!CharBoundary(text, j) = Min(S)
  BY DEF T!CharBoundary, T!Min, Min
<1>6. \A n \in S : n \in Nat /\ k <= n
  BY <1>1, <1>4
<1> HIDE DEF S, j
<1>7. Min(S) = k
  <2>1. k \in S /\ (\A n \in S : k <= n) /\ k \in Nat
    BY <1>1, <1>3, <1>6
  <2>2. ASSUME NEW x \in S, \A n \in S : x <= n PROVE x = k
    <3>1. x \in Nat /\ k <= x /\ x <= k
      BY <1>6, <2>1, <2>2
    <3> QED BY <2>1, <3>1
  <2> QED BY <2>1, <2>2 DEF Min
<1> QED BY <1>5, <1>7 DEF j

\* A boundary between characters is where it is counted to be.
LEMMA Boundary ==
  ASSUME NEW text \in Text, NEW k \in 0..Len(text)
  PROVE  T!CharBoundary(text, T!Width(text, k)) = k
<1>1. Len(text) \in Nat /\ k \in Nat
  BY LenProperties DEF Text
<1>2. CASE k = 0
  <2> DEFINE S == {n \in 0..Len(text) : T!Width(text, n) >= T!Width(text, 0)}
  <2>1. T!Width(text, 0) \in Nat /\ T!Width(text, 0) >= T!Width(text, 0)
    BY Widths
  <2>2. 0 \in S /\ \A n \in S : n \in Nat
    BY <1>1, <2>1
  <2>3. T!CharBoundary(text, T!Width(text, 0)) = Min(S)
    BY DEF T!CharBoundary, T!Min, Min
  <2> HIDE DEF S
  <2>4. Min(S) = 0
    BY <2>2 DEF Min
  <2> QED BY <1>2, <2>3, <2>4
<1>3. CASE k # 0
  <2>1. k \in 1..Len(text) /\ k \in Nat \ {0}
    BY <1>1, <1>3
  <2>2. Len(Code(text[k])) \in 1..Len(Code(text[k]))
    BY CodeUnits
  <2> QED BY <2>1, <2>2, BoundaryAt, WidthStep
<1> QED BY <1>2, <1>3

\* The code units of a text, and the character each belongs to.
LEMMA UnitsOf ==
  ASSUME NEW text \in Text
  PROVE  /\ T!Width(text, 0) = 0
         /\ Len(T!Encoded(text)) = T!Width(text, Len(text))
         /\ \A k \in 1..Len(text) : \A o \in 1..Len(Code(text[k])) :
              T!Encoded(text)[T!Width(text, k - 1) + o] = Code(text[k])[o]
         /\ \A j \in 1..T!Width(text, Len(text)) :
              \E k \in 1..Len(text) : \E o \in 1..Len(Code(text[k])) : j = T!Width(text, k - 1) + o
<1> DEFINE l == Len(text)
           E == T!Encoded(text)
<1>1. l \in Nat /\ T!Width(text, l) \in Nat
  BY LenProperties, Widths DEF Text
<1>2. T!Width(text, 0) = 0
  <2>1. {i \in 1..0 : Len(Code(text[i])) = 2} = {}
    OBVIOUS
  <2>2. T!Width(text, 0) = 0 + Cardinality({i \in 1..0 : Len(Code(text[i])) = 2})
    BY WidthCounts
  <2> QED BY <2>1, <2>2, FS_EmptySet
<1>3. E = [j \in 1..T!Width(text, l) |->
             Code(text[T!CharBoundary(text, j)])[j - T!Width(text, T!CharBoundary(text, j) - 1)]]
  BY DEF T!Encoded
<1>4. Len(E) = T!Width(text, l)
  BY <1>1, <1>3
<1>5. ASSUME NEW k \in 1..l, NEW o \in 1..Len(Code(text[k]))
      PROVE  E[T!Width(text, k - 1) + o] = Code(text[k])[o]
  <2> DEFINE j == T!Width(text, k - 1) + o
  <2>1. k \in Nat \ {0} /\ k - 1 \in Nat /\ k <= l /\ Len(Code(text[k])) \in Nat
    BY <1>1, CodeUnits
  <2>2. T!Width(text, k - 1) \in Nat /\ T!Width(text, k) = T!Width(text, k - 1) + Len(Code(text[k]))
    BY <2>1, WidthStep, Widths
  <2>3. PICK x \in Nat : T!Width(text, l) = T!Width(text, k) + (l - k) + x
    BY <1>1, <2>1, Widths
  <2>4. j \in 1..T!Width(text, l) /\ j - T!Width(text, k - 1) = o
    BY <1>1, <2>1, <2>2, <2>3
  <2>5. T!CharBoundary(text, j) = k
    BY BoundaryAt
  <2> HIDE DEF j, E
  <2>6. E[j] = Code(text[k])[j - T!Width(text, k - 1)]
    BY <1>3, <2>4, <2>5
  <2>7. E[j] = Code(text[k])[o]
    BY <2>4, <2>6
  <2> QED BY <2>7 DEF j
<1>6. ASSUME NEW j \in 1..T!Width(text, l)
      PROVE  \E k \in 1..l : \E o \in 1..Len(Code(text[k])) : j = T!Width(text, k - 1) + o
  <2> DEFINE S == {n \in 0..l : T!Width(text, n) >= j}
  <2>1. l \in S /\ S \in SUBSET Nat
    BY <1>1
  <2>2. PICK k \in S : \A n \in S : k <= n
    BY <2>1, LeastExists
  <2>3. k \in 1..l /\ k \in Nat \ {0}
    BY <1>1, <1>2
  <2>4. k - 1 \in 0..l /\ k - 1 \in Nat /\ ~(k <= k - 1)
    BY <1>1, <2>3
  <2>5. k - 1 \notin S
    BY <2>2, <2>4
  <2>6. T!Width(text, k - 1) \in Nat /\ Len(Code(text[k])) \in Nat
        /\ T!Width(text, k) = T!Width(text, k - 1) + Len(Code(text[k]))
    BY <2>3, <2>4, WidthStep, Widths, CodeUnits
  <2>7. T!Width(text, k - 1) < j /\ T!Width(text, k) >= j
    BY <1>1, <2>4, <2>5, <2>6
  <2>8. j - T!Width(text, k - 1) \in 1..Len(Code(text[k])) /\ j = T!Width(text, k - 1) + (j - T!Width(text, k - 1))
    BY <1>1, <2>6, <2>7
  <2> QED BY <2>3, <2>8
<1> HIDE DEF E
<1> QED BY <1>2, <1>4, <1>5, <1>6 DEF E

\* Texts that begin alike have the same code units there.
LEMMA PrefixUnits ==
  ASSUME NEW old \in Text, NEW new \in Text, NEW n \in Nat, n <= Len(old), n <= Len(new),
         \A i \in 1..n : old[i] = new[i]
  PROVE  /\ T!Width(old, n) = T!Width(new, n)
         /\ \A j \in 1..T!Width(new, n) : T!Encoded(old)[j] = T!Encoded(new)[j]
<1>1. Len(old) \in Nat /\ Len(new) \in Nat
  BY LenProperties DEF Text
<1>2. ASSUME NEW k \in 0..n PROVE T!Width(old, k) = T!Width(new, k)
  <2>1. {i \in 1..k : Len(Code(old[i])) = 2} = {i \in 1..k : Len(Code(new[i])) = 2}
    OBVIOUS
  <2> QED BY <2>1, WidthCounts
<1>3. ASSUME NEW j \in 1..T!Width(new, n) PROVE T!Encoded(old)[j] = T!Encoded(new)[j]
  <2>1. T!Width(new, n) \in Nat /\ j \in Nat /\ j <= T!Width(new, n)
    BY Widths
  <2>2. PICK x \in Nat : T!Width(new, Len(new)) = T!Width(new, n) + (Len(new) - n) + x
    BY <1>1, Widths
  <2>3. j \in 1..T!Width(new, Len(new))
    BY <1>1, <2>1, <2>2
  <2>4. PICK k \in 1..Len(new) : \E o \in 1..Len(Code(new[k])) : j = T!Width(new, k - 1) + o
    BY <2>3, UnitsOf
  <2>5. PICK o \in 1..Len(Code(new[k])) : j = T!Width(new, k - 1) + o
    BY <2>4
  <2>6. k \in Nat /\ k - 1 \in Nat /\ o \in Nat /\ o >= 1
    BY <1>1, CodeUnits
  <2>7. k <= n
    <3>1. SUFFICES ASSUME n <= k - 1 PROVE FALSE
      BY <2>6
    <3>2. /\ T!Width(new, n) \in Nat /\ T!Width(new, k - 1) \in Nat
          /\ T!Width(new, n) <= T!Width(new, k - 1)
      BY <2>6, <3>1, WidthOrder
    <3> QED BY <2>1, <2>5, <2>6, <3>1, <3>2
  <2>8. k \in 1..Len(old) /\ k \in 1..n /\ k - 1 \in 0..n
    BY <1>1, <2>6, <2>7
  <2>9. old[k] = new[k] /\ T!Width(old, k - 1) = T!Width(new, k - 1)
    BY <1>2, <2>8
  <2>10. T!Encoded(new)[j] = Code(new[k])[o]
    BY <2>5, UnitsOf
  <2>11. T!Encoded(old)[T!Width(old, k - 1) + o] = Code(old[k])[o]
    BY <2>8, <2>9, UnitsOf
  <2> QED BY <2>5, <2>9, <2>10, <2>11
<1>4. n \in 0..n
  OBVIOUS
<1> QED BY <1>2, <1>3, <1>4

\* Texts that end alike have the same code units there.
LEMMA SuffixUnits ==
  ASSUME NEW old \in Text, NEW new \in Text, NEW m \in Nat, m <= Len(old), m <= Len(new),
         \A i \in 0..m-1 : old[Len(old) - i] = new[Len(new) - i]
  PROVE  LET wo == T!Width(old, Len(old))
             wn == T!Width(new, Len(new))
         IN  /\ wo - T!Width(old, Len(old) - m) = wn - T!Width(new, Len(new) - m)
             /\ \A i \in 0..(wn - T!Width(new, Len(new) - m)) - 1 :
                  T!Encoded(old)[wo - i] = T!Encoded(new)[wn - i]
<1>0. PICK x \in Nat, y \in Nat : x = Len(old) /\ y = Len(new)
  BY LenProperties DEF Text
<1>1. m <= x /\ m <= y /\ \A i \in 0..m-1 : old[x - i] = new[y - i]
  BY <1>0
<1> DEFINE wo == T!Width(old, x)
           wn == T!Width(new, y)
<1>2. wo \in Nat /\ wn \in Nat
  BY Widths
<1>3. ASSUME NEW q \in 0..m
      PROVE  /\ T!Width(old, x - q) \in Nat /\ T!Width(new, y - q) \in Nat
             /\ wo - T!Width(old, x - q) = wn - T!Width(new, y - q)
             /\ wn >= T!Width(new, y - q)
  <2> DEFINE S == WideIn(old, x - q, x)
             U == WideIn(new, y - q, y)
             f == [i \in S |-> i - x + y]
  <2>1. q \in Nat /\ q <= x /\ q <= y /\ x - q \in Nat /\ y - q \in Nat /\ x - q <= x /\ y - q <= y
    BY <1>1
  <2>2. /\ T!Width(old, x - q) \in Nat /\ IsFiniteSet(S) /\ Cardinality(S) \in Nat
        /\ wo = T!Width(old, x - q) + (x - (x - q)) + Cardinality(S)
    BY <2>1, Widths
  <2>3. /\ T!Width(new, y - q) \in Nat /\ IsFiniteSet(U) /\ Cardinality(U) \in Nat
        /\ wn = T!Width(new, y - q) + (y - (y - q)) + Cardinality(U)
    BY <2>1, Widths
  <2>4. ASSUME NEW i \in x-q+1..x PROVE old[i] = new[i - x + y] /\ i - x + y \in y-q+1..y
    <3>1. x - i \in 0..m-1 /\ x - (x - i) = i /\ y - (x - i) = i - x + y
      BY <1>1, <2>1
    <3>2. old[x - (x - i)] = new[y - (x - i)]
      BY <1>1, <3>1
    <3>3. i - x + y \in y-q+1..y
      BY <2>1
    <3> QED BY <3>1, <3>2, <3>3
  <2>5. f \in [S -> U]
    <3>1. ASSUME NEW i \in S PROVE i - x + y \in U
      <4>1. i \in x-q+1..x /\ Len(Code(old[i])) = 2
        BY DEF WideIn
      <4> QED BY <2>4, <4>1 DEF WideIn
    <3> QED BY <3>1
  <2>6. ASSUME NEW i \in S, NEW j \in S, f[i] = f[j] PROVE i = j
    <3>1. i \in Int /\ j \in Int /\ i - x + y = j - x + y
      BY <2>1, <2>6 DEF WideIn
    <3> QED BY <3>1
  <2>7. ASSUME NEW j \in U PROVE \E i \in S : f[i] = j
    <3>1. j \in y-q+1..y /\ Len(Code(new[j])) = 2
      BY DEF WideIn
    <3>2. j - y + x \in x-q+1..x /\ (j - y + x) - x + y = j
      BY <2>1, <3>1
    <3>3. old[j - y + x] = new[(j - y + x) - x + y]
      BY <2>4, <3>2
    <3>4. j - y + x \in S
      BY <3>1, <3>2, <3>3 DEF WideIn
    <3> QED BY <3>2, <3>4
  <2>8. f \in Bijection(S, U)
    <3> HIDE DEF f, S, U
    <3> QED BY <2>5, <2>6, <2>7 DEF Bijection, Injection, Surjection, IsInjective
  <2>9. Cardinality(U) = Cardinality(S)
    <3> HIDE DEF f, S, U
    <3> QED BY <2>2, <2>8, FS_Bijection DEF ExistsBijection
  <2> HIDE DEF S, U, f, wo, wn
  <2> QED BY <2>1, <2>2, <2>3, <2>9
<1>4. ASSUME NEW i \in 0..(wn - T!Width(new, y - m)) - 1
      PROVE  T!Encoded(old)[wo - i] = T!Encoded(new)[wn - i]
  <2>1. T!Width(new, y - m) \in Nat /\ wn >= T!Width(new, y - m)
    <3>1. m \in 0..m
      OBVIOUS
    <3> QED BY <1>3, <3>1
  <2>2. wn - i \in 1..wn /\ wn - i > T!Width(new, y - m) /\ i \in Nat
    <3> HIDE DEF wn
    <3> QED BY <1>2, <2>1
  <2>3. PICK k \in 1..y : \E o \in 1..Len(Code(new[k])) : wn - i = T!Width(new, k - 1) + o
    BY <1>0, <2>2, UnitsOf
  <2>4. PICK o \in 1..Len(Code(new[k])) : wn - i = T!Width(new, k - 1) + o
    BY <2>3
  <2>5. o \in Nat /\ k \in Nat \ {0} /\ k - 1 \in Nat /\ Len(Code(new[k])) \in Nat
        /\ o <= Len(Code(new[k]))
    BY CodeUnits
  <2>6. k > y - m
    <3>1. SUFFICES ASSUME k <= y - m PROVE FALSE
      BY <1>1, <2>5
    <3>2. /\ T!Width(new, k) \in Nat /\ T!Width(new, y - m) \in Nat
          /\ T!Width(new, k) <= T!Width(new, y - m)
      <4>1. y - m \in Nat
        BY <1>1
      <4> HIDE DEF wo, wn
      <4> QED BY <2>5, <3>1, <4>1, WidthOrder
    <3>3. T!Width(new, k) = T!Width(new, k - 1) + Len(Code(new[k])) /\ T!Width(new, k - 1) \in Nat
      <4>1. k - 1 <= k - 1
        BY <2>5
      <4> QED BY <2>5, <4>1, WidthStep, Widths
    <3> HIDE DEF wn
    <3>4. T!Width(new, k - 1) + o > T!Width(new, y - m)
      BY <2>2, <2>4
    <3> QED BY <1>1, <2>5, <3>1, <3>2, <3>3, <3>4
  <2>7. PICK q \in Nat : q = y - k + 1
    BY <2>5
  <2>8. q \in 0..m /\ y - q = k - 1 /\ x - q + 1 \in 1..x /\ q - 1 \in 0..m-1
        /\ (x - q + 1) - 1 = x - q /\ x - (q - 1) = x - q + 1 /\ y - (q - 1) = k
    BY <1>1, <2>5, <2>6, <2>7
  <2>9. old[x - q + 1] = new[k]
    BY <1>1, <2>8
  <2>10. /\ T!Width(old, x - q) \in Nat /\ T!Width(new, k - 1) \in Nat
         /\ wo - T!Width(old, x - q) = wn - T!Width(new, k - 1)
    BY <1>3, <2>8
  <2>11. wo - i = T!Width(old, x - q) + o
    <3>1. PICK a \in Nat, b \in Nat : a = T!Width(old, x - q) /\ b = T!Width(new, k - 1)
      BY <2>10
    <3>2. wo - a = wn - b /\ wn - i = b + o
      BY <2>4, <2>10, <3>1
    <3> HIDE DEF wo, wn
    <3>3. wo - i = a + o
      BY <1>2, <2>2, <2>5, <3>2
    <3> QED BY <3>1, <3>3
  <2>12. T!Encoded(new)[wn - i] = Code(new[k])[o]
    BY <1>0, <2>4, UnitsOf
  <2>13. T!Encoded(old)[T!Width(old, x - q) + o] = Code(old[x - q + 1])[o]
    <3>1. \A h \in 1..x : \A p \in 1..Len(Code(old[h])) :
            T!Encoded(old)[T!Width(old, h - 1) + p] = Code(old[h])[p]
      BY <1>0, UnitsOf
    <3>2. PICK h \in 1..x : h = x - q + 1 /\ h - 1 = x - q /\ old[h] = new[k]
      BY <2>8, <2>9
    <3>3. T!Encoded(old)[T!Width(old, h - 1) + o] = Code(old[h])[o]
      BY <3>1, <3>2
    <3> QED BY <3>2, <3>3
  <2> QED BY <2>9, <2>11, <2>12, <2>13
<1>5. m \in 0..m
  OBVIOUS
<1>6. wo - T!Width(old, x - m) = wn - T!Width(new, y - m)
  BY <1>3, <1>5
<1> QED BY <1>0, <1>4, <1>6


\* The common prefix in code units is that of a characters.
LEMMA PrefixFound ==
  ASSUME NEW old \in Text, NEW new \in Text, NEW a \in Nat, a <= Len(old), a <= Len(new),
         \A i \in 1..a : old[i] = new[i],
         a < Len(old) /\ a < Len(new) => old[a + 1] # new[a + 1]
  PROVE  T!CommonPrefix(T!Encoded(old), T!Encoded(new)) = T!Width(new, a)
<1> DEFINE eo == T!Encoded(old)
           en == T!Encoded(new)
           w == T!Width(new, a)
           A == {n \in 0..Len(en) : n <= Len(eo) /\ \A i \in 1..n : eo[i] = en[i]}
<1>0. PICK x \in Nat, y \in Nat : x = Len(old) /\ y = Len(new)
  BY LenProperties DEF Text
<1>1. /\ Len(eo) = T!Width(old, x) /\ Len(en) = T!Width(new, y)
      /\ T!Width(old, x) \in Nat /\ T!Width(new, y) \in Nat /\ w \in Nat /\ T!Width(old, a) = w
      /\ \A j \in 1..w : eo[j] = en[j]
  BY <1>0, UnitsOf, PrefixUnits, Widths
<1>2. PICK u \in Nat, v \in Nat : /\ T!Width(old, x) = w + (x - a) + u
                                  /\ T!Width(new, y) = w + (y - a) + v
                                  /\ (x = a => u = 0) /\ (y = a => v = 0)
  <2>1. a <= x /\ a <= y
    BY <1>0
  <2>2. PICK u \in Nat : T!Width(old, x) = T!Width(old, a) + (x - a) + u
    BY <2>1, Widths
  <2>3. PICK v \in Nat : T!Width(new, y) = T!Width(new, a) + (y - a) + v
    BY <2>1, Widths
  <2>4. x = a => u = 0
    BY <1>1, <2>2
  <2>5. y = a => v = 0
    BY <1>1, <2>3
  <2> QED BY <1>1, <2>2, <2>3, <2>4, <2>5
<1>3. w \in A
  <2> HIDE DEF eo, en, w
  <2>1. w <= T!Width(old, x) /\ w <= T!Width(new, y)
    BY <1>0, <1>1, <1>2
  <2> QED BY <1>1, <2>1
<1>4. ASSUME NEW n \in A PROVE n <= w
  <2>1. SUFFICES ASSUME w + 1 <= n PROVE FALSE
    BY <1>1
  <2>2. w + 1 <= T!Width(old, x) /\ w + 1 <= T!Width(new, y) /\ eo[w + 1] = en[w + 1]
    <3> HIDE DEF eo, en, w
    <3> QED BY <1>1, <2>1
  <2>3. a < x /\ a < y
    <3> HIDE DEF eo, en, w
    <3>1. a <= x /\ a <= y
      BY <1>0
    <3> QED BY <1>1, <1>2, <2>2, <3>1
  <2>4. a + 1 \in 1..Len(old) /\ a + 1 \in 1..Len(new) /\ (a + 1) - 1 = a
    BY <1>0, <2>3
  <2>5. 1 \in 1..Len(Code(old[a + 1])) /\ 1 \in 1..Len(Code(new[a + 1]))
    BY CodeUnits
  <2>6. eo[w + 1] = Code(old[a + 1])[1] /\ en[w + 1] = Code(new[a + 1])[1]
    <3>1. PICK k : k = a + 1 /\ k \in 1..Len(old) /\ k \in 1..Len(new) /\ k - 1 = a
      BY <2>4
    <3>2. /\ T!Encoded(old)[T!Width(old, k - 1) + 1] = Code(old[k])[1]
          /\ T!Encoded(new)[T!Width(new, k - 1) + 1] = Code(new[k])[1]
      BY <2>5, <3>1, UnitsOf
    <3> QED BY <1>1, <3>1, <3>2
  <2>7. old[a + 1] \in Nat /\ new[a + 1] \in Nat
    BY <2>4, ElementOfSeq DEF Text
  <2>8. old[a + 1] = new[a + 1]
    BY <2>2, <2>5, <2>6, <2>7, UnitsDiffer
  <2> QED BY <1>0, <2>3, <2>8
<1>5. T!CommonPrefix(eo, en) = Max(A)
  BY DEF T!CommonPrefix, T!Max, Max
<1>6. Max(A) = w
  <2>1. \A n \in A : n \in Nat
    BY <1>1
  <2> HIDE DEF A, w
  <2>2. ASSUME NEW n \in A, \A k \in A : n >= k PROVE n = w
    <3>1. n \in Nat /\ n >= w /\ n <= w
      BY <1>3, <1>4, <2>1, <2>2
    <3> QED BY <1>1, <3>1
  <2>3. w \in A /\ \A k \in A : w >= k
    BY <1>1, <1>3, <1>4, <2>1
  <2> QED BY <2>2, <2>3 DEF Max
<1> QED BY <1>5, <1>6

\* Texts whose first a and last b characters agree, and no character before those.
Alike(old, new, a, b) ==
  /\ a + b <= Len(old) /\ a + b <= Len(new)
  /\ \A i \in 1..a : old[i] = new[i]
  /\ \A i \in 0..b-1 : old[Len(old) - i] = new[Len(new) - i]
  /\ a + b < Len(old) /\ a + b < Len(new) => old[Len(old) - b] # new[Len(new) - b]

\* The common suffix in code units is that of b characters.
LEMMA SuffixFound ==
  ASSUME NEW old \in Text, NEW new \in Text, NEW a \in Nat, NEW b \in Nat,
         Alike(old, new, a, b), NEW s, s = T!CommonSuffix(T!Encoded(old), T!Encoded(new), T!Width(new, a))
  PROVE  /\ s \in Nat /\ Len(T!Encoded(old)) \in Nat
         /\ Len(T!Encoded(old)) - s = T!Width(old, Len(old) - b)
         /\ Len(T!Encoded(new)) - s = T!Width(new, Len(new) - b)
<1> USE DEF Alike
<1> DEFINE eo == T!Encoded(old)
           en == T!Encoded(new)
           p == T!Width(new, a)
<1>0. PICK x \in Nat, y \in Nat : x = Len(old) /\ y = Len(new)
  BY LenProperties DEF Text
<1>1. /\ a + b <= x /\ a + b <= y /\ a <= x /\ a <= y /\ b <= x /\ b <= y
      /\ x - b \in Nat /\ y - b \in Nat /\ a <= x - b /\ a <= y - b /\ x - b <= x /\ y - b <= y
  BY <1>0
<1>2. PICK X \in Nat, Y \in Nat : /\ X = T!Width(old, x) /\ Y = T!Width(new, y)
                                  /\ X = Len(eo) /\ Y = Len(en)
  BY <1>0, UnitsOf, Widths
<1>3. PICK u \in Nat, v \in Nat : u = T!Width(old, x - b) /\ v = T!Width(new, y - b)
  BY <1>1, Widths
<1>4. p \in Nat /\ T!Width(old, a) = p
  BY <1>0, <1>1, PrefixUnits, Widths
<1>5. X - u = Y - v /\ \A i \in 0..(Y - v) - 1 : eo[X - i] = en[Y - i]
  <2>1. b <= Len(old) /\ b <= Len(new)
    BY <1>0, <1>1
  <2>2. /\ T!Width(old, Len(old)) - T!Width(old, Len(old) - b)
             = T!Width(new, Len(new)) - T!Width(new, Len(new) - b)
        /\ \A i \in 0..(T!Width(new, Len(new)) - T!Width(new, Len(new) - b)) - 1 :
             T!Encoded(old)[T!Width(old, Len(old)) - i] = T!Encoded(new)[T!Width(new, Len(new)) - i]
    BY <2>1, SuffixUnits
  <2> QED BY <1>0, <1>2, <1>3, <2>2
<1>6. u <= X /\ v <= Y /\ p <= u /\ p <= v /\ (x - b = a => u = p) /\ (y - b = a => v = p)
  <2>1. PICK h \in Nat, k \in Nat : h = x - b /\ k = y - b
    BY <1>1
  <2>2. u <= X /\ v <= Y
    BY <1>1, <1>2, <1>3, <2>1, WidthOrder
  <2>3. p <= u /\ p <= v
    BY <1>1, <1>3, <1>4, <2>1, WidthOrder
  <2>4. (x - b = a => u = p) /\ (y - b = a => v = p)
    BY <1>3, <1>4
  <2> QED BY <2>2, <2>3, <2>4
<1> DEFINE w == Y - v
           B == {n \in 0..Y : /\ n + p <= X /\ n + p <= Y
                              /\ \A i \in 0..n-1 : eo[X - i] = en[Y - i]}
<1> HIDE DEF eo, en, p
<1>7. w \in Nat /\ w \in B /\ X - w = u /\ Y - w = v
  <2>1. w \in Nat /\ X - w = u /\ Y - w = v /\ w <= Y /\ w + p <= X /\ w + p <= Y
    BY <1>4, <1>5, <1>6
  <2>2. \A i \in 0..w-1 : eo[X - i] = en[Y - i]
    BY <1>5
  <2> HIDE DEF w
  <2> QED BY <2>1, <2>2
<1> HIDE DEF w
<1>8. ASSUME NEW n \in B PROVE n <= w
  <2>1. SUFFICES ASSUME w + 1 <= n PROVE FALSE
    BY <1>7
  <2>2. w + 1 + p <= X /\ w + 1 + p <= Y /\ eo[u] = en[v]
    <3>1. n \in Nat /\ n + p <= X /\ n + p <= Y /\ \A i \in 0..n-1 : eo[X - i] = en[Y - i]
      OBVIOUS
    <3>2. w \in 0..n-1
      BY <1>7, <2>1, <3>1
    <3>3. eo[X - w] = en[Y - w]
      BY <3>1, <3>2
    <3> QED BY <1>4, <1>7, <2>1, <3>1, <3>3
  <2>3. p < u /\ p < v
    BY <1>4, <1>7, <2>2
  <2>4. a < x - b /\ a < y - b
    BY <1>1, <1>4, <1>6, <2>3
  <2>5. PICK h \in Nat, k \in Nat : /\ h = x - b /\ k = y - b /\ h # 0 /\ k # 0
                                    /\ h \in 1..Len(old) /\ k \in 1..Len(new)
    <3>1. PICK h \in Nat, k \in Nat : h = x - b /\ k = y - b
      BY <1>1
    <3>2. h # 0 /\ k # 0 /\ h \in 1..x /\ k \in 1..y
      BY <1>1, <2>4, <3>1
    <3> QED BY <1>0, <3>1, <3>2
  <2>6. Len(Code(old[h])) \in 1..Len(Code(old[h])) /\ Len(Code(new[k])) \in 1..Len(Code(new[k]))
    BY CodeUnits
  <2>7. u = T!Width(old, h - 1) + Len(Code(old[h])) /\ v = T!Width(new, k - 1) + Len(Code(new[k]))
    BY <1>3, <2>5, WidthStep
  <2>8. eo[u] = Code(old[h])[Len(Code(old[h]))] /\ en[v] = Code(new[k])[Len(Code(new[k]))]
    BY <2>5, <2>6, <2>7, UnitsOf DEF eo, en
  <2>9. old[h] \in Nat /\ new[k] \in Nat
    BY <2>5, ElementOfSeq DEF Text
  <2>10. old[h] = new[k]
    <3>1. PICK c \in Nat, d \in Nat : c = old[h] /\ d = new[k]
      BY <2>9
    <3>2. PICK i \in 1..Len(Code(c)), j \in 1..Len(Code(d)) : Code(c)[i] = Code(d)[j]
      BY <2>2, <2>6, <2>8, <3>1
    <3> QED BY <3>1, <3>2, UnitsDiffer
  <2>11. a + b < Len(old) /\ a + b < Len(new)
    BY <1>0, <2>4
  <2> QED BY <1>0, <2>5, <2>10, <2>11
<1>9. T!CommonSuffix(eo, en, p) = Max(B)
  BY <1>2 DEF T!CommonSuffix, T!Max, Max
<1>10. Max(B) = w
  <2>1. \A n \in B : n \in Nat
    OBVIOUS
  <2> HIDE DEF B
  <2>2. ASSUME NEW n \in B, \A k \in B : n >= k PROVE n = w
    <3>1. n \in Nat /\ n >= w /\ n <= w
      BY <1>7, <1>8, <2>1, <2>2
    <3> QED BY <1>7, <3>1
  <2>3. w \in B /\ \A k \in B : w >= k
    BY <1>7, <1>8, <2>1
  <2> QED BY <2>2, <2>3 DEF Max
<1>11. T!CommonSuffix(eo, en, p) = w
  BY <1>9, <1>10
<1> QED BY <1>0, <1>2, <1>3, <1>7, <1>11 DEF eo, en, p


\* set_text finds such a change.
LEMMA DiffSplices ==
  ASSUME NEW old \in Text, NEW new \in Text
  PROVE  Splices(Diff(old, new), old, new)
<1> DEFINE A == {n \in 0..Len(new) : n <= Len(old) /\ \A i \in 1..n : old[i] = new[i]}
           a == Max(A)
           B == {n \in 0..Len(new) :
                   /\ n + a <= Len(old) /\ n + a <= Len(new)
                   /\ \A i \in 0..n-1 : old[Len(old) - i] = new[Len(new) - i]}
           b == Max(B)
           d == Diff(old, new)
<1>1. Len(old) \in Nat /\ Len(new) \in Nat
  BY LenProperties DEF Text
<1>2. a \in A /\ \A n \in A : n <= a
  <2>1. 0 \in A
    BY <1>1
  <2>2. A \in SUBSET Nat /\ \A n \in A : n <= Len(new)
    BY <1>1
  <2> HIDE DEF A
  <2> QED BY <1>1, <2>1, <2>2, MaxExists
<1>3. /\ a \in Nat /\ a <= Len(old) /\ a <= Len(new)
      /\ \A i \in 1..a : old[i] = new[i]
      /\ a < Len(old) /\ a < Len(new) => old[a + 1] # new[a + 1]
  <2> HIDE DEF a
  <2>1. /\ a \in Nat /\ a <= Len(old) /\ a <= Len(new)
        /\ \A i \in 1..a : old[i] = new[i]
    BY <1>1, <1>2
  <2>2. ASSUME a < Len(old), a < Len(new), old[a + 1] = new[a + 1] PROVE FALSE
    <3>1. \A i \in 1..a+1 : i \in 1..a \/ i = a + 1
      BY <2>1
    <3>2. a + 1 \in A
      BY <1>1, <2>1, <2>2, <3>1
    <3>3. a + 1 <= a
      BY <1>2, <3>2
    <3> QED BY <2>1, <3>3
  <2> QED BY <2>1, <2>2
<1> HIDE DEF a
<1>4. b \in B /\ \A n \in B : n <= b
  <2>1. 0 \in B
    BY <1>1, <1>3
  <2>2. B \in SUBSET Nat /\ \A n \in B : n <= Len(new)
    BY <1>1
  <2> HIDE DEF B
  <2> QED BY <1>1, <2>1, <2>2, MaxExists
<1>5. /\ b \in Nat /\ b + a <= Len(old) /\ b + a <= Len(new)
      /\ \A i \in 0..b-1 : old[Len(old) - i] = new[Len(new) - i]
      /\ a + b < Len(old) /\ a + b < Len(new) => old[Len(old) - b] # new[Len(new) - b]
  <2> HIDE DEF b
  <2>1. /\ b \in Nat /\ b + a <= Len(old) /\ b + a <= Len(new)
        /\ \A i \in 0..b-1 : old[Len(old) - i] = new[Len(new) - i]
    BY <1>1, <1>3, <1>4
  <2>2. ASSUME a + b < Len(old), a + b < Len(new), old[Len(old) - b] = new[Len(new) - b] PROVE FALSE
    <3>1. \A i \in 0..(b+1)-1 : i \in 0..b-1 \/ i = b
      BY <2>1
    <3>2. b + 1 \in B
      BY <1>1, <1>3, <2>1, <2>2, <3>1
    <3>3. b + 1 <= b
      BY <1>4, <3>2
    <3> QED BY <2>1, <3>3
  <2> QED BY <2>1, <2>2
<1> HIDE DEF b
<1>6. PICK eo, en, f : /\ eo = T!Encoded(old) /\ en = T!Encoded(new) /\ f = T!DiffMiddle(eo, new)
  OBVIOUS
<1>7. PICK p, s : p = T!CommonPrefix(eo, en) /\ s = T!CommonSuffix(eo, en, p)
  OBVIOUS
<1>8. /\ f.start = p /\ f.remove = Len(eo) - p - s
      /\ f.insert = SubSeq(new, T!CharBoundary(new, p) + 1, T!CharBoundary(new, Len(en) - s))
  BY <1>6, <1>7 DEF T!DiffMiddle
<1>9. p = T!Width(new, a) /\ p = T!Width(old, a)
  BY <1>3, <1>6, <1>7, PrefixFound, PrefixUnits
<1>10. s \in Nat /\ Len(eo) \in Nat
       /\ Len(eo) - s = T!Width(old, Len(old) - b) /\ Len(en) - s = T!Width(new, Len(new) - b)
  <2>1. a + b <= Len(old) /\ a + b <= Len(new)
    BY <1>1, <1>3, <1>5
  <2>2. s = T!CommonSuffix(T!Encoded(old), T!Encoded(new), T!Width(new, a))
    BY <1>6, <1>7, <1>9
  <2>3. Alike(old, new, a, b)
    BY <1>3, <1>5, <2>1 DEF Alike
  <2>4. /\ s \in Nat /\ Len(T!Encoded(old)) \in Nat
        /\ Len(T!Encoded(old)) - s = T!Width(old, Len(old) - b)
        /\ Len(T!Encoded(new)) - s = T!Width(new, Len(new) - b)
    BY <1>3, <1>5, <2>2, <2>3, SuffixFound
  <2> QED BY <1>6, <2>4
<1>11. a \in 0..Len(old) /\ a \in 0..Len(new) /\ Len(old) - b \in 0..Len(old) /\ Len(new) - b \in 0..Len(new)
  BY <1>1, <1>3, <1>5
<1>12. /\ T!CharBoundary(new, p) = a /\ T!CharBoundary(old, p) = a
       /\ T!CharBoundary(old, Len(eo) - s) = Len(old) - b
       /\ T!CharBoundary(new, Len(en) - s) = Len(new) - b
  BY <1>9, <1>10, <1>11, Boundary
<1>13. f.start + f.remove = Len(eo) - s
  <2>1. p \in Nat
    BY <1>3, <1>9, WidthOrder
  <2> QED BY <1>8, <1>10, <2>1
<1>14. /\ d.start = T!CharBoundary(old, f.start)
       /\ d.remove = T!CharBoundary(old, f.start + f.remove) - T!CharBoundary(old, f.start)
       /\ d.insert = f.insert
  BY <1>6 DEF Diff
<1> HIDE DEF d
<1>15. d.start = a /\ d.remove = Len(old) - b - a /\ d.insert = SubSeq(new, a + 1, Len(new) - b)
  BY <1>8, <1>12, <1>13, <1>14
<1>16. /\ d.insert \in Text /\ Len(d.insert) = Len(new) - b - a
      /\ \A i \in 1..Len(d.insert) : d.insert[i] = new[a + i]
  <2>1. new \in Seq(Nat) /\ a + 1 \in 1..Len(new) + 1 /\ Len(new) - b \in (a + 1) - 1 .. Len(new)
    BY <1>1, <1>3, <1>5 DEF Text
  <2> DEFINE m == a + 1
             n == Len(new) - b
  <2>2. m \in 1..Len(new) + 1 /\ n \in m - 1 .. Len(new)
    BY <2>1
  <2>3. SubSeq(new, m, n) \in Seq(Nat) /\ Len(SubSeq(new, m, n)) = n - m + 1
        /\ \A i \in 1..n-m+1 : SubSeq(new, m, n)[i] = new[m + i - 1]
    <3>1. m \in Int /\ n \in Int /\ n - m + 1 = IF m <= n THEN n - m + 1 ELSE 0
      BY <1>1, <2>2
    <3>2. \A i \in m..n : new[i] \in Nat
      <4>1. \A i \in m..n : i \in 1..Len(new)
        BY <1>1, <2>2
      <4> QED BY <2>1, <4>1, ElementOfSeq
    <3> HIDE DEF m, n
    <3>3. /\ SubSeq(new, m, n) \in Seq(Nat)
          /\ Len(SubSeq(new, m, n)) = IF m <= n THEN n - m + 1 ELSE 0
          /\ \A i \in 1 .. n-m+1 : SubSeq(new, m, n)[i] = new[m + i - 1]
      BY <3>1, <3>2, SubSeqProperties
    <3> QED BY <3>1, <3>3, Zenon
  <2>4. Len(d.insert) = Len(new) - b - a
    BY <1>1, <1>3, <1>5, <1>15, <2>3
  <2>5. ASSUME NEW i \in 1..Len(d.insert) PROVE d.insert[i] = new[a + i]
    <3>1. i \in 1..n-m+1 /\ m + i - 1 = a + i
      BY <1>1, <1>3, <1>5, <2>4
    <3> QED BY <1>15, <2>3, <3>1
  <2> QED BY <1>15, <2>3, <2>4, <2>5 DEF Text
<1>17. /\ d.remove \in Nat /\ d.remove + a + b = Len(old)
       /\ Len(d.insert) \in Nat /\ Len(d.insert) + a + b = Len(new)
  <2>1. d.remove = Len(old) - b - a /\ Len(d.insert) = Len(new) - b - a
    BY <1>15, <1>16
  <2> QED BY <1>1, <1>3, <1>5, <2>1
<1>18. PICK r \in Nat, m \in Nat, x \in Nat, y \in Nat :
         /\ r = d.remove /\ m = Len(d.insert) /\ x = Len(old) /\ y = Len(new)
         /\ r + a + b = x /\ m + a + b = y
  BY <1>1, <1>17
<1>19. a \in Nat /\ b \in Nat /\ r + a + b = x /\ m + a + b = y
  BY <1>3, <1>5, <1>18
<1>20. ASSUME NEW i \in (a + r + 1)..x
       PROVE  old[i] = new[i - r + m]
  <2> DEFINE k == x - i
  <2>1. k \in 0..b-1 /\ x - k = i /\ y - k = i - r + m
    BY <1>19
  <2> HIDE DEF k
  <2> QED BY <1>5, <1>18, <2>1
<1>21. d.start + d.remove <= Len(old) /\ Len(new) + d.remove = Len(old) + Len(d.insert)
  <2>1. a + r <= x /\ y + r = x + m
    BY <1>19
  <2> QED BY <1>15, <1>18, <2>1
<1>22. Splices(d, old, new)
  BY <1>3, <1>15, <1>16, <1>18, <1>20, <1>21 DEF Splices
<1> QED BY <1>22 DEF d

---------------------------------------------------------------------------
(* The line of characters and the documents on it.                         *)

\* Characters have different ids, the numbers in which they were inserted.
IsLine(L) ==
  /\ L \in Seq(Item)
  /\ \A i \in 1..Len(L) : L[i].id \in 1..Len(L)
  /\ \A i, j \in 1..Len(L) : L[i].id = L[j].id => i = j

\* A document of characters in the line.
Within(L, doc) == doc \in Doc /\ doc.ins \subseteq 1..Len(L) /\ doc.del \subseteq 1..Len(L)

\* The positions a document shows, and its text.
At(L, doc) == {i \in 1..Len(L) : L[i].id \in doc.ins \ doc.del}

ContentIn(L, doc) ==
  LET s == Pick(L, At(L, doc)) IN [i \in 1..Len(s) |-> s[i].char]

LEMMA ContentOfLine ==
  ASSUME NEW doc
  PROVE  Shown(doc) = Pick(line, At(line, doc)) /\ Content(doc) = ContentIn(line, doc)
BY DEF Shown, Content, At, ContentIn

\* What a document shows, given the list of its positions.
LEMMA ListedContent ==
  ASSUME NEW L \in Seq(Item), NEW doc, NEW n \in Nat, NEW g, Lists(g, n, At(L, doc))
  PROVE  /\ Pick(L, At(L, doc)) = [k \in 1..n |-> L[g[k]]]
         /\ Len(Pick(L, At(L, doc))) = n
         /\ ContentIn(L, doc) = [k \in 1..n |-> L[g[k]].char]
         /\ ContentIn(L, doc) \in Text /\ Len(ContentIn(L, doc)) = n
<1>1. Len(L) \in Nat
  BY LenProperties
<1>2. At(L, doc) \in SUBSET Nat /\ \A i \in At(L, doc) : L[i] \in Item
  BY <1>1, ElementOfSeq DEF At
<1>3. Pick(L, At(L, doc)) = [k \in 1..n |-> L[g[k]]]
  BY <1>2, PickOfList
<1>4. \A k \in 1..n : L[g[k]] \in Item /\ L[g[k]].char \in Nat
  BY <1>2 DEF Lists, Item
<1>5. Pick(L, At(L, doc)) \in Seq(Item) /\ Len(Pick(L, At(L, doc))) = n
  BY <1>3, <1>4
<1>6. ContentIn(L, doc) = [k \in 1..n |-> L[g[k]].char]
  BY <1>3, <1>5 DEF ContentIn
<1>7. ContentIn(L, doc) \in Text /\ Len(ContentIn(L, doc)) = n
  BY <1>4, <1>6 DEF Text
<1> QED BY <1>3, <1>5, <1>6, <1>7

LEMMA ListedText ==
  ASSUME NEW L \in Seq(Item), NEW doc, NEW n \in Nat, NEW g, Lists(g, n, At(L, doc))
  PROVE  ContentIn(L, doc) = [k \in 1..n |-> L[g[k]].char]
BY ListedContent

\* The positions can be listed.
LEMMA ContentListed ==
  ASSUME NEW L \in Seq(Item), NEW doc
  PROVE  \E n \in Nat : \E g : Lists(g, n, At(L, doc))
<1>1. Len(L) \in Nat /\ At(L, doc) \in SUBSET (1..Len(L))
  BY LenProperties DEF At
<1> QED BY <1>1, ListExists

\* A text shows the characters of its document.
LEMMA ContentChars ==
  ASSUME NEW L \in Seq(Item), NEW doc
  PROVE  /\ ContentIn(L, doc) \in Text
         /\ \A c : c \in Chars(ContentIn(L, doc)) <=> \E i \in At(L, doc) : L[i].char = c
<1>1. PICK n \in Nat : \E g : Lists(g, n, At(L, doc))
  BY ContentListed
<1>2. PICK g : Lists(g, n, At(L, doc))
  BY <1>1
<1>3. /\ ContentIn(L, doc) = [k \in 1..n |-> L[g[k]].char]
      /\ ContentIn(L, doc) \in Text /\ Len(ContentIn(L, doc)) = n
  BY <1>2, ListedContent
<1>4. Chars(ContentIn(L, doc)) = {L[g[k]].char : k \in 1..n}
  BY <1>3 DEF Chars
<1>5. g \in [1..n -> At(L, doc)] /\ \A i \in At(L, doc) : \E k \in 1..n : g[k] = i
  BY <1>2 DEF Lists
<1>6. ASSUME NEW c PROVE c \in {L[g[k]].char : k \in 1..n} <=> \E i \in At(L, doc) : L[i].char = c
  BY <1>5
<1> QED BY <1>3, <1>4, <1>6

---------------------------------------------------------------------------
(* Inserting characters.                                                   *)

\* The line after an insertion, and where it moves a position to.
Grown(L, spot, items) == SubSeq(L, 1, spot) \o items \o SubSeq(L, spot + 1, Len(L))

NewItems(L, items) ==
  items \in Seq(Item) /\ \A k \in 1..Len(items) : items[k].id = Len(L) + k

Moved(spot, m, i) == IF i <= spot THEN i ELSE i + m

\* G is L with items in it.
Grows(G, L, spot, items) ==
  /\ Len(G) = Len(L) + Len(items)
  /\ \A i \in 1..Len(L) : G[Moved(spot, Len(items), i)] = L[i]
  /\ \A k \in 1..Len(items) : G[spot + k] = items[k]

LEMMA GrownSeq ==
  ASSUME NEW S, NEW L \in Seq(S), NEW items \in Seq(S), NEW spot \in 0..Len(L)
  PROVE  Grown(L, spot, items) \in Seq(S) /\ Grows(Grown(L, spot, items), L, spot, items)
<1> DEFINE A == SubSeq(L, 1, spot)
           B == SubSeq(L, spot + 1, Len(L))
           AI == A \o items
           G == AI \o B
<1>1. Len(L) \in Nat /\ Len(items) \in Nat
  BY LenProperties
<1>2. A \in Seq(S) /\ Len(A) = spot /\ \A i \in 1..spot : A[i] = L[i]
  <2>1. 1 \in 1..Len(L) + 1 /\ spot \in 1 - 1 .. Len(L)
    BY <1>1
  <2>2. /\ A \in Seq(S) /\ Len(A) = spot - 1 + 1
        /\ \A i \in 1..spot - 1 + 1 : A[i] = L[1 + i - 1]
    BY <1>1, <2>1, SubSeqProperties
  <2>3. spot - 1 + 1 = spot /\ \A i \in 1..spot : 1 + i - 1 = i
    OBVIOUS
  <2> QED BY <2>2, <2>3
<1>3. B \in Seq(S) /\ Len(B) = Len(L) - spot /\ \A i \in 1..Len(L) - spot : B[i] = L[spot + i]
  <2> DEFINE m == spot + 1
  <2>1. m \in 1..Len(L) + 1 /\ Len(L) \in m - 1 .. Len(L)
    BY <1>1
  <2>2. /\ SubSeq(L, m, Len(L)) \in Seq(S) /\ Len(SubSeq(L, m, Len(L))) = Len(L) - m + 1
        /\ \A i \in 1..Len(L) - m + 1 : SubSeq(L, m, Len(L))[i] = L[m + i - 1]
    <3> HIDE DEF m
    <3> QED BY <1>1, <2>1, SubSeqProperties
  <2>3. Len(L) - m + 1 = Len(L) - spot /\ \A i \in 1..Len(L) - spot : m + i - 1 = spot + i
    BY <1>1
  <2> QED BY <2>2, <2>3
<1> HIDE DEF A, B
<1>4. /\ AI \in Seq(S) /\ Len(AI) = spot + Len(items)
      /\ \A i \in 1..spot : AI[i] = L[i]
      /\ \A k \in 1..Len(items) : AI[spot + k] = items[k]
  <2>1. /\ AI \in Seq(S) /\ Len(AI) = Len(A) + Len(items)
        /\ \A i \in 1..Len(A) + Len(items) : AI[i] = IF i <= Len(A) THEN A[i] ELSE items[i - Len(A)]
    BY <1>1, <1>2, ConcatProperties
  <2>2. ASSUME NEW i \in 1..spot PROVE AI[i] = L[i]
    BY <1>1, <1>2, <2>1
  <2>3. ASSUME NEW k \in 1..Len(items) PROVE AI[spot + k] = items[k]
    <3>1. spot + k \in 1..spot + Len(items) /\ ~(spot + k <= spot) /\ spot + k - spot = k
      BY <1>1
    <3> QED BY <1>2, <2>1, <3>1
  <2> QED BY <1>2, <2>1, <2>2, <2>3
<1> HIDE DEF AI
<1>5. /\ G \in Seq(S) /\ Len(G) = Len(AI) + Len(B)
      /\ \A i \in 1..Len(AI) + Len(B) : G[i] = IF i <= Len(AI) THEN AI[i] ELSE B[i - Len(AI)]
  BY <1>3, <1>4, ConcatProperties
<1>6. Len(G) = Len(L) + Len(items)
  BY <1>1, <1>3, <1>4, <1>5
<1>7. ASSUME NEW i \in 1..Len(L) PROVE G[Moved(spot, Len(items), i)] = L[i]
  <2>1. CASE i <= spot
    <3>1. i \in 1..Len(AI) + Len(B) /\ i <= Len(AI) /\ i \in 1..spot
      BY <1>1, <1>3, <1>4, <2>1
    <3> QED BY <1>4, <1>5, <2>1, <3>1 DEF Moved
  <2>2. CASE ~(i <= spot)
    <3> DEFINE j == i + Len(items)
    <3>1. /\ j \in 1..Len(AI) + Len(B) /\ ~(j <= Len(AI)) /\ j - Len(AI) = i - spot
          /\ i - spot \in 1..Len(L) - spot /\ spot + (i - spot) = i
      BY <1>1, <1>3, <1>4, <2>2
    <3>2. G[j] = B[i - spot]
      BY <1>5, <3>1
    <3> QED BY <1>3, <2>2, <3>1, <3>2 DEF Moved
  <2> QED BY <2>1, <2>2
<1>8. ASSUME NEW k \in 1..Len(items) PROVE G[spot + k] = items[k]
  <2>1. spot + k \in 1..Len(AI) + Len(B) /\ spot + k <= Len(AI)
    BY <1>1, <1>3, <1>4
  <2> QED BY <1>4, <1>5, <2>1
<1>9. Grown(L, spot, items) = G
  BY DEF Grown, A, B, AI
<1>10. Grows(G, L, spot, items)
  BY <1>6, <1>7, <1>8 DEF Grows
<1> QED BY <1>5, <1>9, <1>10

LEMMA GrownParts ==
  ASSUME NEW L \in Seq(Item), NEW items \in Seq(Item), NEW spot \in 0..Len(L)
  PROVE  /\ Grown(L, spot, items) \in Seq(Item)
         /\ Len(Grown(L, spot, items)) = Len(L) + Len(items)
         /\ \A i \in 1..Len(L) : Grown(L, spot, items)[Moved(spot, Len(items), i)] = L[i]
         /\ \A k \in 1..Len(items) : Grown(L, spot, items)[spot + k] = items[k]
<1>1. Grown(L, spot, items) \in Seq(Item) /\ Grows(Grown(L, spot, items), L, spot, items)
  BY GrownSeq
<1> QED BY <1>1, Zenon DEF Grows

\* Every position is an old one, moved, or a new one.
LEMMA MovedCover ==
  ASSUME NEW l \in Nat, NEW m \in Nat, NEW spot \in 0..l, NEW j \in 1..l+m
  PROVE  (\E i \in 1..l : j = Moved(spot, m, i)) \/ (\E k \in 1..m : j = spot + k)
<1>1. CASE j <= spot
  <2>1. j \in 1..l /\ j = Moved(spot, m, j)
    BY <1>1 DEF Moved
  <2> QED BY <2>1
<1>2. CASE j > spot /\ j <= spot + m
  <2>1. j - spot \in 1..m /\ j = spot + (j - spot)
    BY <1>2
  <2> QED BY <2>1
<1>3. CASE j > spot + m
  <2>1. j - m \in 1..l /\ j = Moved(spot, m, j - m)
    BY <1>3 DEF Moved
  <2> QED BY <2>1
<1> QED BY <1>1, <1>2, <1>3

\* The order of positions stays.
LEMMA MovedPositions ==
  ASSUME NEW l \in Nat, NEW m \in Nat, NEW spot \in 0..l
  PROVE  /\ \A i \in 1..l : Moved(spot, m, i) \in 1..l+m
         /\ \A k \in 1..m : spot + k \in 1..l+m
         /\ \A i, j \in 1..l : i < j => Moved(spot, m, i) < Moved(spot, m, j)
         /\ \A i \in 1..l, k \in 1..m : Moved(spot, m, i) # spot + k
         /\ \A i \in 1..l, k \in 1..m : i <= spot => Moved(spot, m, i) < spot + k
         /\ \A i \in 1..l, k \in 1..m : i > spot => Moved(spot, m, i) > spot + k
<1>1. \A i \in 1..l : Moved(spot, m, i) \in 1..l+m
  BY DEF Moved
<1>2. \A k \in 1..m : spot + k \in 1..l+m
  OBVIOUS
<1>3. \A i, j \in 1..l : i < j => Moved(spot, m, i) < Moved(spot, m, j)
  BY DEF Moved
<1>4. \A i \in 1..l, k \in 1..m : Moved(spot, m, i) # spot + k
  BY DEF Moved
<1>5. \A i \in 1..l, k \in 1..m : i <= spot => Moved(spot, m, i) < spot + k
  BY DEF Moved
<1>6. \A i \in 1..l, k \in 1..m : i > spot => Moved(spot, m, i) > spot + k
  BY DEF Moved
<1> QED BY <1>1, <1>2, <1>3, <1>4, <1>5, <1>6

\* Inserted characters have ids of their own.
LEMMA GrownLine ==
  ASSUME NEW L, IsLine(L), NEW items, NewItems(L, items), NEW spot \in 0..Len(L)
  PROVE  IsLine(Grown(L, spot, items))
<1> DEFINE G == Grown(L, spot, items)
           l == Len(L)
           m == Len(items)
<1>1. L \in Seq(Item) /\ items \in Seq(Item) /\ l \in Nat /\ m \in Nat
  BY LenProperties DEF IsLine, NewItems
<1>2. /\ G \in Seq(Item) /\ Len(G) = l + m
      /\ \A i \in 1..l : G[Moved(spot, m, i)] = L[i]
      /\ \A k \in 1..m : G[spot + k] = items[k]
  BY <1>1, GrownParts
<1> HIDE DEF G
<1>3. /\ \A i \in 1..l : L[i].id \in 1..l
      /\ \A i, j \in 1..l : L[i].id = L[j].id => i = j
      /\ \A k \in 1..m : items[k].id = l + k
  BY DEF IsLine, NewItems
<1> HIDE DEF l, m
<1>4. \A j \in 1..l+m : (\E i \in 1..l : j = Moved(spot, m, i)) \/ (\E k \in 1..m : j = spot + k)
  BY <1>1, MovedCover DEF l
<1>5. ASSUME NEW j \in 1..l+m PROVE G[j].id \in 1..l+m
  <2>1. CASE \E i \in 1..l : j = Moved(spot, m, i)
    <3>1. PICK i \in 1..l : j = Moved(spot, m, i)
      BY <2>1
    <3>2. G[j].id = L[i].id /\ L[i].id \in 1..l
      BY <1>2, <1>3, <3>1
    <3> QED BY <1>1, <3>2
  <2>2. CASE \E k \in 1..m : j = spot + k
    <3>1. PICK k \in 1..m : j = spot + k
      BY <2>2
    <3>2. G[j].id = l + k
      BY <1>2, <1>3, <3>1
    <3> QED BY <1>1, <3>2
  <2> QED BY <1>4, <2>1, <2>2
<1>6. ASSUME NEW j \in 1..l+m, NEW h \in 1..l+m, G[j].id = G[h].id PROVE j = h
  <2>1. CASE (\E i \in 1..l : j = Moved(spot, m, i)) /\ (\E i \in 1..l : h = Moved(spot, m, i))
    <3>1. PICK i \in 1..l : j = Moved(spot, m, i)
      BY <2>1
    <3>2. PICK a \in 1..l : h = Moved(spot, m, a)
      BY <2>1
    <3>3. L[i].id = L[a].id
      BY <1>2, <1>6, <3>1, <3>2
    <3> QED BY <1>3, <3>1, <3>2, <3>3
  <2>2. CASE (\E k \in 1..m : j = spot + k) /\ (\E k \in 1..m : h = spot + k)
    <3>1. PICK i \in 1..m : j = spot + i
      BY <2>2
    <3>2. PICK a \in 1..m : h = spot + a
      BY <2>2
    <3>3. l + i = l + a
      BY <1>2, <1>3, <1>6, <3>1, <3>2
    <3> QED BY <1>1, <3>1, <3>2, <3>3
  <2>3. CASE (\E i \in 1..l : j = Moved(spot, m, i)) /\ (\E k \in 1..m : h = spot + k)
    <3>1. PICK i \in 1..l : j = Moved(spot, m, i)
      BY <2>3
    <3>2. PICK a \in 1..m : h = spot + a
      BY <2>3
    <3>3. L[i].id = l + a /\ L[i].id \in 1..l
      BY <1>2, <1>3, <1>6, <3>1, <3>2
    <3> QED BY <1>1, <3>3
  <2>4. CASE (\E k \in 1..m : j = spot + k) /\ (\E i \in 1..l : h = Moved(spot, m, i))
    <3>1. PICK i \in 1..l : h = Moved(spot, m, i)
      BY <2>4
    <3>2. PICK a \in 1..m : j = spot + a
      BY <2>4
    <3>3. L[i].id = l + a /\ L[i].id \in 1..l
      BY <1>2, <1>3, <1>6, <3>1, <3>2
    <3> QED BY <1>1, <3>3
  <2> QED BY <1>4, <2>1, <2>2, <2>3, <2>4
<1>7. IsLine(G)
  BY <1>2, <1>5, <1>6 DEF IsLine
<1> QED BY <1>7 DEF G

\* The positions a document of old characters shows.
LEMMA GrownAt ==
  ASSUME NEW L, IsLine(L), NEW items, NewItems(L, items), NEW spot \in 0..Len(L),
         NEW doc, NEW i \in 1..Len(L)
  PROVE  Moved(spot, Len(items), i) \in At(Grown(L, spot, items), doc) <=> i \in At(L, doc)
<1>1. L \in Seq(Item) /\ items \in Seq(Item) /\ Len(L) \in Nat /\ Len(items) \in Nat
  BY LenProperties DEF IsLine, NewItems
<1>2. /\ Len(Grown(L, spot, items)) = Len(L) + Len(items)
      /\ Grown(L, spot, items)[Moved(spot, Len(items), i)] = L[i]
  BY <1>1, GrownParts
<1>3. Moved(spot, Len(items), i) \in 1..Len(L) + Len(items)
  BY <1>1, MovedPositions
<1> QED BY <1>2, <1>3 DEF At

\* The text of a document does not change when others insert characters.
LEMMA ContentStable ==
  ASSUME NEW L, IsLine(L), NEW items, NewItems(L, items), NEW spot \in 0..Len(L),
         NEW doc, Within(L, doc)
  PROVE  ContentIn(Grown(L, spot, items), doc) = ContentIn(L, doc)
<1> DEFINE G == Grown(L, spot, items)
           l == Len(L)
           m == Len(items)
<1>1. L \in Seq(Item) /\ items \in Seq(Item) /\ l \in Nat /\ m \in Nat
  BY LenProperties DEF IsLine, NewItems
<1>2. /\ G \in Seq(Item) /\ Len(G) = l + m
      /\ \A i \in 1..l : G[Moved(spot, m, i)] = L[i]
      /\ \A k \in 1..m : G[spot + k] = items[k]
  BY <1>1, GrownParts
<1>3. \A i \in 1..l : Moved(spot, m, i) \in At(G, doc) <=> i \in At(L, doc)
  BY GrownAt
<1>4. \A k \in 1..m : spot + k \notin At(G, doc)
  <2>1. ASSUME NEW k \in 1..m PROVE G[spot + k].id \notin doc.ins
    <3>1. G[spot + k].id = l + k
      BY <1>2 DEF NewItems
    <3>2. doc.ins \subseteq 1..l /\ l + k \notin 1..l
      BY <1>1 DEF Within
    <3> QED BY <3>1, <3>2
  <2> QED BY <2>1 DEF At
<1>5. PICK n \in Nat : \E g : Lists(g, n, At(L, doc))
  BY <1>1, ContentListed
<1>6. PICK g : Lists(g, n, At(L, doc))
  BY <1>5
<1> DEFINE f == [k \in 1..n |-> Moved(spot, m, g[k])]
<1>7. /\ g \in [1..n -> At(L, doc)] /\ At(L, doc) \subseteq 1..l
      /\ \A k, h \in 1..n : k < h => g[k] < g[h]
      /\ \A i \in At(L, doc) : \E k \in 1..n : g[k] = i
  BY <1>6 DEF Lists, At
<1>8. spot \in 0..l
  OBVIOUS
<1> HIDE DEF G, l, m
<1>9. f \in [1..n -> At(G, doc)]
  BY <1>3, <1>7
<1>10. ASSUME NEW k \in 1..n, NEW h \in 1..n, k < h PROVE f[k] < f[h]
  <2>1. g[k] \in 1..l /\ g[h] \in 1..l /\ g[k] < g[h]
    BY <1>7, <1>10
  <2>2. Moved(spot, m, g[k]) < Moved(spot, m, g[h])
    BY <1>1, <1>8, <2>1, MovedPositions
  <2> QED BY <2>2
<1>11. ASSUME NEW j \in At(G, doc) PROVE \E k \in 1..n : f[k] = j
  <2>1. j \in 1..l+m
    BY <1>2 DEF At
  <2>2. PICK i \in 1..l : j = Moved(spot, m, i)
    <3>1. (\E i \in 1..l : j = Moved(spot, m, i)) \/ (\E k \in 1..m : j = spot + k)
      BY <1>1, <1>8, <2>1, MovedCover
    <3> QED BY <1>4, <3>1
  <2>3. i \in At(L, doc)
    BY <1>3, <2>2
  <2>4. PICK k \in 1..n : g[k] = i
    BY <1>7, <2>3
  <2> QED BY <2>2, <2>4
<1>12. Lists(f, n, At(G, doc))
  BY <1>9, <1>10, <1>11 DEF Lists
<1>13. ContentIn(G, doc) = [k \in 1..n |-> G[f[k]].char]
  <2>1. G \in Seq(Item)
    BY <1>2
  <2> HIDE DEF f
  <2>2. PICK h : h = f /\ Lists(h, n, At(G, doc))
    BY <1>12
  <2>3. ContentIn(G, doc) = [k \in 1..n |-> G[h[k]].char]
    BY <2>1, <2>2, ListedContent
  <2> QED BY <2>2, <2>3
<1>14. ContentIn(L, doc) = [k \in 1..n |-> L[g[k]].char]
  BY <1>1, <1>6, ListedContent
<1>15. \A k \in 1..n : G[f[k]] = L[g[k]]
  BY <1>2, <1>7
<1>16. ContentIn(G, doc) = ContentIn(L, doc)
  BY <1>13, <1>14, <1>15
<1> QED BY <1>16 DEF G

---------------------------------------------------------------------------
(* set_text.                                                               *)

\* u changes a document to a text by inserting at a spot: g lists the positions
\* the document shows, d is the change to its text.
Changes(u, spot, L, doc, new, d, n, g) ==
  /\ n \in Nat /\ Lists(g, n, At(L, doc))
  /\ Splices(d, ContentIn(L, doc), new)
  /\ u.ins = {Len(L) + i : i \in 1..Len(d.insert)}
  /\ u.del = {L[g[k]].id : k \in d.start+1 .. d.start+d.remove}
  /\ NewItems(L, u.items) /\ Len(u.items) = Len(d.insert)
  /\ \A i \in 1..Len(d.insert) : u.items[i].char = d.insert[i]
  /\ spot \in 0..Len(L)
  /\ \A k \in 1..n : k <= d.start => g[k] <= spot
  /\ \A k \in 1..n : k > d.start + d.remove => g[k] > spot

\* The number of a line's position is found from the character there.
LEMMA PlaceOf ==
  ASSUME IsLine(line), NEW i \in 1..Len(line)
  PROVE  Place(line[i].id) = i
<1>1. line[i].id # 0 /\ \A j \in 1..Len(line) : line[j].id = line[i].id => j = i
  BY LenProperties DEF IsLine
<1> QED BY <1>1 DEF Place

LEMMA UpdateChanges ==
  ASSUME IsLine(line), NEW doc, NEW new \in Text, NEW spot \in Update(doc, new).spots
  PROVE  \E d, n, g : Changes(Update(doc, new), spot, line, doc, new, d, n, g)
<1> DEFINE l == Len(line)
           old == Content(doc)
           d == Diff(old, new)
           m == Len(d.insert)
           u == Update(doc, new)
           right == d.start + d.remove + 1
<1>1. line \in Seq(Item) /\ l \in Nat
  BY LenProperties DEF IsLine
<1>2. PICK n \in Nat : \E g : Lists(g, n, At(line, doc))
  BY <1>1, ContentListed
<1>3. PICK g : Lists(g, n, At(line, doc))
  BY <1>2
<1>4. /\ Pick(line, At(line, doc)) = [k \in 1..n |-> line[g[k]]]
      /\ ContentIn(line, doc) \in Text /\ Len(ContentIn(line, doc)) = n
  BY <1>1, <1>3, ListedContent
<1>5. Shown(doc) = [k \in 1..n |-> line[g[k]]] /\ old = ContentIn(line, doc)
      /\ old \in Text /\ Len(old) = n
  BY <1>4, ContentOfLine
<1>6. Splices(d, old, new)
  BY <1>5, DiffSplices
<1>7. /\ g \in [1..n -> 1..l]
      /\ \A k, h \in 1..n : k < h => g[k] < g[h]
  BY <1>3 DEF Lists, At
<1>8. \A k \in 1..n : Shown(doc)[k].id = line[g[k]].id /\ Place(line[g[k]].id) = g[k]
  BY <1>5, <1>7, PlaceOf
<1>9. u = [ins   |-> {l + i : i \in 1..m},
           del   |-> Removed(doc, d),
           items |-> [i \in 1..m |-> [id |-> l + i, char |-> d.insert[i]]],
           spots |-> (IF d.start = 0 THEN 0 ELSE Place(Shown(doc)[d.start].id))
                      .. (IF right > Len(old) THEN l ELSE Place(Shown(doc)[right].id) - 1)]
  BY DEF Update
<1> HIDE DEF u, d, old
<1>10. /\ u.ins = {l + i : i \in 1..m} /\ u.del = Removed(doc, d)
       /\ u.items = [i \in 1..m |-> [id |-> l + i, char |-> d.insert[i]]]
       /\ u.spots = (IF d.start = 0 THEN 0 ELSE Place(Shown(doc)[d.start].id))
                      .. (IF right > Len(old) THEN l ELSE Place(Shown(doc)[right].id) - 1)
  BY <1>9
<1>11. /\ d.start \in Nat /\ d.remove \in Nat /\ d.insert \in Text /\ m \in Nat
       /\ d.start + d.remove <= n
  BY <1>5, <1>6, LenProperties DEF Splices, Text
<1>12. PICK a \in Nat, r \in Nat : a = d.start /\ r = d.remove /\ a + r <= n /\ right = a + r + 1
  BY <1>11
<1>13. u.del = {line[g[k]].id : k \in d.start+1 .. d.start+d.remove}
  <2>1. \A k \in a+1 .. a+r : k \in 1..n
    BY <1>12
  <2>2. \A k \in d.start+1 .. d.start+d.remove : k \in 1..n
    BY <1>12, <2>1
  <2>3. Removed(doc, d) = {Shown(doc)[i].id : i \in d.start+1 .. d.start+d.remove}
    BY DEF Removed
  <2>4. \A k \in d.start+1 .. d.start+d.remove : Shown(doc)[k].id = line[g[k]].id
    BY <1>8, <2>2, Zenon
  <2>5. Removed(doc, d) = {line[g[k]].id : k \in d.start+1 .. d.start+d.remove}
    BY <2>3, <2>4
  <2> QED BY <1>10, <2>5, Zenon
<1>14. NewItems(line, u.items) /\ Len(u.items) = m /\ \A i \in 1..m : u.items[i].char = d.insert[i]
  <2>1. ASSUME NEW i \in 1..m PROVE d.insert[i] \in Nat /\ l + i \in Nat
    <3>1. d.insert[i] \in Nat
      BY <1>11, ElementOfSeq DEF Text
    <3>2. l + i \in Nat
      BY <1>1, <1>11
    <3> QED BY <3>1, <3>2
  <2>2. u.items \in Seq(Item) /\ Len(u.items) = m
    BY <1>10, <1>11, <2>1 DEF Item
  <2>3. \A i \in 1..m : u.items[i].id = l + i /\ u.items[i].char = d.insert[i]
    BY <1>10
  <2> QED BY <2>2, <2>3 DEF NewItems
<1>15. spot \in 0..l /\ (a # 0 => g[a] <= spot) /\ (a + r + 1 <= n => g[a + r + 1] > spot)
  <2> DEFINE lo == IF a = 0 THEN 0 ELSE g[a]
             hi == IF a + r + 1 > n THEN l ELSE g[a + r + 1] - 1
  <2>1. a # 0 => a \in 1..n
    BY <1>12
  <2>2. a + r + 1 <= n => a + r + 1 \in 1..n
    BY <1>12
  <2>3. Len(old) = n
    BY <1>5
  <2>4. a # 0 => Place(Shown(doc)[a].id) = g[a]
    BY <1>8, <2>1
  <2>5. a + r + 1 <= n => Place(Shown(doc)[a + r + 1].id) = g[a + r + 1]
    BY <1>8, <2>2
  <2>6. spot \in lo .. hi
    <3>1. spot \in u.spots
      BY DEF u
    <3>2. u.spots = (IF a = 0 THEN 0 ELSE Place(Shown(doc)[a].id))
                      .. (IF a + r + 1 > n THEN l ELSE Place(Shown(doc)[a + r + 1].id) - 1)
      BY <1>10, <1>12, <2>3
    <3>3. ~(a + r + 1 > n) => a + r + 1 <= n
      BY <1>12
    <3> QED BY <2>4, <2>5, <3>1, <3>2, <3>3
  <2>7. a # 0 => g[a] \in 1..l
    BY <1>7, <2>1
  <2>8. a + r + 1 <= n => g[a + r + 1] \in 1..l
    BY <1>7, <2>2
  <2>9. lo \in 0..l /\ hi \in 0..l
    BY <1>1, <1>12, <2>7, <2>8
  <2> QED BY <1>1, <1>12, <2>6, <2>7, <2>8, <2>9
<1>16. \A k \in 1..n : k <= a => g[k] <= spot
  <2> SUFFICES ASSUME NEW k \in 1..n, k <= a PROVE g[k] <= spot
    OBVIOUS
  <2>1. a \in 1..n /\ a # 0
    BY <1>12
  <2>2. g[k] \in 1..l /\ g[a] \in 1..l /\ (k < a => g[k] < g[a])
    BY <1>7, <2>1
  <2>3. k < a \/ k = a
    BY <1>12
  <2>4. g[k] <= g[a]
    BY <2>2, <2>3
  <2> QED BY <1>1, <1>15, <2>1, <2>2, <2>4
<1>17. \A k \in 1..n : k > a + r => g[k] > spot
  <2> SUFFICES ASSUME NEW k \in 1..n, k > a + r PROVE g[k] > spot
    OBVIOUS
  <2>1. PICK b \in 1..n : b = a + r + 1
    BY <1>12
  <2>2. g[k] \in 1..l /\ g[b] \in 1..l /\ (b < k => g[b] < g[k])
    BY <1>7
  <2>3. b < k \/ k = b
    BY <1>12, <2>1
  <2>4. g[b] <= g[k]
    BY <2>2, <2>3
  <2>5. g[b] > spot
    BY <1>12, <1>15, <2>1
  <2> QED BY <1>1, <1>15, <2>2, <2>4, <2>5
<1>18. Changes(u, spot, line, doc, new, d, n, g)
  BY <1>3, <1>5, <1>6, <1>10, <1>12, <1>13, <1>14, <1>15, <1>16, <1>17 DEF Changes
<1> QED BY <1>18 DEF u

\* A document and an update of it.
LEMMA MergeOfTwo ==
  ASSUME NEW d, NEW e
  PROVE  Merge({d, e}).ins = d.ins \cup e.ins /\ Merge({d, e}).del = d.del \cup e.del
BY DEF Merge

LEMMA MergeWithin ==
  ASSUME NEW L, NEW d, NEW e, Within(L, d), Within(L, e)
  PROVE  Within(L, Merge({d, e}))
<1>1. PICK D : D = Merge({d, e})
  OBVIOUS
<1>2. D.ins = d.ins \cup e.ins /\ D.del = d.del \cup e.del
  BY <1>1, MergeOfTwo
<1>3. D = [ins |-> D.ins, del |-> D.del]
  BY <1>1 DEF Merge
<1>4. D.ins \in SUBSET Nat /\ D.del \in SUBSET Nat
  BY <1>2 DEF Within, Doc
<1>5. D \in Doc
  BY <1>3, <1>4 DEF Doc
<1> QED BY <1>1, <1>2, <1>5 DEF Within

\* The update leaves the document with the new text.
LEMMA SetTextContent ==
  ASSUME NEW L, IsLine(L), NEW doc, Within(L, doc), NEW new \in Text, NEW u, NEW c, NEW spot,
         NEW d, NEW n, NEW g, Changes(u, spot, L, doc, new, d, n, g),
         c.ins = u.ins, c.del = u.del
  PROVE  ContentIn(Grown(L, spot, u.items), Merge({doc, c})) = new
<1> DEFINE G == Grown(L, spot, u.items)
           D == Merge({doc, c})
           l == Len(L)
<1>1. PICK a \in Nat, r \in Nat, m \in Nat, N \in Nat :
        a = d.start /\ r = d.remove /\ m = Len(d.insert) /\ N = Len(new)
  BY LenProperties DEF Changes, Splices, Text
<1>2. n \in Nat /\ Lists(g, n, At(L, doc)) /\ spot \in 0..l
      /\ NewItems(L, u.items) /\ Len(u.items) = m /\ Splices(d, ContentIn(L, doc), new)
  BY <1>1 DEF Changes
<1>3. L \in Seq(Item) /\ u.items \in Seq(Item) /\ l \in Nat
  BY <1>2, LenProperties DEF IsLine, NewItems
<1>4. ContentIn(L, doc) = [k \in 1..n |-> L[g[k]].char] /\ Len(ContentIn(L, doc)) = n
  BY <1>2, <1>3, ListedContent
<1>5. a + r <= n /\ N + r = n + m
  BY <1>1, <1>2, <1>4 DEF Splices
<1>6. /\ \A k \in 1..a : L[g[k]].char = new[k]
      /\ \A k \in 1..m : u.items[k].char = new[a + k]
      /\ \A k \in a+r+1..n : L[g[k]].char = new[k - r + m]
  <2>1. /\ \A k \in 1..a : ContentIn(L, doc)[k] = new[k]
        /\ \A k \in 1..m : d.insert[k] = new[a + k]
        /\ \A k \in a+r+1..n : ContentIn(L, doc)[k] = new[k - r + m]
    BY <1>1, <1>2, <1>4 DEF Splices
  <2>2. \A k \in 1..m : u.items[k].char = d.insert[k]
    BY <1>1 DEF Changes
  <2>3. /\ \A k \in 1..a : k \in 1..n
        /\ \A k \in a+r+1..n : k \in 1..n
    BY <1>2, <1>5
  <2> QED BY <1>4, <2>1, <2>2, <2>3
<1>7. /\ \A k \in 1..n : k <= a => g[k] <= spot
      /\ \A k \in 1..n : k > a + r => g[k] > spot
  BY <1>1 DEF Changes
<1>8. /\ g \in [1..n -> At(L, doc)] /\ At(L, doc) \subseteq 1..l
      /\ \A k, h \in 1..n : k < h => g[k] < g[h]
      /\ \A i \in At(L, doc) : \E k \in 1..n : g[k] = i
  BY <1>2 DEF Lists, At
<1>9. /\ G \in Seq(Item) /\ Len(G) = l + m
      /\ \A i \in 1..l : G[Moved(spot, m, i)] = L[i]
      /\ \A k \in 1..m : G[spot + k] = u.items[k]
  BY <1>2, <1>3, GrownParts
<1>10. /\ D.ins = doc.ins \cup {l + i : i \in 1..m}
       /\ D.del = doc.del \cup {L[g[k]].id : k \in a+1..a+r}
  <2>1. D.ins = doc.ins \cup c.ins /\ D.del = doc.del \cup c.del
    BY MergeOfTwo
  <2>2. u.ins = {l + i : i \in 1..m} /\ u.del = {L[g[k]].id : k \in a+1..a+r}
    BY <1>1 DEF Changes
  <2> HIDE DEF D
  <2> QED BY <2>1, <2>2
<1> HIDE DEF G, D
<1>11. /\ \A i \in 1..l : L[i].id \in 1..l
       /\ \A i, j \in 1..l : L[i].id = L[j].id => i = j
       /\ doc.ins \subseteq 1..l /\ doc.del \subseteq 1..l
       /\ \A k \in 1..m : u.items[k].id = l + k
  BY <1>2 DEF IsLine, Within, NewItems
<1>12. \A k \in 1..n : g[k] \in 1..l /\ L[g[k]].id \in doc.ins \ doc.del
  BY <1>8 DEF At
<1>13. ASSUME NEW k \in 1..n, NEW h \in 1..n, L[g[k]].id = L[g[h]].id PROVE k = h
  <2>1. g[k] = g[h] /\ g[k] \in Nat /\ g[h] \in Nat
    BY <1>3, <1>11, <1>12, <1>13
  <2>2. k < h \/ h < k \/ k = h
    BY <1>2
  <2> QED BY <1>8, <2>1, <2>2
<1>14. ASSUME NEW k \in 1..n, k <= a \/ k > a + r PROVE Moved(spot, m, g[k]) \in At(G, D)
  <2>1. L[g[k]].id \notin {L[g[h]].id : h \in a+1..a+r}
    <3>1. ASSUME NEW h \in a+1..a+r, L[g[k]].id = L[g[h]].id PROVE FALSE
      <4>1. h \in 1..n
        BY <1>2, <1>5
      <4>2. k = h
        BY <1>13, <3>1, <4>1
      <4> QED BY <1>14, <1>2, <4>2
    <3> QED BY <3>1
  <2>2. G[Moved(spot, m, g[k])].id \in D.ins \ D.del
    BY <1>9, <1>10, <1>12, <2>1
  <2>3. Moved(spot, m, g[k]) \in 1..l+m
    <3>1. g[k] \in 1..l
      BY <1>12
    <3> QED BY <1>2, <1>3, <3>1, MovedPositions
  <2> QED BY <1>9, <2>2, <2>3 DEF At
<1>15. ASSUME NEW k \in 1..m PROVE spot + k \in At(G, D)
  <2>1. G[spot + k].id = l + k
    BY <1>9, <1>11
  <2>2. l + k \notin 1..l
    BY <1>3
  <2>3. l + k \notin {L[g[h]].id : h \in a+1..a+r}
    <3>1. ASSUME NEW h \in a+1..a+r PROVE L[g[h]].id \in 1..l
      <4>1. h \in 1..n
        BY <1>2, <1>5
      <4> QED BY <1>11, <1>12, <4>1
    <3> QED BY <2>2, <3>1
  <2>4. l + k \in D.ins \ D.del
    BY <1>10, <1>11, <2>2, <2>3
  <2>5. spot + k \in 1..l+m
    BY <1>2, <1>3
  <2> QED BY <1>9, <2>1, <2>4, <2>5 DEF At
<1>16. ASSUME NEW i \in 1..l, Moved(spot, m, i) \in At(G, D)
       PROVE  \E k \in 1..n : i = g[k] /\ (k <= a \/ k > a + r)
  <2>1. L[i].id \in D.ins \ D.del
    BY <1>9, <1>16 DEF At
  <2>2. L[i].id \notin {l + h : h \in 1..m}
    <3>1. L[i].id \in 1..l
      BY <1>11
    <3> QED BY <1>3, <3>1
  <2>3. i \in At(L, doc)
    BY <1>10, <2>1, <2>2 DEF At
  <2>4. PICK k \in 1..n : i = g[k]
    BY <1>8, <2>3
  <2>5. k \notin a+1..a+r
    BY <1>10, <2>1, <2>4
  <2>6. k <= a \/ k > a + r
    BY <1>2, <2>5
  <2> QED BY <2>4, <2>6
<1> DEFINE back(k) == k + r - m
           f == [k \in 1..N |-> IF k <= a THEN Moved(spot, m, g[k])
                                ELSE IF k <= a + m THEN spot + (k - a)
                                ELSE Moved(spot, m, g[back(k)])]
<1>17. ASSUME NEW k \in 1..N
       PROVE  /\ k <= a => k \in 1..n /\ k \in 1..a
              /\ ~(k <= a) /\ k <= a + m => k - a \in 1..m /\ a + (k - a) = k
              /\ ~(k <= a + m) => back(k) \in 1..n /\ back(k) > a + r /\ back(k) \in a+r+1..n
                                  /\ back(k) - r + m = k
  BY <1>2, <1>5
<1> HIDE DEF back
<1>18. f \in [1..N -> At(G, D)]
  <2>1. ASSUME NEW k \in 1..N PROVE f[k] \in At(G, D)
    <3>1. CASE k <= a
      BY <1>14, <1>17, <3>1
    <3>2. CASE ~(k <= a) /\ k <= a + m
      BY <1>15, <1>17, <3>2
    <3>3. CASE ~(k <= a) /\ ~(k <= a + m)
      BY <1>14, <1>17, <3>3
    <3> QED BY <3>1, <3>2, <3>3
  <2> QED BY <2>1
<1>19. ASSUME NEW j \in At(G, D) PROVE \E k \in 1..N : f[k] = j
  <2>1. (\E i \in 1..l : j = Moved(spot, m, i)) \/ (\E k \in 1..m : j = spot + k)
    <3>1. j \in 1..l+m /\ spot \in 0..l /\ l \in Nat
      BY <1>2, <1>3, <1>9 DEF At
    <3> HIDE DEF l
    <3> QED BY <3>1, MovedCover
  <2>2. CASE \E i \in 1..l : j = Moved(spot, m, i)
    <3>1. PICK i \in 1..l : j = Moved(spot, m, i)
      BY <2>2
    <3>2. PICK k \in 1..n : i = g[k] /\ (k <= a \/ k > a + r)
      BY <1>16, <3>1
    <3>3. CASE k <= a
      <4>1. k \in 1..N
        BY <1>2, <1>5, <3>3
      <4> QED BY <3>1, <3>2, <3>3, <4>1
    <3>4. CASE k > a + r
      <4>1. PICK h \in 1..N : h = k + m - r /\ ~(h <= a) /\ ~(h <= a + m)
        BY <1>2, <1>5, <3>4
      <4>2. back(h) = k
        BY <1>2, <4>1 DEF back
      <4> QED BY <3>1, <3>2, <4>1, <4>2
    <3> QED BY <3>2, <3>3, <3>4
  <2>3. CASE \E k \in 1..m : j = spot + k
    <3>1. PICK k \in 1..m : j = spot + k
      BY <2>3
    <3>2. PICK h \in 1..N : h = a + k /\ ~(h <= a) /\ h <= a + m /\ h - a = k
      BY <1>2, <1>5
    <3> QED BY <3>1, <3>2
  <2> QED BY <2>1, <2>2, <2>3
<1>20. ASSUME NEW k \in 1..N, NEW h \in 1..N, k < h PROVE f[k] < f[h]
  <2>1. /\ \A i, j \in 1..l : i < j => Moved(spot, m, i) < Moved(spot, m, j)
        /\ \A i \in 1..l, x \in 1..m : i <= spot => Moved(spot, m, i) < spot + x
        /\ \A i \in 1..l, x \in 1..m : i > spot => Moved(spot, m, i) > spot + x
        /\ \A i \in 1..l : Moved(spot, m, i) \in 1..l+m
    BY <1>2, <1>3, MovedPositions
  <2>2. CASE h <= a
    <3>1. k <= a
      BY <1>20, <2>2
    <3>2. k \in 1..n /\ h \in 1..n
      BY <1>17, <2>2, <3>1
    <3>3. g[k] < g[h] /\ g[k] \in 1..l /\ g[h] \in 1..l
      BY <1>8, <1>12, <1>20, <3>2
    <3> QED BY <2>1, <2>2, <3>1, <3>3
  <2>3. CASE ~(h <= a) /\ h <= a + m
    <3>1. h - a \in 1..m
      BY <1>17, <2>3
    <3>2. f[h] = spot + (h - a)
      BY <2>3
    <3>3. CASE k <= a
      <4>1. g[k] \in 1..l /\ g[k] <= spot
        BY <1>7, <1>12, <1>17, <3>3
      <4>2. Moved(spot, m, g[k]) < spot + (h - a)
        BY <2>1, <3>1, <4>1
      <4> QED BY <3>2, <3>3, <4>2
    <3>4. CASE ~(k <= a)
      <4>1. k <= a + m
        BY <1>20, <2>3
      <4>2. f[k] = spot + (k - a)
        BY <3>4, <4>1
      <4>3. spot + (k - a) < spot + (h - a)
        BY <1>2, <1>3, <1>20
      <4> QED BY <3>2, <4>2, <4>3
    <3> QED BY <3>3, <3>4
  <2>4. CASE ~(h <= a) /\ ~(h <= a + m)
    <3>1. back(h) \in 1..n /\ back(h) > a + r
      BY <1>17, <2>4
    <3>2. f[h] = Moved(spot, m, g[back(h)]) /\ g[back(h)] \in 1..l /\ g[back(h)] > spot
      BY <1>7, <1>12, <2>4, <3>1
    <3>3. CASE k <= a
      <4>1. k \in 1..n
        BY <1>17, <3>3
      <4>2. k < back(h)
        BY <1>2, <3>1, <3>3
      <4>3. g[k] < g[back(h)] /\ g[k] \in 1..l
        BY <1>8, <1>12, <3>1, <4>1, <4>2
      <4>4. Moved(spot, m, g[k]) < Moved(spot, m, g[back(h)])
        BY <2>1, <3>2, <4>3
      <4> QED BY <3>2, <3>3, <4>4
    <3>4. CASE ~(k <= a) /\ k <= a + m
      <4>1. k - a \in 1..m /\ f[k] = spot + (k - a)
        BY <1>17, <3>4
      <4>2. Moved(spot, m, g[back(h)]) > spot + (k - a)
        BY <2>1, <3>2, <4>1
      <4>3. Moved(spot, m, g[back(h)]) \in 1..l+m
        BY <2>1, <3>2, Zenon
      <4>4. Moved(spot, m, g[back(h)]) \in Nat
        BY <1>2, <1>3, <4>3
      <4>5. k - a \in Nat /\ spot \in Nat
        BY <1>2, <1>3, <1>17, <3>4
      <4> QED BY <3>2, <4>1, <4>2, <4>4, <4>5
    <3>5. CASE ~(k <= a) /\ ~(k <= a + m)
      <4>1. back(k) \in 1..n /\ f[k] = Moved(spot, m, g[back(k)])
        BY <1>17, <3>5
      <4>2. back(k) < back(h)
        BY <1>20 DEF back
      <4>3. g[back(k)] < g[back(h)] /\ g[back(k)] \in 1..l
        BY <1>8, <1>12, <3>1, <4>1, <4>2
      <4>4. Moved(spot, m, g[back(k)]) < Moved(spot, m, g[back(h)])
        BY <2>1, <3>2, <4>3
      <4> QED BY <3>2, <4>1, <4>4
    <3> QED BY <3>3, <3>4, <3>5
  <2> QED BY <2>2, <2>3, <2>4
<1>21. Lists(f, N, At(G, D))
  BY <1>18, <1>19, <1>20 DEF Lists
<1>22. ASSUME NEW k \in 1..N PROVE G[f[k]].char = new[k]
  <2>1. CASE k <= a
    BY <1>6, <1>9, <1>12, <1>17, <2>1
  <2>2. CASE ~(k <= a) /\ k <= a + m
    <3>1. k - a \in 1..m /\ a + (k - a) = k /\ f[k] = spot + (k - a)
      BY <1>17, <2>2
    <3> QED BY <1>6, <1>9, <3>1
  <2>3. CASE ~(k <= a) /\ ~(k <= a + m)
    <3>1. /\ back(k) \in 1..n /\ back(k) \in a+r+1..n /\ back(k) - r + m = k
          /\ f[k] = Moved(spot, m, g[back(k)])
      BY <1>17, <2>3
    <3> QED BY <1>6, <1>9, <1>12, <3>1
  <2> QED BY <2>1, <2>2, <2>3
<1>23. ContentIn(G, D) = new
  <2> HIDE DEF f
  <2>1. PICK h : h = f /\ Lists(h, N, At(G, D))
    BY <1>21
  <2>2. G \in Seq(Item)
    BY <1>9
  <2>3. ContentIn(G, D) = [k \in 1..N |-> G[h[k]].char]
    BY <2>1, <2>2, ListedText
  <2>4. ContentIn(G, D) = [k \in 1..N |-> new[k]]
    BY <1>22, <2>1, <2>3
  <2>5. new = [k \in 1..N |-> new[k]]
    BY <1>1, LenProperties DEF Text
  <2> QED BY <2>4, <2>5
<1> QED BY <1>23 DEF G, D

---------------------------------------------------------------------------
(* The invariant of the graph, the documents and the calls.                *)

\* Commits are numbered in the order they were published, parents before
\* children.
GraphOK(P) ==
  /\ IsFiniteSet(P) /\ P \subseteq Commit
  /\ \A c \in P : c.id \in 1..Cardinality(P) /\ \A i \in c.parents : i < c.id
  /\ \A c, d \in P : c.id = d.id => c = d

ChangesWithin(L, P) == \A c \in P : c.change # Deleted => Within(L, c.change)

\* A set of commits with all their ancestors.
Closed(P, C) ==
  C \subseteq P /\ \A a \in C : \A b \in P : b.id \in a.parents => b \in C

\* The document a client works on.
Stored(m) == IF m.baseline.state # NoBaseline /\ m.text # NoText THEN m.text ELSE NewDoc

\* A client knows commits with their ancestors, and its document is that of
\* some of them.
StateOK(P, m) ==
  /\ m \in RuntimeState
  /\ Closed(P, m.commits)
  /\ m.text # NoText =>
       /\ m.baseline.state # NoBaseline
       /\ \E C \in SUBSET m.commits : Closed(P, C) /\ m.text = TextDoc(C)

RemoteIn(L, C) ==
  LET changes == {c.change : c \in HeadCommits(C)}
  IN  IF changes = {} THEN Missing
      ELSE CASE changes = {Deleted}     -> Deleted
             [] Deleted \notin changes  -> Present(ContentIn(L, TextDoc(C)))
             [] OTHER                   -> Forked

\* c is the last commit of its author p.
IsOwn(P, p, c) == c \in P /\ c.author = p /\ \A d \in P : d.author = p => d.id <= c.id

\* What the call of client p, with state m, is about.
CallOK(L, P, p, m, label, listed, op, b) ==
  /\ label \in {"read", "apply"} =>
       op = Planned(listed.state, m.baseline.state, RemoteIn(L, m.commits))
  /\ label \in {"publish", "integrate"} =>
       /\ b \in Batch
       /\ IsPresent(b.state) => \/ b.doc = TextDoc(m.commits)
                                \/ ~b.user /\ b.doc = Stored(m)
  /\ label = "integrate" =>
       \E c \in P : /\ IsOwn(P, p, c)
                    /\ c.parents = Heads(m.commits) /\ c \notin m.commits
                    /\ IsPresent(b.state) <=> c.change # Deleted
                    /\ IsPresent(b.state) =>
                         ContentIn(L, Merge({b.doc, c.change})) = b.state.content

ClientOK(p) ==
  /\ StateOK(published, mem[p]) /\ StateOK(published, disk[p])
  /\ CallOK(line, published, p, mem[p], pc[p], listing[p], plan[p], batch[p])

BaseInv ==
  /\ TypeOK
  /\ IsLine(line) /\ GraphOK(published) /\ ChangesWithin(line, published)
  /\ \A p \in Clients : ClientOK(p)

---------------------------------------------------------------------------
(* The commit graph.                                                       *)

LEMMA RemoteOfLine ==
  ASSUME NEW C
  PROVE  RemoteState(C) = RemoteIn(line, C)
<1>1. Content(TextDoc(C)) = ContentIn(line, TextDoc(C))
  BY ContentOfLine
<1> QED BY <1>1 DEF RemoteState, RemoteIn

\* The heads of a set of commits are some of its commits.
LEMMA HeadsAmong ==
  ASSUME NEW C
  PROVE  HeadCommits(C) \subseteq C /\ \A i \in Heads(C) : \E c \in C : c.id = i
BY DEF HeadCommits, Heads

\* The number of the next commit is new.
LEMMA NextNumber ==
  ASSUME NEW P, GraphOK(P)
  PROVE  /\ Cardinality(P) \in Nat
         /\ \A c \in P : c.id # Cardinality(P) + 1
         /\ \A c \in P : Cardinality(P) + 1 \notin c.parents
<1>1. Cardinality(P) \in Nat
  BY FS_CardinalityType DEF GraphOK
<1>2. \A c \in P : c.id \in 1..Cardinality(P) /\ \A i \in c.parents : i < c.id
  BY DEF GraphOK
<1> QED BY <1>1, <1>2

\* A commit on commits of the graph extends the graph.
Extends(P, c) ==
  /\ c \in Commit /\ c.id = Cardinality(P) + 1
  /\ \A i \in c.parents : \E d \in P : d.id = i

LEMMA GraphGrows ==
  ASSUME NEW P, GraphOK(P), NEW c, Extends(P, c)
  PROVE  GraphOK(P \cup {c})
<1> DEFINE Q == P \cup {c}
           n == Cardinality(P)
<1>1. n \in Nat /\ c.id = n + 1 /\ \A d \in P : d.id # n + 1
  BY NextNumber DEF Extends
<1>2. IsFiniteSet(P) /\ c \notin P
  BY <1>1 DEF GraphOK
<1>3. IsFiniteSet(Q) /\ Cardinality(Q) = n + 1
  BY <1>2, FS_AddElement
<1>4. \A d \in P : d.id \in 1..n /\ \A i \in d.parents : i < d.id
  BY DEF GraphOK
<1>5. \A i \in c.parents : i < c.id
  <2>1. ASSUME NEW i \in c.parents PROVE i < n + 1
    <3>1. PICK d \in P : d.id = i
      BY DEF Extends
    <3>2. i \in 1..n
      BY <1>4, <3>1
    <3> QED BY <1>1, <3>2
  <2> QED BY <1>1, <2>1
<1>6. \A d \in P : d.id \in 1..n+1
  BY <1>1, <1>4
<1>7. ASSUME NEW d \in Q PROVE d.id \in 1..n+1 /\ \A i \in d.parents : i < d.id
  BY <1>1, <1>4, <1>5, <1>6
<1>8. ASSUME NEW d \in Q, NEW e \in Q, d.id = e.id PROVE d = e
  BY <1>1, <1>8 DEF GraphOK
<1>9. Q \subseteq Commit
  BY DEF GraphOK, Extends
<1> QED BY <1>3, <1>7, <1>8, <1>9 DEF GraphOK

\* Commits with their ancestors stay so when the graph grows.
LEMMA ClosedGrows ==
  ASSUME NEW P, GraphOK(P), NEW c, Extends(P, c), NEW C, Closed(P, C)
  PROVE  Closed(P \cup {c}, C)
<1>1. \A a \in C : c.id \notin a.parents
  BY NextNumber DEF Extends, Closed
<1> QED BY <1>1 DEF Closed

\* The client's commits with a commit on all their heads.
LEMMA ClosedWithOwn ==
  ASSUME NEW P, GraphOK(P), NEW C, Closed(P, C), NEW c \in P, c.parents = Heads(C)
  PROVE  Closed(P, C \cup {c})
<1>1. ASSUME NEW b \in P, b.id \in Heads(C) PROVE b \in C
  <2>1. PICK h \in C : h.id = b.id
    BY <1>1, HeadsAmong
  <2> QED BY <2>1 DEF Closed, GraphOK
<1> QED BY <1>1 DEF Closed

LEMMA StateGrows ==
  ASSUME NEW P, GraphOK(P), NEW c, Extends(P, c), NEW m, StateOK(P, m)
  PROVE  StateOK(P \cup {c}, m)
<1>1. Closed(P \cup {c}, m.commits)
  BY ClosedGrows DEF StateOK
<1>2. ASSUME NEW C, Closed(P, C) PROVE Closed(P \cup {c}, C)
  BY <1>2, ClosedGrows
<1> QED BY <1>1, <1>2 DEF StateOK

\* The document of commits of the graph, and of commits with one more.
LEMMA DocFacts ==
  ASSUME NEW L, NEW P, GraphOK(P), ChangesWithin(L, P), NEW C \in SUBSET P
  PROVE  /\ TextDoc(C) \in Doc /\ Within(L, TextDoc(C))
         /\ \A i : i \in TextDoc(C).ins <=> \E c \in C : c.change # Deleted /\ i \in c.change.ins
         /\ \A i : i \in TextDoc(C).del <=> \E c \in C : c.change # Deleted /\ i \in c.change.del
<1>1. /\ TextDoc(C).ins = UNION {d.ins : d \in Updates(C)}
      /\ TextDoc(C).del = UNION {d.del : d \in Updates(C)}
      /\ TextDoc(C) = [ins |-> TextDoc(C).ins, del |-> TextDoc(C).del]
  BY DEF TextDoc, Merge
<1>2. \A d : d \in Updates(C) <=> \E c \in C : c.change # Deleted /\ c.change = d
  BY DEF Updates
<1>3. ASSUME NEW i PROVE i \in TextDoc(C).ins <=> \E c \in C : c.change # Deleted /\ i \in c.change.ins
  BY <1>1, <1>2
<1>4. ASSUME NEW i PROVE i \in TextDoc(C).del <=> \E c \in C : c.change # Deleted /\ i \in c.change.del
  BY <1>1, <1>2
<1>5. ASSUME NEW c \in C, c.change # Deleted
      PROVE  /\ c.change.ins \subseteq 1..Len(L) /\ c.change.del \subseteq 1..Len(L)
             /\ c.change.ins \subseteq Nat /\ c.change.del \subseteq Nat
  <2>1. Within(L, c.change)
    BY <1>5 DEF ChangesWithin
  <2> QED BY <2>1 DEF Within, Doc
<1>6. /\ TextDoc(C).ins \subseteq 1..Len(L) /\ TextDoc(C).del \subseteq 1..Len(L)
      /\ TextDoc(C).ins \subseteq Nat /\ TextDoc(C).del \subseteq Nat
  BY <1>3, <1>4, <1>5
<1>7. TextDoc(C) \in Doc
  BY <1>1, <1>6 DEF Doc
<1> QED BY <1>3, <1>4, <1>6, <1>7 DEF Within

\* The commit just published is determined by its number.
LEMMA OwnIs ==
  ASSUME GraphOK(published), NEW p, NEW c, IsOwn(published, p, c)
  PROVE  Own(p) = c
<1> DEFINE IsIt(x) == x.author = p /\ \A d \in published : d.author = p => d.id <= x.id
<1>1. c \in published /\ IsIt(c)
  BY DEF IsOwn
<1>2. ASSUME NEW x \in published, IsIt(x) PROVE x = c
  <2>1. x.id <= c.id /\ c.id <= x.id
    BY <1>1, <1>2
  <2>2. x.id \in Nat /\ c.id \in Nat
    BY <1>1 DEF GraphOK, Commit
  <2>3. x.id = c.id
    BY <2>1, <2>2
  <2> QED BY <1>1, <2>3 DEF GraphOK
<1>3. Own(p) = CHOOSE x \in published : IsIt(x)
  BY DEF Own
<1> QED BY <1>1, <1>2, <1>3

---------------------------------------------------------------------------
(* States and plans.                                                       *)

LEMMA PresentTexts ==
  /\ PresentText = PresentStates(Text)
  /\ \A t \in Text : Present(t) \in PresentText
  /\ \A s \in PresentText : IsPresent(s) /\ s.content \in Text /\ s = Present(s.content)
<1>1. ASSUME NEW t \in Text PROVE Present(t) \in PresentText
  BY DEF PresentText, Present
<1>2. ASSUME NEW s \in PresentText PROVE IsPresent(s) /\ s.content \in Text /\ s = Present(s.content)
  BY DEF PresentText, Present, IsPresent
<1>3. PresentText = PresentStates(Text)
  BY <1>1, <1>2 DEF PresentStates
<1> QED BY <1>1, <1>2, <1>3

\* What the graph shows.
LEMMA RemoteFacts ==
  ASSUME NEW L, IsLine(L), NEW C
  PROVE  /\ RemoteIn(L, C) \in PresentText \cup {Missing, Deleted, Forked}
         /\ IsPresent(RemoteIn(L, C)) => RemoteIn(L, C) = Present(ContentIn(L, TextDoc(C)))
         /\ IsPresent(RemoteIn(L, C)) <=> /\ HeadCommits(C) # {}
                                          /\ \A c \in HeadCommits(C) : c.change # Deleted
         /\ RemoteIn(L, C) = Missing <=> HeadCommits(C) = {}
         /\ RemoteIn(L, C) = Deleted <=> /\ HeadCommits(C) # {}
                                         /\ \A c \in HeadCommits(C) : c.change = Deleted
<1> DEFINE changes == {c.change : c \in HeadCommits(C)}
           s == Present(ContentIn(L, TextDoc(C)))
<1>1. L \in Seq(Item)
  BY DEF IsLine
<1>2. ContentIn(L, TextDoc(C)) \in Text
  BY <1>1, ContentChars
<1>3. s \in PresentText /\ IsPresent(s)
  BY <1>2, PresentTexts
<1>4. /\ ~IsPresent(Missing) /\ ~IsPresent(Deleted) /\ ~IsPresent(Forked)
      /\ Missing # Deleted /\ Missing # Forked /\ Deleted # Forked
  BY Presence, Distinct
<1>5. s # Missing /\ s # Deleted
  BY <1>3, <1>4
<1>6. RemoteIn(L, C) = IF changes = {} THEN Missing
                       ELSE CASE changes = {Deleted}     -> Deleted
                              [] Deleted \notin changes  -> s
                              [] OTHER                   -> Forked
  BY DEF RemoteIn
<1> HIDE DEF s
<1>7. CASE changes = {}
  BY <1>4, <1>6, <1>7
<1>8. CASE changes = {Deleted}
  BY <1>4, <1>6, <1>8
<1>9. CASE changes # {} /\ Deleted \notin changes
  <2>1. RemoteIn(L, C) = s
    BY <1>6, <1>9
  <2>2. HeadCommits(C) # {} /\ \A c \in HeadCommits(C) : c.change # Deleted
    BY <1>9
  <2> QED BY <1>3, <1>5, <2>1, <2>2 DEF s
<1>10. CASE changes # {Deleted} /\ Deleted \in changes
  <2>1. RemoteIn(L, C) = Forked
    BY <1>6, <1>10
  <2>2. \E c \in HeadCommits(C) : c.change = Deleted
    BY <1>10
  <2>3. \E c \in HeadCommits(C) : c.change # Deleted
    BY <1>10
  <2> QED BY <1>4, <2>1, <2>2, <2>3
<1> QED BY <1>7, <1>8, <1>9, <1>10

\* What is planned, and when.
LEMMA PlannedFacts ==
  ASSUME NEW l \in PresentText \cup {Missing},
         NEW b \in PresentText \cup {Deleted, NoBaseline},
         NEW r \in PresentText \cup {Missing, Deleted, Forked}
  PROVE  LET op == Planned(l, b, r)
         IN  /\ op \in PlanOperation
             /\ op = Op("Upload") => IsPresent(l)
             /\ op = Op("PublishDelete") => ~IsPresent(l) /\ IsPresent(r) /\ b = r
             /\ op = Op("Download") => IsPresent(r) /\ (IsPresent(l) => b = l)
             /\ op = Op("ApplyDelete") => r = Deleted /\ IsPresent(l) /\ b = l
             /\ op = Op("EstablishBaseline") => IsPresent(r) /\ l = r
             /\ op = Op("EstablishDeletedBaseline") => r = Deleted
<1> DEFINE o == PlanResource(l, b, r)
<1>1. /\ l \in ReplicaState(Text) /\ b \in BaselineState(Text) \cup {NoBaseline}
      /\ r \in RemoteResourceState(Text)
  BY PresentTexts DEF ReplicaState, BaselineState, RemoteResourceState
<1>2. /\ o \in PlanOperation
      /\ o = Op("PublishDelete") => IsPresent(r) /\ b = r
      /\ o = Op("Download") => IsPresent(r) /\ (IsPresent(l) => b = l)
      /\ o = Op("ApplyDelete") => r = Deleted /\ IsPresent(l) /\ b = l
      /\ o = Op("EstablishBaseline") => IsPresent(r) /\ l = r
      /\ o = Op("EstablishDeletedBaseline") => r = Deleted
  BY <1>1, PlanFacts
<1>3. (o = Op("Upload") => IsPresent(l)) /\ (o = Op("PublishDelete") => ~IsPresent(l))
  <2>1. /\ ~IsPresent(Missing) /\ ~IsPresent(Deleted) /\ ~IsPresent(Forked)
        /\ \A n \in {"EstablishBaseline", "EstablishDeletedBaseline", "Noop", "Download", "ApplyDelete"} :
             Op(n) # Op("Upload") /\ Op(n) # Op("PublishDelete")
        /\ Op("Upload") # Op("PublishDelete")
        /\ \A k : Conflict(k) # Op("Upload") /\ Conflict(k) # Op("PublishDelete")
    BY Presence, OpsDiffer
  <2>2. CASE r = Forked
    <3>1. o = Conflict("RemoteFork")
      BY <2>1, <2>2, Distinct DEF PlanResource
    <3> QED BY <2>1, <3>1
  <2>3. CASE r = Missing
    <3>1. o = Op(IF IsPresent(l) THEN "Upload" ELSE "Noop")
      BY <2>1, <2>3, Distinct DEF PlanResource
    <3> QED BY <2>1, <3>1
  <2>4. CASE r = Deleted
    <3>1. o = PlanAgainstDeleted(l, b)
      BY <2>1, <2>4, Distinct DEF PlanResource
    <3> QED BY <2>1, <3>1 DEF PlanAgainstDeleted
  <2>5. CASE IsPresent(r)
    BY <2>1, <2>5 DEF PlanResource, PlanAgainstPresent
  <2>6. IsPresent(r) \/ r \in {Missing, Deleted, Forked}
    BY PresentTexts
  <2> QED BY <2>2, <2>3, <2>4, <2>5, <2>6
<1> HIDE DEF o
<1>4. CASE o = Conflict("ContentVsContent")
  <2>1. Planned(l, b, r) = Op("Upload")
    BY <1>4 DEF Planned, o
  <2>2. IsPresent(l)
    <3>1. PlanResource(l, b, r) = Conflict("ContentVsContent")
      BY <1>4 DEF o
    <3>2. /\ \A n : n # "Conflict" => Op(n) # Conflict("ContentVsContent")
          /\ \A k : Conflict(k) = Conflict("ContentVsContent") => k = "ContentVsContent"
      BY OpsDiffer DEF Conflict
    <3>3. ~IsPresent(l) => o # Conflict("ContentVsContent")
      <4>1. r = Deleted => o = PlanAgainstDeleted(l, b)
        BY Distinct, Presence DEF PlanResource, o
      <4>2. IsPresent(r) => o = PlanAgainstPresent(l, b, r)
        BY Presence DEF PlanResource, o
      <4>3. r = Forked => o = Conflict("RemoteFork")
        BY Distinct, Presence DEF PlanResource, o
      <4>4. r = Missing /\ ~IsPresent(l) => o = Op("Noop")
        BY Distinct, Presence DEF PlanResource, o
      <4>5. ~IsPresent(l) => PlanAgainstDeleted(l, b) # Conflict("ContentVsContent")
        BY <3>2 DEF PlanAgainstDeleted
      <4>6. ~IsPresent(l) => PlanAgainstPresent(l, b, r) # Conflict("ContentVsContent")
        BY <3>2 DEF PlanAgainstPresent
      <4>7. IsPresent(r) \/ r \in {Missing, Deleted, Forked}
        BY PresentTexts
      <4> QED BY <3>2, <4>1, <4>2, <4>3, <4>4, <4>5, <4>6, <4>7
    <3> QED BY <1>4, <3>3
  <2>3. Op("Upload") \in PlanOperation
    BY DEF PlanOperation
  <2> QED BY <2>1, <2>2, <2>3, OpsDiffer
<1>5. CASE o # Conflict("ContentVsContent")
  <2>1. Planned(l, b, r) = o
    BY <1>5 DEF Planned, o
  <2> QED BY <1>2, <1>3, <2>1
<1> QED BY <1>4, <1>5

---------------------------------------------------------------------------
(* Frames: what a step of one client leaves alone.                         *)

\* The line has grown by an insertion, or not at all.
Longer(L, K) ==
  \/ K = L
  \/ \E spot \in 0..Len(L) : \E items : NewItems(L, items) /\ K = Grown(L, spot, items)

LEMMA LongerFacts ==
  ASSUME NEW L, IsLine(L), NEW K, Longer(L, K)
  PROVE  /\ IsLine(K) /\ Len(L) \in Nat /\ Len(K) \in Nat /\ Len(L) <= Len(K)
         /\ \A doc : Within(L, doc) => Within(K, doc) /\ ContentIn(K, doc) = ContentIn(L, doc)
<1>1. L \in Seq(Item) /\ Len(L) \in Nat
  BY LenProperties DEF IsLine
<1>2. CASE K = L
  BY <1>1, <1>2
<1>3. CASE \E spot \in 0..Len(L) : \E items : NewItems(L, items) /\ K = Grown(L, spot, items)
  <2>1. PICK spot \in 0..Len(L) : \E items : NewItems(L, items) /\ K = Grown(L, spot, items)
    BY <1>3
  <2>2. PICK items : NewItems(L, items) /\ K = Grown(L, spot, items)
    BY <2>1
  <2>3. items \in Seq(Item) /\ Len(items) \in Nat
    BY <2>2, LenProperties DEF NewItems
  <2>4. Len(K) = Len(L) + Len(items)
    BY <1>1, <2>2, <2>3, GrownParts
  <2>5. Len(K) \in Nat /\ Len(L) <= Len(K)
    BY <1>1, <2>3, <2>4
  <2>6. IsLine(K)
    BY <2>2, GrownLine
  <2>7. ASSUME NEW doc, Within(L, doc) PROVE Within(K, doc) /\ ContentIn(K, doc) = ContentIn(L, doc)
    <3>1. ContentIn(K, doc) = ContentIn(L, doc)
      BY <2>2, <2>7, ContentStable
    <3>2. 1..Len(L) \subseteq 1..Len(K)
      BY <1>1, <2>5
    <3> QED BY <2>7, <3>1, <3>2 DEF Within
  <2> QED BY <1>1, <2>5, <2>6, <2>7
<1> QED BY <1>2, <1>3 DEF Longer

\* The document a client works on is one of characters in the line.
LEMMA StoredWithin ==
  ASSUME NEW L, NEW P, GraphOK(P), ChangesWithin(L, P), NEW m, StateOK(P, m)
  PROVE  Within(L, Stored(m)) /\ Within(L, TextDoc(m.commits))
<1>1. ASSUME NEW C \in SUBSET P PROVE Within(L, TextDoc(C))
  BY DocFacts
<1>2. Within(L, TextDoc(m.commits))
  BY <1>1 DEF StateOK, Closed
<1>3. CASE m.text # NoText
  <2>1. PICK C \in SUBSET m.commits : Closed(P, C) /\ m.text = TextDoc(C)
    BY <1>3 DEF StateOK
  <2>2. Within(L, m.text)
    BY <1>1, <2>1 DEF Closed
  <2>3. Stored(m) = m.text
    BY <1>3 DEF Stored, StateOK
  <2> QED BY <1>2, <2>2, <2>3
<1>4. CASE m.text = NoText
  <2>1. Stored(m) = NewDoc
    BY <1>4 DEF Stored
  <2>2. Within(L, NewDoc)
    BY DEF Within, NewDoc, Doc
  <2> QED BY <1>2, <2>1, <2>2
<1> QED BY <1>3, <1>4

\* What the graph shows does not change when characters are inserted.
LEMMA RemoteStable ==
  ASSUME NEW L, IsLine(L), NEW K, Longer(L, K), NEW C, Within(L, TextDoc(C))
  PROVE  RemoteIn(K, C) = RemoteIn(L, C)
<1>1. ContentIn(K, TextDoc(C)) = ContentIn(L, TextDoc(C))
  BY LongerFacts
<1> QED BY <1>1 DEF RemoteIn

\* A call goes on as it was when another client publishes.
LEMMA CallGrows ==
  ASSUME NEW L, IsLine(L), NEW K, Longer(L, K),
         NEW P, GraphOK(P), ChangesWithin(L, P), NEW c, Extends(P, c),
         NEW p, c.author # p, NEW m, StateOK(P, m),
         NEW label, NEW listed, NEW op, NEW b, CallOK(L, P, p, m, label, listed, op, b)
  PROVE  CallOK(K, P \cup {c}, p, m, label, listed, op, b)
<1>1. Within(L, Stored(m)) /\ Within(L, TextDoc(m.commits))
  BY StoredWithin
<1>2. RemoteIn(K, m.commits) = RemoteIn(L, m.commits)
  BY <1>1, RemoteStable
<1>3. ASSUME label = "integrate"
      PROVE  \E d \in P \cup {c} :
                    /\ IsOwn(P \cup {c}, p, d)
                    /\ d.parents = Heads(m.commits) /\ d \notin m.commits
                    /\ IsPresent(b.state) <=> d.change # Deleted
                    /\ IsPresent(b.state) =>
                         ContentIn(K, Merge({b.doc, d.change})) = b.state.content
  <2>1. PICK d \in P : /\ IsOwn(P, p, d)
                       /\ d.parents = Heads(m.commits) /\ d \notin m.commits
                       /\ IsPresent(b.state) <=> d.change # Deleted
                       /\ IsPresent(b.state) =>
                            ContentIn(L, Merge({b.doc, d.change})) = b.state.content
    BY <1>3 DEF CallOK
  <2>2. IsOwn(P \cup {c}, p, d)
    BY <2>1 DEF IsOwn
  <2>3. ASSUME IsPresent(b.state)
        PROVE  ContentIn(K, Merge({b.doc, d.change})) = b.state.content
    <3>1. Within(L, b.doc) /\ Within(L, d.change)
      BY <1>1, <1>3, <2>1, <2>3 DEF CallOK, ChangesWithin
    <3>2. Within(L, Merge({b.doc, d.change}))
      BY <3>1, MergeWithin
    <3>3. ContentIn(K, Merge({b.doc, d.change})) = ContentIn(L, Merge({b.doc, d.change}))
      BY <3>2, LongerFacts
    <3> QED BY <2>1, <2>3, <3>3
  <2> QED BY <2>1, <2>2, <2>3
<1> QED BY <1>2, <1>3 DEF CallOK

Others(p) ==
  \A q \in Clients \ {p} :
    /\ mem'[q] = mem[q] /\ disk'[q] = disk[q] /\ pc'[q] = pc[q]
    /\ listing'[q] = listing[q] /\ plan'[q] = plan[q] /\ batch'[q] = batch[q]

\* A step of one client that publishes nothing.
LEMMA LocalFrame ==
  ASSUME BaseInv, TypeOK', UNCHANGED <<line, published>>, NEW p \in Clients, Others(p), ClientOK(p)'
  PROVE  BaseInv'
<1>1. ASSUME NEW q \in Clients, q # p PROVE ClientOK(q)'
  <2>1. ClientOK(q)
    BY DEF BaseInv
  <2> QED BY <1>1, <2>1 DEF ClientOK, Others
<1>2. IsLine(line') /\ GraphOK(published') /\ ChangesWithin(line', published')
  BY DEF BaseInv
<1> QED BY <1>1, <1>2 DEF BaseInv

\* A step of one client that publishes.
LEMMA PublishFrame ==
  ASSUME BaseInv, TypeOK', NEW p \in Clients, Others(p), ClientOK(p)',
         NEW c, Extends(published, c), c.author = p, published' = published \cup {c},
         Longer(line, line'), c.change # Deleted => Within(line', c.change)
  PROVE  BaseInv'
<1>1. IsLine(line) /\ GraphOK(published) /\ ChangesWithin(line, published)
  BY DEF BaseInv
<1>2. IsLine(line') /\ \A doc : Within(line, doc) => Within(line', doc)
  BY <1>1, LongerFacts
<1>3. GraphOK(published')
  BY <1>1, GraphGrows
<1>4. ChangesWithin(line', published')
  BY <1>1, <1>2 DEF ChangesWithin
<1>5. ASSUME NEW q \in Clients, q # p PROVE ClientOK(q)'
  <2>1. /\ StateOK(published, mem[q]) /\ StateOK(published, disk[q])
        /\ CallOK(line, published, q, mem[q], pc[q], listing[q], plan[q], batch[q])
    BY DEF BaseInv, ClientOK
  <2>2. StateOK(published', mem[q]) /\ StateOK(published', disk[q])
    BY <1>1, <2>1, StateGrows
  <2>3. CallOK(line', published', q, mem[q], pc[q], listing[q], plan[q], batch[q])
    BY <1>1, <1>5, <2>1, CallGrows
  <2> QED BY <1>5, <2>2, <2>3 DEF ClientOK, Others
<1> QED BY <1>2, <1>3, <1>4, <1>5 DEF BaseInv

---------------------------------------------------------------------------
(* Preservation of the invariant, by where a step takes its call.          *)

Labels == {"idle", "read", "publish", "integrate", "apply", "save"}

\* The types of what a step does not decide the invariant by.
SideTypes ==
  /\ file \in [Clients -> Resource]
  /\ acts \in Nat /\ faults \in Nat
  /\ cut \subseteq Nat /\ split \subseteq Clients /\ unrecorded \subseteq Clients

\* A step sets variables of client p only, to values of their types.
Sets(p) ==
  /\ mem' = [mem EXCEPT ![p] = mem'[p]] /\ mem'[p] \in RuntimeState
  /\ disk' = [disk EXCEPT ![p] = disk'[p]] /\ disk'[p] \in RuntimeState
  /\ pc' = [pc EXCEPT ![p] = pc'[p]] /\ pc'[p] \in Labels
  /\ listing' = [listing EXCEPT ![p] = listing'[p]] /\ listing'[p] \in Resource
  /\ plan' = [plan EXCEPT ![p] = plan'[p]] /\ plan'[p] \in PlanOperation
  /\ batch' = [batch EXCEPT ![p] = batch'[p]] /\ batch'[p] \in Batch \cup {NoBatch}

LEMMA StepTypes ==
  ASSUME BaseInv, NEW p \in Clients, SideTypes', Sets(p),
         line' \in Seq(Item), published' \subseteq Commit
  PROVE  TypeOK' /\ Others(p)
<1>1. TypeOK
  BY DEF BaseInv
<1>2. /\ mem \in [Clients -> RuntimeState] /\ disk \in [Clients -> RuntimeState]
      /\ pc \in [Clients -> Labels] /\ listing \in [Clients -> Resource]
      /\ plan \in [Clients -> PlanOperation] /\ batch \in [Clients -> Batch \cup {NoBatch}]
  BY <1>1 DEF TypeOK, Labels
<1>3. mem' \in [Clients -> RuntimeState] /\ disk' \in [Clients -> RuntimeState]
  BY <1>2 DEF Sets
<1>4. pc' \in [Clients -> Labels]
  BY <1>2 DEF Sets
<1>5. listing' \in [Clients -> Resource] /\ plan' \in [Clients -> PlanOperation]
  BY <1>2 DEF Sets
<1>6. batch' \in [Clients -> Batch \cup {NoBatch}]
  BY <1>2 DEF Sets
<1>7. TypeOK'
  BY <1>3, <1>4, <1>5, <1>6 DEF TypeOK, SideTypes, Labels
<1>8. ASSUME NEW q \in Clients \ {p}
      PROVE  /\ mem'[q] = mem[q] /\ disk'[q] = disk[q] /\ pc'[q] = pc[q]
             /\ listing'[q] = listing[q] /\ plan'[q] = plan[q] /\ batch'[q] = batch[q]
  <2>1. mem'[q] = mem[q] /\ disk'[q] = disk[q]
    BY <1>2 DEF Sets
  <2>2. pc'[q] = pc[q] /\ listing'[q] = listing[q]
    BY <1>2 DEF Sets
  <2>3. plan'[q] = plan[q] /\ batch'[q] = batch[q]
    BY <1>2 DEF Sets
  <2> QED BY <2>1, <2>2, <2>3
<1> QED BY <1>7, <1>8 DEF Others

\* A client's variables as they are.
LEMMA ClientTypes ==
  ASSUME BaseInv, NEW p \in Clients
  PROVE  /\ mem[p] \in RuntimeState /\ disk[p] \in RuntimeState /\ pc[p] \in Labels
         /\ listing[p] \in Resource /\ plan[p] \in PlanOperation
         /\ batch[p] \in Batch \cup {NoBatch} /\ file[p] \in Resource
         /\ mem = [mem EXCEPT ![p] = mem[p]] /\ disk = [disk EXCEPT ![p] = disk[p]]
         /\ listing = [listing EXCEPT ![p] = listing[p]] /\ plan = [plan EXCEPT ![p] = plan[p]]
         /\ batch = [batch EXCEPT ![p] = batch[p]] /\ pc = [pc EXCEPT ![p] = pc[p]]
         /\ SideTypes /\ StateOK(published, mem[p]) /\ StateOK(published, disk[p])
         /\ CallOK(line, published, p, mem[p], pc[p], listing[p], plan[p], batch[p])
<1>1. TypeOK /\ ClientOK(p)
  BY DEF BaseInv
<1>2. /\ mem \in [Clients -> RuntimeState] /\ disk \in [Clients -> RuntimeState]
      /\ pc \in [Clients -> Labels] /\ listing \in [Clients -> Resource]
      /\ plan \in [Clients -> PlanOperation] /\ batch \in [Clients -> Batch \cup {NoBatch}]
      /\ file \in [Clients -> Resource]
  BY <1>1 DEF TypeOK, Labels
<1>3. mem = [mem EXCEPT ![p] = mem[p]] /\ disk = [disk EXCEPT ![p] = disk[p]]
  BY <1>2
<1>4. listing = [listing EXCEPT ![p] = listing[p]] /\ plan = [plan EXCEPT ![p] = plan[p]]
  BY <1>2
<1>5. batch = [batch EXCEPT ![p] = batch[p]] /\ pc = [pc EXCEPT ![p] = pc[p]]
  BY <1>2
<1>6. SideTypes
  BY <1>1 DEF TypeOK, SideTypes
<1> QED BY <1>1, <1>2, <1>3, <1>4, <1>5, <1>6 DEF ClientOK

\* What a step sets for client p.
Changed(p, m, n, label, L, op, b) ==
  /\ mem' = [mem EXCEPT ![p] = m] /\ disk' = [disk EXCEPT ![p] = n]
  /\ pc' = [pc EXCEPT ![p] = label] /\ listing' = [listing EXCEPT ![p] = L]
  /\ plan' = [plan EXCEPT ![p] = op] /\ batch' = [batch EXCEPT ![p] = b]

LEMMA ChangedSets ==
  ASSUME BaseInv, NEW p \in Clients, NEW m, NEW n, NEW label, NEW L, NEW op, NEW b,
         Changed(p, m, n, label, L, op, b), m \in RuntimeState, n \in RuntimeState, label \in Labels,
         L \in Resource, op \in PlanOperation, b \in Batch \cup {NoBatch}
  PROVE  /\ Sets(p) /\ mem'[p] = m /\ disk'[p] = n /\ pc'[p] = label
         /\ listing'[p] = L /\ plan'[p] = op /\ batch'[p] = b
<1>1. /\ mem \in [Clients -> RuntimeState] /\ disk \in [Clients -> RuntimeState]
      /\ pc \in [Clients -> Labels] /\ listing \in [Clients -> Resource]
      /\ plan \in [Clients -> PlanOperation] /\ batch \in [Clients -> Batch \cup {NoBatch}]
  BY DEF BaseInv, TypeOK, Labels
<1>2. mem'[p] = m /\ disk'[p] = n
  BY <1>1 DEF Changed
<1>3. pc'[p] = label /\ listing'[p] = L
  BY <1>1 DEF Changed
<1>4. plan'[p] = op /\ batch'[p] = b
  BY <1>1 DEF Changed
<1> QED BY <1>2, <1>3, <1>4 DEF Sets, Changed

\* A call that has nothing left to publish.
LEMMA RestCall ==
  ASSUME NEW L, NEW P, NEW p, NEW m, NEW label \in {"idle", "save"}, NEW listed, NEW op, NEW b
  PROVE  CallOK(L, P, p, m, label, listed, op, b)
BY DEF CallOK

LEMMA ToSave ==
  ASSUME BaseInv, NEW p \in Clients, SideTypes', UNCHANGED <<line, published, disk, runVars>>,
         NEW m, StateOK(published, m), mem' = [mem EXCEPT ![p] = m], Goto(p, "save")
  PROVE  BaseInv'
<1>1. m \in RuntimeState /\ line' \in Seq(Item) /\ published' \subseteq Commit
  BY DEF StateOK, BaseInv, TypeOK
<1>2. Changed(p, m, disk[p], "save", listing[p], plan[p], batch[p])
  BY ClientTypes DEF runVars, Changed, Goto
<1>3. Sets(p) /\ mem'[p] = m /\ disk'[p] = disk[p] /\ pc'[p] = "save"
  BY <1>1, <1>2, ClientTypes, ChangedSets DEF Labels
<1>4. TypeOK' /\ Others(p)
  BY <1>1, <1>3, StepTypes
<1>5. ClientOK(p)'
  <2>1. StateOK(published', m) /\ StateOK(published', disk[p])
    BY ClientTypes
  <2>2. CallOK(line', published', p, m, "save", listing'[p], plan'[p], batch'[p])
    BY RestCall
  <2> QED BY <1>3, <2>1, <2>2 DEF ClientOK
<1> QED BY <1>4, <1>5, LocalFrame

LEMMA ToIdle ==
  ASSUME BaseInv, NEW p \in Clients, SideTypes', UNCHANGED <<line, published>>,
         NEW m, StateOK(published, m), mem' = [mem EXCEPT ![p] = m],
         NEW n, StateOK(published, n), disk' = [disk EXCEPT ![p] = n], Forget(p)
  PROVE  BaseInv'
<1>1. /\ m \in RuntimeState /\ n \in RuntimeState
      /\ line' \in Seq(Item) /\ published' \subseteq Commit
  BY DEF StateOK, BaseInv, TypeOK
<1>2. Nothing \in Resource /\ Op("Noop") \in PlanOperation /\ NoBatch \in Batch \cup {NoBatch}
  BY DEF Nothing, Resource, PlanOperation
<1>3. Changed(p, m, n, "idle", Nothing, Op("Noop"), NoBatch)
  BY DEF Changed, Forget, Goto
<1>4. Sets(p) /\ mem'[p] = m /\ disk'[p] = n /\ pc'[p] = "idle"
  BY <1>1, <1>2, <1>3, ChangedSets DEF Labels
<1>5. TypeOK' /\ Others(p)
  BY <1>1, <1>4, StepTypes
<1>6. ClientOK(p)'
  BY <1>4, RestCall DEF ClientOK
<1> QED BY <1>5, <1>6, LocalFrame

LEMMA ToPublish ==
  ASSUME BaseInv, NEW p \in Clients, SideTypes',
         UNCHANGED <<line, published, mem, disk, listing, plan>>,
         NEW b \in Batch, batch' = [batch EXCEPT ![p] = b], Goto(p, "publish"),
         IsPresent(b.state) => b.doc = TextDoc(mem[p].commits) \/ (~b.user /\ b.doc = Stored(mem[p]))
  PROVE  BaseInv'
<1>1. line' \in Seq(Item) /\ published' \subseteq Commit
  BY DEF BaseInv, TypeOK
<1>2. Changed(p, mem[p], disk[p], "publish", listing[p], plan[p], b)
  BY ClientTypes DEF Changed, Goto
<1>3. Sets(p) /\ mem'[p] = mem[p] /\ disk'[p] = disk[p] /\ pc'[p] = "publish" /\ batch'[p] = b
  BY <1>2, ClientTypes, ChangedSets DEF Labels
<1>4. TypeOK' /\ Others(p)
  BY <1>1, <1>3, StepTypes
<1>5. CallOK(line, published, p, mem[p], "publish", listing'[p], plan'[p], b)
  BY DEF CallOK
<1>6. ClientOK(p)'
  BY <1>3, <1>5, ClientTypes DEF ClientOK
<1> QED BY <1>4, <1>6, LocalFrame

---------------------------------------------------------------------------
(* Users.                                                                  *)

LEMMA TextOfTypes ==
  ASSUME NEW s \in PresentText \cup {Missing, Deleted, NoBaseline, Forked}
  PROVE  /\ TextOf(s) \in Text /\ CharsOf(s) \subseteq Nat
         /\ IsPresent(s) => s \in PresentText /\ TextOf(s) = s.content
         /\ ~IsPresent(s) => TextOf(s) = <<>> /\ CharsOf(s) = {}
<1>1. TextOf(s) \in Text
  <2>1. <<>> \in Text
    BY DEF Text
  <2> QED BY <2>1, PresentTexts, Presence DEF TextOf
<1>2. CharsOf(s) \subseteq Nat
  BY <1>1, ElementOfSeq DEF CharsOf, Chars, Text
<1>3. IsPresent(s) => s \in PresentText /\ TextOf(s) = s.content
  BY Presence DEF TextOf
<1>4. ~IsPresent(s) => TextOf(s) = <<>>
  BY DEF TextOf
<1>5. ~IsPresent(s) => CharsOf(s) = {}
  BY <1>4 DEF CharsOf, Chars
<1> QED BY <1>1, <1>2, <1>3, <1>4, <1>5

LEMMA ActTypes ==
  ASSUME acts \in Nat, cut \subseteq Nat, NEW before, \A t \in before : t \in Text, NEW s, Act(before, s)
  PROVE  acts' = acts + 1 /\ acts' \in Nat /\ cut \subseteq cut' /\ cut' \subseteq Nat
<1>1. acts' = acts + 1 /\ acts' \in Nat
  BY DEF Act
<1>2. ASSUME NEW t \in before PROVE Dropped(t, TextOf(s)) \subseteq Nat
  BY ElementOfSeq DEF Dropped, Chars, Text
<1>3. cut' = cut \cup ({acts'} \ CharsOf(s)) \cup UNION {Dropped(t, TextOf(s)) : t \in before}
  BY DEF Act
<1> QED BY <1>1, <1>2, <1>3

LEMMA WrittenTypes ==
  ASSUME file \in [Clients -> Resource], NEW p \in Clients, NEW s \in PresentText \cup {Missing}
  PROVE  /\ Written(p, s) \in [Clients -> Resource]
         /\ Written(p, s)[p].state = s /\ Written(p, s)[p].version = file[p].version + 1
         /\ \A q \in Clients \ {p} : Written(p, s)[q] = file[q]
<1> DEFINE r == [state |-> s, version |-> file[p].version + 1]
<1>1. file[p].version \in Nat
  BY DEF Resource
<1>2. r \in Resource /\ r.state = s /\ r.version = file[p].version + 1
  BY <1>1 DEF Resource
<1>3. Written(p, s) = [file EXCEPT ![p] = r]
  BY DEF Written
<1> HIDE DEF r
<1> QED BY <1>2, <1>3

LEMMA EditBase ==
  ASSUME BaseInv, NEW p \in Clients, NEW s \in PresentText \cup {Missing}, Edit(p, s)
  PROVE  BaseInv'
<1>1. SideTypes /\ file[p] \in Resource
  BY ClientTypes
<1>2. TextOf(file[p].state) \in Text
  BY <1>1, TextOfTypes DEF Resource
<1>3. acts' \in Nat /\ cut' \subseteq Nat
  <2>1. Act({TextOf(file[p].state)}, s)
    BY DEF Edit
  <2>2. \A t \in {TextOf(file[p].state)} : t \in Text
    BY <1>2
  <2> QED BY <1>1, <2>1, <2>2, ActTypes DEF SideTypes
<1>4. file' \in [Clients -> Resource]
  BY <1>1, WrittenTypes DEF Edit, SideTypes
<1>5. SideTypes'
  BY <1>1, <1>3, <1>4 DEF SideTypes, Edit
<1>6. /\ UNCHANGED <<line, published>>
      /\ mem' = mem /\ disk' = disk /\ pc' = pc /\ listing' = listing /\ plan' = plan /\ batch' = batch
  BY DEF Edit, runVars
<1>7. line' \in Seq(Item) /\ published' \subseteq Commit
  BY <1>6 DEF BaseInv, TypeOK
<1>8. Sets(p)
  BY <1>6, ClientTypes DEF Sets
<1>9. TypeOK' /\ Others(p)
  BY <1>5, <1>7, <1>8, StepTypes
<1>10. ClientOK(p)'
  BY <1>6 DEF ClientOK, BaseInv
<1> QED BY <1>6, <1>9, <1>10, LocalFrame

\* The texts users make.
LEMMA SplicedText ==
  ASSUME NEW t \in Text, NEW c \in Nat
  PROVE  /\ \A i \in 0..Len(t) : SubSeq(t, 1, i) \o <<c>> \o SubSeq(t, i + 1, Len(t)) \in Text
         /\ \A i \in 1..Len(t) : SubSeq(t, 1, i - 1) \o SubSeq(t, i + 1, Len(t)) \in Text
<1>1. t \in Seq(Nat) /\ Len(t) \in Nat
  BY LenProperties DEF Text
<1>2. ASSUME NEW i \in 0..Len(t) PROVE SubSeq(t, 1, i) \in Seq(Nat)
  <2>1. 1 \in 1..Len(t) + 1 /\ i \in 1 - 1 .. Len(t)
    BY <1>1
  <2> QED BY <1>1, <2>1, SubSeqProperties
<1>3. ASSUME NEW i \in 0..Len(t) PROVE SubSeq(t, i + 1, Len(t)) \in Seq(Nat)
  <2>1. i + 1 \in 1..Len(t) + 1 /\ Len(t) \in (i + 1) - 1 .. Len(t)
    BY <1>1
  <2> QED BY <1>1, <2>1, SubSeqProperties
<1>4. <<c>> \in Seq(Nat)
  OBVIOUS
<1>5. ASSUME NEW i \in 0..Len(t) PROVE SubSeq(t, 1, i) \o <<c>> \o SubSeq(t, i + 1, Len(t)) \in Text
  BY <1>2, <1>3, <1>4, ConcatProperties DEF Text
<1>6. ASSUME NEW i \in 1..Len(t) PROVE SubSeq(t, 1, i - 1) \o SubSeq(t, i + 1, Len(t)) \in Text
  <2>1. i - 1 \in 0..Len(t) /\ i \in 0..Len(t)
    BY <1>1
  <2> QED BY <1>2, <1>3, <2>1, ConcatProperties DEF Text
<1> QED BY <1>5, <1>6

\* What an edit leaves in the replica.
LEMMA EditStates ==
  ASSUME BaseInv, NEW p \in Clients,
         Create(p) \/ Remove(p) \/ \E i \in 0..MaxEvents : Type(p, i) \/ Cut(p, i)
  PROVE  \E s \in PresentText \cup {Missing} : Edit(p, s)
<1>1. acts \in Nat /\ file[p] \in Resource
  BY ClientTypes DEF SideTypes
<1>2. IsPresent(file[p].state) => file[p].state.content \in Text
  BY <1>1, PresentTexts, Presence DEF Resource
<1>3. CASE Create(p)
  <2>1. <<acts + 1>> \in Text
    BY <1>1 DEF Text
  <2> QED BY <1>3, <2>1, PresentTexts DEF Create
<1>4. CASE Remove(p)
  BY <1>4 DEF Remove
<1>5. ASSUME NEW i \in 0..MaxEvents, Type(p, i) PROVE \E s \in PresentText \cup {Missing} : Edit(p, s)
  <2> DEFINE t == file[p].state.content
             s == Present(SubSeq(t, 1, i) \o <<acts + 1>> \o SubSeq(t, i + 1, Len(t)))
  <2>1. t \in Text /\ i \in 0..Len(t) /\ Edit(p, s) /\ acts + 1 \in Nat
    BY <1>1, <1>2, <1>5 DEF Type
  <2>2. s \in PresentText
    <3>1. SubSeq(t, 1, i) \o <<acts + 1>> \o SubSeq(t, i + 1, Len(t)) \in Text
      BY <2>1, SplicedText
    <3> QED BY <3>1, PresentTexts
  <2> QED BY <2>1, <2>2
<1>6. ASSUME NEW i \in 0..MaxEvents, Cut(p, i) PROVE \E s \in PresentText \cup {Missing} : Edit(p, s)
  <2> DEFINE t == file[p].state.content
             s == Present(SubSeq(t, 1, i - 1) \o SubSeq(t, i + 1, Len(t)))
  <2>1. t \in Text /\ i \in 1..Len(t) /\ Edit(p, s)
    BY <1>2, <1>6 DEF Cut
  <2>2. s \in PresentText
    <3>1. SubSeq(t, 1, i - 1) \o SubSeq(t, i + 1, Len(t)) \in Text
      BY <2>1, SplicedText
    <3> QED BY <3>1, PresentTexts
  <2> QED BY <2>1, <2>2
<1> QED BY <1>3, <1>4, <1>5, <1>6

LEMMA UserCommitBase ==
  ASSUME BaseInv, NEW p \in Clients, NEW s \in PresentText \cup {Deleted}, NEW v \in Nat,
         NEW x \in BOOLEAN, UserCommit(p, s, v, x), file' \in [Clients -> Resource]
  PROVE  BaseInv'
<1> DEFINE doc == TextDoc(mem[p].commits)
<1>1. SideTypes /\ file[p] \in Resource /\ StateOK(published, mem[p])
  BY ClientTypes
<1>2. IsLine(line) /\ GraphOK(published) /\ ChangesWithin(line, published)
  BY DEF BaseInv
<1>3. doc \in Doc /\ Content(doc) \in Text
  <2>1. Within(line, doc)
    BY <1>1, <1>2, StoredWithin
  <2>2. line \in Seq(Item)
    BY <1>2 DEF IsLine
  <2> HIDE DEF doc
  <2>3. ContentIn(line, doc) \in Text
    BY <2>2, ContentChars
  <2> QED BY <2>1, <2>3, ContentOfLine DEF Within
<1>4. acts' \in Nat /\ cut' \subseteq Nat
  <2>1. Act({TextOf(file[p].state), Content(doc)}, s)
    BY DEF UserCommit
  <2>2. \A t \in {TextOf(file[p].state), Content(doc)} : t \in Text
    BY <1>1, <1>3, TextOfTypes DEF Resource
  <2> QED BY <1>1, <2>1, <2>2, ActTypes DEF SideTypes
<1>5. SideTypes'
  BY <1>1, <1>4 DEF SideTypes, UserCommit
<1> DEFINE b == [state |-> s, doc |-> doc, version |-> v, user |-> TRUE, settles |-> x]
<1>6. b \in Batch /\ b.doc = doc
  BY <1>3 DEF Batch
<1>7. /\ UNCHANGED <<line, published, mem, disk, listing, plan>>
      /\ batch' = [batch EXCEPT ![p] = b] /\ Goto(p, "publish")
  BY DEF UserCommit
<1> HIDE DEF b
<1>8. PICK y \in Batch : batch' = [batch EXCEPT ![p] = y] /\ y.doc = TextDoc(mem[p].commits)
  BY <1>6, <1>7
<1>9. IsPresent(y.state) => y.doc = TextDoc(mem[p].commits) \/ (~y.user /\ y.doc = Stored(mem[p]))
  BY <1>8
<1>10. Goto(p, "publish") /\ UNCHANGED <<line, published, mem, disk, listing, plan>>
  BY <1>7
<1>11. batch' = [batch EXCEPT ![p] = y]
  BY <1>8
<1> QED BY <1>5, <1>9, <1>10, <1>11, ToPublish

LEMMA VersionTypes ==
  ASSUME IsLine(line), NEW C, NEW c
  PROVE  VersionAt(C, c) \in PresentText \cup {Deleted}
<1>1. ASSUME NEW doc PROVE Content(doc) \in Text
  BY ContentChars, ContentOfLine DEF IsLine
<1>2. Content(TextDocAt(C, c.id)) \in Text
  BY <1>1
<1> QED BY <1>2, PresentTexts DEF VersionAt

LEMMA UserRestoreBase ==
  ASSUME BaseInv, NEW p \in Clients, NEW s \in PresentText \cup {Deleted}, NEW x \in BOOLEAN,
         UserRestore(p, s, x)
  PROVE  BaseInv'
<1>1. SideTypes /\ file[p] \in Resource
  BY ClientTypes
<1>2. file[p].version + 1 \in Nat
  BY <1>1 DEF Resource
<1>3. file' \in [Clients -> Resource]
  <2>1. Written(p, Missing) \in [Clients -> Resource]
    BY <1>1, WrittenTypes DEF SideTypes
  <2>2. s # Deleted => Written(p, s) \in [Clients -> Resource]
    BY <1>1, WrittenTypes DEF SideTypes
  <2> QED BY <1>1, <2>1, <2>2 DEF UserRestore, SideTypes
<1>4. PICK v \in Nat : UserCommit(p, s, v, x)
  BY <1>2 DEF UserRestore
<1> QED BY <1>3, <1>4, UserCommitBase

LEMMA RollbackBase ==
  ASSUME BaseInv, NEW p \in Clients, NEW c, Rollback(p, c)
  PROVE  BaseInv'
<1>1. IsLine(line)
  BY DEF BaseInv
<1>2. VersionAt(mem[p].commits, c) \in PresentText \cup {Deleted}
  BY <1>1, VersionTypes
<1> QED BY <1>2, UserRestoreBase DEF Rollback

LEMMA ResolveBase ==
  ASSUME BaseInv, NEW p \in Clients, Resolve(p)
  PROVE  BaseInv'
<1>1. IsLine(line)
  BY DEF BaseInv
<1>2. ASSUME NEW c, UserRestore(p, VersionAt(mem[p].commits, c), TRUE) PROVE BaseInv'
  <2>1. VersionAt(mem[p].commits, c) \in PresentText \cup {Deleted}
    BY <1>1, VersionTypes
  <2> QED BY <1>2, <2>1, UserRestoreBase
<1>3. ASSUME UserRestore(p, Deleted, TRUE) PROVE BaseInv'
  BY <1>3, UserRestoreBase
<1>4. ASSUME IsPresent(file[p].state), UserCommit(p, file[p].state, file[p].version, TRUE),
             UNCHANGED file
      PROVE  BaseInv'
  <2>1. file[p] \in Resource /\ SideTypes
    BY ClientTypes
  <2>2. file[p].state \in PresentText \cup {Deleted} /\ file[p].version \in Nat
    BY <1>4, <2>1, Presence DEF Resource
  <2>3. file' \in [Clients -> Resource]
    BY <1>4, <2>1 DEF SideTypes
  <2> QED BY <1>4, <2>2, <2>3, UserCommitBase
<1> QED BY <1>2, <1>3, <1>4 DEF Resolve

---------------------------------------------------------------------------
(* The steps of a call.                                                    *)

\* The states a call leaves in memory.
LEMMA BaselinedFacts ==
  ASSUME NEW p \in Clients, mem[p] \in RuntimeState, NEW C \in SUBSET Commit,
         NEW s \in PresentText \cup {Deleted}, NEW v \in Nat
  PROVE  /\ Baselined(p, C, s, v) \in RuntimeState
         /\ Baselined(p, C, s, v).commits = C
         /\ Baselined(p, C, s, v).text = mem[p].text
         /\ Baselined(p, C, s, v).conflict = mem[p].conflict
         /\ Baselined(p, C, s, v).baseline \in Baseline
         /\ Baselined(p, C, s, v).baseline.state = s
         /\ Baselined(p, C, s, v).baseline.heads = Heads(C)
         /\ Baselined(p, C, s, v).baseline.version = IF s = Deleted THEN 0 ELSE v
<1> DEFINE b == [state |-> s, heads |-> Heads(C), version |-> IF s = Deleted THEN 0 ELSE v]
<1>1. Heads(C) \subseteq Nat
  BY HeadsAmong DEF Commit
<1>2. b \in Baseline /\ b.state = s /\ b.heads = Heads(C) /\ b.version = IF s = Deleted THEN 0 ELSE v
  BY <1>1 DEF Baseline
<1>3. Baselined(p, C, s, v) = [mem[p] EXCEPT !.commits = C, !.baseline = b]
  BY DEF Baselined
<1> HIDE DEF b
<1>4. Baselined(p, C, s, v) \in RuntimeState
  BY <1>2, <1>3 DEF RuntimeState
<1>5. /\ Baselined(p, C, s, v).commits = C
      /\ Baselined(p, C, s, v).text = mem[p].text
      /\ Baselined(p, C, s, v).conflict = mem[p].conflict
      /\ Baselined(p, C, s, v).baseline = b
  BY <1>3 DEF RuntimeState
<1> QED BY <1>2, <1>4, <1>5

LEMMA ReconciledFacts ==
  ASSUME NEW p \in Clients, mem[p] \in RuntimeState, NEW C \in SUBSET Commit, TextDoc(C) \in Doc,
         NEW s \in PresentText \cup {Deleted}, NEW v \in Nat
  PROVE  /\ Reconciled(p, C, s, v) \in RuntimeState
         /\ Reconciled(p, C, s, v).commits = C
         /\ Reconciled(p, C, s, v).text = TextDoc(C)
         /\ Reconciled(p, C, s, v).conflict = mem[p].conflict
         /\ Reconciled(p, C, s, v).baseline = Baselined(p, C, s, v).baseline
<1>1. PICK m : m = Baselined(p, C, s, v) /\ m \in RuntimeState /\ m.commits = C
               /\ m.conflict = mem[p].conflict
  BY BaselinedFacts
<1>2. Reconciled(p, C, s, v) = [m EXCEPT !.text = TextDoc(C)]
  BY <1>1 DEF Reconciled
<1> QED BY <1>1, <1>2 DEF RuntimeState

LEMMA NoTextNoDoc == ASSUME NEW d \in Doc PROVE d # NoText
BY DEF Doc, NoText

\* They keep the invariant.
LEMMA BaselinedOK ==
  ASSUME BaseInv, NEW p \in Clients, NEW C, Closed(published, C), mem[p].commits \subseteq C,
         NEW s \in PresentText \cup {Deleted}, NEW v \in Nat
  PROVE  /\ StateOK(published, Baselined(p, C, s, v))
         /\ StateOK(published, Reconciled(p, C, s, v))
<1>1. mem[p] \in RuntimeState /\ StateOK(published, mem[p])
  BY ClientTypes
<1>2. GraphOK(published) /\ ChangesWithin(line, published)
  BY DEF BaseInv
<1>3. C \in SUBSET published /\ C \in SUBSET Commit
  BY <1>2 DEF Closed, GraphOK
<1>4. TextDoc(C) \in Doc
  BY <1>2, <1>3, DocFacts
<1>5. s # NoBaseline
  BY PresentTexts, Presence, Distinct
<1>6. StateOK(published, Baselined(p, C, s, v))
  <2>1. PICK m : /\ m = Baselined(p, C, s, v) /\ m \in RuntimeState /\ m.commits = C
                 /\ m.text = mem[p].text /\ m.baseline.state = s
    BY <1>1, <1>3, BaselinedFacts
  <2>2. mem[p].text # NoText => \E D \in SUBSET C : Closed(published, D) /\ mem[p].text = TextDoc(D)
    BY <1>1 DEF StateOK
  <2>3. StateOK(published, m)
    BY <1>5, <2>1, <2>2 DEF StateOK
  <2> QED BY <2>1, <2>3
<1>7. StateOK(published, Reconciled(p, C, s, v))
  <2>1. PICK m : /\ m = Reconciled(p, C, s, v) /\ m \in RuntimeState /\ m.commits = C
                 /\ m.text = TextDoc(C) /\ m.baseline.state = s
    BY <1>1, <1>3, <1>4, ReconciledFacts, BaselinedFacts
  <2>2. StateOK(published, m)
    BY <1>5, <2>1 DEF StateOK
  <2> QED BY <2>1, <2>2
<1> QED BY <1>6, <1>7

\* What the client knows with the commit it has just published.
LEMMA IntegratedFacts ==
  ASSUME BaseInv, NEW p \in Clients, pc[p] = "integrate"
  PROVE  /\ IsOwn(published, p, Own(p)) /\ Own(p) \in published
         /\ Own(p).parents = Heads(mem[p].commits) /\ Own(p) \notin mem[p].commits
         /\ IsPresent(batch[p].state) <=> Own(p).change # Deleted
         /\ IsPresent(batch[p].state) =>
              ContentIn(line, Merge({batch[p].doc, Own(p).change})) = batch[p].state.content
         /\ Closed(published, Integrated(p)) /\ mem[p].commits \subseteq Integrated(p)
<1>1. GraphOK(published)
  BY DEF BaseInv
<1>2. /\ CallOK(line, published, p, mem[p], pc[p], listing[p], plan[p], batch[p])
      /\ StateOK(published, mem[p])
  BY ClientTypes
<1>3. PICK c \in published :
        /\ IsOwn(published, p, c)
        /\ c.parents = Heads(mem[p].commits) /\ c \notin mem[p].commits
        /\ IsPresent(batch[p].state) <=> c.change # Deleted
        /\ IsPresent(batch[p].state) =>
             ContentIn(line, Merge({batch[p].doc, c.change})) = batch[p].state.content
  BY <1>2 DEF CallOK
<1>4. Own(p) = c
  BY <1>1, <1>3, OwnIs
<1>5. Integrated(p) = mem[p].commits \cup {c}
  BY <1>4 DEF Integrated
<1>6. Closed(published, mem[p].commits \cup {c})
  BY <1>1, <1>2, <1>3, ClosedWithOwn DEF StateOK
<1> QED BY <1>3, <1>4, <1>5, <1>6

LEMMA BeginBase ==
  ASSUME BaseInv, NEW p \in Clients, Begin(p)
  PROVE  BaseInv'
<1> DEFINE L == Listed(p)
           op == Planned(L.state, mem[p].baseline.state, RemoteState(published))
           k == IF op.op = "Conflict" THEN [heads |-> Heads(published), local |-> L] ELSE NoConflict
           m == [mem[p] EXCEPT !.commits = published, !.conflict = k]
           label == IF op \in {Op("Upload"), Op("PublishDelete")} THEN "read" ELSE "apply"
<1>1. /\ mem[p] \in RuntimeState /\ StateOK(published, mem[p]) /\ file[p] \in Resource
      /\ batch[p] \in Batch \cup {NoBatch} /\ batch = [batch EXCEPT ![p] = batch[p]] /\ SideTypes
  BY ClientTypes
<1>2. IsLine(line) /\ GraphOK(published) /\ published \subseteq Commit
  BY DEF BaseInv, TypeOK
<1>3. L \in Resource
  <2>1. mem[p].baseline.state \in PresentText \cup {Deleted, NoBaseline}
    BY <1>1 DEF RuntimeState, Baseline
  <2>2. Nothing \in Resource
    BY DEF Nothing, Resource
  <2>3. IsPresent(mem[p].baseline.state) => [file[p] EXCEPT !.state = mem[p].baseline.state] \in Resource
    BY <1>1, <2>1, Presence DEF Resource
  <2> QED BY <1>1, <2>2, <2>3 DEF Listed
<1>4. op \in PlanOperation
  <2>1. RemoteState(published) \in PresentText \cup {Missing, Deleted, Forked}
    BY <1>2, RemoteOfLine, RemoteFacts
  <2>2. mem[p].baseline.state \in PresentText \cup {Deleted, NoBaseline}
    BY <1>1 DEF RuntimeState, Baseline
  <2>3. L.state \in PresentText \cup {Missing}
    BY <1>3 DEF Resource
  <2> HIDE DEF L
  <2> QED BY <2>1, <2>2, <2>3, PlannedFacts
<1>5. k \in [heads : SUBSET Nat, local : Resource]
  <2>1. Heads(published) \subseteq Nat
    BY <1>2, HeadsAmong DEF Commit
  <2>2. NoConflict \in [heads : SUBSET Nat, local : Resource]
    BY DEF NoConflict, Nothing, Resource
  <2> HIDE DEF L, op
  <2> QED BY <1>3, <2>1, <2>2
<1>6. /\ listing' = [listing EXCEPT ![p] = L] /\ plan' = [plan EXCEPT ![p] = op]
      /\ mem' = [mem EXCEPT ![p] = m] /\ disk' = [disk EXCEPT ![p] = m]
      /\ Goto(p, label) /\ UNCHANGED <<line, file, published, batch, boundVars, historyVars>>
  BY DEF Begin
<1> HIDE DEF k, op, L
<1>7. m \in RuntimeState /\ m.commits = published /\ m.text = mem[p].text /\ m.baseline = mem[p].baseline
  BY <1>1, <1>2, <1>5 DEF RuntimeState
<1> HIDE DEF m
<1>8. StateOK(published, m)
  <2>1. Closed(published, published)
    BY DEF Closed
  <2>2. mem[p].text # NoText =>
          /\ mem[p].baseline.state # NoBaseline
          /\ \E C \in SUBSET published : Closed(published, C) /\ mem[p].text = TextDoc(C)
    BY <1>1 DEF StateOK, Closed
  <2> QED BY <1>7, <2>1, <2>2 DEF StateOK
<1>9. label \in Labels /\ label \in {"read", "apply"}
  BY DEF Labels
<1> HIDE DEF label
<1>10. Changed(p, m, m, label, L, op, batch[p])
  BY <1>1, <1>6 DEF Changed, Goto
<1>11. Sets(p) /\ mem'[p] = m /\ disk'[p] = m /\ pc'[p] = label
       /\ listing'[p] = L /\ plan'[p] = op /\ batch'[p] = batch[p]
  BY <1>1, <1>3, <1>4, <1>7, <1>9, <1>10, ChangedSets
<1>12. SideTypes' /\ line' \in Seq(Item) /\ published' \subseteq Commit
  BY <1>1, <1>2, <1>6 DEF SideTypes, boundVars, historyVars, IsLine
<1>13. TypeOK' /\ Others(p)
  BY <1>11, <1>12, StepTypes
<1>14. CallOK(line, published, p, m, label, L, op, batch[p])
  <2>1. op = Planned(L.state, m.baseline.state, RemoteIn(line, m.commits))
    BY <1>7, RemoteOfLine DEF op
  <2> QED BY <1>9, <2>1 DEF CallOK
<1>15. ClientOK(p)'
  BY <1>6, <1>8, <1>11, <1>14 DEF ClientOK
<1> QED BY <1>6, <1>13, <1>15, LocalFrame

LEMMA PrepareBase ==
  ASSUME BaseInv, NEW p \in Clients, NEW s \in PresentText \cup {Deleted}, NEW doc \in Doc,
         Prepare(p, s, doc),
         IsPresent(s) => doc = TextDoc(mem[p].commits) \/ doc = Stored(mem[p])
  PROVE  BaseInv'
<1> DEFINE b == [state |-> s, doc |-> doc, version |-> listing[p].version, user |-> FALSE,
                 settles |-> FALSE]
<1>1. listing[p] \in Resource /\ SideTypes
  BY ClientTypes
<1>2. listing[p].version \in Nat
  BY <1>1 DEF Resource
<1>3. b \in Batch /\ b.state = s /\ b.doc = doc /\ b.user = FALSE
  BY <1>2 DEF Batch
<1>4. /\ UNCHANGED <<line, published, mem, disk, listing, plan>>
      /\ batch' = [batch EXCEPT ![p] = b] /\ Goto(p, "publish")
  BY DEF Prepare
<1>5. SideTypes'
  BY <1>1 DEF Prepare, SideTypes, boundVars, historyVars
<1> HIDE DEF b
<1>6. IsPresent(b.state) => b.doc = TextDoc(mem[p].commits) \/ (~b.user /\ b.doc = Stored(mem[p]))
  BY <1>3
<1> QED BY <1>3, <1>4, <1>5, <1>6, ToPublish

\* The document a client works on, and that of the graph it knows.
LEMMA KnownDocs ==
  ASSUME BaseInv, NEW p \in Clients
  PROVE  /\ StoredDoc(p) = Stored(mem[p]) /\ Within(line, Stored(mem[p]))
         /\ Within(line, TextDoc(mem[p].commits))
         /\ \A doc : Content(doc) = ContentIn(line, doc) /\ Content(doc) \in Text
<1>1. StateOK(published, mem[p])
  BY ClientTypes
<1>2. IsLine(line) /\ GraphOK(published) /\ ChangesWithin(line, published)
  BY DEF BaseInv
<1>3. Within(line, Stored(mem[p])) /\ Within(line, TextDoc(mem[p].commits))
  BY <1>1, <1>2, StoredWithin
<1>4. ASSUME NEW doc PROVE Content(doc) = ContentIn(line, doc) /\ Content(doc) \in Text
  BY <1>2, ContentOfLine, ContentChars DEF IsLine
<1> QED BY <1>3, <1>4 DEF StoredDoc, Stored

\* What Pick takes from a text is a text.
LEMMA PickText ==
  ASSUME NEW t \in Text, NEW I \in SUBSET (1..Len(t))
  PROVE  /\ Pick(t, I) \in Text
         /\ \E n \in Nat : \E g : Lists(g, n, I) /\ Pick(t, I) = [k \in 1..n |-> t[g[k]]]
                                  /\ Len(Pick(t, I)) = n
<1>1. t \in Seq(Nat) /\ Len(t) \in Nat /\ I \in SUBSET Nat
  BY LenProperties DEF Text
<1>2. PICK n \in Nat : \E g : Lists(g, n, I)
  BY <1>1, ListExists
<1>3. PICK g : Lists(g, n, I)
  BY <1>2
<1>4. Pick(t, I) = [k \in 1..n |-> t[g[k]]]
  BY <1>1, <1>3, PickOfList
<1>5. \A k \in 1..n : t[g[k]] \in Nat
  BY <1>1, <1>3, ElementOfSeq DEF Lists
<1>6. Pick(t, I) \in Text /\ Len(Pick(t, I)) = n
  BY <1>4, <1>5 DEF Text
<1> QED BY <1>3, <1>4, <1>6

\* A policy answers with a text.
LEMMA MergeTextType ==
  ASSUME NEW base \in Text, NEW local \in Text, NEW remote \in Text
  PROVE  MergeText(base, local, remote) \in Text
<1> DEFINE kept  == {i \in 1..Len(remote) : remote[i] \in Chars(local) \/ remote[i] \notin Chars(base)}
           added == {i \in 1..Len(local) : local[i] \notin Chars(base) \cup Chars(remote)}
<1>1. Pick(remote, kept) \in Text /\ Pick(local, added) \in Text
  <2>1. kept \in SUBSET (1..Len(remote)) /\ added \in SUBSET (1..Len(local))
    OBVIOUS
  <2> HIDE DEF kept, added
  <2> QED BY <2>1, PickText
<1>2. MergeText(base, local, remote) = Pick(remote, kept) \o Pick(local, added)
  BY DEF MergeText
<1> HIDE DEF kept, added
<1> QED BY <1>1, <1>2, ConcatProperties DEF Text

LEMMA ReadUploadBase ==
  ASSUME BaseInv, NEW p \in Clients, ReadUpload(p)
  PROVE  BaseInv'
<1>1. file[p] \in Resource
  BY ClientTypes
<1>2. file[p].state \in PresentText
  BY <1>1, Presence DEF ReadUpload, ReadNow, Resource
<1>3. StoredDoc(p) = Stored(mem[p]) /\ Stored(mem[p]) \in Doc
  BY KnownDocs DEF Within
<1>4. Prepare(p, file[p].state, Stored(mem[p]))
  BY <1>3 DEF ReadUpload
<1> QED BY <1>2, <1>3, <1>4, PrepareBase

LEMMA ReadMergedBase ==
  ASSUME BaseInv, NEW p \in Clients, ReadMerged(p)
  PROVE  BaseInv'
<1> DEFINE remote == TextDoc(mem[p].commits)
           t == MergeText(Content(mem[p].text), file[p].state.content, Content(remote))
<1>1. remote \in Doc /\ Content(remote) \in Text /\ Content(mem[p].text) \in Text
  BY KnownDocs DEF Within
<1>2. file[p].state.content \in Text
  <2>1. file[p] \in Resource
    BY ClientTypes
  <2> QED BY <2>1, Presence, PresentTexts DEF ReadMerged, ReadNow, Resource
<1>3. Present(t) \in PresentText
  BY <1>1, <1>2, MergeTextType, PresentTexts
<1>4. Prepare(p, Present(t), remote)
  BY DEF ReadMerged
<1> HIDE DEF t
<1> QED BY <1>1, <1>3, <1>4, PrepareBase

LEMMA ReadDeleteBase ==
  ASSUME BaseInv, NEW p \in Clients, ReadDelete(p)
  PROVE  BaseInv'
<1>1. NewDoc \in Doc /\ ~IsPresent(Deleted)
  BY Presence DEF NewDoc, Doc
<1> QED BY <1>1, PrepareBase DEF ReadDelete

LEMMA ReadConflictBase ==
  ASSUME BaseInv, NEW p \in Clients, ReadConflict(p)
  PROVE  BaseInv'
<1> DEFINE k == [heads |-> Heads(mem[p].commits), local |-> listing[p]]
           m == [mem[p] EXCEPT !.conflict = k]
<1>1. mem[p] \in RuntimeState /\ StateOK(published, mem[p]) /\ listing[p] \in Resource /\ SideTypes
  BY ClientTypes
<1>2. Heads(mem[p].commits) \subseteq Nat
  BY <1>1, HeadsAmong DEF RuntimeState, Commit
<1>3. k \in [heads : SUBSET Nat, local : Resource]
  BY <1>1, <1>2
<1>4. mem' = [mem EXCEPT ![p] = m] /\ Goto(p, "save") /\ UNCHANGED <<line, published, disk, runVars>>
  BY DEF ReadConflict
<1> HIDE DEF k
<1>5. m \in RuntimeState /\ m.commits = mem[p].commits /\ m.text = mem[p].text
      /\ m.baseline = mem[p].baseline
  BY <1>1, <1>3 DEF RuntimeState
<1> HIDE DEF m
<1>6. StateOK(published, m)
  BY <1>1, <1>5 DEF StateOK
<1>7. SideTypes'
  BY <1>1 DEF ReadConflict, SideTypes, boundVars, historyVars
<1> QED BY <1>4, <1>6, <1>7, ToSave

\* A call that does nothing more than end.
LEMMA EndBase ==
  ASSUME BaseInv, NEW p \in Clients, ReadChanged(p) \/ Skip(p)
  PROVE  BaseInv'
<1>1. StateOK(published, mem[p]) /\ mem = [mem EXCEPT ![p] = mem[p]] /\ SideTypes
  BY ClientTypes
<1>2. /\ mem' = mem /\ Goto(p, "save") /\ UNCHANGED <<line, published, disk, runVars>>
      /\ UNCHANGED <<file, boundVars, historyVars>>
  BY DEF ReadChanged, Skip
<1>3. SideTypes'
  BY <1>1, <1>2 DEF SideTypes, boundVars, historyVars
<1>4. PICK m : m = mem[p]
  OBVIOUS
<1> QED BY <1>1, <1>2, <1>3, <1>4, ToSave

\* A new commit.
LEMMA NewCommitFacts ==
  ASSUME BaseInv, NEW p \in Clients, NEW change \in Doc \cup {Deleted}
  PROVE  LET c == NewCommit(p, change)
         IN  /\ Extends(published, c) /\ c.author = p /\ c.change = change
             /\ c.parents = Heads(mem[p].commits) /\ c \notin published
             /\ IsOwn(published \cup {c}, p, c)
<1> DEFINE c == NewCommit(p, change)
           n == Cardinality(published)
<1>1. GraphOK(published) /\ StateOK(published, mem[p])
  BY ClientTypes DEF BaseInv
<1>2. n \in Nat /\ \A d \in published : d.id # n + 1 /\ d.id \in 1..n
  BY <1>1, NextNumber DEF GraphOK
<1>3. /\ c = [id |-> n + 1, author |-> p, parents |-> Heads(mem[p].commits), change |-> change]
      /\ c.id = n + 1 /\ c.author = p /\ c.parents = Heads(mem[p].commits) /\ c.change = change
  BY DEF NewCommit
<1>4. \A i \in Heads(mem[p].commits) : \E d \in published : d.id = i
  BY <1>1, HeadsAmong DEF StateOK, Closed
<1>5. Heads(mem[p].commits) \subseteq Nat
  BY <1>2, <1>4
<1>6. c \in Commit
  BY <1>2, <1>3, <1>5 DEF Commit
<1> HIDE DEF c
<1>7. Extends(published, c)
  BY <1>3, <1>4, <1>6 DEF Extends
<1>8. c \notin published
  BY <1>2, <1>3
<1>9. IsOwn(published \cup {c}, p, c)
  <2>1. ASSUME NEW d \in published \cup {c} PROVE d.id <= c.id
    <3>1. CASE d = c
      BY <1>2, <1>3, <3>1
    <3>2. CASE d \in published
      <4>1. d.id \in 1..n
        BY <1>2, <3>2
      <4> QED BY <1>2, <1>3, <4>1
    <3> QED BY <3>1, <3>2
  <2> QED BY <1>3, <2>1 DEF IsOwn
<1> QED BY <1>3, <1>7, <1>8, <1>9 DEF c

\* The call goes on to integrate what it has published.
LEMMA ToIntegrate ==
  ASSUME BaseInv, NEW p \in Clients, pc[p] = "publish",
         NEW change \in Doc \cup {Deleted}, published' = published \cup {NewCommit(p, change)},
         Goto(p, "integrate"), UNCHANGED <<file, mem, disk, runVars, boundVars, historyVars>>,
         Longer(line, line'), change # Deleted => Within(line', change),
         IsPresent(batch[p].state) <=> change # Deleted,
         IsPresent(batch[p].state) =>
           ContentIn(line', Merge({batch[p].doc, change})) = batch[p].state.content
  PROVE  BaseInv'
<1>1. PICK c : /\ c = NewCommit(p, change)
               /\ Extends(published, c) /\ c.author = p /\ c.change = change
               /\ c.parents = Heads(mem[p].commits) /\ c \notin published
               /\ IsOwn(published \cup {c}, p, c)
  BY NewCommitFacts
<1>2. IsLine(line) /\ GraphOK(published) /\ published \subseteq Commit
  BY DEF BaseInv, TypeOK
<1>3. line' \in Seq(Item) /\ published' \subseteq Commit /\ published' = published \cup {c}
  BY <1>1, <1>2, LongerFacts DEF IsLine, Extends
<1>4. Changed(p, mem[p], disk[p], "integrate", listing[p], plan[p], batch[p])
  BY ClientTypes DEF Changed, Goto, runVars
<1>5. Sets(p) /\ mem'[p] = mem[p] /\ disk'[p] = disk[p] /\ pc'[p] = "integrate" /\ batch'[p] = batch[p]
  BY <1>4, ClientTypes, ChangedSets DEF Labels
<1>6. SideTypes'
  BY ClientTypes DEF SideTypes, boundVars, historyVars
<1>7. TypeOK' /\ Others(p)
  BY <1>3, <1>5, <1>6, StepTypes
<1>8. StateOK(published, mem[p]) /\ StateOK(published, disk[p])
      /\ CallOK(line, published, p, mem[p], "publish", listing[p], plan[p], batch[p])
  BY ClientTypes
<1>9. StateOK(published', mem[p]) /\ StateOK(published', disk[p])
  BY <1>1, <1>2, <1>3, <1>8, StateGrows
<1>10. CallOK(line', published', p, mem[p], "integrate", listing'[p], plan'[p], batch[p])
  <2>1. batch[p] \in Batch /\ (IsPresent(batch[p].state) =>
           batch[p].doc = TextDoc(mem[p].commits) \/ (~batch[p].user /\ batch[p].doc = Stored(mem[p])))
    BY <1>8 DEF CallOK
  <2>2. c \notin mem[p].commits
    BY <1>1, <1>8 DEF StateOK, Closed
  <2>3. /\ c \in published' /\ IsOwn(published', p, c)
        /\ c.parents = Heads(mem[p].commits) /\ c \notin mem[p].commits
        /\ IsPresent(batch[p].state) <=> c.change # Deleted
        /\ IsPresent(batch[p].state) =>
             ContentIn(line', Merge({batch[p].doc, c.change})) = batch[p].state.content
    BY <1>1, <1>3, <2>2
  <2> QED BY <2>1, <2>3 DEF CallOK
<1>11. ClientOK(p)'
  BY <1>5, <1>9, <1>10 DEF ClientOK
<1>12. c.change # Deleted => Within(line', c.change)
  BY <1>1
<1> QED BY <1>1, <1>3, <1>7, <1>11, <1>12, PublishFrame

LEMMA PublishDeleteBase ==
  ASSUME BaseInv, NEW p \in Clients, PublishDelete(p)
  PROVE  BaseInv'
<1>1. ~IsPresent(Deleted) /\ batch[p].state = Deleted /\ pc[p] = "publish" /\ line' = line
      /\ Goto(p, "integrate") /\ UNCHANGED <<file, mem, disk, runVars, boundVars, historyVars>>
      /\ published' = published \cup {NewCommit(p, Deleted)}
  BY Presence DEF PublishDelete
<1>2. Longer(line, line')
  BY <1>1 DEF Longer
<1> QED BY <1>1, <1>2, ToIntegrate

\* The parts of an update are on the line it makes.
LEMMA ChangesFacts ==
  ASSUME NEW L, IsLine(L), NEW u, NEW spot, NEW doc, NEW new \in Text, NEW d, NEW n, NEW g,
         Changes(u, spot, L, doc, new, d, n, g)
  PROVE  /\ u.ins \subseteq 1..Len(L) + Len(u.items) /\ u.del \subseteq 1..Len(L)
         /\ u.ins = {Len(L) + i : i \in 1..Len(u.items)}
         /\ u.del \subseteq doc.ins \ doc.del
         /\ spot \in 0..Len(L) /\ NewItems(L, u.items)
         /\ Longer(L, Grown(L, spot, u.items))
         /\ Len(Grown(L, spot, u.items)) = Len(L) + Len(u.items)
<1>1. /\ n \in Nat /\ Lists(g, n, At(L, doc)) /\ Splices(d, ContentIn(L, doc), new)
      /\ u.ins = {Len(L) + i : i \in 1..Len(d.insert)}
      /\ u.del = {L[g[k]].id : k \in d.start+1 .. d.start+d.remove}
      /\ NewItems(L, u.items) /\ Len(u.items) = Len(d.insert) /\ spot \in 0..Len(L)
  BY DEF Changes
<1>2. L \in Seq(Item) /\ u.items \in Seq(Item) /\ Len(L) \in Nat /\ Len(u.items) \in Nat
  BY <1>1, LenProperties DEF IsLine, NewItems
<1>3. Len(ContentIn(L, doc)) = n
  BY <1>1, <1>2, ListedContent
<1>4. PICK a \in Nat, r \in Nat : a = d.start /\ r = d.remove /\ a + r <= n
  BY <1>1, <1>3 DEF Splices
<1>5. u.del \subseteq 1..Len(L) /\ u.del \subseteq doc.ins \ doc.del
  <2>1. ASSUME NEW k \in a+1..a+r PROVE L[g[k]].id \in 1..Len(L) /\ L[g[k]].id \in doc.ins \ doc.del
    <3>1. k \in 1..n
      BY <1>1, <1>4
    <3>2. g[k] \in At(L, doc)
      BY <1>1, <3>1 DEF Lists
    <3> QED BY <3>2 DEF At, IsLine
  <2> QED BY <1>1, <1>4, <2>1
<1>6. u.ins \subseteq 1..Len(L) + Len(u.items)
  BY <1>1, <1>2
<1>7. Longer(L, Grown(L, spot, u.items))
  BY <1>1 DEF Longer
<1>8. Len(Grown(L, spot, u.items)) = Len(L) + Len(u.items)
  BY <1>1, <1>2, GrownParts
<1> QED BY <1>1, <1>5, <1>6, <1>7, <1>8

\* What PublishText does, in terms of the update.
LEMMA PublishTextFacts ==
  ASSUME BaseInv, NEW p \in Clients, PublishText(p)
  PROVE  \E u, spot, d, n, g :
           /\ u = Update(batch[p].doc, batch[p].state.content)
           /\ Changes(u, spot, line, batch[p].doc, batch[p].state.content, d, n, g)
           /\ line' = Grown(line, spot, u.items)
           /\ published' = published \cup {NewCommit(p, [ins |-> u.ins, del |-> u.del])}
           /\ batch[p].state.content \in Text /\ Within(line, batch[p].doc)
           /\ IsPresent(batch[p].state)
<1>1. IsLine(line)
  BY DEF BaseInv
<1>2. /\ pc[p] = "publish" /\ IsPresent(batch[p].state)
      /\ \E spot \in Update(batch[p].doc, batch[p].state.content).spots :
           line' = InsertAt(spot, Update(batch[p].doc, batch[p].state.content).items)
      /\ published' = published \cup {NewCommit(p,
           [ins |-> Update(batch[p].doc, batch[p].state.content).ins,
            del |-> Update(batch[p].doc, batch[p].state.content).del])}
  BY DEF PublishText
<1>3. batch[p] \in Batch /\ (batch[p].doc = TextDoc(mem[p].commits) \/ batch[p].doc = Stored(mem[p]))
  BY <1>2, ClientTypes DEF CallOK
<1>4. batch[p].state.content \in Text
  BY <1>2, <1>3, Presence, PresentTexts DEF Batch
<1>5. Within(line, batch[p].doc)
  BY <1>3, KnownDocs
<1>6. PICK spot \in Update(batch[p].doc, batch[p].state.content).spots :
           line' = InsertAt(spot, Update(batch[p].doc, batch[p].state.content).items)
  BY <1>2
<1>7. PICK doc, new, u : /\ doc = batch[p].doc /\ new = batch[p].state.content
                         /\ u = Update(doc, new) /\ new \in Text
  BY <1>4
<1>8. \E d, n, g : Changes(u, spot, line, doc, new, d, n, g)
  BY <1>1, <1>6, <1>7, UpdateChanges
<1>9. line' = Grown(line, spot, u.items)
  BY <1>6, <1>7 DEF Grown, InsertAt
<1> QED BY <1>2, <1>4, <1>5, <1>7, <1>8, <1>9

LEMMA PublishTextBase ==
  ASSUME BaseInv, NEW p \in Clients, PublishText(p)
  PROVE  BaseInv'
<1>1. PICK u, spot, d, n, g :
           /\ u = Update(batch[p].doc, batch[p].state.content)
           /\ Changes(u, spot, line, batch[p].doc, batch[p].state.content, d, n, g)
           /\ line' = Grown(line, spot, u.items)
           /\ published' = published \cup {NewCommit(p, [ins |-> u.ins, del |-> u.del])}
           /\ batch[p].state.content \in Text /\ Within(line, batch[p].doc)
           /\ IsPresent(batch[p].state)
  BY PublishTextFacts
<1>2. PICK doc, new : doc = batch[p].doc /\ new = batch[p].state.content
  OBVIOUS
<1>3. IsLine(line) /\ Changes(u, spot, line, doc, new, d, n, g) /\ new \in Text /\ Within(line, doc)
  BY <1>1, <1>2 DEF BaseInv
<1>4. /\ u.ins \subseteq 1..Len(line) + Len(u.items) /\ u.del \subseteq 1..Len(line)
      /\ Longer(line, line') /\ Len(line') = Len(line) + Len(u.items)
  BY <1>1, <1>3, ChangesFacts
<1>5. Len(line) \in Nat /\ Len(line') \in Nat /\ Len(line) <= Len(line')
  BY <1>3, <1>4, LongerFacts
<1>6. PICK change : change = [ins |-> u.ins, del |-> u.del]
  OBVIOUS
<1>7. change.ins = u.ins /\ change.del = u.del /\ change # Deleted
  BY <1>6 DEF Deleted
<1>8. Within(line', change)
  <2>1. u.ins \subseteq 1..Len(line') /\ u.del \subseteq 1..Len(line')
    BY <1>4, <1>5
  <2>2. u.ins \subseteq Nat /\ u.del \subseteq Nat
    BY <1>5, <2>1
  <2>3. change \in Doc
    BY <1>6, <2>2 DEF Doc
  <2> QED BY <1>7, <2>1, <2>3 DEF Within
<1>9. ContentIn(line', Merge({doc, change})) = new
  BY <1>1, <1>3, <1>7, SetTextContent
<1>10. change \in Doc \cup {Deleted}
  BY <1>8 DEF Within
<1>11. /\ pc[p] = "publish" /\ Goto(p, "integrate")
       /\ UNCHANGED <<file, mem, disk, runVars, boundVars, historyVars>>
  BY DEF PublishText
<1>12. published' = published \cup {NewCommit(p, change)}
  BY <1>1, <1>6
<1>13. ContentIn(line', Merge({batch[p].doc, change})) = batch[p].state.content
  BY <1>2, <1>9
<1> QED BY <1>1, <1>4, <1>7, <1>8, <1>10, <1>11, <1>12, <1>13, ToIntegrate

\* The states and versions an integration records.
LEMMA IntegrateTypes ==
  ASSUME BaseInv, NEW p \in Clients, pc[p] = "integrate"
  PROVE  /\ batch[p] \in Batch /\ batch[p].state \in PresentText \cup {Deleted}
         /\ batch[p].version \in Nat /\ file[p].version + 1 \in Nat
         /\ Present(Content(TextDoc(Integrated(p)))) \in PresentText
         /\ file \in [Clients -> Resource] /\ SideTypes
<1>1. batch[p] \in Batch
  BY ClientTypes DEF CallOK
<1>2. file[p] \in Resource /\ SideTypes
  BY ClientTypes
<1>3. file[p].version + 1 \in Nat
  BY <1>2 DEF Resource
<1>4. Content(TextDoc(Integrated(p))) \in Text
  BY ContentOfLine, ContentChars DEF BaseInv, IsLine
<1> QED BY <1>1, <1>2, <1>3, <1>4, PresentTexts DEF Batch, SideTypes

LEMMA IntegrateDeleteBase ==
  ASSUME BaseInv, NEW p \in Clients, IntegrateDelete(p)
  PROVE  BaseInv'
<1>1. pc[p] = "integrate" /\ Goto(p, "save")
      /\ mem' = [mem EXCEPT ![p] = Baselined(p, Integrated(p), Deleted, 0)]
      /\ UNCHANGED <<line, file, published, disk, runVars, boundVars, historyVars>>
  BY DEF IntegrateDelete
<1>2. Closed(published, Integrated(p)) /\ mem[p].commits \subseteq Integrated(p)
  BY <1>1, IntegratedFacts
<1>3. StateOK(published, Baselined(p, Integrated(p), Deleted, 0))
  BY <1>2, BaselinedOK
<1>4. SideTypes'
  BY <1>1, IntegrateTypes DEF SideTypes, boundVars, historyVars
<1> QED BY <1>1, <1>3, <1>4, ToSave

LEMMA IntegrateUserBase ==
  ASSUME BaseInv, NEW p \in Clients, IntegrateUser(p)
  PROVE  BaseInv'
<1>1. PICK m : m = Baselined(p, Integrated(p), batch[p].state, batch[p].version)
  OBVIOUS
<1>2. pc[p] = "integrate" /\ Goto(p, "save") /\ unrecorded' = unrecorded \cup {p}
      /\ mem' = [mem EXCEPT ![p] =
           [m EXCEPT !.conflict = IF batch[p].settles THEN NoConflict ELSE @]]
      /\ UNCHANGED <<line, file, published, disk, runVars, boundVars, cut, split>>
  BY <1>1 DEF IntegrateUser
<1>3. Closed(published, Integrated(p)) /\ mem[p].commits \subseteq Integrated(p)
  BY <1>2, IntegratedFacts
<1>4. StateOK(published, m)
  BY <1>1, <1>2, <1>3, IntegrateTypes, BaselinedOK
<1>5. NoConflict \in [heads : SUBSET Nat, local : Resource]
  BY DEF NoConflict, Nothing, Resource
<1>6. PICK k : k = [m EXCEPT !.conflict = IF batch[p].settles THEN NoConflict ELSE @]
  OBVIOUS
<1>7. m \in RuntimeState
  BY <1>4 DEF StateOK
<1>8. k \in RuntimeState /\ k.commits = m.commits /\ k.text = m.text /\ k.baseline = m.baseline
  BY <1>5, <1>6, <1>7 DEF RuntimeState
<1>9. StateOK(published, k)
  BY <1>4, <1>8 DEF StateOK
<1>10. SideTypes'
  BY <1>2, IntegrateTypes DEF SideTypes, boundVars
<1> QED BY <1>2, <1>6, <1>9, <1>10, ToSave

LEMMA IntegrateTextBase ==
  ASSUME BaseInv, NEW p \in Clients, IntegrateText(p)
  PROVE  BaseInv'
<1>1. PICK s : s = Present(Content(TextDoc(Integrated(p))))
  OBVIOUS
<1>2. pc[p] = "integrate" /\ Goto(p, "save") /\ unrecorded' = unrecorded \ {p}
      /\ mem' = [mem EXCEPT ![p] = Reconciled(p, Integrated(p), s, file[p].version + 1)]
      /\ file' = Written(p, s)
      /\ UNCHANGED <<line, published, disk, runVars, boundVars, cut, split>>
  BY <1>1 DEF IntegrateText, Record
<1>3. s \in PresentText /\ file[p].version + 1 \in Nat /\ SideTypes
  BY <1>1, <1>2, IntegrateTypes
<1>4. Closed(published, Integrated(p)) /\ mem[p].commits \subseteq Integrated(p)
  BY <1>2, IntegratedFacts
<1>5. StateOK(published, Reconciled(p, Integrated(p), s, file[p].version + 1))
  BY <1>3, <1>4, BaselinedOK
<1>6. file' \in [Clients -> Resource]
  BY <1>2, <1>3, WrittenTypes DEF SideTypes
<1>7. SideTypes'
  BY <1>2, <1>3, <1>6 DEF SideTypes, boundVars
<1> QED BY <1>2, <1>5, <1>7, ToSave

LEMMA IntegrateRefusedBase ==
  ASSUME BaseInv, NEW p \in Clients, IntegrateRefused(p)
  PROVE  BaseInv'
<1>1. pc[p] = "integrate" /\ Goto(p, "save") /\ unrecorded' = unrecorded \cup {p}
      /\ mem' = [mem EXCEPT ![p] = [mem[p] EXCEPT !.commits = Integrated(p)]]
      /\ UNCHANGED <<line, file, published, disk, runVars, boundVars, cut, split>>
  BY DEF IntegrateRefused
<1>2. Closed(published, Integrated(p)) /\ mem[p].commits \subseteq Integrated(p)
  BY <1>1, IntegratedFacts
<1>3. Integrated(p) \subseteq Commit
  BY <1>2 DEF Closed, BaseInv, GraphOK
<1>4. mem[p] \in RuntimeState /\ StateOK(published, mem[p])
  BY ClientTypes
<1>5. PICK m : m = [mem[p] EXCEPT !.commits = Integrated(p)]
  OBVIOUS
<1>6. m \in RuntimeState /\ m.commits = Integrated(p) /\ m.text = mem[p].text
      /\ m.baseline = mem[p].baseline
  BY <1>3, <1>4, <1>5 DEF RuntimeState
<1>7. mem[p].text # NoText =>
        /\ mem[p].baseline.state # NoBaseline
        /\ \E C \in SUBSET Integrated(p) : Closed(published, C) /\ mem[p].text = TextDoc(C)
  BY <1>2, <1>4 DEF StateOK
<1>8. StateOK(published, m)
  BY <1>2, <1>6, <1>7 DEF StateOK
<1>9. SideTypes'
  BY <1>1, IntegrateTypes DEF SideTypes, boundVars
<1> QED BY <1>1, <1>5, <1>8, <1>9, ToSave

\* What a call does at its end is planned against what the client knows.
LEMMA ApplyFacts ==
  ASSUME BaseInv, NEW p \in Clients, pc[p] \in {"read", "apply"}
  PROVE  LET l == listing[p].state
             b == mem[p].baseline.state
             r == RemoteState(mem[p].commits)
         IN  /\ plan[p] = Planned(l, b, r)
             /\ l \in PresentText \cup {Missing}
             /\ b \in PresentText \cup {Deleted, NoBaseline}
             /\ r \in PresentText \cup {Missing, Deleted, Forked}
             /\ listing[p].version \in Nat /\ file[p].version + 1 \in Nat
             /\ Closed(published, mem[p].commits) /\ SideTypes
<1>1. /\ listing[p] \in Resource /\ file[p] \in Resource /\ mem[p] \in RuntimeState /\ SideTypes
      /\ StateOK(published, mem[p])
      /\ CallOK(line, published, p, mem[p], pc[p], listing[p], plan[p], batch[p])
  BY ClientTypes
<1>2. RemoteState(mem[p].commits) = RemoteIn(line, mem[p].commits)
  BY RemoteOfLine
<1>3. RemoteIn(line, mem[p].commits) \in PresentText \cup {Missing, Deleted, Forked}
  BY RemoteFacts DEF BaseInv
<1>4. listing[p].state \in PresentText \cup {Missing} /\ listing[p].version \in Nat
  BY <1>1 DEF Resource
<1>5. mem[p].baseline.state \in PresentText \cup {Deleted, NoBaseline}
  BY <1>1 DEF RuntimeState, Baseline
<1>6. plan[p] = Planned(listing[p].state, mem[p].baseline.state, RemoteIn(line, mem[p].commits))
  BY <1>1 DEF CallOK
<1>7. file[p].version + 1 \in Nat
  BY <1>1 DEF Resource
<1> QED BY <1>1, <1>2, <1>3, <1>4, <1>5, <1>6, <1>7 DEF StateOK


\* What a plan says of the three states it is made from.
LEMMA PlanMeans ==
  ASSUME BaseInv, NEW p \in Clients, pc[p] \in {"read", "apply"}
  PROVE  LET l == listing[p].state
             b == mem[p].baseline.state
             r == RemoteState(mem[p].commits)
         IN  /\ plan[p] = Op("Upload") => IsPresent(l)
             /\ plan[p] = Op("PublishDelete") => ~IsPresent(l) /\ IsPresent(r) /\ b = r
             /\ plan[p] = Op("Download") => IsPresent(r) /\ (IsPresent(l) => b = l)
             /\ plan[p] = Op("ApplyDelete") => r = Deleted /\ IsPresent(l) /\ b = l
             /\ plan[p] = Op("EstablishBaseline") => IsPresent(r) /\ l = r
<1>1. PICK l \in PresentText \cup {Missing}, b \in PresentText \cup {Deleted, NoBaseline},
           r \in PresentText \cup {Missing, Deleted, Forked} :
        /\ l = listing[p].state /\ b = mem[p].baseline.state
        /\ r = RemoteState(mem[p].commits) /\ plan[p] = Planned(l, b, r)
  BY ApplyFacts
<1>2. /\ Planned(l, b, r) = Op("Upload") => IsPresent(l)
      /\ Planned(l, b, r) = Op("PublishDelete") => ~IsPresent(l) /\ IsPresent(r) /\ b = r
      /\ Planned(l, b, r) = Op("Download") => IsPresent(r) /\ (IsPresent(l) => b = l)
      /\ Planned(l, b, r) = Op("ApplyDelete") => r = Deleted /\ IsPresent(l) /\ b = l
      /\ Planned(l, b, r) = Op("EstablishBaseline") => IsPresent(r) /\ l = r
  BY PlannedFacts
<1> QED BY <1>1, <1>2

LEMMA DownloadBase ==
  ASSUME BaseInv, NEW p \in Clients, Download(p)
  PROVE  BaseInv'
<1>1. PICK C, s, t : /\ C = mem[p].commits /\ s = Present(Content(TextDocAt(C, FirstHead(C).id)))
                     /\ t = RemoteState(C)
  OBVIOUS
<1>2. /\ pc[p] = "apply" /\ plan[p] = Op("Download") /\ Goto(p, "save")
      /\ mem' = [mem EXCEPT ![p] = Reconciled(p, C, t, file[p].version + 1)]
      /\ unrecorded' = unrecorded \ {p}
      /\ split' = (IF s = t THEN split ELSE split \cup {p})
      /\ file' = Written(p, s)
      /\ UNCHANGED <<line, published, disk, runVars, boundVars, cut>>
  BY <1>1 DEF Download, Record
<1>3. /\ plan[p] = Planned(listing[p].state, mem[p].baseline.state, t)
      /\ listing[p].state \in PresentText \cup {Missing}
      /\ mem[p].baseline.state \in PresentText \cup {Deleted, NoBaseline}
      /\ t \in PresentText \cup {Missing, Deleted, Forked}
      /\ file[p].version + 1 \in Nat /\ Closed(published, C) /\ SideTypes
  BY <1>1, <1>2, ApplyFacts
<1>4. IsPresent(t)
  BY <1>1, <1>2, PlanMeans
<1>5. t \in PresentText
  BY <1>3, <1>4, Presence
<1>6. StateOK(published, Reconciled(p, C, t, file[p].version + 1))
  BY <1>1, <1>3, <1>5, BaselinedOK
<1>7. s \in PresentText
  <2>1. Content(TextDocAt(C, FirstHead(C).id)) \in Text
    BY ContentOfLine, ContentChars DEF BaseInv, IsLine
  <2> QED BY <1>1, <2>1, PresentTexts
<1>8. file' \in [Clients -> Resource]
  BY <1>2, <1>3, <1>7, WrittenTypes DEF SideTypes
<1>9. SideTypes'
  BY <1>2, <1>3, <1>8 DEF SideTypes, boundVars
<1> QED BY <1>2, <1>6, <1>9, ToSave

LEMMA ApplyDeleteBase ==
  ASSUME BaseInv, NEW p \in Clients, ApplyDelete(p) \/ EstablishDeletedBaseline(p)
  PROVE  BaseInv'
<1>1. /\ pc[p] = "apply" /\ Goto(p, "save")
      /\ mem' = [mem EXCEPT ![p] = Baselined(p, mem[p].commits, Deleted, 0)]
      /\ file' \in {file, Written(p, Missing)}
      /\ UNCHANGED <<line, published, disk, runVars, boundVars, historyVars>>
  BY DEF ApplyDelete, EstablishDeletedBaseline
<1>2. Closed(published, mem[p].commits) /\ SideTypes
  BY <1>1, ApplyFacts
<1>3. StateOK(published, Baselined(p, mem[p].commits, Deleted, 0))
  BY <1>2, BaselinedOK
<1>4. file' \in [Clients -> Resource]
  BY <1>1, <1>2, WrittenTypes DEF SideTypes
<1>5. SideTypes'
  BY <1>1, <1>2, <1>4 DEF SideTypes, boundVars, historyVars
<1> QED BY <1>1, <1>3, <1>5, ToSave

LEMMA EstablishBaselineBase ==
  ASSUME BaseInv, NEW p \in Clients, EstablishBaseline(p)
  PROVE  BaseInv'
<1>1. PICK C, s, v, t : /\ C = mem[p].commits /\ s = listing[p].state /\ v = listing[p].version
                        /\ t = RemoteState(C)
  OBVIOUS
<1>2. /\ pc[p] = "apply" /\ plan[p] = Op("EstablishBaseline") /\ Goto(p, "save")
      /\ mem' = [mem EXCEPT ![p] = Reconciled(p, C, s, v)] /\ unrecorded' = unrecorded \ {p}
      /\ UNCHANGED <<line, file, published, disk, runVars, boundVars, cut, split>>
  BY <1>1 DEF EstablishBaseline, Record
<1>3. /\ plan[p] = Planned(s, mem[p].baseline.state, t)
      /\ s \in PresentText \cup {Missing}
      /\ mem[p].baseline.state \in PresentText \cup {Deleted, NoBaseline}
      /\ t \in PresentText \cup {Missing, Deleted, Forked}
      /\ v \in Nat /\ Closed(published, C) /\ SideTypes
  BY <1>1, <1>2, ApplyFacts
<1>4. IsPresent(t) /\ s = t
  BY <1>1, <1>2, PlanMeans
<1>5. s \in PresentText
  BY <1>3, <1>4, Presence
<1>6. StateOK(published, Reconciled(p, C, s, v))
  BY <1>1, <1>3, <1>5, BaselinedOK
<1>7. SideTypes'
  BY <1>2, <1>3 DEF SideTypes, boundVars
<1> QED BY <1>2, <1>6, <1>7, ToSave

LEMMA SaveBase ==
  ASSUME BaseInv, NEW p \in Clients, Save(p)
  PROVE  BaseInv'
<1>1. PICK m : m = mem[p] /\ StateOK(published, m) /\ mem = [mem EXCEPT ![p] = m] /\ SideTypes
  BY ClientTypes
<1>2. /\ Forget(p) /\ disk' = [disk EXCEPT ![p] = m] /\ mem' = mem
      /\ UNCHANGED <<line, file, published, boundVars, historyVars>>
  BY <1>1 DEF Save
<1>3. SideTypes'
  BY <1>1, <1>2 DEF SideTypes, boundVars, historyVars
<1> QED BY <1>1, <1>2, <1>3, ToIdle

LEMMA FailBase ==
  ASSUME BaseInv, NEW p \in Clients, Fail(p)
  PROVE  BaseInv'
<1>1. PICK m, n : /\ m = mem[p] /\ StateOK(published, m) /\ mem = [mem EXCEPT ![p] = m]
                  /\ n = disk[p] /\ StateOK(published, n) /\ disk = [disk EXCEPT ![p] = n] /\ SideTypes
  BY ClientTypes
<1>2. /\ Forget(p) /\ disk' = disk /\ mem' = mem /\ faults' = faults + 1
      /\ unrecorded' \subseteq unrecorded \cup {p}
      /\ UNCHANGED <<line, file, published, acts, cut, split>>
  BY DEF Fail, Fault
<1>3. SideTypes'
  BY <1>1, <1>2 DEF SideTypes
<1> QED BY <1>1, <1>2, <1>3, ToIdle

LEMMA CrashBase ==
  ASSUME BaseInv, NEW p \in Clients, Crash(p)
  PROVE  BaseInv'
<1>1. PICK n : n = disk[p] /\ StateOK(published, n) /\ disk = [disk EXCEPT ![p] = n] /\ SideTypes
  BY ClientTypes
<1>2. /\ Forget(p) /\ disk' = disk /\ mem' = [mem EXCEPT ![p] = n] /\ faults' = faults + 1
      /\ unrecorded' \subseteq unrecorded \cup {p}
      /\ UNCHANGED <<line, file, published, acts, cut, split>>
  BY <1>1 DEF Crash, Fault
<1>3. SideTypes'
  BY <1>1, <1>2 DEF SideTypes
<1> QED BY <1>1, <1>2, <1>3, ToIdle

---------------------------------------------------------------------------
(* The invariant of the specification.                                     *)

LEMMA BaseInit == ASSUME Init PROVE BaseInv
<1>1. /\ FreshState \in RuntimeState /\ FreshState.commits = {} /\ FreshState.text = NoText
  <2>1. NoConflict \in [heads : SUBSET Nat, local : Resource]
    BY DEF NoConflict, Nothing, Resource
  <2>2. [state |-> NoBaseline, version |-> 0, heads |-> {}] \in Baseline
    BY DEF Baseline
  <2> QED BY <2>1, <2>2 DEF FreshState, RuntimeState
<1>2. Nothing \in Resource /\ Op("Noop") \in PlanOperation
  BY DEF Nothing, Resource, PlanOperation
<1>3. IsLine(line) /\ line \in Seq(Item)
  BY DEF Init, IsLine
<1>4. GraphOK(published) /\ ChangesWithin(line, published)
  <2>1. IsFiniteSet(published)
    BY FS_EmptySet DEF Init
  <2> QED BY <2>1 DEF Init, GraphOK, ChangesWithin
<1>5. TypeOK
  <2>1. /\ file \in [Clients -> Resource] /\ listing \in [Clients -> Resource]
        /\ plan \in [Clients -> PlanOperation] /\ published \subseteq Commit
    BY <1>2 DEF Init
  <2>2. mem \in [Clients -> RuntimeState] /\ disk \in [Clients -> RuntimeState]
    BY <1>1 DEF Init
  <2>3. batch \in [Clients -> Batch \cup {NoBatch}]
        /\ pc \in [Clients -> {"idle", "read", "publish", "integrate", "apply", "save"}]
    BY DEF Init
  <2>4. acts \in Nat /\ faults \in Nat /\ cut \subseteq Nat
        /\ split \subseteq Clients /\ unrecorded \subseteq Clients
    BY DEF Init
  <2> QED BY <1>3, <2>1, <2>2, <2>3, <2>4 DEF TypeOK
<1>6. StateOK(published, FreshState)
  BY <1>1 DEF StateOK, Closed, Init
<1>7. ASSUME NEW p \in Clients PROVE ClientOK(p)
  <2>1. mem[p] = FreshState /\ disk[p] = FreshState /\ pc[p] = "idle"
    BY DEF Init
  <2> QED BY <1>6, <2>1, RestCall DEF ClientOK
<1> QED BY <1>3, <1>4, <1>5, <1>7 DEF BaseInv

LEMMA BaseStep ==
  ASSUME BaseInv, [Next]_vars
  PROVE  BaseInv'
<1>1. CASE UNCHANGED vars
  <2>1. TypeOK'
    BY <1>1 DEF vars, runVars, boundVars, historyVars, BaseInv, TypeOK
  <2>2. \A p \in Clients : ClientOK(p)'
    BY <1>1 DEF vars, runVars, BaseInv, ClientOK
  <2> QED BY <1>1, <2>1, <2>2 DEF vars, BaseInv
<1>2. CASE Next
  <2>1. PICK p \in Clients : Begin(p) \/ Step(p) \/ User(p) \/ Fail(p) \/ Crash(p)
    BY <1>2 DEF Next
  <2>2. CASE Begin(p)
    BY <2>2, BeginBase
  <2>3. CASE Step(p)
    <3>1. CASE ReadUpload(p) \/ ReadMerged(p) \/ ReadConflict(p) \/ ReadDelete(p) \/ ReadChanged(p)
      BY <3>1, ReadUploadBase, ReadMergedBase, ReadConflictBase, ReadDeleteBase, EndBase
    <3>2. CASE PublishDelete(p) \/ PublishText(p)
      BY <3>2, PublishDeleteBase, PublishTextBase
    <3>3. CASE IntegrateDelete(p) \/ IntegrateUser(p) \/ IntegrateText(p) \/ IntegrateRefused(p)
      BY <3>3, IntegrateDeleteBase, IntegrateUserBase, IntegrateTextBase, IntegrateRefusedBase
    <3>4. CASE Download(p) \/ ApplyDelete(p) \/ EstablishBaseline(p) \/ EstablishDeletedBaseline(p)
      BY <3>4, DownloadBase, ApplyDeleteBase, EstablishBaselineBase
    <3>5. CASE Skip(p) \/ Save(p)
      BY <3>5, EndBase, SaveBase
    <3> QED BY <2>3, <3>1, <3>2, <3>3, <3>4, <3>5 DEF Step
  <2>4. CASE User(p)
    <3>1. CASE Create(p) \/ Remove(p) \/ \E i \in 0..MaxEvents : Type(p, i) \/ Cut(p, i)
      <4>1. \E s \in PresentText \cup {Missing} : Edit(p, s)
        BY <3>1, EditStates
      <4> QED BY <4>1, EditBase
    <3>2. CASE \E c \in mem[p].commits : Rollback(p, c)
      BY <3>2, RollbackBase
    <3>3. CASE Resolve(p)
      BY <3>3, ResolveBase
    <3> QED BY <2>4, <3>1, <3>2, <3>3 DEF User
  <2>5. CASE Fail(p) \/ Crash(p)
    BY <2>5, FailBase, CrashBase
  <2> QED BY <2>1, <2>2, <2>3, <2>4, <2>5
<1> QED BY <1>1, <1>2


\* In every reachable state clients know commits with their ancestors, record
\* documents of such commits and are in a call that fits what they know.
THEOREM BaseHolds == Spec => []BaseInv
<1>1. Init => BaseInv
  BY BaseInit
<1>2. BaseInv /\ [Next]_vars => BaseInv'
  BY BaseStep
<1> QED BY <1>1, <1>2, PTL DEF Spec

\* Every variable keeps its type: a line of characters, a graph of commits and,
\* for each client, a runtime state in memory and on disk and the run it is in.
THEOREM TypeCorrect == Spec => []TypeOK
<1>1. BaseInv => TypeOK
  BY DEF BaseInv
<1> QED BY <1>1, BaseHolds, PTL

\* set_text (text.rs) leaves the document it is given with the text it is
\* given, whoever publishes meanwhile: for texts of any length, of characters
\* of one or two UTF-16 code units of which no two share a unit.
THEOREM SetTextIsExact == Spec => []SetTextExact
<1>1. ASSUME BaseInv PROVE SetTextExact
  <2>1. ASSUME NEW p \in Clients, pc[p] = "integrate", IsPresent(batch[p].state)
        PROVE  Content(Merge({batch[p].doc, Own(p).change})) = batch[p].state.content
    BY <1>1, <2>1, IntegratedFacts, ContentOfLine
  <2> QED BY <2>1 DEF SetTextExact
<1> QED BY <1>1, BaseHolds, PTL

---------------------------------------------------------------------------
(* What a commit can show: a deleted text does not come back.              *)

\* A graph has a head, and commits with their ancestors that include every
\* head are all there are.
LEMMA BelowHead ==
  ASSUME NEW P, GraphOK(P), NEW C, Closed(P, C), HeadCommits(P) \subseteq C
  PROVE  C = P
<1> DEFINE S == {a.id : a \in P \ C}
<1>1. Cardinality(P) \in Nat /\ C \subseteq P
  BY NextNumber DEF Closed
<1>2. S \in SUBSET Nat /\ \A m \in S : m <= Cardinality(P)
  BY <1>1 DEF GraphOK
<1>3. ASSUME S # {} PROVE FALSE
  <2>1. Max(S) \in S /\ \A m \in S : m <= Max(S)
    BY <1>1, <1>2, <1>3, MaxExists
  <2>2. PICK a \in P \ C : a.id = Max(S)
    BY <2>1
  <2>3. a \notin HeadCommits(P)
    BY <2>2
  <2>4. PICK b \in P : a.id \in b.parents
    BY <2>2, <2>3 DEF HeadCommits
  <2>5. b \in C => a \in C
    BY <2>2, <2>4 DEF Closed
  <2>6. b.id \in S
    BY <2>2, <2>5
  <2>7. a.id < b.id /\ a.id \in Nat /\ b.id \in Nat
    BY <2>2, <2>4 DEF GraphOK
  <2> QED BY <2>1, <2>2, <2>6, <2>7
<1> QED BY <1>1, <1>3

\* A graph without heads is empty.
LEMMA NoHead ==
  ASSUME NEW P, GraphOK(P), HeadCommits(P) = {}
  PROVE  P = {}
<1>1. Closed(P, {})
  BY DEF Closed
<1> QED BY <1>1, BelowHead

\* The characters of the line after an insertion are the old ones and the new.
LEMMA GrownItems ==
  ASSUME NEW L, IsLine(L), NEW items, NewItems(L, items), NEW spot \in 0..Len(L)
  PROVE  /\ \A j \in 1..Len(Grown(L, spot, items)) :
              \/ \E i \in 1..Len(L) : Grown(L, spot, items)[j] = L[i]
              \/ \E k \in 1..Len(items) : Grown(L, spot, items)[j] = items[k]
         /\ \A i \in 1..Len(L) : \E j \in 1..Len(Grown(L, spot, items)) : Grown(L, spot, items)[j] = L[i]
         /\ \A k \in 1..Len(items) :
              \E j \in 1..Len(Grown(L, spot, items)) : Grown(L, spot, items)[j] = items[k]
<1>1. PICK l \in Nat, m \in Nat : l = Len(L) /\ m = Len(items)
  BY LenProperties DEF IsLine, NewItems
<1>2. PICK G : G = Grown(L, spot, items)
  OBVIOUS
<1>3. L \in Seq(Item) /\ items \in Seq(Item) /\ spot \in 0..l
  BY <1>1 DEF IsLine, NewItems
<1>4. /\ Len(G) = l + m
      /\ \A i \in 1..l : G[Moved(spot, m, i)] = L[i]
      /\ \A k \in 1..m : G[spot + k] = items[k]
  BY <1>1, <1>2, <1>3, GrownParts
<1>5. ASSUME NEW j \in 1..l+m
      PROVE  (\E i \in 1..l : G[j] = L[i]) \/ (\E k \in 1..m : G[j] = items[k])
  <2>1. (\E i \in 1..l : j = Moved(spot, m, i)) \/ (\E k \in 1..m : j = spot + k)
    BY <1>3, MovedCover
  <2> QED BY <1>4, <2>1
<1>6. (\A i \in 1..l : Moved(spot, m, i) \in 1..l+m) /\ \A k \in 1..m : spot + k \in 1..l+m
  BY <1>3, MovedPositions
<1>7. \A i \in 1..l : \E j \in 1..l+m : G[j] = L[i]
  BY <1>4, <1>6
<1>8. \A k \in 1..m : \E j \in 1..l+m : G[j] = items[k]
  BY <1>4, <1>6
<1> QED BY <1>1, <1>2, <1>4, <1>5, <1>7, <1>8

\* The inserted characters are characters of the new text.
LEMMA InsertedChars ==
  ASSUME NEW L, IsLine(L), NEW u, NEW spot, NEW doc, NEW new \in Text, NEW d, NEW n, NEW g,
         Changes(u, spot, L, doc, new, d, n, g)
  PROVE  \A k \in 1..Len(u.items) : u.items[k].char \in Chars(new)
<1>1. /\ Len(u.items) = Len(d.insert) /\ Splices(d, ContentIn(L, doc), new)
      /\ \A i \in 1..Len(d.insert) : u.items[i].char = d.insert[i]
  BY DEF Changes
<1>2. L \in Seq(Item) /\ ContentIn(L, doc) \in Text
  BY ContentChars DEF IsLine
<1>3. PICK a \in Nat, r \in Nat, m \in Nat, N \in Nat, o \in Nat :
        a = d.start /\ r = d.remove /\ m = Len(d.insert) /\ N = Len(new) /\ o = Len(ContentIn(L, doc))
  BY <1>1, <1>2, LenProperties DEF Splices, Text
<1>4. a + r <= o /\ N + r = o + m
  BY <1>1, <1>3 DEF Splices
<1>5. ASSUME NEW k \in 1..m PROVE u.items[k].char \in Chars(new)
  <2>1. u.items[k].char = new[a + k]
    BY <1>1, <1>3 DEF Splices
  <2>2. a + k \in 1..N
    BY <1>4
  <2> QED BY <1>3, <2>1, <2>2 DEF Chars
<1> QED BY <1>1, <1>3, <1>5

\* A commit shows what was shown before and what it inserts.
LEMMA ShownAfter ==
  ASSUME NEW L, IsLine(L), NEW u, NEW spot, NEW doc, NEW new \in Text, NEW d, NEW n, NEW g,
         Changes(u, spot, L, doc, new, d, n, g), NEW E, Within(L, E), NEW F,
         F.ins = E.ins \cup u.ins, E.del \subseteq F.del
  PROVE  Chars(ContentIn(Grown(L, spot, u.items), F)) \subseteq Chars(ContentIn(L, E)) \cup Chars(new)
<1>0. /\ NewItems(L, u.items) /\ spot \in 0..Len(L)
      /\ u.ins = {Len(L) + i : i \in 1..Len(u.items)}
  BY DEF Changes
<1>1. PICK items, G : items = u.items /\ G = Grown(L, spot, items)
  OBVIOUS
<1>2. /\ NewItems(L, items) /\ spot \in 0..Len(L) /\ Longer(L, G)
      /\ u.ins = {Len(L) + i : i \in 1..Len(items)}
  BY <1>0, <1>1 DEF Longer
<1>3. \A k \in 1..Len(items) : items[k].char \in Chars(new)
  BY <1>1, InsertedChars
<1>4. L \in Seq(Item) /\ G \in Seq(Item) /\ Len(L) \in Nat /\ Len(items) \in Nat
  BY <1>2, LongerFacts, LenProperties DEF IsLine, NewItems
<1>5. \A j \in 1..Len(G) :
        (\E i \in 1..Len(L) : G[j] = L[i]) \/ (\E k \in 1..Len(items) : G[j] = items[k])
  <2>1. \A j \in 1..Len(Grown(L, spot, items)) :
           \/ \E i \in 1..Len(L) : Grown(L, spot, items)[j] = L[i]
           \/ \E k \in 1..Len(items) : Grown(L, spot, items)[j] = items[k]
    BY <1>2, GrownItems
  <2> QED BY <1>1, <2>1
<1>6. ASSUME NEW c, c \in Chars(ContentIn(G, F)) PROVE c \in Chars(ContentIn(L, E)) \cup Chars(new)
  <2>1. PICK j \in At(G, F) : G[j].char = c
    BY <1>4, <1>6, ContentChars
  <2>2. j \in 1..Len(G) /\ G[j].id \in F.ins /\ G[j].id \notin F.del
    BY <2>1 DEF At
  <2>3. CASE \E i \in 1..Len(L) : G[j] = L[i]
    <3>1. PICK i \in 1..Len(L) : G[j] = L[i]
      BY <2>3
    <3>2. L[i].id \in 1..Len(L)
      BY DEF IsLine
    <3>3. L[i].id \notin u.ins
      <4>1. PICK l \in Nat, m \in Nat : l = Len(L) /\ m = Len(items)
        BY <1>4
      <4>2. \A k \in 1..m : l + k \notin 1..l
        OBVIOUS
      <4> QED BY <1>2, <3>2, <4>1, <4>2
    <3>4. i \in At(L, E)
      BY <2>2, <3>1, <3>3 DEF At
    <3> QED BY <1>4, <2>1, <3>1, <3>4, ContentChars
  <2>4. CASE \E k \in 1..Len(items) : G[j] = items[k]
    BY <1>3, <2>1, <2>4
  <2> QED BY <1>5, <2>2, <2>3, <2>4
<1> QED BY <1>1, <1>6

\* The document of the graph with one more commit.
LEMMA DocWith ==
  ASSUME NEW P, NEW c, c.change # Deleted
  PROVE  /\ TextDoc(P \cup {c}).ins = TextDoc(P).ins \cup c.change.ins
         /\ TextDoc(P \cup {c}).del = TextDoc(P).del \cup c.change.del
<1>1. Updates(P \cup {c}) = Updates(P) \cup {c.change}
  BY DEF Updates
<1> QED BY <1>1 DEF TextDoc, Merge


\* When every head is a deletion and a text commit leaves no deletion at a head,
\* its author knew the whole graph.
LEMMA OverDeletions ==
  ASSUME NEW P, GraphOK(P), NEW C, Closed(P, C), NEW c, c.parents = Heads(C), c \notin P,
         \A h \in HeadCommits(P) : h.change = Deleted,
         \A h \in HeadCommits(P \cup {c}) : h.change # Deleted
  PROVE  C = P
<1>1. ASSUME NEW h \in HeadCommits(P) PROVE h \in C
  <2>1. h \in P /\ \A d \in P : h.id \notin d.parents
    BY DEF HeadCommits
  <2>2. h.id \in c.parents
    BY <2>1 DEF HeadCommits
  <2>3. PICK a \in C : a.id = h.id
    BY <2>2, HeadsAmong
  <2> QED BY <2>1, <2>3 DEF Closed, GraphOK
<1> QED BY <1>1, BelowHead

\* A client that has recorded all of what it knows works on a document with all
\* characters of the graph it knows.
LEMMA WholeDoc ==
  ASSUME NEW L, NEW P, GraphOK(P), ChangesWithin(L, P), NEW m, StateOK(P, m), NEW b,
         b = TextDoc(m.commits) \/ b = Stored(m),
         b = TextDoc(m.commits)
           \/ TextDoc(m.commits).ins \subseteq (IF m.text = NoText THEN {} ELSE m.text.ins)
  PROVE  TextDoc(m.commits).ins \subseteq b.ins /\ b.del \subseteq TextDoc(m.commits).del
<1>1. CASE b = TextDoc(m.commits)
  BY <1>1
<1>2. CASE b # TextDoc(m.commits) /\ m.text # NoText
  <2>1. b = m.text
    BY <1>2 DEF Stored, StateOK
  <2>2. PICK C \in SUBSET m.commits : m.text = TextDoc(C)
    BY <1>2 DEF StateOK
  <2>3. m.commits \in SUBSET P /\ C \in SUBSET P
    BY <2>2 DEF StateOK, Closed
  <2>4. \A i : i \in TextDoc(C).del => i \in TextDoc(m.commits).del
    BY <2>2, <2>3, DocFacts
  <2> QED BY <1>2, <2>1, <2>2, <2>4
<1>3. CASE b # TextDoc(m.commits) /\ m.text = NoText
  <2>1. b = NewDoc
    BY <1>3 DEF Stored
  <2>2. NewDoc.del = {}
    BY DEF NewDoc
  <2> QED BY <1>3, <2>1, <2>2
<1> QED BY <1>1, <1>2, <1>3

\* What PublishText makes the graph show.
LEMMA PublishShows ==
  ASSUME BaseInv, NEW p \in Clients, PublishText(p),
         batch[p].user \/ TextDoc(mem[p].commits).ins \subseteq Recorded(p)
  PROVE  CharsOf(RemoteIn(line', published')) \subseteq Visible \cup CharsOf(batch[p].state)
<1>1. PICK u, spot, d, n, g :
           /\ u = Update(batch[p].doc, batch[p].state.content)
           /\ Changes(u, spot, line, batch[p].doc, batch[p].state.content, d, n, g)
           /\ line' = Grown(line, spot, u.items)
           /\ published' = published \cup {NewCommit(p, [ins |-> u.ins, del |-> u.del])}
           /\ batch[p].state.content \in Text /\ Within(line, batch[p].doc)
           /\ IsPresent(batch[p].state)
  BY PublishTextFacts
<1>2. PICK L, K, doc, new, P, Q, m, change, c :
        /\ L = line /\ K = line' /\ P = published /\ Q = published' /\ m = mem[p]
        /\ doc = batch[p].doc /\ new = batch[p].state.content
        /\ change = [ins |-> u.ins, del |-> u.del] /\ c = NewCommit(p, change)
  OBVIOUS
<1>3. change.ins = u.ins /\ change.del = u.del /\ change # Deleted
  BY <1>2 DEF Deleted
<1>4. /\ IsLine(L) /\ GraphOK(P) /\ ChangesWithin(L, P) /\ StateOK(P, m)
      /\ Changes(u, spot, L, doc, new, d, n, g) /\ K = Grown(L, spot, u.items)
      /\ Q = P \cup {c} /\ new \in Text /\ Within(L, doc)
  BY <1>1, <1>2, ClientTypes DEF BaseInv
<1>5. c.parents = Heads(m.commits) /\ c.change = change /\ c \notin P
  <2>1. c.parents = Heads(m.commits) /\ c.change = change /\ c.id = Cardinality(P) + 1
    BY <1>2 DEF NewCommit
  <2> QED BY <1>4, <2>1, NextNumber
<1>6. doc = TextDoc(m.commits) \/ (~batch[p].user /\ doc = Stored(m))
  <2>1. pc[p] = "publish" /\ IsPresent(batch[p].state)
    BY DEF PublishText
  <2> QED BY <1>2, <2>1, ClientTypes DEF CallOK
<1>7. Within(L, TextDoc(P))
  BY <1>4, DocFacts
<1>8. PICK E, F, M : E = TextDoc(P) /\ F = TextDoc(Q) /\ M = Merge({doc, change})
  OBVIOUS
<1>9. F.ins = E.ins \cup u.ins /\ F.del = E.del \cup u.del
  BY <1>3, <1>4, <1>5, <1>8, DocWith
<1>10. ContentIn(K, M) = new
  BY <1>3, <1>4, <1>8, SetTextContent
<1>11. IsLine(K) /\ K \in Seq(Item)
  <2>1. Longer(L, K)
    BY <1>4 DEF Longer, Changes
  <2> QED BY <1>4, <2>1, LongerFacts DEF IsLine
<1>12. /\ IsPresent(RemoteIn(K, Q)) => RemoteIn(K, Q) = Present(ContentIn(K, F))
       /\ IsPresent(RemoteIn(K, Q)) => \A h \in HeadCommits(Q) : h.change # Deleted
       /\ RemoteIn(K, Q) \in PresentText \cup {Missing, Deleted, Forked}
  BY <1>8, <1>11, RemoteFacts
<1>13. /\ RemoteIn(L, P) = Missing <=> HeadCommits(P) = {}
       /\ RemoteIn(L, P) = Deleted => \A h \in HeadCommits(P) : h.change = Deleted
  BY <1>4, RemoteFacts
<1>14. CharsOf(batch[p].state) = Chars(new)
  BY <1>1, <1>2 DEF CharsOf, TextOf
<1>15. Visible = IF RemoteIn(L, P) \in {Missing, Deleted} THEN {} ELSE Chars(ContentIn(L, E))
  BY <1>2, <1>8, RemoteOfLine, ContentOfLine DEF Visible
<1>16. CASE ~IsPresent(RemoteIn(K, Q))
  <2>1. CharsOf(RemoteIn(K, Q)) = {}
    BY <1>12, <1>16, TextOfTypes
  <2> QED BY <1>2, <2>1
<1>17. CASE IsPresent(RemoteIn(K, Q))
  <2>1. CharsOf(RemoteIn(K, Q)) = Chars(ContentIn(K, F))
    BY <1>12, <1>17 DEF CharsOf, TextOf, Present
  <2>2. Chars(ContentIn(K, F)) \subseteq Chars(ContentIn(L, E)) \cup Chars(new)
    BY <1>4, <1>7, <1>8, <1>9, ShownAfter
  <2>3. CASE RemoteIn(L, P) \notin {Missing, Deleted}
    BY <1>2, <1>14, <1>15, <2>1, <2>2, <2>3
  <2>4. CASE RemoteIn(L, P) = Missing
    <3>1. P = {}
      BY <1>4, <1>13, <2>4, NoHead
    <3>2. E.ins = {}
      BY <1>8, <3>1 DEF TextDoc, Merge, Updates
    <3>3. At(L, E) = {} /\ L \in Seq(Item)
      BY <1>4, <3>2 DEF At, IsLine
    <3>4. Chars(ContentIn(L, E)) = {}
      BY <3>3, ContentChars
    <3> QED BY <1>2, <1>14, <1>15, <2>1, <2>2, <2>4, <3>4
  <2>5. CASE RemoteIn(L, P) = Deleted
    <3>1. m.commits = P
      BY <1>4, <1>5, <1>12, <1>13, <1>17, <2>5, OverDeletions DEF StateOK
    <3>2. doc = TextDoc(m.commits)
            \/ TextDoc(m.commits).ins \subseteq (IF m.text = NoText THEN {} ELSE m.text.ins)
      BY <1>2, <1>6 DEF Recorded
    <3>3. E.ins \subseteq doc.ins /\ doc.del \subseteq E.del
      <4>1. TextDoc(m.commits).ins \subseteq doc.ins /\ doc.del \subseteq TextDoc(m.commits).del
        BY <1>4, <1>6, <3>2, WholeDoc
      <4> QED BY <1>8, <3>1, <4>1
    <3>4. M.ins = doc.ins \cup u.ins /\ M.del = doc.del \cup u.del
      BY <1>3, <1>8, MergeOfTwo
    <3>5. At(K, F) \subseteq At(K, M)
      BY <1>9, <3>3, <3>4 DEF At
    <3>6. Chars(ContentIn(K, F)) \subseteq Chars(ContentIn(K, M))
      BY <1>11, <3>5, ContentChars
    <3> QED BY <1>2, <1>10, <1>14, <2>1, <3>6
  <2> QED BY <2>3, <2>4, <2>5
<1> QED BY <1>16, <1>17

\* A deleted text does not come back: what PublishText makes the graph show was
\* shown before or is in the text published, when the client works on a document
\* with all it knows.
THEOREM NoTextReturns == Spec => NoReturn
<1>1. ASSUME BaseInv, NEW p \in Clients, PublishText(p),
             batch[p].user \/ TextDoc(mem[p].commits).ins \subseteq Recorded(p)
      PROVE  CharsOf(RemoteState(published))' \subseteq Visible \cup CharsOf(batch[p].state)
  <2>1. RemoteState(published)' = RemoteIn(line', published')
    BY DEF RemoteState, RemoteIn, Content, Shown, ContentIn, At
  <2>2. CharsOf(RemoteIn(line', published')) \subseteq Visible \cup CharsOf(batch[p].state)
    BY <1>1, PublishShows
  <2> QED BY <2>1, <2>2 DEF CharsOf, TextOf
<1>2. BaseInv /\ [Next]_vars =>
        [\A p \in Clients :
           PublishText(p) /\ (batch[p].user \/ TextDoc(mem[p].commits).ins \subseteq Recorded(p)) =>
             CharsOf(RemoteState(published))' \subseteq Visible \cup CharsOf(batch[p].state)]_vars
  BY <1>1
<1> QED BY <1>2, BaseHolds, PTL DEF Spec, NoReturn


---------------------------------------------------------------------------
(* Copies of a character.                                                  *)

LEMMA CopiesType ==
  ASSUME NEW t \in Text, NEW c
  PROVE  /\ IsFiniteSet({i \in 1..Len(t) : t[i] = c}) /\ Copies(t, c) \in Nat
         /\ c \notin Chars(t) <=> Copies(t, c) = 0
<1> DEFINE S == {i \in 1..Len(t) : t[i] = c}
<1>1. Len(t) \in Nat
  BY LenProperties DEF Text
<1>2. IsFiniteSet(S)
  BY <1>1, ListExists
<1>3. Cardinality(S) \in Nat /\ (Cardinality(S) = 0 <=> S = {})
  BY <1>2, FS_CardinalityType, FS_EmptySet
<1>4. c \notin Chars(t) <=> S = {}
  BY DEF Chars
<1> QED BY <1>2, <1>3, <1>4 DEF Copies

\* A text has as many copies of a character as one it can be mapped into, and
\* fewer when the mapping misses one.
LEMMA CopiesMapped ==
  ASSUME NEW s \in Text, NEW t \in Text, NEW c, NEW h,
         \A i \in 1..Len(s) : s[i] = c => h[i] \in 1..Len(t) /\ t[h[i]] = c,
         \A i, j \in 1..Len(s) : s[i] = c /\ s[j] = c /\ h[i] = h[j] => i = j
  PROVE  /\ Copies(s, c) <= Copies(t, c)
         /\ \A k \in 1..Len(t) : t[k] = c /\ (\A i \in 1..Len(s) : s[i] = c => h[i] # k) =>
              Copies(s, c) < Copies(t, c)
<1> DEFINE S == {i \in 1..Len(s) : s[i] = c}
           U == {i \in 1..Len(t) : t[i] = c}
           f == [i \in S |-> h[i]]
<1>1. /\ IsFiniteSet(S) /\ IsFiniteSet(U)
      /\ Copies(s, c) = Cardinality(S) /\ Copies(t, c) = Cardinality(U)
      /\ Copies(s, c) \in Nat /\ Copies(t, c) \in Nat
  BY CopiesType DEF Copies
<1>2. f \in Injection(S, U)
  <2>1. f \in [S -> U]
    OBVIOUS
  <2>2. \A i, j \in S : f[i] = f[j] => i = j
    OBVIOUS
  <2> QED BY <2>1, <2>2 DEF Injection, IsInjective
<1>3. Cardinality(S) <= Cardinality(U) /\ (Cardinality(S) = Cardinality(U) <=> f \in Surjection(S, U))
  <2> HIDE DEF f, S, U
  <2> QED BY <1>1, <1>2, FS_Injection
<1>4. ASSUME NEW k \in 1..Len(t), t[k] = c, \A i \in 1..Len(s) : s[i] = c => h[i] # k
      PROVE  Copies(s, c) < Copies(t, c)
  <2>1. k \in U /\ \A i \in S : f[i] # k
    BY <1>4
  <2>2. f \notin Surjection(S, U)
    BY <2>1 DEF Surjection
  <2> QED BY <1>1, <1>3, <2>2
<1> QED BY <1>1, <1>3, <1>4

LEMMA CopiesAtMost ==
  ASSUME NEW s \in Text, NEW t \in Text, NEW c, NEW h,
         \A i \in 1..Len(s) : s[i] = c => h[i] \in 1..Len(t) /\ t[h[i]] = c,
         \A i, j \in 1..Len(s) : s[i] = c /\ s[j] = c /\ h[i] = h[j] => i = j
  PROVE  Copies(s, c) <= Copies(t, c)
BY CopiesMapped

\* What Pick takes from a text has no more copies.
LEMMA CopiesPicked ==
  ASSUME NEW t \in Text, NEW I \in SUBSET (1..Len(t)), NEW u \in Text, NEW c, c \notin Chars(u)
  PROVE  Copies(Pick(t, I) \o u, c) <= Copies(t, c)
<1>0. PICK n \in Nat : \E g : Lists(g, n, I) /\ Pick(t, I) = [k \in 1..n |-> t[g[k]]]
                                 /\ Len(Pick(t, I)) = n
  BY PickText
<1>1. PICK g : Lists(g, n, I) /\ Pick(t, I) = [k \in 1..n |-> t[g[k]]] /\ Len(Pick(t, I)) = n
  BY <1>0
<1>2. PICK s : s = Pick(t, I) /\ s \in Text /\ Len(s) = n /\ s = [k \in 1..n |-> t[g[k]]]
  BY <1>1, PickText
<1>3. Len(u) \in Nat /\ u \in Seq(Nat) /\ s \in Seq(Nat)
  BY <1>2, LenProperties DEF Text
<1>4. PICK su : su = s \o u
  OBVIOUS
<1>5. /\ su \in Text /\ Len(su) = n + Len(u)
      /\ \A i \in 1..n + Len(u) : su[i] = IF i <= n THEN s[i] ELSE u[i - n]
  BY <1>2, <1>3, <1>4, ConcatProperties DEF Text
<1>6. ASSUME NEW i \in 1..Len(su), su[i] = c PROVE i \in 1..n /\ s[i] = c
  <2>1. CASE i <= n
    BY <1>5, <1>6, <2>1
  <2>2. CASE ~(i <= n)
    <3>1. i - n \in 1..Len(u)
      BY <1>3, <1>5, <2>2
    <3>2. u[i - n] = c
      BY <1>5, <1>6, <2>2
    <3> QED BY <3>1, <3>2 DEF Chars
  <2> QED BY <2>1, <2>2
<1>7. /\ g \in [1..n -> I]
      /\ \A k, m \in 1..n : k < m => g[k] < g[m]
  BY <1>1 DEF Lists
<1>8. ASSUME NEW i \in 1..n, NEW j \in 1..n, g[i] = g[j] PROVE i = j
  <2>1. g[i] \in 1..Len(t) /\ g[j] \in 1..Len(t) /\ Len(t) \in Nat
    BY <1>7, LenProperties DEF Text
  <2>2. ~(i < j) /\ ~(j < i)
    BY <1>7, <1>8, <2>1
  <2> QED BY <2>2
<1>9. \A i \in 1..Len(su) : su[i] = c => g[i] \in 1..Len(t) /\ t[g[i]] = c
  BY <1>2, <1>6, <1>7
<1>10. \A i, j \in 1..Len(su) : su[i] = c /\ su[j] = c /\ g[i] = g[j] => i = j
  BY <1>6, <1>8
<1>11. Copies(su, c) <= Copies(t, c)
  BY <1>5, <1>9, <1>10, CopiesMapped
<1> QED BY <1>2, <1>4, <1>11

\* A change that inserts a character and removes none of its copies adds to
\* them.
LEMMA CopiesSpliced ==
  ASSUME NEW d, NEW old \in Text, NEW new \in Text, Splices(d, old, new), NEW c,
         \A k \in d.start+1 .. d.start+d.remove : old[k] # c
  PROVE  /\ Copies(old, c) <= Copies(new, c)
         /\ \A i \in 1..Len(d.insert) : d.insert[i] = c => Copies(old, c) < Copies(new, c)
<1>1. PICK a \in Nat, r \in Nat, m \in Nat, N \in Nat, n \in Nat :
        a = d.start /\ r = d.remove /\ m = Len(d.insert) /\ N = Len(new) /\ n = Len(old)
  BY LenProperties DEF Splices, Text
<1>2. /\ a + r <= n /\ N + r = n + m
      /\ \A i \in 1..a : old[i] = new[i]
      /\ \A i \in 1..m : d.insert[i] = new[a + i]
      /\ \A i \in (a + r + 1)..n : old[i] = new[i - r + m]
      /\ \A k \in a+1 .. a+r : old[k] # c
  BY <1>1 DEF Splices
<1> DEFINE h == [i \in 1..n |-> IF i <= a THEN i ELSE i - r + m]
<1>3. ASSUME NEW i \in 1..n, old[i] = c
      PROVE  h[i] \in 1..N /\ new[h[i]] = c /\ (h[i] <= a \/ h[i] > a + m) /\ (i <= a \/ i > a + r)
  <2>1. CASE i <= a
    BY <1>2, <1>3, <2>1
  <2>2. CASE ~(i <= a)
    <3>1. i \in a+r+1..n
      BY <1>2, <1>3, <2>2
    <3>2. h[i] = i - r + m /\ i - r + m \in 1..N /\ i - r + m > a + m
      BY <1>2, <2>2, <3>1
    <3>3. new[i - r + m] = c
      BY <1>2, <1>3, <3>1
    <3> QED BY <3>1, <3>2, <3>3
  <2> QED BY <2>1, <2>2
<1>4. ASSUME NEW i \in 1..n, NEW j \in 1..n, old[i] = c, old[j] = c, h[i] = h[j] PROVE i = j
  <2>1. (i <= a \/ i > a + r) /\ (j <= a \/ j > a + r)
    BY <1>3, <1>4
  <2> QED BY <1>4, <2>1
<1>5. PICK f : f = h
  OBVIOUS
<1> HIDE DEF h
<1>6. /\ \A i \in 1..Len(old) : old[i] = c => f[i] \in 1..Len(new) /\ new[f[i]] = c
      /\ \A i, j \in 1..Len(old) : old[i] = c /\ old[j] = c /\ f[i] = f[j] => i = j
  BY <1>1, <1>3, <1>4, <1>5
<1>7. /\ Copies(old, c) <= Copies(new, c)
      /\ \A k \in 1..Len(new) : new[k] = c /\ (\A i \in 1..Len(old) : old[i] = c => f[i] # k) =>
              Copies(old, c) < Copies(new, c)
  BY <1>6, CopiesMapped
<1>8. ASSUME NEW i \in 1..m, d.insert[i] = c PROVE Copies(old, c) < Copies(new, c)
  <2>1. a + i \in 1..N /\ ~(a + i <= a) /\ ~(a + i > a + m)
    BY <1>2
  <2>2. new[a + i] = c
    BY <1>2, <1>8
  <2>3. \A j \in 1..n : old[j] = c => f[j] # a + i
    BY <1>3, <1>5, <2>1
  <2> QED BY <1>1, <1>7, <2>1, <2>2, <2>3
<1> QED BY <1>1, <1>7, <1>8


\* The text a user types a character into, and the one a user cuts one from.
LEMMA TypedCopies ==
  ASSUME NEW t \in Text, NEW s \in Text, NEW x \in Nat, NEW n \in Nat, n = Len(t), Len(s) = n + 1,
         NEW i \in 0..n, s[i + 1] = x, \A j \in 1..n : s[Moved(i, 1, j)] = t[j]
  PROVE  Chars(s) \subseteq Chars(t) \cup {x} /\ \A c : c # x => Copies(s, c) <= Copies(t, c)
<1> DEFINE h == [j \in 1..n+1 |-> IF j <= i THEN j ELSE j - 1]
<1>1. ASSUME NEW j \in 1..n+1, j # i + 1 PROVE h[j] \in 1..n /\ s[j] = t[h[j]] /\ Moved(i, 1, h[j]) = j
  <2>1. h[j] \in 1..n /\ Moved(i, 1, h[j]) = j
    BY <1>1 DEF Moved
  <2> HIDE DEF h
  <2> QED BY <2>1
<1> HIDE DEF h
<1>2. ASSUME NEW c \in Chars(s) PROVE c \in Chars(t) \cup {x}
  <2>1. PICK j \in 1..n+1 : s[j] = c
    BY DEF Chars
  <2>2. CASE j = i + 1
    BY <2>1, <2>2
  <2>3. CASE j # i + 1
    BY <1>1, <2>1, <2>3 DEF Chars
  <2> QED BY <2>2, <2>3
<1>3. ASSUME NEW c, c # x PROVE Copies(s, c) <= Copies(t, c)
  <2>1. PICK f : f = h
    OBVIOUS
  <2>2. \A j \in 1..Len(s) : s[j] = c => j # i + 1 /\ j \in 1..n+1
    BY <1>3
  <2>3. \A j \in 1..Len(s) : s[j] = c => f[j] \in 1..Len(t) /\ t[f[j]] = c
    BY <1>1, <2>1, <2>2
  <2>4. \A j, k \in 1..Len(s) : s[j] = c /\ s[k] = c /\ f[j] = f[k] => j = k
    <3>1. ASSUME NEW j \in 1..Len(s), NEW k \in 1..Len(s), s[j] = c, s[k] = c, f[j] = f[k] PROVE j = k
      <4>1. Moved(i, 1, f[j]) = j /\ Moved(i, 1, f[k]) = k
        BY <1>1, <2>1, <2>2, <3>1
      <4> QED BY <3>1, <4>1
    <3> QED BY <3>1
  <2> QED BY <2>3, <2>4, CopiesAtMost
<1> QED BY <1>2, <1>3

LEMMA CutCopies ==
  ASSUME NEW t \in Text, NEW s \in Text, NEW n \in Nat, n = Len(t), Len(s) = n - 1,
         NEW i \in 1..n, \A j \in 1..n-1 : s[j] = t[IF j < i THEN j ELSE j + 1]
  PROVE  Chars(s) \subseteq Chars(t) /\ \A c : Copies(s, c) <= Copies(t, c)
<1> DEFINE h == [j \in 1..n |-> IF j < i THEN j ELSE j + 1]
<1>1. ASSUME NEW j \in 1..n-1 PROVE h[j] \in 1..n /\ h[j] = IF j < i THEN j ELSE j + 1
  OBVIOUS
<1>2. \A j \in 1..n-1 : s[j] = t[h[j]]
  BY <1>1
<1>3. \A j, k \in 1..n-1 : h[j] = h[k] => j = k
  BY <1>1
<1> HIDE DEF h
<1>4. ASSUME NEW c \in Chars(s) PROVE c \in Chars(t)
  <2>1. PICK j \in 1..n-1 : s[j] = c
    BY DEF Chars
  <2> QED BY <1>1, <1>2, <2>1 DEF Chars
<1>5. ASSUME NEW c PROVE Copies(s, c) <= Copies(t, c)
  <2>1. PICK f : f = h
    OBVIOUS
  <2>2. \A j \in 1..Len(s) : s[j] = c => f[j] \in 1..Len(t) /\ t[f[j]] = c
    BY <1>1, <1>2, <2>1
  <2>3. \A j, k \in 1..Len(s) : s[j] = c /\ s[k] = c /\ f[j] = f[k] => j = k
    BY <1>3, <2>1
  <2> QED BY <2>2, <2>3, CopiesAtMost
<1> QED BY <1>4, <1>5

LEMMA TypedText ==
  ASSUME NEW t \in Text, NEW x \in Nat, NEW i \in 0..Len(t)
  PROVE  \E s \in Text : /\ s = SubSeq(t, 1, i) \o <<x>> \o SubSeq(t, i + 1, Len(t))
                         /\ Chars(s) \subseteq Chars(t) \cup {x}
                         /\ \A c : c # x => Copies(s, c) <= Copies(t, c)
<1>1. PICK n \in Nat : n = Len(t) /\ t \in Seq(Nat)
  BY LenProperties DEF Text
<1>2. <<x>> \in Seq(Nat) /\ Len(<<x>>) = 1 /\ <<x>>[1] = x
  OBVIOUS
<1>3. PICK e \in Seq(Nat) : e = <<x>> /\ Len(e) = 1 /\ e[1] = x
  BY <1>2
<1>4. PICK s : s = Grown(t, i, e)
  OBVIOUS
<1>5. s = SubSeq(t, 1, i) \o <<x>> \o SubSeq(t, i + 1, Len(t))
  BY <1>3, <1>4 DEF Grown
<1>6. Grown(t, i, e) \in Seq(Nat) /\ Grows(Grown(t, i, e), t, i, e)
  BY <1>1, GrownSeq
<1>7. s \in Seq(Nat) /\ Grows(s, t, i, e)
  BY <1>4, <1>6
<1>8. Len(s) = Len(t) + Len(e) /\ (\A j \in 1..Len(t) : s[Moved(i, Len(e), j)] = t[j])
      /\ \A k \in 1..Len(e) : s[i + k] = e[k]
  BY <1>7, Zenon DEF Grows
<1>9. s[i + 1] = e[1]
  <2>1. 1 \in 1..Len(e)
    BY <1>3
  <2> QED BY <1>8, <2>1
<1>10. Len(s) = n + 1 /\ s[i + 1] = x /\ \A j \in 1..n : s[Moved(i, 1, j)] = t[j]
  BY <1>1, <1>3, <1>8, <1>9
<1>11. Chars(s) \subseteq Chars(t) \cup {x} /\ \A c : c # x => Copies(s, c) <= Copies(t, c)
  <2>1. s \in Text /\ i \in 0..n
    BY <1>1, <1>7 DEF Text
  <2> QED BY <1>1, <1>10, <2>1, TypedCopies
<1> QED BY <1>5, <1>7, <1>11 DEF Text

LEMMA CutText ==
  ASSUME NEW t \in Text, NEW i \in 1..Len(t)
  PROVE  \E s \in Text : /\ s = SubSeq(t, 1, i - 1) \o SubSeq(t, i + 1, Len(t))
                         /\ Chars(s) \subseteq Chars(t)
                         /\ \A c : Copies(s, c) <= Copies(t, c)
<1>1. PICK n \in Nat : n = Len(t) /\ t \in Seq(Nat) /\ i \in 1..n
  BY LenProperties DEF Text
<1>2. PICK A, B : A = SubSeq(t, 1, i - 1) /\ B = SubSeq(t, i + 1, n)
  OBVIOUS
<1>3. A \in Seq(Nat) /\ Len(A) = i - 1 /\ \A j \in 1..i - 1 : A[j] = t[j]
  <2>1. PICK e \in 0..n : e = i - 1
    BY <1>1
  <2>2. 1 \in 1..n + 1 /\ e \in 1 - 1 .. n
    BY <1>1, <2>1
  <2>3. /\ SubSeq(t, 1, e) \in Seq(Nat) /\ Len(SubSeq(t, 1, e)) = e - 1 + 1
        /\ \A j \in 1..e - 1 + 1 : SubSeq(t, 1, e)[j] = t[1 + j - 1]
    BY <1>1, <2>2, SubSeqProperties
  <2>4. e - 1 + 1 = e /\ \A j \in 1..e : 1 + j - 1 = j
    BY <2>1
  <2> QED BY <1>2, <2>1, <2>3, <2>4
<1>4. B \in Seq(Nat) /\ Len(B) = n - i /\ \A j \in 1..n - i : B[j] = t[i + j]
  <2>1. PICK e \in 1..n+1 : e = i + 1
    BY <1>1
  <2>2. n \in e - 1 .. n
    BY <1>1, <2>1
  <2>3. /\ SubSeq(t, e, n) \in Seq(Nat) /\ Len(SubSeq(t, e, n)) = n - e + 1
        /\ \A j \in 1..n - e + 1 : SubSeq(t, e, n)[j] = t[e + j - 1]
    BY <1>1, <2>1, <2>2, SubSeqProperties
  <2>4. n - e + 1 = n - i /\ \A j \in 1..n - i : e + j - 1 = i + j
    BY <1>1, <2>1
  <2> QED BY <1>2, <2>1, <2>3, <2>4
<1>5. /\ A \o B \in Seq(Nat) /\ Len(A \o B) = Len(A) + Len(B)
      /\ \A j \in 1..Len(A) + Len(B) : (A \o B)[j] = IF j <= Len(A) THEN A[j] ELSE B[j - Len(A)]
  BY <1>3, <1>4, ConcatProperties
<1>6. PICK s : s = A \o B
  OBVIOUS
<1>7. PICK a \in Nat, b \in Nat : a = Len(A) /\ b = Len(B) /\ a = i - 1 /\ b = n - i
  <2>1. i - 1 \in Nat /\ n - i \in Nat
    BY <1>1
  <2> QED BY <1>3, <1>4, <2>1
<1>8. /\ s \in Text /\ Len(s) = a + b
      /\ \A j \in 1..a + b : s[j] = IF j <= a THEN A[j] ELSE B[j - a]
  BY <1>5, <1>6, <1>7 DEF Text
<1>9. Len(s) = n - 1
  BY <1>1, <1>7, <1>8
<1>10. ASSUME NEW j \in 1..n-1 PROVE s[j] = t[IF j < i THEN j ELSE j + 1]
  <2>1. j \in 1..a + b
    BY <1>1, <1>7
  <2>2. CASE j < i
    <3>1. j \in 1..i - 1 /\ j <= a
      BY <1>1, <1>7, <2>2
    <3> QED BY <1>3, <1>8, <2>1, <2>2, <3>1
  <2>3. CASE ~(j < i)
    <3>1. ~(j <= a) /\ j - a \in 1..n - i /\ i + (j - a) = j + 1
      BY <1>1, <1>7, <2>1, <2>3
    <3>2. s[j] = B[j - a]
      BY <1>8, <2>1, <3>1
    <3> QED BY <1>4, <2>3, <3>1, <3>2
  <2> QED BY <2>2, <2>3
<1>11. Chars(s) \subseteq Chars(t) /\ \A c : Copies(s, c) <= Copies(t, c)
  BY <1>1, <1>8, <1>9, <1>10, CutCopies
<1>12. s = SubSeq(t, 1, i - 1) \o SubSeq(t, i + 1, Len(t))
  BY <1>1, <1>2, <1>6
<1> QED BY <1>8, <1>11, <1>12

\* What an edit leaves in the replica: no more than a new character.
LEMMA EditFacts ==
  ASSUME BaseInv, NEW p \in Clients,
         Create(p) \/ Remove(p) \/ \E i \in 0..MaxEvents : Type(p, i) \/ Cut(p, i)
  PROVE  \E s \in PresentText \cup {Missing} :
           /\ Edit(p, s) /\ CharsOf(s) \subseteq CharsOf(file[p].state) \cup {acts + 1}
           /\ \A c : c # acts + 1 => Copies(TextOf(s), c) <= Copies(TextOf(file[p].state), c)
<1>1. acts \in Nat /\ file[p] \in Resource
  BY ClientTypes DEF SideTypes
<1>2. file[p].state \in PresentText \cup {Missing} /\ TextOf(file[p].state) \in Text
  BY <1>1, TextOfTypes DEF Resource
<1>3. IsPresent(file[p].state) =>
        file[p].state.content \in Text /\ TextOf(file[p].state) = file[p].state.content
  BY <1>2, PresentTexts, TextOfTypes
<1>4. ASSUME NEW t \in Text
      PROVE  Present(t) \in PresentText /\ TextOf(Present(t)) = t /\ CharsOf(Present(t)) = Chars(t)
  <2>1. Present(t) \in PresentText /\ IsPresent(Present(t)) /\ Present(t).content = t
    BY PresentTexts DEF Present
  <2> QED BY <2>1 DEF TextOf, CharsOf
<1>5. \A c : /\ Copies(TextOf(file[p].state), c) \in Nat
             /\ c \notin CharsOf(file[p].state) => Copies(TextOf(file[p].state), c) = 0
  BY <1>2, CopiesType DEF CharsOf
<1>6. CASE Create(p)
  <2>1. PICK t : t = <<acts + 1>>
    OBVIOUS
  <2>2. t \in Text /\ Chars(t) = {acts + 1}
    BY <1>1, <2>1 DEF Text, Chars
  <2>3. Edit(p, Present(t))
    BY <1>6, <2>1 DEF Create
  <2>4. \A c : c # acts + 1 => Copies(t, c) = 0
    BY <2>2, CopiesType
  <2>5. \A c : c # acts + 1 => Copies(t, c) <= Copies(TextOf(file[p].state), c)
    BY <1>5, <2>4
  <2> QED BY <1>4, <2>2, <2>3, <2>5
<1>7. CASE Remove(p)
  <2>1. Edit(p, Missing) /\ TextOf(Missing) = <<>> /\ CharsOf(Missing) = {}
    BY <1>7, Presence, TextOfTypes DEF Remove
  <2>2. \A c : Copies(TextOf(Missing), c) = 0
    BY <2>1, TextOfTypes, CopiesType DEF CharsOf
  <2> QED BY <1>5, <2>1, <2>2
<1>8. ASSUME NEW i \in 0..MaxEvents, Type(p, i)
      PROVE  \E s \in PresentText \cup {Missing} :
               /\ Edit(p, s) /\ CharsOf(s) \subseteq CharsOf(file[p].state) \cup {acts + 1}
               /\ \A c : c # acts + 1 => Copies(TextOf(s), c) <= Copies(TextOf(file[p].state), c)
  <2>1. PICK x \in Nat : x = acts + 1
    BY <1>1
  <2>0. PICK t : t = file[p].state.content
    OBVIOUS
  <2>2. /\ IsPresent(file[p].state) /\ i \in 0..Len(t)
        /\ Edit(p, Present(SubSeq(t, 1, i) \o <<x>> \o SubSeq(t, i + 1, Len(t))))
    BY <1>8, <2>1, <2>0 DEF Type
  <2>3. t \in Text /\ TextOf(file[p].state) = t
    BY <1>3, <2>2, <2>0
  <2>4. PICK s \in Text : /\ s = SubSeq(t, 1, i) \o <<x>> \o SubSeq(t, i + 1, Len(t))
                          /\ Chars(s) \subseteq Chars(t) \cup {x}
                          /\ \A c : c # x => Copies(s, c) <= Copies(t, c)
    <3>1. i \in 0..Len(t)
      BY <2>2
    <3>2. t \in Text /\ x \in Nat
      BY <2>3
    <3> QED BY <3>1, <3>2, TypedText, Zenon
  <2>5. Edit(p, Present(s))
    BY <2>2, <2>4
  <2> QED BY <1>4, <2>1, <2>3, <2>4, <2>5 DEF CharsOf
<1>9. ASSUME NEW i \in 0..MaxEvents, Cut(p, i)
      PROVE  \E s \in PresentText \cup {Missing} :
               /\ Edit(p, s) /\ CharsOf(s) \subseteq CharsOf(file[p].state) \cup {acts + 1}
               /\ \A c : c # acts + 1 => Copies(TextOf(s), c) <= Copies(TextOf(file[p].state), c)
  <2>1. PICK t : t = file[p].state.content
    OBVIOUS
  <2>2. /\ IsPresent(file[p].state) /\ i \in 1..Len(t)
        /\ Edit(p, Present(SubSeq(t, 1, i - 1) \o SubSeq(t, i + 1, Len(t))))
    BY <1>9, <2>1 DEF Cut
  <2>3. t \in Text /\ TextOf(file[p].state) = t
    BY <1>3, <2>1, <2>2
  <2>4. PICK s \in Text : /\ s = SubSeq(t, 1, i - 1) \o SubSeq(t, i + 1, Len(t))
                          /\ Chars(s) \subseteq Chars(t)
                          /\ \A c : Copies(s, c) <= Copies(t, c)
    BY <2>2, <2>3, CutText
  <2>5. Edit(p, Present(s))
    BY <2>2, <2>4
  <2> QED BY <1>4, <2>3, <2>4, <2>5 DEF CharsOf
<1> QED BY <1>6, <1>7, <1>8, <1>9

---------------------------------------------------------------------------
(* A run publishes a text once: the invariant.                             *)

LineChars(L) == {L[i].char : i \in 1..Len(L)}

\* The characters a client has in its replica and in what it is to publish.
TextsOf(f, b) == CharsOf(f.state) \cup CharsOf(b.state)

\* Text s has no more copies of published characters than text t.
Fewer(L, s, t) == \A c \in LineChars(L) : Copies(s, c) <= Copies(t, c)

\* The resource f has been in state r, if r is a text.
Sighted(f, r) ==
  IsPresent(r.state) => r.version <= f.version /\ (r.version = f.version => r.state = f.state)

\* The call has published a text, or a request of the user is to, and its
\* document is still to be recorded.
Unsettled(label, b) ==
  label \in {"publish", "integrate"} /\ IsPresent(b.state) /\ (label = "integrate" \/ b.user)

\* A version token tells a text.
SightOK(f, m, n, label, listed, b) ==
  /\ Sighted(f, listed) /\ Sighted(f, m.baseline) /\ Sighted(f, n.baseline)
  /\ label \in {"publish", "integrate"} /\ b.user => Sighted(f, b)

\* The replica of a client that has recorded what it published has no more of
\* what is published than the document it works on; nor has what it publishes.
OnceOK(L, p, f, m, label, listed, b, un) ==
  /\ label \in {"read", "apply"} => Fewer(L, TextOf(f.state), TextOf(listed.state))
  /\ p \notin un /\ ~Unsettled(label, b) => Fewer(L, TextOf(f.state), ContentIn(L, Stored(m)))
  /\ p \notin un /\ label = "publish" /\ IsPresent(b.state) /\ ~b.user =>
       \A c \in Chars(ContentIn(L, TextDoc(m.commits))) :
         Copies(b.state.content, c) <= Copies(ContentIn(L, b.doc), c)

ClientOnce(p) ==
  p \notin split =>
    /\ SightOK(file[p], mem[p], disk[p], pc[p], listing[p], batch[p])
    /\ OnceOK(line, p, file[p], mem[p], pc[p], listing[p], batch[p], unrecorded)

\* Characters are numbers of acts, and what is not published only one client has.
CharsInv ==
  /\ LineChars(line) \subseteq 1..acts
  /\ \A p \in Clients : TextsOf(file[p], batch[p]) \subseteq 1..acts
  /\ \A p, q \in Clients :
       p # q => TextsOf(file[p], batch[p]) \cap TextsOf(file[q], batch[q]) \subseteq LineChars(line)

OnceInv == BaseInv /\ CharsInv /\ \A p \in Clients : ClientOnce(p)

\* The characters of a line stay on it.
LEMMA LongerChars ==
  ASSUME NEW L, IsLine(L), NEW K, Longer(L, K)
  PROVE  LineChars(L) \subseteq LineChars(K)
<1>1. CASE K = L
  BY <1>1
<1>2. CASE \E spot \in 0..Len(L) : \E items : NewItems(L, items) /\ K = Grown(L, spot, items)
  <2>1. PICK spot \in 0..Len(L) : \E items : NewItems(L, items) /\ K = Grown(L, spot, items)
    BY <1>2
  <2>2. PICK items : NewItems(L, items) /\ K = Grown(L, spot, items)
    BY <2>1
  <2>3. \A i \in 1..Len(L) :
          \E j \in 1..Len(Grown(L, spot, items)) : Grown(L, spot, items)[j] = L[i]
    BY <2>2, GrownItems
  <2>4. \A i \in 1..Len(L) : \E j \in 1..Len(K) : K[j] = L[i]
    BY <2>2, <2>3
  <2> QED BY <2>4 DEF LineChars
<1> QED BY <1>1, <1>2 DEF Longer

\* A text of the line has its characters.
LEMMA ContentOnLine ==
  ASSUME NEW L \in Seq(Item), NEW doc
  PROVE  Chars(ContentIn(L, doc)) \subseteq LineChars(L)
<1>1. \A c : c \in Chars(ContentIn(L, doc)) => \E i \in At(L, doc) : L[i].char = c
  BY ContentChars
<1> QED BY <1>1 DEF At, LineChars

\* What another client publishes.
LEMMA OnceGrows ==
  ASSUME NEW L, IsLine(L), NEW K, Longer(L, K), NEW p, NEW f \in Resource, NEW m,
         NEW label, NEW listed \in Resource, NEW b, NEW un, OnceOK(L, p, f, m, label, listed, b, un),
         Within(L, Stored(m)), Within(L, TextDoc(m.commits)),
         label = "publish" /\ IsPresent(b.state) => Within(L, b.doc),
         \A c \in LineChars(K) \ LineChars(L) : c \notin CharsOf(f.state)
  PROVE  OnceOK(K, p, f, m, label, listed, b, un)
<1>1. TextOf(f.state) \in Text /\ TextOf(listed.state) \in Text
  BY TextOfTypes DEF Resource
<1>2. \A c \in LineChars(K) \ LineChars(L) : Copies(TextOf(f.state), c) = 0
  BY <1>1, CopiesType DEF CharsOf
<1>3. \A doc : Within(L, doc) => ContentIn(K, doc) = ContentIn(L, doc)
  BY LongerFacts
<1>4. L \in Seq(Item)
  BY DEF IsLine
<1>5. ASSUME NEW t \in Text, Fewer(L, TextOf(f.state), t) PROVE Fewer(K, TextOf(f.state), t)
  <2>1. ASSUME NEW c \in LineChars(K) PROVE Copies(TextOf(f.state), c) <= Copies(t, c)
    <3>1. Copies(t, c) \in Nat
      BY CopiesType
    <3> QED BY <1>2, <1>5, <3>1 DEF Fewer
  <2> QED BY <2>1 DEF Fewer
<1>6. label \in {"read", "apply"} => Fewer(K, TextOf(f.state), TextOf(listed.state))
  BY <1>1, <1>5 DEF OnceOK
<1>7. p \notin un /\ ~Unsettled(label, b) => Fewer(K, TextOf(f.state), ContentIn(K, Stored(m)))
  <2>1. ContentIn(L, Stored(m)) \in Text
    BY <1>4, ContentChars
  <2> QED BY <1>3, <1>5, <2>1 DEF OnceOK
<1>8. p \notin un /\ label = "publish" /\ IsPresent(b.state) /\ ~b.user =>
       \A c \in Chars(ContentIn(K, TextDoc(m.commits))) :
         Copies(b.state.content, c) <= Copies(ContentIn(K, b.doc), c)
  BY <1>3 DEF OnceOK
<1> QED BY <1>6, <1>7, <1>8 DEF OnceOK

\* A step of client p.
LEMMA OnceFrame ==
  ASSUME OnceInv, BaseInv', NEW p \in Clients, Others(p),
         \A q \in Clients \ {p} : /\ file'[q] = file[q] /\ (q \in split' <=> q \in split)
                                  /\ (q \in unrecorded' <=> q \in unrecorded),
         Longer(line, line'), acts' \in {acts, acts + 1},
         LineChars(line') \subseteq LineChars(line) \cup TextsOf(file[p], batch[p]),
         \A c \in TextsOf(file'[p], batch'[p]) :
           \/ c \in TextsOf(file[p], batch[p]) \cup LineChars(line')
           \/ c = acts + 1 /\ acts' = acts + 1,
         ClientOnce(p)'
  PROVE  OnceInv'
<1>1. BaseInv /\ IsLine(line) /\ acts \in Nat /\ GraphOK(published) /\ ChangesWithin(line, published)
  BY DEF OnceInv, BaseInv, TypeOK
<1>2. LineChars(line) \subseteq LineChars(line')
  BY <1>1, LongerChars
<1>3. /\ LineChars(line) \subseteq 1..acts
      /\ \A q \in Clients : TextsOf(file[q], batch[q]) \subseteq 1..acts
      /\ \A q, r \in Clients : q # r =>
           TextsOf(file[q], batch[q]) \cap TextsOf(file[r], batch[r]) \subseteq LineChars(line)
  BY DEF OnceInv, CharsInv
<1>4. \A q \in Clients \ {p} : TextsOf(file'[q], batch'[q]) = TextsOf(file[q], batch[q])
  BY DEF Others
<1>5. 1..acts \subseteq 1..acts' /\ acts + 1 \notin 1..acts /\ (acts' = acts + 1 => acts + 1 \in 1..acts')
  BY <1>1
<1>6. CharsInv'
  <2>1. LineChars(line') \subseteq 1..acts'
    BY <1>3, <1>5
  <2>2. ASSUME NEW q \in Clients PROVE TextsOf(file'[q], batch'[q]) \subseteq 1..acts'
    <3>1. CASE q = p
      BY <1>3, <1>5, <2>1, <3>1
    <3>2. CASE q # p
      BY <1>3, <1>4, <1>5, <3>2
    <3> QED BY <3>1, <3>2
  <2>3. ASSUME NEW q \in Clients, q # p
        PROVE  TextsOf(file'[p], batch'[p]) \cap TextsOf(file'[q], batch'[q]) \subseteq LineChars(line')
    BY <1>2, <1>3, <1>4, <1>5, <2>3
  <2>4. ASSUME NEW q \in Clients, NEW r \in Clients, q # r
        PROVE  TextsOf(file'[q], batch'[q]) \cap TextsOf(file'[r], batch'[r]) \subseteq LineChars(line')
    <3>1. CASE q = p \/ r = p
      BY <2>3, <2>4, <3>1
    <3>2. CASE q # p /\ r # p
      BY <1>2, <1>3, <1>4, <2>4, <3>2
    <3> QED BY <3>1, <3>2
  <2> QED BY <2>1, <2>2, <2>4 DEF CharsInv
<1>7. ASSUME NEW q \in Clients, q # p PROVE ClientOnce(q)'
  <2>1. CASE q \in split'
    BY <2>1 DEF ClientOnce
  <2>2. CASE q \notin split'
    <3>1. /\ SightOK(file[q], mem[q], disk[q], pc[q], listing[q], batch[q])
          /\ OnceOK(line, q, file[q], mem[q], pc[q], listing[q], batch[q], unrecorded)
      BY <1>7, <2>2 DEF OnceInv, ClientOnce
    <3>2. /\ file[q] \in Resource /\ listing[q] \in Resource
          /\ StateOK(published, mem[q])
          /\ CallOK(line, published, q, mem[q], pc[q], listing[q], plan[q], batch[q])
      BY <1>1, ClientTypes
    <3>3. Within(line, Stored(mem[q])) /\ Within(line, TextDoc(mem[q].commits))
      BY <1>1, <3>2, StoredWithin
    <3>4. pc[q] = "publish" /\ IsPresent(batch[q].state) => Within(line, batch[q].doc)
      BY <3>2, <3>3 DEF CallOK
    <3>5. \A c \in LineChars(line') \ LineChars(line) : c \notin CharsOf(file[q].state)
      BY <1>3, <1>7 DEF TextsOf
    <3>6. OnceOK(line', q, file[q], mem[q], pc[q], listing[q], batch[q], unrecorded)
      BY <1>1, <3>1, <3>2, <3>3, <3>4, <3>5, OnceGrows
    <3>7. OnceOK(line', q, file[q], mem[q], pc[q], listing[q], batch[q], unrecorded')
      BY <1>7, <3>6 DEF OnceOK
    <3> QED BY <1>7, <3>1, <3>7 DEF ClientOnce, Others
  <2> QED BY <2>1, <2>2
<1> QED BY <1>6, <1>7 DEF OnceInv


---------------------------------------------------------------------------
(* A run publishes a text once: the steps.                                 *)

\* The host, and what is known of it, stays as it is for the other clients.
Beside(p) ==
  \A q \in Clients \ {p} : /\ file'[q] = file[q] /\ (q \in split' <=> q \in split)
                           /\ (q \in unrecorded' <=> q \in unrecorded)

LEMMA ChangedValues ==
  ASSUME BaseInv, NEW p \in Clients, NEW m, NEW n, NEW label, NEW L, NEW op, NEW b,
         Changed(p, m, n, label, L, op, b)
  PROVE  /\ Others(p) /\ mem'[p] = m /\ disk'[p] = n /\ pc'[p] = label
         /\ listing'[p] = L /\ batch'[p] = b
<1>1. /\ mem \in [Clients -> RuntimeState] /\ disk \in [Clients -> RuntimeState]
      /\ pc \in [Clients -> Labels]
      /\ listing \in [Clients -> Resource] /\ plan \in [Clients -> PlanOperation]
      /\ batch \in [Clients -> Batch \cup {NoBatch}]
  BY DEF BaseInv, TypeOK, Labels
<1>2. /\ mem' = [mem EXCEPT ![p] = m] /\ disk' = [disk EXCEPT ![p] = n]
      /\ pc' = [pc EXCEPT ![p] = label] /\ listing' = [listing EXCEPT ![p] = L]
      /\ plan' = [plan EXCEPT ![p] = op] /\ batch' = [batch EXCEPT ![p] = b]
  BY DEF Changed
<1>3. Others(p)
  BY <1>1, <1>2 DEF Others
<1> QED BY <1>1, <1>2, <1>3

\* A state seen earlier stays so when the host writes.
LEMMA SightedWritten ==
  ASSUME NEW f, NEW g, NEW r, Sighted(f, r), f.version \in Nat, r.version \in Nat,
         g.version = f.version + 1
  PROVE  Sighted(g, r)
<1>1. ASSUME IsPresent(r.state) PROVE r.version <= g.version /\ r.version # g.version
  <2>1. PICK v \in Nat : v = f.version
    OBVIOUS
  <2>2. PICK w \in Nat : w = r.version
    OBVIOUS
  <2>3. w <= v
    BY <1>1, <2>1, <2>2 DEF Sighted
  <2> QED BY <2>1, <2>2, <2>3
<1> QED BY <1>1 DEF Sighted

\* A call that ends.
LEMMA OnceRest ==
  ASSUME OnceInv, BaseInv', NEW p \in Clients, NEW m, NEW n, NEW label \in {"save", "idle"}, NEW L,
         NEW op, NEW b \in {batch[p], NoBatch}, Changed(p, m, n, label, L, op, b),
         UNCHANGED <<line, acts>>, Beside(p),
         CharsOf(file'[p].state) \subseteq TextsOf(file[p], batch[p]) \cup LineChars(line),
         p \notin split' => /\ Sighted(file'[p], L) /\ Sighted(file'[p], m.baseline)
                            /\ Sighted(file'[p], n.baseline),
         p \notin split' /\ p \notin unrecorded' =>
           Fewer(line, TextOf(file'[p].state), ContentIn(line, Stored(m)))
  PROVE  OnceInv'
<1>1. BaseInv /\ Longer(line, line')
  BY DEF OnceInv, Longer
<1>2. /\ Others(p) /\ mem'[p] = m /\ disk'[p] = n /\ pc'[p] = label
      /\ listing'[p] = L /\ batch'[p] = b
  BY <1>1, ChangedValues
<1>3. CharsOf(b.state) \subseteq TextsOf(file[p], batch[p])
  <2>1. CharsOf(NoBatch.state) = {}
    BY TextOfTypes DEF NoBatch, IsPresent, Missing
  <2> QED BY <2>1 DEF TextsOf
<1>4. \A c \in TextsOf(file'[p], batch'[p]) : c \in TextsOf(file[p], batch[p]) \cup LineChars(line')
  BY <1>2, <1>3 DEF TextsOf
<1>5. ClientOnce(p)'
  <2>1. SUFFICES ASSUME p \notin split'
                 PROVE  /\ SightOK(file'[p], m, n, label, L, b)
                        /\ OnceOK(line', p, file'[p], m, label, L, b, unrecorded')
    BY <1>2 DEF ClientOnce
  <2>2. SightOK(file'[p], m, n, label, L, b)
    BY <2>1 DEF SightOK
  <2>3. OnceOK(line', p, file'[p], m, label, L, b, unrecorded')
    BY <2>1 DEF OnceOK
  <2> QED BY <2>2, <2>3
<1>6. LineChars(line') \subseteq LineChars(line) \cup TextsOf(file[p], batch[p])
  OBVIOUS
<1> QED BY <1>1, <1>2, <1>4, <1>5, <1>6, OnceFrame DEF Beside

\* What is known of a client that was not given the text of one of several heads.
LEMMA OnceOf ==
  ASSUME OnceInv, NEW p \in Clients
  PROVE  /\ BaseInv
         /\ p \notin split =>
              /\ Sighted(file[p], listing[p]) /\ Sighted(file[p], mem[p].baseline)
              /\ Sighted(file[p], disk[p].baseline)
              /\ pc[p] \in {"publish", "integrate"} /\ batch[p].user => Sighted(file[p], batch[p])
              /\ pc[p] \in {"read", "apply"} =>
                   Fewer(line, TextOf(file[p].state), TextOf(listing[p].state))
              /\ p \notin unrecorded /\ ~Unsettled(pc[p], batch[p]) =>
                   Fewer(line, TextOf(file[p].state), ContentIn(line, Stored(mem[p])))
              /\ p \notin unrecorded /\ pc[p] = "publish" /\ IsPresent(batch[p].state) /\ ~batch[p].user =>
                   \A c \in Chars(ContentIn(line, TextDoc(mem[p].commits))) :
                     Copies(batch[p].state.content, c) <= Copies(ContentIn(line, batch[p].doc), c)
         /\ file[p].version \in Nat /\ listing[p].version \in Nat
         /\ mem[p].baseline.version \in Nat /\ disk[p].baseline.version \in Nat
<1>1. /\ BaseInv
      /\ p \notin split => /\ SightOK(file[p], mem[p], disk[p], pc[p], listing[p], batch[p])
                           /\ OnceOK(line, p, file[p], mem[p], pc[p], listing[p], batch[p], unrecorded)
  BY DEF OnceInv, ClientOnce
<1>2. /\ file[p] \in Resource /\ listing[p] \in Resource
      /\ mem[p] \in RuntimeState /\ disk[p] \in RuntimeState
  BY <1>1, ClientTypes
<1>3. /\ file[p].version \in Nat /\ listing[p].version \in Nat
      /\ mem[p].baseline.version \in Nat /\ disk[p].baseline.version \in Nat
  BY <1>2 DEF Resource, RuntimeState, Baseline
<1> QED BY <1>1, <1>3 DEF SightOK, OnceOK

\* A call that ends and leaves the replica and the client's document alone.
LEMMA OnceStill ==
  ASSUME OnceInv, BaseInv', NEW p \in Clients, NEW m, NEW n, NEW label \in {"save", "idle"},
         NEW L \in {listing[p], Nothing}, NEW op, NEW b \in {batch[p], NoBatch},
         Changed(p, m, n, label, L, op, b), UNCHANGED <<line, acts, file, split>>,
         \A q \in Clients \ {p} : q \in unrecorded' <=> q \in unrecorded,
         p \notin split => Sighted(file[p], m.baseline) /\ Sighted(file[p], n.baseline),
         p \notin unrecorded' => /\ p \notin unrecorded /\ ~Unsettled(pc[p], batch[p])
                                 /\ Stored(m) = Stored(mem[p])
  PROVE  OnceInv'
<1>1. Sighted(file[p], Nothing)
  BY DEF Sighted, Nothing, IsPresent, Missing
<1>2. p \notin split' => /\ Sighted(file'[p], L) /\ Sighted(file'[p], m.baseline)
                         /\ Sighted(file'[p], n.baseline)
  BY <1>1, OnceOf
<1>3. p \notin split' /\ p \notin unrecorded' =>
        Fewer(line, TextOf(file'[p].state), ContentIn(line, Stored(m)))
  BY OnceOf
<1>4. Beside(p)
  BY DEF Beside
<1>5. CharsOf(file'[p].state) \subseteq TextsOf(file[p], batch[p]) \cup LineChars(line)
  BY DEF TextsOf
<1>6. UNCHANGED <<line, acts>>
  OBVIOUS
<1> QED BY <1>2, <1>3, <1>4, <1>5, <1>6, OnceRest

\* A client's variables that a step leaves alone.
LEMMA Kept ==
  ASSUME BaseInv, NEW p \in Clients
  PROVE  /\ UNCHANGED mem => mem' = [mem EXCEPT ![p] = mem[p]]
         /\ UNCHANGED disk => disk' = [disk EXCEPT ![p] = disk[p]]
         /\ UNCHANGED listing => listing' = [listing EXCEPT ![p] = listing[p]]
         /\ UNCHANGED plan => plan' = [plan EXCEPT ![p] = plan[p]]
         /\ UNCHANGED batch => batch' = [batch EXCEPT ![p] = batch[p]]
         /\ UNCHANGED pc => pc' = [pc EXCEPT ![p] = pc[p]]
BY ClientTypes

\* A step to the end of a call, given the state it leaves in memory.
LEMMA SaveChanged ==
  ASSUME BaseInv, NEW p \in Clients, NEW m, mem' = [mem EXCEPT ![p] = m], Goto(p, "save"),
         UNCHANGED <<disk, runVars>>
  PROVE  Changed(p, m, disk[p], "save", listing[p], plan[p], batch[p])
BY Kept DEF Changed, Goto, runVars

LEMMA ReadConflictOnce ==
  ASSUME OnceInv, NEW p \in Clients, ReadConflict(p)
  PROVE  OnceInv'
<1>1. BaseInv /\ BaseInv'
  BY ReadConflictBase, OnceOf
<1>2. PICK m : m = [mem[p] EXCEPT !.conflict = [heads |-> Heads(mem[p].commits), local |-> listing[p]]]
  OBVIOUS
<1>3. mem' = [mem EXCEPT ![p] = m] /\ Goto(p, "save") /\ UNCHANGED <<disk, runVars>>
  <2>1. mem \in [Clients -> RuntimeState]
    BY <1>1 DEF BaseInv, TypeOK
  <2> QED BY <1>2, <2>1 DEF ReadConflict
<1>4. Changed(p, m, disk[p], "save", listing[p], plan[p], batch[p])
  BY <1>1, <1>3, SaveChanged
<1>5. Stored(m) = Stored(mem[p]) /\ m.baseline = mem[p].baseline
  BY <1>1, <1>2, ClientTypes DEF Stored, RuntimeState
<1>6. UNCHANGED <<line, acts, file, split>> /\ unrecorded' = unrecorded /\ pc[p] = "read"
  BY DEF ReadConflict, boundVars, historyVars
<1>7. ~Unsettled(pc[p], batch[p])
  BY <1>6 DEF Unsettled
<1>8. p \notin split => Sighted(file[p], m.baseline) /\ Sighted(file[p], disk[p].baseline)
  BY <1>5, OnceOf
<1> QED BY <1>1, <1>4, <1>5, <1>6, <1>7, <1>8, OnceStill

LEMMA EndOnce ==
  ASSUME OnceInv, NEW p \in Clients, ReadChanged(p) \/ Skip(p)
  PROVE  OnceInv'
<1>1. BaseInv /\ BaseInv'
  BY EndBase, OnceOf
<1>2. Changed(p, mem[p], disk[p], "save", listing[p], plan[p], batch[p])
  BY <1>1, Kept, SaveChanged DEF ReadChanged, Skip
<1>3. UNCHANGED <<line, acts, file, split>> /\ unrecorded' = unrecorded /\ pc[p] \in {"read", "apply"}
  BY DEF ReadChanged, Skip, boundVars, historyVars
<1>4. ~Unsettled(pc[p], batch[p])
  BY <1>3 DEF Unsettled
<1>5. p \notin split => Sighted(file[p], mem[p].baseline) /\ Sighted(file[p], disk[p].baseline)
  BY OnceOf
<1> QED BY <1>1, <1>2, <1>3, <1>4, <1>5, OnceStill

LEMMA SaveOnce ==
  ASSUME OnceInv, NEW p \in Clients, Save(p)
  PROVE  OnceInv'
<1>1. BaseInv /\ BaseInv'
  BY SaveBase, OnceOf
<1>2. Changed(p, mem[p], mem[p], "idle", Nothing, Op("Noop"), NoBatch)
  BY <1>1, Kept DEF Save, Forget, Goto, Changed
<1>3. UNCHANGED <<line, acts, file, split>> /\ unrecorded' = unrecorded /\ pc[p] = "save"
  BY DEF Save, boundVars, historyVars
<1>4. ~Unsettled(pc[p], batch[p])
  BY <1>3 DEF Unsettled
<1>5. p \notin split => Sighted(file[p], mem[p].baseline)
  BY OnceOf
<1> QED BY <1>1, <1>2, <1>3, <1>4, <1>5, OnceStill

LEMMA FailOnce ==
  ASSUME OnceInv, NEW p \in Clients, Fail(p)
  PROVE  OnceInv'
<1>1. BaseInv /\ BaseInv'
  BY FailBase, OnceOf
<1>2. Changed(p, mem[p], disk[p], "idle", Nothing, Op("Noop"), NoBatch)
  BY <1>1, Kept DEF Fail, Forget, Goto, Changed
<1>3. /\ UNCHANGED <<line, acts, file, split>>
      /\ unrecorded' = unrecorded \cup {q \in {p} : Recording(q)}
  BY DEF Fail
<1>4. Unsettled(pc[p], batch[p]) => Recording(p)
  BY DEF Unsettled, Recording
<1>5. p \notin split => Sighted(file[p], mem[p].baseline) /\ Sighted(file[p], disk[p].baseline)
  BY OnceOf
<1>6. p \notin unrecorded' => /\ p \notin unrecorded /\ ~Unsettled(pc[p], batch[p])
                              /\ Stored(mem[p]) = Stored(mem[p])
  BY <1>3, <1>4
<1> QED BY <1>1, <1>2, <1>3, <1>5, <1>6, OnceStill

LEMMA CrashOnce ==
  ASSUME OnceInv, NEW p \in Clients, Crash(p)
  PROVE  OnceInv'
<1>1. BaseInv /\ BaseInv'
  BY CrashBase, OnceOf
<1>2. Changed(p, disk[p], disk[p], "idle", Nothing, Op("Noop"), NoBatch)
  BY <1>1, Kept DEF Crash, Forget, Goto, Changed
<1>3. /\ UNCHANGED <<line, acts, file, split>>
      /\ unrecorded' = unrecorded \cup {q \in {p} : Recording(q) \/ mem[q].text # disk[q].text}
  BY DEF Crash
<1>4. Unsettled(pc[p], batch[p]) => Recording(p)
  BY DEF Unsettled, Recording
<1>5. p \notin split => Sighted(file[p], disk[p].baseline)
  BY OnceOf
<1>6. mem[p].text = disk[p].text => Stored(disk[p]) = Stored(mem[p])
  BY <1>1, ClientTypes DEF StateOK, Stored
<1>7. p \notin unrecorded' => /\ p \notin unrecorded /\ ~Unsettled(pc[p], batch[p])
                              /\ Stored(disk[p]) = Stored(mem[p])
  BY <1>3, <1>4, <1>6
<1> QED BY <1>1, <1>2, <1>3, <1>5, <1>7, OnceStill

\* A text has as many copies as itself.
LEMMA FewerSame ==
  ASSUME NEW L, NEW t \in Text
  PROVE  Fewer(L, t, t) /\ Fewer(L, <<>>, t)
<1>1. <<>> \in Text /\ Chars(<<>>) = {}
  BY DEF Text, Chars
<1>2. ASSUME NEW c PROVE Copies(t, c) \in Nat /\ Copies(<<>>, c) = 0
  BY <1>1, CopiesType
<1> QED BY <1>2 DEF Fewer

\* The state in memory when a deletion is recorded.
LEMMA DeletedFacts ==
  ASSUME BaseInv, NEW p \in Clients, NEW C, Closed(published, C)
  PROVE  LET m == Baselined(p, C, Deleted, 0)
         IN  Stored(m) = Stored(mem[p]) /\ \A f : Sighted(f, m.baseline)
<1>1. C \in SUBSET Commit /\ mem[p] \in RuntimeState /\ StateOK(published, mem[p])
  BY ClientTypes DEF Closed, BaseInv, GraphOK
<1>2. PICK m : m = Baselined(p, C, Deleted, 0)
  OBVIOUS
<1>3. m.text = mem[p].text /\ m.baseline.state = Deleted
  BY <1>1, <1>2 DEF Baselined, RuntimeState
<1>4. Stored(m) = Stored(mem[p])
  BY <1>1, <1>3 DEF Stored, StateOK, Deleted, NoBaseline
<1>5. \A f : Sighted(f, m.baseline)
  BY <1>3 DEF Sighted, IsPresent, Deleted
<1> QED BY <1>2, <1>4, <1>5

LEMMA IntegrateDeleteOnce ==
  ASSUME OnceInv, NEW p \in Clients, IntegrateDelete(p)
  PROVE  OnceInv'
<1>1. BaseInv /\ BaseInv'
  BY IntegrateDeleteBase, OnceOf
<1>2. PICK m : m = Baselined(p, Integrated(p), Deleted, 0)
  OBVIOUS
<1>3. /\ mem' = [mem EXCEPT ![p] = m] /\ Goto(p, "save") /\ UNCHANGED <<disk, runVars>>
      /\ UNCHANGED <<line, acts, file, split>> /\ unrecorded' = unrecorded
      /\ pc[p] = "integrate" /\ ~batch[p].user /\ batch[p].state = Deleted
  BY <1>2 DEF IntegrateDelete, boundVars, historyVars
<1>4. Changed(p, m, disk[p], "save", listing[p], plan[p], batch[p])
  BY <1>1, <1>3, SaveChanged
<1>5. Closed(published, Integrated(p))
  BY <1>1, <1>3, IntegratedFacts
<1>6. Stored(m) = Stored(mem[p]) /\ Sighted(file[p], m.baseline)
  BY <1>1, <1>2, <1>5, DeletedFacts
<1>7. ~Unsettled(pc[p], batch[p])
  BY <1>3 DEF Unsettled, IsPresent, Deleted
<1>8. p \notin split => Sighted(file[p], m.baseline) /\ Sighted(file[p], disk[p].baseline)
  BY <1>6, OnceOf
<1> QED BY <1>1, <1>3, <1>4, <1>6, <1>7, <1>8, OnceStill

LEMMA IntegrateUserOnce ==
  ASSUME OnceInv, NEW p \in Clients, IntegrateUser(p)
  PROVE  OnceInv'
<1>1. BaseInv /\ BaseInv'
  BY IntegrateUserBase, OnceOf
<1>2. PICK k : k = Baselined(p, Integrated(p), batch[p].state, batch[p].version)
  OBVIOUS
<1>3. PICK m : m = [k EXCEPT !.conflict = IF batch[p].settles THEN NoConflict ELSE @]
  OBVIOUS
<1>4. /\ mem' = [mem EXCEPT ![p] = m] /\ Goto(p, "save") /\ UNCHANGED <<disk, runVars>>
      /\ UNCHANGED <<line, acts, file, split>> /\ unrecorded' = unrecorded \cup {p}
      /\ pc[p] = "integrate" /\ batch[p].user
  BY <1>2, <1>3 DEF IntegrateUser, boundVars, historyVars
<1>5. Changed(p, m, disk[p], "save", listing[p], plan[p], batch[p])
  BY <1>1, <1>4, SaveChanged
<1>6. Closed(published, Integrated(p))
  BY <1>1, <1>4, IntegratedFacts
<1>7. Integrated(p) \in SUBSET Commit /\ mem[p] \in RuntimeState
  BY <1>1, <1>6, ClientTypes DEF Closed, BaseInv, GraphOK
<1>8. batch[p].state \in PresentText \cup {Deleted} /\ batch[p].version \in Nat
  BY <1>1, <1>4, IntegrateTypes
<1>9. /\ k \in RuntimeState /\ k.baseline.state = batch[p].state
      /\ k.baseline.version = IF batch[p].state = Deleted THEN 0 ELSE batch[p].version
  BY <1>2, <1>7, <1>8, BaselinedFacts
<1>10. m.baseline = k.baseline
  BY <1>3, <1>9 DEF RuntimeState
<1>11. IsPresent(batch[p].state) => k.baseline.version = batch[p].version
  BY <1>9 DEF IsPresent, Deleted
<1>12. p \notin split => Sighted(file[p], m.baseline) /\ Sighted(file[p], disk[p].baseline)
  <2>1. p \notin split => Sighted(file[p], batch[p]) /\ Sighted(file[p], disk[p].baseline)
    BY <1>4, OnceOf
  <2> QED BY <1>9, <1>10, <1>11, <2>1 DEF Sighted
<1> QED BY <1>1, <1>4, <1>5, <1>12, OnceStill

LEMMA IntegrateRefusedOnce ==
  ASSUME OnceInv, NEW p \in Clients, IntegrateRefused(p)
  PROVE  OnceInv'
<1>1. BaseInv /\ BaseInv'
  BY IntegrateRefusedBase, OnceOf
<1>2. PICK m : m = [mem[p] EXCEPT !.commits = Integrated(p)]
  OBVIOUS
<1>3. /\ mem' = [mem EXCEPT ![p] = m] /\ Goto(p, "save") /\ UNCHANGED <<disk, runVars>>
      /\ UNCHANGED <<line, acts, file, split>> /\ unrecorded' = unrecorded \cup {p}
  BY <1>2 DEF IntegrateRefused, boundVars, historyVars
<1>4. Changed(p, m, disk[p], "save", listing[p], plan[p], batch[p])
  BY <1>1, <1>3, SaveChanged
<1>5. m.baseline = mem[p].baseline
  BY <1>1, <1>2, ClientTypes DEF RuntimeState
<1>6. p \notin split => Sighted(file[p], m.baseline) /\ Sighted(file[p], disk[p].baseline)
  BY <1>5, OnceOf
<1> QED BY <1>1, <1>3, <1>4, <1>6, OnceStill

\* The state in memory when a text is recorded with its document.
LEMMA RecordedFacts ==
  ASSUME NEW p \in Clients, mem[p] \in RuntimeState, NEW C \in SUBSET Commit, TextDoc(C) \in Doc,
         NEW t, t \in PresentText, NEW v, v \in Nat
  PROVE  /\ Reconciled(p, C, t, v).text = TextDoc(C) /\ Reconciled(p, C, t, v).baseline.state = t
         /\ Reconciled(p, C, t, v).baseline.version = v
         /\ Stored(Reconciled(p, C, t, v)) = TextDoc(C)
<1>1. t # Deleted /\ t # NoBaseline
  BY PresentTexts DEF IsPresent, Deleted, NoBaseline
<1>2. /\ Baselined(p, C, t, v).baseline.state = t
      /\ Baselined(p, C, t, v).baseline.version = v
  <2>1. t \in PresentText \cup {Deleted}
    OBVIOUS
  <2>2. Baselined(p, C, t, v).baseline.state = t
    BY DEF Baselined, RuntimeState, Baseline
  <2>3. Baselined(p, C, t, v).baseline.version = IF t = Deleted THEN 0 ELSE v
    BY <2>1, BaselinedFacts
  <2> QED BY <1>1, <2>2, <2>3
<1>3. /\ Reconciled(p, C, t, v).text = TextDoc(C)
      /\ Reconciled(p, C, t, v).baseline = Baselined(p, C, t, v).baseline
  BY ReconciledFacts
<1> QED BY <1>1, <1>2, <1>3, NoTextNoDoc DEF Stored

\* A text of the line is recorded with its document.
LEMMA OnceRecorded ==
  ASSUME OnceInv, BaseInv', NEW p \in Clients, NEW C \in SUBSET published, NEW t \in PresentText,
         NEW v \in Nat, mem' = [mem EXCEPT ![p] = Reconciled(p, C, t, v)], Goto(p, "save"),
         UNCHANGED <<line, disk, runVars, acts>>, unrecorded' = unrecorded \ {p},
         split' \in {split, split \cup {p}},
         \A q \in Clients \ {p} : file'[q] = file[q],
         CharsOf(file'[p].state) \subseteq TextsOf(file[p], batch[p]) \cup LineChars(line),
         p \notin split' => /\ Sighted(file'[p], listing[p]) /\ Sighted(file'[p], disk[p].baseline)
                            /\ v <= file'[p].version
                            /\ v = file'[p].version => t = file'[p].state
                            /\ Fewer(line, TextOf(file'[p].state), ContentIn(line, TextDoc(C)))
  PROVE  OnceInv'
<1>1. BaseInv
  BY OnceOf
<1>2. PICK m : m = Reconciled(p, C, t, v)
  OBVIOUS
<1>3. Changed(p, m, disk[p], "save", listing[p], plan[p], batch[p])
  BY <1>1, <1>2, SaveChanged
<1>4. C \in SUBSET Commit /\ TextDoc(C) \in Doc /\ mem[p] \in RuntimeState
  BY <1>1, ClientTypes, DocFacts DEF BaseInv, GraphOK
<1>6. /\ m.text = TextDoc(C) /\ m.baseline.state = t /\ m.baseline.version = v
  BY <1>2, <1>4, RecordedFacts
<1>7. Stored(m) = TextDoc(C)
  BY <1>2, <1>4, RecordedFacts
<1>8. Beside(p)
  BY DEF Beside
<1>9. p \notin split' => /\ Sighted(file'[p], listing[p]) /\ Sighted(file'[p], m.baseline)
                         /\ Sighted(file'[p], disk[p].baseline)
  BY <1>6 DEF Sighted
<1>10. p \notin split' /\ p \notin unrecorded' =>
        Fewer(line, TextOf(file'[p].state), ContentIn(line, Stored(m)))
  BY <1>7
<1>11. UNCHANGED <<line, acts>>
  OBVIOUS
<1> QED BY <1>3, <1>8, <1>9, <1>10, <1>11, OnceRest

LEMMA IntegrateTextOnce ==
  ASSUME OnceInv, NEW p \in Clients, IntegrateText(p)
  PROVE  OnceInv'
<1>1. BaseInv /\ BaseInv'
  BY IntegrateTextBase, OnceOf
<1>2. PICK C, s : C = Integrated(p) /\ s = Present(Content(TextDoc(C)))
  OBVIOUS
<1>3. pc[p] = "integrate" /\ Goto(p, "save") /\ unrecorded' = unrecorded \ {p}
      /\ mem' = [mem EXCEPT ![p] = Reconciled(p, C, s, file[p].version + 1)]
      /\ file' = Written(p, s)
      /\ UNCHANGED <<line, published, disk, runVars, acts, split>>
  BY <1>2 DEF IntegrateText, Record, boundVars
<1>4. s \in PresentText /\ file[p].version + 1 \in Nat /\ file \in [Clients -> Resource]
  BY <1>1, <1>2, <1>3, IntegrateTypes
<1>5. C \in SUBSET published
  BY <1>1, <1>2, <1>3, IntegratedFacts DEF Closed
<1>6. /\ file'[p].state = s /\ file'[p].version = file[p].version + 1
      /\ \A q \in Clients \ {p} : file'[q] = file[q]
  BY <1>3, <1>4, WrittenTypes
<1>7. s.content = ContentIn(line, TextDoc(C)) /\ TextOf(s) = s.content
  BY <1>2, <1>4, ContentOfLine, TextOfTypes, PresentTexts DEF Present
<1>8. CharsOf(s) \subseteq LineChars(line) /\ ContentIn(line, TextDoc(C)) \in Text
  BY <1>1, <1>7, ContentOnLine, ContentChars DEF CharsOf, BaseInv, IsLine
<1>9. Fewer(line, TextOf(file'[p].state), ContentIn(line, TextDoc(C)))
  BY <1>6, <1>7, <1>8, FewerSame
<1>10. p \notin split => Sighted(file'[p], listing[p]) /\ Sighted(file'[p], disk[p].baseline)
  <2>1. p \notin split => Sighted(file[p], listing[p]) /\ Sighted(file[p], disk[p].baseline)
    BY OnceOf
  <2>2. file[p].version \in Nat /\ listing[p].version \in Nat /\ disk[p].baseline.version \in Nat
    BY OnceOf
  <2> QED BY <1>6, <2>1, <2>2, SightedWritten
<1>11. file[p].version + 1 <= file'[p].version
  BY <1>4, <1>6
<1>12. CharsOf(file'[p].state) \subseteq TextsOf(file[p], batch[p]) \cup LineChars(line)
  BY <1>6, <1>8
<1>13. UNCHANGED <<line, disk, runVars, acts>> /\ split' \in {split, split \cup {p}}
  BY <1>3
<1> QED BY <1>1, <1>3, <1>4, <1>5, <1>6, <1>9, <1>10, <1>11, <1>12, <1>13, OnceRecorded

LEMMA DownloadOnce ==
  ASSUME OnceInv, NEW p \in Clients, Download(p)
  PROVE  OnceInv'
<1>1. BaseInv /\ BaseInv'
  BY DownloadBase, OnceOf
<1>2. PICK C, doc, s, t : /\ C = mem[p].commits /\ doc = TextDocAt(C, FirstHead(C).id)
                          /\ s = Present(Content(doc)) /\ t = RemoteState(C)
  OBVIOUS
<1>3. /\ pc[p] = "apply" /\ plan[p] = Op("Download") /\ Goto(p, "save")
      /\ mem' = [mem EXCEPT ![p] = Reconciled(p, C, t, file[p].version + 1)]
      /\ unrecorded' = unrecorded \ {p}
      /\ split' = (IF s = t THEN split ELSE split \cup {p})
      /\ file' = Written(p, s)
      /\ UNCHANGED <<line, published, disk, runVars, acts>>
  BY <1>2 DEF Download, Record, boundVars
<1>4. /\ t \in PresentText \cup {Missing, Deleted, Forked}
      /\ file[p].version + 1 \in Nat /\ Closed(published, C) /\ file \in [Clients -> Resource]
  BY <1>1, <1>2, <1>3, ApplyFacts DEF SideTypes
<1>5. IsPresent(t)
  BY <1>1, <1>2, <1>3, PlanMeans
<1>6. t \in PresentText /\ C \in SUBSET published
  BY <1>4, <1>5, Presence DEF Closed
<1>7. ContentIn(line, doc) \in Text /\ Content(doc) = ContentIn(line, doc)
      /\ ContentIn(line, TextDoc(C)) \in Text
      /\ Chars(ContentIn(line, doc)) \subseteq LineChars(line)
  BY <1>1, ContentOfLine, ContentChars, ContentOnLine DEF BaseInv, IsLine
<1>8. s \in PresentText
  BY <1>2, <1>7, PresentTexts
<1>9. TextOf(s) = ContentIn(line, doc)
  <2>1. s.content = ContentIn(line, doc)
    BY <1>2, <1>7 DEF Present
  <2> QED BY <1>8, <2>1, TextOfTypes, PresentTexts
<1>10. /\ file'[p].state = s /\ file'[p].version = file[p].version + 1
      /\ \A q \in Clients \ {p} : file'[q] = file[q]
  BY <1>3, <1>4, <1>8, WrittenTypes
<1>11. CharsOf(file'[p].state) \subseteq TextsOf(file[p], batch[p]) \cup LineChars(line)
  BY <1>7, <1>9, <1>10 DEF CharsOf
<1>12. ASSUME p \notin split'
       PROVE  /\ Sighted(file'[p], listing[p]) /\ Sighted(file'[p], disk[p].baseline)
              /\ file[p].version + 1 <= file'[p].version
              /\ file[p].version + 1 = file'[p].version => t = file'[p].state
              /\ Fewer(line, TextOf(file'[p].state), ContentIn(line, TextDoc(C)))
  <2>1. p \notin split /\ s = t
    BY <1>3, <1>12
  <2>2. Sighted(file[p], listing[p]) /\ Sighted(file[p], disk[p].baseline)
    BY <2>1, OnceOf
  <2>3. file[p].version \in Nat /\ listing[p].version \in Nat /\ disk[p].baseline.version \in Nat
    BY OnceOf
  <2>4. Sighted(file'[p], listing[p]) /\ Sighted(file'[p], disk[p].baseline)
    BY <1>10, <2>2, <2>3, SightedWritten
  <2>5. t = RemoteIn(line, C)
    BY <1>2, RemoteOfLine
  <2>6. t = Present(ContentIn(line, TextDoc(C)))
    BY <1>1, <1>5, <2>5, RemoteFacts DEF BaseInv
  <2>7. TextOf(s) = ContentIn(line, TextDoc(C))
    <3>1. s.content = ContentIn(line, TextDoc(C))
      BY <2>1, <2>6 DEF Present
    <3> QED BY <1>8, <3>1, TextOfTypes, PresentTexts
  <2>8. Fewer(line, TextOf(file'[p].state), ContentIn(line, TextDoc(C)))
    BY <1>7, <1>10, <2>7, FewerSame
  <2>9. file[p].version + 1 <= file'[p].version
    BY <1>4, <1>10
  <2> QED BY <1>10, <2>1, <2>4, <2>8, <2>9
<1>13. UNCHANGED <<line, disk, runVars, acts>> /\ split' \in {split, split \cup {p}}
  BY <1>3
<1> QED BY <1>1, <1>3, <1>4, <1>6, <1>10, <1>11, <1>12, <1>13, OnceRecorded

LEMMA ApplyDeleteOnce ==
  ASSUME OnceInv, NEW p \in Clients, ApplyDelete(p)
  PROVE  OnceInv'
<1>1. BaseInv /\ BaseInv'
  BY ApplyDeleteBase, OnceOf
<1>2. PICK m : m = Baselined(p, mem[p].commits, Deleted, 0)
  OBVIOUS
<1>3. /\ mem' = [mem EXCEPT ![p] = m] /\ Goto(p, "save") /\ UNCHANGED <<disk, runVars>>
      /\ file' = Written(p, Missing)
      /\ UNCHANGED <<line, acts, split, unrecorded>> /\ pc[p] = "apply"
  BY <1>2 DEF ApplyDelete, boundVars, historyVars
<1>4. Changed(p, m, disk[p], "save", listing[p], plan[p], batch[p])
  BY <1>1, <1>3, SaveChanged
<1>5. Closed(published, mem[p].commits) /\ file \in [Clients -> Resource]
  BY <1>1, <1>3, ApplyFacts DEF SideTypes
<1>6. Stored(m) = Stored(mem[p]) /\ Sighted(file'[p], m.baseline)
  BY <1>1, <1>2, <1>5, DeletedFacts
<1>7. /\ file'[p].state = Missing /\ file'[p].version = file[p].version + 1
      /\ \A q \in Clients \ {p} : file'[q] = file[q]
  BY <1>3, <1>5, WrittenTypes
<1>8. TextOf(Missing) = <<>> /\ CharsOf(Missing) = {}
  BY TextOfTypes DEF IsPresent, Missing
<1>9. ContentIn(line, Stored(m)) \in Text
  BY <1>1, ContentChars DEF BaseInv, IsLine
<1>10. Fewer(line, TextOf(file'[p].state), ContentIn(line, Stored(m)))
  BY <1>7, <1>8, <1>9, FewerSame
<1>11. p \notin split' => /\ Sighted(file'[p], listing[p]) /\ Sighted(file'[p], m.baseline)
                          /\ Sighted(file'[p], disk[p].baseline)
  <2>1. p \notin split => Sighted(file[p], listing[p]) /\ Sighted(file[p], disk[p].baseline)
    BY OnceOf
  <2>2. file[p].version \in Nat /\ listing[p].version \in Nat /\ disk[p].baseline.version \in Nat
    BY OnceOf
  <2> QED BY <1>3, <1>6, <1>7, <2>1, <2>2, SightedWritten
<1>12. Beside(p) /\ UNCHANGED <<line, acts>>
  BY <1>3, <1>7 DEF Beside
<1>13. CharsOf(file'[p].state) \subseteq TextsOf(file[p], batch[p]) \cup LineChars(line)
  BY <1>7, <1>8
<1> QED BY <1>1, <1>4, <1>10, <1>11, <1>12, <1>13, OnceRest

LEMMA EstablishDeletedBaselineOnce ==
  ASSUME OnceInv, NEW p \in Clients, EstablishDeletedBaseline(p)
  PROVE  OnceInv'
<1>1. BaseInv /\ BaseInv'
  BY ApplyDeleteBase, OnceOf
<1>2. PICK m : m = Baselined(p, mem[p].commits, Deleted, 0)
  OBVIOUS
<1>3. /\ mem' = [mem EXCEPT ![p] = m] /\ Goto(p, "save") /\ UNCHANGED <<disk, runVars>>
      /\ UNCHANGED <<line, acts, file, split>> /\ unrecorded' = unrecorded /\ pc[p] = "apply"
  BY <1>2 DEF EstablishDeletedBaseline, boundVars, historyVars
<1>4. Changed(p, m, disk[p], "save", listing[p], plan[p], batch[p])
  BY <1>1, <1>3, SaveChanged
<1>5. Closed(published, mem[p].commits)
  BY <1>1, <1>3, ApplyFacts
<1>6. Stored(m) = Stored(mem[p]) /\ Sighted(file[p], m.baseline)
  BY <1>1, <1>2, <1>5, DeletedFacts
<1>7. ~Unsettled(pc[p], batch[p])
  BY <1>3 DEF Unsettled
<1>8. p \notin split => Sighted(file[p], m.baseline) /\ Sighted(file[p], disk[p].baseline)
  BY <1>6, OnceOf
<1> QED BY <1>1, <1>3, <1>4, <1>6, <1>7, <1>8, OnceStill

LEMMA EstablishBaselineOnce ==
  ASSUME OnceInv, NEW p \in Clients, EstablishBaseline(p)
  PROVE  OnceInv'
<1>1. BaseInv /\ BaseInv'
  BY EstablishBaselineBase, OnceOf
<1>2. PICK C, t, v : C = mem[p].commits /\ t = listing[p].state /\ v = listing[p].version
  OBVIOUS
<1>3. /\ pc[p] = "apply" /\ plan[p] = Op("EstablishBaseline") /\ Goto(p, "save")
      /\ mem' = [mem EXCEPT ![p] = Reconciled(p, C, t, v)] /\ unrecorded' = unrecorded \ {p}
      /\ UNCHANGED <<line, disk, runVars, acts>> /\ UNCHANGED <<file, split>>
  BY <1>2 DEF EstablishBaseline, Record, boundVars
<1>4. /\ t \in PresentText \cup {Missing} /\ v \in Nat /\ Closed(published, C)
      /\ IsPresent(t) /\ t = RemoteState(C)
  BY <1>1, <1>2, <1>3, ApplyFacts, PlanMeans
<1>5. t \in PresentText /\ C \in SUBSET published
  BY <1>4, Presence DEF Closed
<1>6. t = Present(ContentIn(line, TextDoc(C)))
  BY <1>1, <1>4, RemoteOfLine, RemoteFacts DEF BaseInv
<1>7. TextOf(t) = ContentIn(line, TextDoc(C))
  <2>1. t.content = ContentIn(line, TextDoc(C))
    BY <1>6 DEF Present
  <2> QED BY <1>5, <2>1, TextOfTypes, PresentTexts
<1>8. p \notin split' => /\ Sighted(file'[p], listing[p]) /\ Sighted(file'[p], disk[p].baseline)
                         /\ v <= file'[p].version
                         /\ v = file'[p].version => t = file'[p].state
                         /\ Fewer(line, TextOf(file'[p].state), ContentIn(line, TextDoc(C)))
  <2>1. p \notin split => /\ Sighted(file[p], listing[p]) /\ Sighted(file[p], disk[p].baseline)
                          /\ Fewer(line, TextOf(file[p].state), TextOf(listing[p].state))
    BY <1>3, OnceOf
  <2>2. Sighted(file[p], listing[p]) =>
          v <= file[p].version /\ (v = file[p].version => t = file[p].state)
    BY <1>2, <1>4 DEF Sighted
  <2> QED BY <1>2, <1>3, <1>7, <2>1, <2>2
<1>9. CharsOf(file'[p].state) \subseteq TextsOf(file[p], batch[p]) \cup LineChars(line)
  BY <1>3 DEF TextsOf
<1>10. split' \in {split, split \cup {p}} /\ \A q \in Clients \ {p} : file'[q] = file[q]
  BY <1>3
<1> QED BY <1>1, <1>3, <1>4, <1>5, <1>8, <1>9, <1>10, OnceRecorded

\* What an unhashed listing shows is what the replica holds.
LEMMA ListedOnce ==
  ASSUME OnceInv, NEW p \in Clients, p \notin split
  PROVE  Listed(p).state = file[p].state /\ Sighted(file[p], Listed(p))
<1>1. file[p] \in Resource
  BY OnceOf, ClientTypes
<1>2. PICK f, b : f = file[p] /\ b = mem[p].baseline /\ Sighted(f, b) /\ f \in Resource
  BY <1>1, OnceOf
<1>3. f.version \in Nat
  BY <1>2 DEF Resource
<1>4. Listed(p) = IF f.state = Missing THEN Nothing
                  ELSE IF p \notin Hashing /\ IsPresent(b.state) /\ b.version = f.version
                       THEN [f EXCEPT !.state = b.state] ELSE f
  BY <1>2 DEF Listed
<1>5. CASE f.state = Missing
  BY <1>2, <1>4, <1>5 DEF Nothing, Sighted, IsPresent, Missing
<1>6. CASE f.state # Missing
  <2>1. IsPresent(b.state) /\ b.version = f.version => b.state = f.state
    BY <1>2 DEF Sighted
  <2>2. IsPresent(b.state) /\ b.version = f.version => [f EXCEPT !.state = b.state] = f
    BY <1>2, <2>1 DEF Resource
  <2>3. Listed(p) = f
    BY <1>4, <1>6, <2>2
  <2> QED BY <1>2, <1>3, <2>3 DEF Sighted
<1> QED BY <1>5, <1>6

LEMMA BeginOnce ==
  ASSUME OnceInv, NEW p \in Clients, Begin(p)
  PROVE  OnceInv'
<1>1. BaseInv /\ BaseInv'
  BY BeginBase, OnceOf
<1> DEFINE L == Listed(p)
           op == Planned(L.state, mem[p].baseline.state, RemoteState(published))
           k == IF op.op = "Conflict" THEN [heads |-> Heads(published), local |-> L] ELSE NoConflict
           m == [mem[p] EXCEPT !.commits = published, !.conflict = k]
           label == IF op \in {Op("Upload"), Op("PublishDelete")} THEN "read" ELSE "apply"
<1>2. /\ listing' = [listing EXCEPT ![p] = L] /\ plan' = [plan EXCEPT ![p] = op]
      /\ mem' = [mem EXCEPT ![p] = m] /\ disk' = [disk EXCEPT ![p] = m] /\ pc[p] = "idle"
      /\ Goto(p, label) /\ UNCHANGED <<line, file, batch, acts, split, unrecorded>>
  BY DEF Begin, boundVars, historyVars
<1> HIDE DEF k, op, L
<1>3. m.text = mem[p].text /\ m.baseline = mem[p].baseline
  BY <1>1, ClientTypes DEF RuntimeState
<1> HIDE DEF m
<1>4. label \in {"read", "apply"}
  OBVIOUS
<1> HIDE DEF label
<1>5. Changed(p, m, m, label, L, op, batch[p])
  BY <1>1, <1>2, Kept DEF Changed, Goto
<1>6. /\ Others(p) /\ mem'[p] = m /\ disk'[p] = m /\ pc'[p] = label
      /\ listing'[p] = L /\ batch'[p] = batch[p]
  BY <1>1, <1>5, ChangedValues
<1>7. Beside(p) /\ Longer(line, line') /\ acts' \in {acts, acts + 1}
  BY <1>2 DEF Beside, Longer
<1>8. \A c \in TextsOf(file'[p], batch'[p]) : c \in TextsOf(file[p], batch[p]) \cup LineChars(line')
  BY <1>2, <1>6
<1>9. ClientOnce(p)'
  <2>1. SUFFICES ASSUME p \notin split
                 PROVE  /\ SightOK(file[p], m, m, label, L, batch[p])
                        /\ OnceOK(line, p, file[p], m, label, L, batch[p], unrecorded)
    BY <1>2, <1>6 DEF ClientOnce
  <2>2. L.state = file[p].state /\ Sighted(file[p], L)
    BY <2>1, ListedOnce DEF L
  <2>3. Sighted(file[p], m.baseline)
    BY <1>3, <2>1, OnceOf
  <2>4. SightOK(file[p], m, m, label, L, batch[p])
    BY <1>4, <2>2, <2>3 DEF SightOK
  <2>5. TextOf(file[p].state) \in Text
    BY <1>1, ClientTypes, TextOfTypes DEF Resource
  <2>6. Fewer(line, TextOf(file[p].state), TextOf(L.state))
    BY <2>2, <2>5, FewerSame
  <2>7. ~Unsettled(pc[p], batch[p]) /\ Stored(m) = Stored(mem[p])
    BY <1>2, <1>3 DEF Unsettled, Stored
  <2>8. p \notin unrecorded => Fewer(line, TextOf(file[p].state), ContentIn(line, Stored(m)))
    BY <2>1, <2>7, OnceOf
  <2>9. OnceOK(line, p, file[p], m, label, L, batch[p], unrecorded)
    BY <1>4, <2>6, <2>8 DEF OnceOK
  <2> QED BY <2>4, <2>9
<1>10. LineChars(line') \subseteq LineChars(line) \cup TextsOf(file[p], batch[p])
  BY <1>2
<1> QED BY <1>1, <1>6, <1>7, <1>8, <1>9, <1>10, OnceFrame DEF Beside

\* A run goes on to publish.
LEMMA PrepareOnce ==
  ASSUME OnceInv, BaseInv', NEW p \in Clients, NEW s \in PresentText \cup {Deleted}, NEW doc,
         pc[p] = "read", Prepare(p, s, doc),
         CharsOf(s) \subseteq TextsOf(file[p], batch[p]) \cup LineChars(line),
         IsPresent(s) /\ p \notin split /\ p \notin unrecorded =>
           \A c \in Chars(ContentIn(line, TextDoc(mem[p].commits))) :
             Copies(s.content, c) <= Copies(ContentIn(line, doc), c)
  PROVE  OnceInv'
<1>1. BaseInv
  BY OnceOf
<1> DEFINE b == [state |-> s, doc |-> doc, version |-> listing[p].version, user |-> FALSE,
                 settles |-> FALSE]
<1>2. b.state = s /\ b.doc = doc /\ b.user = FALSE
  OBVIOUS
<1>3. /\ batch' = [batch EXCEPT ![p] = b] /\ Goto(p, "publish")
      /\ UNCHANGED <<line, file, mem, disk, listing, plan, acts, split, unrecorded>>
  BY DEF Prepare, boundVars, historyVars
<1> HIDE DEF b
<1>4. Changed(p, mem[p], disk[p], "publish", listing[p], plan[p], b)
  BY <1>1, <1>3, Kept DEF Changed, Goto
<1>5. /\ Others(p) /\ mem'[p] = mem[p] /\ disk'[p] = disk[p] /\ pc'[p] = "publish"
      /\ listing'[p] = listing[p] /\ batch'[p] = b
  BY <1>1, <1>4, ChangedValues
<1>6. Beside(p) /\ Longer(line, line') /\ acts' \in {acts, acts + 1}
  BY <1>3 DEF Beside, Longer
<1>7. \A c \in TextsOf(file'[p], batch'[p]) : c \in TextsOf(file[p], batch[p]) \cup LineChars(line')
  BY <1>2, <1>3, <1>5 DEF TextsOf
<1>8. ClientOnce(p)'
  <2>1. SUFFICES ASSUME p \notin split
                 PROVE  /\ SightOK(file[p], mem[p], disk[p], "publish", listing[p], b)
                        /\ OnceOK(line, p, file[p], mem[p], "publish", listing[p], b, unrecorded)
    BY <1>3, <1>5 DEF ClientOnce
  <2>2. /\ Sighted(file[p], listing[p]) /\ Sighted(file[p], mem[p].baseline)
        /\ Sighted(file[p], disk[p].baseline)
    BY <2>1, OnceOf
  <2>3. SightOK(file[p], mem[p], disk[p], "publish", listing[p], b)
    BY <1>2, <2>2 DEF SightOK
  <2>4. ~Unsettled(pc[p], batch[p])
    BY DEF Unsettled
  <2>5. p \notin unrecorded => Fewer(line, TextOf(file[p].state), ContentIn(line, Stored(mem[p])))
    BY <2>1, <2>4, OnceOf
  <2>6. OnceOK(line, p, file[p], mem[p], "publish", listing[p], b, unrecorded)
    BY <1>2, <2>1, <2>5 DEF OnceOK
  <2> QED BY <2>3, <2>6
<1>9. LineChars(line') \subseteq LineChars(line) \cup TextsOf(file[p], batch[p])
  BY <1>3
<1> QED BY <1>5, <1>6, <1>7, <1>8, <1>9, OnceFrame DEF Beside

LEMMA ReadUploadOnce ==
  ASSUME OnceInv, NEW p \in Clients, ReadUpload(p)
  PROVE  OnceInv'
<1>1. BaseInv /\ BaseInv'
  BY ReadUploadBase, OnceOf
<1>2. PICK s, doc : s = file[p].state /\ doc = Stored(mem[p])
  OBVIOUS
<1>3. s \in PresentText
  <2>1. file[p] \in Resource
    BY <1>1, ClientTypes
  <2> QED BY <1>2, <2>1, Presence DEF ReadUpload, ReadNow, Resource
<1>4. pc[p] = "read" /\ Prepare(p, s, doc)
  BY <1>1, <1>2, KnownDocs DEF ReadUpload
<1>5. CharsOf(s) \subseteq TextsOf(file[p], batch[p]) \cup LineChars(line)
  BY <1>2 DEF TextsOf
<1>6. ASSUME p \notin split, p \notin unrecorded,
             NEW c \in Chars(ContentIn(line, TextDoc(mem[p].commits)))
      PROVE  Copies(s.content, c) <= Copies(ContentIn(line, doc), c)
  <2>1. ~Unsettled(pc[p], batch[p])
    BY <1>4 DEF Unsettled
  <2>2. Fewer(line, TextOf(s), ContentIn(line, doc))
    BY <1>2, <1>6, <2>1, OnceOf
  <2>3. c \in LineChars(line)
    BY <1>1, <1>6, ContentOnLine DEF BaseInv, IsLine
  <2>4. TextOf(s) = s.content
    BY <1>3, TextOfTypes, PresentTexts
  <2> QED BY <2>2, <2>3, <2>4 DEF Fewer
<1> QED BY <1>1, <1>3, <1>4, <1>5, <1>6, PrepareOnce

\* What Pick takes from a text are characters of it.
LEMMA PickChars ==
  ASSUME NEW t \in Text, NEW I \in SUBSET (1..Len(t))
  PROVE  \A c \in Chars(Pick(t, I)) : \E i \in I : t[i] = c
<1>1. PICK n \in Nat : \E g : Lists(g, n, I) /\ Pick(t, I) = [k \in 1..n |-> t[g[k]]]
                                 /\ Len(Pick(t, I)) = n
  BY PickText
<1>2. PICK g : Lists(g, n, I) /\ Pick(t, I) = [k \in 1..n |-> t[g[k]]] /\ Len(Pick(t, I)) = n
  BY <1>1
<1>3. \A k \in 1..n : g[k] \in I
  BY <1>2 DEF Lists
<1> QED BY <1>2, <1>3 DEF Chars

\* A policy's answer has the characters of both texts, and no more of those of
\* the remote text than the remote text has.
LEMMA MergeTextChars ==
  ASSUME NEW base \in Text, NEW local \in Text, NEW remote \in Text
  PROVE  /\ Chars(MergeText(base, local, remote)) \subseteq Chars(local) \cup Chars(remote)
         /\ \A c \in Chars(remote) : Copies(MergeText(base, local, remote), c) <= Copies(remote, c)
<1> DEFINE kept  == {i \in 1..Len(remote) : remote[i] \in Chars(local) \/ remote[i] \notin Chars(base)}
           added == {i \in 1..Len(local) : local[i] \notin Chars(base) \cup Chars(remote)}
<1>1. kept \in SUBSET (1..Len(remote)) /\ added \in SUBSET (1..Len(local))
  OBVIOUS
<1>2. MergeText(base, local, remote) = Pick(remote, kept) \o Pick(local, added)
  BY DEF MergeText
<1>3. \A i \in added : local[i] \notin Chars(remote)
  OBVIOUS
<1> HIDE DEF kept, added
<1>4. PICK u, w : u = Pick(remote, kept) /\ w = Pick(local, added) /\ u \in Text /\ w \in Text
  BY <1>1, PickText
<1>5. /\ \A c \in Chars(u) : \E i \in kept : remote[i] = c
      /\ \A c \in Chars(w) : \E i \in added : local[i] = c
  BY <1>1, <1>4, PickChars
<1>6. ASSUME NEW c \in Chars(u \o w) PROVE c \in Chars(u) \cup Chars(w)
  <2>1. u \in Seq(Nat) /\ w \in Seq(Nat) /\ Len(u) \in Nat /\ Len(w) \in Nat
    BY <1>4, LenProperties DEF Text
  <2>2. PICK i \in 1..Len(u \o w) : (u \o w)[i] = c
    BY <1>6 DEF Chars
  <2>3. /\ Len(u \o w) = Len(u) + Len(w)
        /\ (u \o w)[i] = IF i <= Len(u) THEN u[i] ELSE w[i - Len(u)]
    BY <2>1, <2>2, ConcatProperties
  <2>4. CASE i <= Len(u)
    BY <2>1, <2>2, <2>3, <2>4 DEF Chars
  <2>5. CASE ~(i <= Len(u))
    <3>1. i - Len(u) \in 1..Len(w)
      BY <2>1, <2>2, <2>3, <2>5
    <3> QED BY <2>2, <2>3, <2>5, <3>1 DEF Chars
  <2> QED BY <2>4, <2>5
<1>7. Chars(u \o w) \subseteq Chars(local) \cup Chars(remote)
  BY <1>1, <1>5, <1>6 DEF Chars
<1>8. ASSUME NEW c \in Chars(remote) PROVE Copies(u \o w, c) <= Copies(remote, c)
  <2>1. c \notin Chars(w)
    BY <1>3, <1>5, <1>8
  <2> QED BY <1>1, <1>4, <2>1, CopiesPicked
<1> QED BY <1>2, <1>4, <1>7, <1>8

LEMMA ReadMergedOnce ==
  ASSUME OnceInv, NEW p \in Clients, ReadMerged(p)
  PROVE  OnceInv'
<1>1. BaseInv /\ BaseInv'
  BY ReadMergedBase, OnceOf
<1>2. PICK doc, base, local, remote, t :
        /\ doc = TextDoc(mem[p].commits) /\ base = Content(mem[p].text)
        /\ local = file[p].state.content /\ remote = Content(doc)
        /\ t = MergeText(base, local, remote)
  OBVIOUS
<1>3. base \in Text /\ remote \in Text /\ remote = ContentIn(line, doc)
  BY <1>1, <1>2, KnownDocs
<1>4. local \in Text /\ TextOf(file[p].state) = local
  <2>1. file[p] \in Resource /\ IsPresent(file[p].state)
    BY <1>1, ClientTypes DEF ReadMerged, ReadNow
  <2> QED BY <1>2, <2>1, TextOfTypes, Presence, PresentTexts DEF Resource
<1>5. t \in Text /\ Chars(t) \subseteq Chars(local) \cup Chars(remote)
      /\ \A c \in Chars(remote) : Copies(t, c) <= Copies(remote, c)
  BY <1>2, <1>3, <1>4, MergeTextType, MergeTextChars
<1>6. PICK s : s = Present(t)
  OBVIOUS
<1>7. s \in PresentText /\ s.content = t /\ TextOf(s) = t
  <2>1. s \in PresentText /\ s.content = t
    BY <1>5, <1>6, PresentTexts DEF Present
  <2> QED BY <2>1, TextOfTypes, PresentTexts
<1>8. pc[p] = "read" /\ Prepare(p, s, doc)
  BY <1>2, <1>6 DEF ReadMerged
<1>9. Chars(remote) \subseteq LineChars(line)
  BY <1>1, <1>3, ContentOnLine DEF BaseInv, IsLine
<1>10. CharsOf(s) \subseteq TextsOf(file[p], batch[p]) \cup LineChars(line)
  BY <1>4, <1>5, <1>7, <1>9 DEF TextsOf, CharsOf
<1>11. \A c \in Chars(ContentIn(line, TextDoc(mem[p].commits))) :
         Copies(s.content, c) <= Copies(ContentIn(line, doc), c)
  BY <1>2, <1>3, <1>5, <1>7
<1> QED BY <1>1, <1>7, <1>8, <1>10, <1>11, PrepareOnce

LEMMA ReadDeleteOnce ==
  ASSUME OnceInv, NEW p \in Clients, ReadDelete(p)
  PROVE  OnceInv'
<1>1. BaseInv /\ BaseInv'
  BY ReadDeleteBase, OnceOf
<1>2. pc[p] = "read" /\ Prepare(p, Deleted, NewDoc)
  BY DEF ReadDelete
<1>3. ~IsPresent(Deleted) /\ CharsOf(Deleted) = {}
  BY TextOfTypes DEF IsPresent, Deleted
<1> QED BY <1>1, <1>2, <1>3, PrepareOnce

\* A request of the user goes on to publish.
LEMMA UserCommitOnce ==
  ASSUME OnceInv, BaseInv', NEW p \in Clients, NEW s \in PresentText \cup {Deleted}, NEW v,
         NEW x, UserCommit(p, s, v, x), \A q \in Clients \ {p} : file'[q] = file[q],
         file'[p] = file[p] \/ file'[p].version = file[p].version + 1,
         CharsOf(s) \subseteq TextsOf(file[p], batch[p]) \cup LineChars(line),
         CharsOf(file'[p].state) \subseteq TextsOf(file[p], batch[p]) \cup LineChars(line),
         IsPresent(s) => v = file'[p].version /\ s = file'[p].state,
         ~IsPresent(s) => TextOf(file'[p].state) = <<>>
  PROVE  OnceInv'
<1>1. BaseInv
  BY OnceOf
<1> DEFINE b == [state |-> s, doc |-> TextDoc(mem[p].commits), version |-> v, user |-> TRUE,
                 settles |-> x]
<1>2. b.state = s /\ b.version = v /\ b.user = TRUE
  OBVIOUS
<1>3. /\ batch' = [batch EXCEPT ![p] = b] /\ Goto(p, "publish") /\ pc[p] = "idle"
      /\ UNCHANGED <<line, mem, disk, listing, plan, split, unrecorded>> /\ acts' = acts + 1
  BY DEF UserCommit, Act
<1> HIDE DEF b
<1>4. Changed(p, mem[p], disk[p], "publish", listing[p], plan[p], b)
  BY <1>1, <1>3, Kept DEF Changed, Goto
<1>5. /\ Others(p) /\ mem'[p] = mem[p] /\ disk'[p] = disk[p] /\ pc'[p] = "publish"
      /\ listing'[p] = listing[p] /\ batch'[p] = b
  BY <1>1, <1>4, ChangedValues
<1>6. Beside(p) /\ Longer(line, line') /\ acts' \in {acts, acts + 1}
  BY <1>3 DEF Beside, Longer
<1>7. \A c \in TextsOf(file'[p], batch'[p]) : c \in TextsOf(file[p], batch[p]) \cup LineChars(line')
  BY <1>2, <1>3, <1>5 DEF TextsOf
<1>8. ClientOnce(p)'
  <2>1. SUFFICES ASSUME p \notin split
                 PROVE  /\ SightOK(file'[p], mem[p], disk[p], "publish", listing[p], b)
                        /\ OnceOK(line, p, file'[p], mem[p], "publish", listing[p], b, unrecorded)
    BY <1>3, <1>5 DEF ClientOnce
  <2>2. /\ Sighted(file'[p], listing[p]) /\ Sighted(file'[p], mem[p].baseline)
        /\ Sighted(file'[p], disk[p].baseline)
    <3>1. /\ Sighted(file[p], listing[p]) /\ Sighted(file[p], mem[p].baseline)
          /\ Sighted(file[p], disk[p].baseline)
      BY <2>1, OnceOf
    <3>2. /\ file[p].version \in Nat /\ listing[p].version \in Nat
          /\ mem[p].baseline.version \in Nat /\ disk[p].baseline.version \in Nat
      BY OnceOf
    <3>3. CASE file'[p] = file[p]
      BY <3>1, <3>3
    <3>4. CASE file'[p].version = file[p].version + 1
      BY <3>1, <3>2, <3>4, SightedWritten
    <3> QED BY <3>3, <3>4
  <2>3. Sighted(file'[p], b)
    <3>1. file'[p].version \in Nat
      BY ClientTypes DEF BaseInv, TypeOK, Resource
    <3> QED BY <1>2, <3>1 DEF Sighted
  <2>4. SightOK(file'[p], mem[p], disk[p], "publish", listing[p], b)
    BY <2>2, <2>3 DEF SightOK
  <2>5. ContentIn(line, Stored(mem[p])) \in Text
    BY <1>1, ContentChars DEF BaseInv, IsLine
  <2>6. ~Unsettled("publish", b) => Fewer(line, TextOf(file'[p].state), ContentIn(line, Stored(mem[p])))
    BY <1>2, <2>5, FewerSame DEF Unsettled
  <2>7. OnceOK(line, p, file'[p], mem[p], "publish", listing[p], b, unrecorded)
    BY <1>2, <2>6 DEF OnceOK
  <2> QED BY <2>4, <2>7
<1>9. LineChars(line') \subseteq LineChars(line) \cup TextsOf(file[p], batch[p])
  BY <1>3
<1> QED BY <1>5, <1>6, <1>7, <1>8, <1>9, OnceFrame DEF Beside

\* The characters of a version of the graph.
LEMMA VersionChars ==
  ASSUME IsLine(line), NEW C, NEW c
  PROVE  CharsOf(VersionAt(C, c)) \subseteq LineChars(line)
<1>1. PICK doc : doc = TextDocAt(C, c.id)
  OBVIOUS
<1>2. ContentIn(line, doc) \in Text /\ Content(doc) = ContentIn(line, doc)
      /\ Chars(ContentIn(line, doc)) \subseteq LineChars(line)
  BY ContentOfLine, ContentChars, ContentOnLine DEF IsLine
<1>3. CharsOf(Deleted) = {}
  BY TextOfTypes DEF IsPresent, Deleted
<1>4. CharsOf(Present(ContentIn(line, doc))) = Chars(ContentIn(line, doc))
  BY <1>2, PresentTexts DEF CharsOf, TextOf, Present
<1> QED BY <1>1, <1>2, <1>3, <1>4 DEF VersionAt

LEMMA UserRestoreOnce ==
  ASSUME OnceInv, NEW p \in Clients, NEW s \in PresentText \cup {Deleted}, NEW x \in BOOLEAN,
         UserRestore(p, s, x),
         CharsOf(s) \subseteq LineChars(line)
  PROVE  OnceInv'
<1>1. BaseInv /\ BaseInv'
  BY UserRestoreBase, OnceOf
<1>2. PICK v : v = file[p].version + 1 /\ UserCommit(p, s, v, x)
  BY DEF UserRestore
<1>3. file \in [Clients -> Resource]
  BY <1>1 DEF BaseInv, TypeOK
<1>4. TextOf(Missing) = <<>> /\ CharsOf(Missing) = {}
  BY TextOfTypes DEF IsPresent, Missing
<1>5. CASE s # Deleted
  <2>1. s \in PresentText /\ file' = Written(p, s)
    BY <1>5 DEF UserRestore
  <2>2. /\ file'[p].state = s /\ file'[p].version = file[p].version + 1
        /\ \A q \in Clients \ {p} : file'[q] = file[q]
    BY <1>3, <2>1, WrittenTypes
  <2>3. IsPresent(s)
    BY <2>1, PresentTexts
  <2> QED BY <1>1, <1>2, <2>2, <2>3, UserCommitOnce
<1>6. CASE s = Deleted
  <2>1. ~IsPresent(s)
    BY <1>6 DEF IsPresent, Deleted
  <2>2. CASE IsPresent(file[p].state)
    <3>1. file' = Written(p, Missing)
      BY <1>6, <2>2 DEF UserRestore
    <3>2. /\ file'[p].state = Missing /\ file'[p].version = file[p].version + 1
          /\ \A q \in Clients \ {p} : file'[q] = file[q]
      BY <1>3, <3>1, WrittenTypes
    <3> QED BY <1>1, <1>2, <1>4, <2>1, <3>2, UserCommitOnce
  <2>3. CASE ~IsPresent(file[p].state)
    <3>1. file' = file
      BY <1>6, <2>3 DEF UserRestore
    <3>2. TextOf(file[p].state) = <<>> /\ CharsOf(file[p].state) = {}
      BY <1>1, <2>3, ClientTypes, TextOfTypes DEF Resource
    <3> QED BY <1>1, <1>2, <2>1, <3>1, <3>2, UserCommitOnce
  <2> QED BY <2>2, <2>3
<1> QED BY <1>5, <1>6

LEMMA VersionRestoredOnce ==
  ASSUME OnceInv, NEW p \in Clients, NEW c, NEW x \in BOOLEAN,
         UserRestore(p, VersionAt(mem[p].commits, c), x)
  PROVE  OnceInv'
<1>1. IsLine(line)
  BY OnceOf DEF BaseInv
<1>2. PICK s : s = VersionAt(mem[p].commits, c)
  OBVIOUS
<1>3. s \in PresentText \cup {Deleted} /\ CharsOf(s) \subseteq LineChars(line)
  BY <1>1, <1>2, VersionTypes, VersionChars
<1>4. UserRestore(p, s, x)
  BY <1>2
<1> QED BY <1>3, <1>4, UserRestoreOnce

LEMMA RollbackOnce ==
  ASSUME OnceInv, NEW p \in Clients, NEW c, Rollback(p, c)
  PROVE  OnceInv'
BY VersionRestoredOnce DEF Rollback

LEMMA ResolveOnce ==
  ASSUME OnceInv, NEW p \in Clients, Resolve(p)
  PROVE  OnceInv'
<1>1. BaseInv /\ BaseInv'
  BY ResolveBase, OnceOf
<1>2. CASE \E c \in HeadCommits(mem[p].commits) : UserRestore(p, VersionAt(mem[p].commits, c), TRUE)
  BY <1>2, VersionRestoredOnce
<1>3. CASE UserRestore(p, Deleted, TRUE)
  <2>1. CharsOf(Deleted) = {}
    BY TextOfTypes DEF IsPresent, Deleted
  <2> QED BY <1>3, <2>1, UserRestoreOnce
<1>4. CASE IsPresent(file[p].state) /\ UserCommit(p, file[p].state, file[p].version, TRUE)
           /\ UNCHANGED file
  <2>1. PICK s, v : s = file[p].state /\ v = file[p].version
    OBVIOUS
  <2>2. s \in PresentText
    BY <1>1, <1>4, <2>1, ClientTypes, Presence DEF Resource
  <2>3. CharsOf(s) \subseteq TextsOf(file[p], batch[p])
    BY <2>1 DEF TextsOf
  <2> QED BY <1>1, <1>4, <2>1, <2>2, <2>3, UserCommitOnce
<1> QED BY <1>2, <1>3, <1>4 DEF Resolve

\* A call that has published.
LEMMA IntegrateOnce ==
  ASSUME OnceInv, BaseInv', NEW p \in Clients, pc[p] = "publish", Goto(p, "integrate"),
         UNCHANGED <<file, mem, disk, runVars, acts, split, unrecorded>>, Longer(line, line'),
         LineChars(line') \subseteq LineChars(line) \cup TextsOf(file[p], batch[p]),
         IsPresent(batch[p].state) \/ line' = line
  PROVE  OnceInv'
<1>1. BaseInv
  BY OnceOf
<1>2. Changed(p, mem[p], disk[p], "integrate", listing[p], plan[p], batch[p])
  BY <1>1, Kept DEF Changed, Goto, runVars
<1>3. /\ Others(p) /\ mem'[p] = mem[p] /\ disk'[p] = disk[p] /\ pc'[p] = "integrate"
      /\ listing'[p] = listing[p] /\ batch'[p] = batch[p]
  BY <1>1, <1>2, ChangedValues
<1>4. Beside(p) /\ acts' \in {acts, acts + 1}
  BY DEF Beside
<1>5. \A c \in TextsOf(file'[p], batch'[p]) : c \in TextsOf(file[p], batch[p]) \cup LineChars(line')
  BY <1>3
<1>6. ClientOnce(p)'
  <2>1. SUFFICES ASSUME p \notin split
                 PROVE  /\ SightOK(file[p], mem[p], disk[p], "integrate", listing[p], batch[p])
                        /\ OnceOK(line', p, file[p], mem[p], "integrate", listing[p], batch[p], unrecorded)
    BY <1>3 DEF ClientOnce
  <2>2. SightOK(file[p], mem[p], disk[p], "integrate", listing[p], batch[p])
    BY <2>1, OnceOf DEF SightOK
  <2>3. ASSUME p \notin unrecorded, ~Unsettled("integrate", batch[p])
        PROVE  Fewer(line', TextOf(file[p].state), ContentIn(line', Stored(mem[p])))
    <3>1. ~IsPresent(batch[p].state)
      BY <2>3 DEF Unsettled
    <3>2. ~Unsettled(pc[p], batch[p]) /\ line' = line
      BY <3>1 DEF Unsettled
    <3>3. Fewer(line, TextOf(file[p].state), ContentIn(line, Stored(mem[p])))
      BY <2>1, <2>3, <3>2, OnceOf
    <3> QED BY <3>2, <3>3
  <2>4. OnceOK(line', p, file[p], mem[p], "integrate", listing[p], batch[p], unrecorded)
    BY <2>3 DEF OnceOK
  <2> QED BY <2>2, <2>4
<1> QED BY <1>3, <1>4, <1>5, <1>6, OnceFrame DEF Beside

LEMMA PublishDeleteOnce ==
  ASSUME OnceInv, NEW p \in Clients, PublishDelete(p)
  PROVE  OnceInv'
<1>1. BaseInv'
  BY PublishDeleteBase, OnceOf
<1>2. /\ pc[p] = "publish" /\ Goto(p, "integrate") /\ line' = line
      /\ UNCHANGED <<file, mem, disk, runVars, acts, split, unrecorded>>
  BY DEF PublishDelete, boundVars, historyVars
<1>3. Longer(line, line') /\ LineChars(line') \subseteq LineChars(line) \cup TextsOf(file[p], batch[p])
  BY <1>2 DEF Longer
<1> QED BY <1>1, <1>2, <1>3, IntegrateOnce

\* An insertion puts characters of the new text on the line.
LEMMA GrownChars ==
  ASSUME NEW L, IsLine(L), NEW u, NEW spot, NEW doc, NEW new \in Text, NEW d, NEW n, NEW g,
         Changes(u, spot, L, doc, new, d, n, g)
  PROVE  LineChars(Grown(L, spot, u.items)) \subseteq LineChars(L) \cup Chars(new)
<1>1. PICK items : items = u.items
  OBVIOUS
<1>2. spot \in 0..Len(L) /\ NewItems(L, items)
  BY <1>1 DEF Changes
<1>3. \A k \in 1..Len(items) : items[k].char \in Chars(new)
  BY <1>1, InsertedChars
<1>4. \A j \in 1..Len(Grown(L, spot, items)) :
        \/ \E i \in 1..Len(L) : Grown(L, spot, items)[j] = L[i]
        \/ \E k \in 1..Len(items) : Grown(L, spot, items)[j] = items[k]
  BY <1>2, GrownItems
<1> QED BY <1>1, <1>3, <1>4 DEF LineChars

LEMMA PublishTextOnce ==
  ASSUME OnceInv, NEW p \in Clients, PublishText(p)
  PROVE  OnceInv'
<1>1. BaseInv /\ BaseInv' /\ IsLine(line)
  BY PublishTextBase, OnceOf DEF BaseInv
<1>2. PICK u, spot, d, n, g :
        /\ Changes(u, spot, line, batch[p].doc, batch[p].state.content, d, n, g)
        /\ line' = Grown(line, spot, u.items)
        /\ batch[p].state.content \in Text /\ IsPresent(batch[p].state)
  BY <1>1, PublishTextFacts
<1>3. Longer(line, line')
  BY <1>1, <1>2, ChangesFacts
<1>4. LineChars(line') \subseteq LineChars(line) \cup Chars(batch[p].state.content)
  BY <1>1, <1>2, GrownChars
<1>5. Chars(batch[p].state.content) \subseteq TextsOf(file[p], batch[p])
  BY <1>2 DEF TextsOf, CharsOf, TextOf
<1>6. /\ pc[p] = "publish" /\ Goto(p, "integrate")
      /\ UNCHANGED <<file, mem, disk, runVars, acts, split, unrecorded>>
  BY DEF PublishText, boundVars, historyVars
<1>7. LineChars(line') \subseteq LineChars(line) \cup TextsOf(file[p], batch[p])
  BY <1>4, <1>5
<1> QED BY <1>1, <1>2, <1>3, <1>6, <1>7, IntegrateOnce

LEMMA EditOnce ==
  ASSUME OnceInv, NEW p \in Clients,
         Create(p) \/ Remove(p) \/ \E i \in 0..MaxEvents : Type(p, i) \/ Cut(p, i)
  PROVE  OnceInv'
<1>1. BaseInv
  BY OnceOf
<1>2. PICK s \in PresentText \cup {Missing} :
        /\ Edit(p, s) /\ CharsOf(s) \subseteq CharsOf(file[p].state) \cup {acts + 1}
        /\ \A c : c # acts + 1 => Copies(TextOf(s), c) <= Copies(TextOf(file[p].state), c)
  BY <1>1, EditFacts
<1>3. BaseInv'
  BY <1>1, <1>2, EditBase
<1>4. /\ file' = Written(p, s) /\ acts' = acts + 1
      /\ UNCHANGED <<line, mem, disk, pc, listing, plan, batch, split, unrecorded>>
  BY <1>2 DEF Edit, Act, runVars
<1>5. file \in [Clients -> Resource] /\ acts \in Nat
  BY <1>1 DEF BaseInv, TypeOK
<1>6. /\ file'[p].state = s /\ file'[p].version = file[p].version + 1
      /\ \A q \in Clients \ {p} : file'[q] = file[q]
  BY <1>4, <1>5, WrittenTypes
<1>7. Others(p) /\ Beside(p) /\ Longer(line, line') /\ acts' \in {acts, acts + 1}
  BY <1>4, <1>6 DEF Others, Beside, Longer
<1>8. \A c \in TextsOf(file'[p], batch'[p]) :
        \/ c \in TextsOf(file[p], batch[p]) \cup LineChars(line')
        \/ c = acts + 1 /\ acts' = acts + 1
  BY <1>2, <1>4, <1>6 DEF TextsOf
<1>9. ClientOnce(p)'
  <2>1. SUFFICES ASSUME p \notin split
                 PROVE  /\ SightOK(file'[p], mem[p], disk[p], pc[p], listing[p], batch[p])
                        /\ OnceOK(line, p, file'[p], mem[p], pc[p], listing[p], batch[p], unrecorded)
    BY <1>4 DEF ClientOnce
  <2>2. /\ Sighted(file'[p], listing[p]) /\ Sighted(file'[p], mem[p].baseline)
        /\ Sighted(file'[p], disk[p].baseline)
    <3>1. /\ Sighted(file[p], listing[p]) /\ Sighted(file[p], mem[p].baseline)
          /\ Sighted(file[p], disk[p].baseline)
      BY <2>1, OnceOf
    <3>2. /\ file[p].version \in Nat /\ listing[p].version \in Nat
          /\ mem[p].baseline.version \in Nat /\ disk[p].baseline.version \in Nat
      BY OnceOf
    <3> QED BY <1>6, <3>1, <3>2, SightedWritten
  <2>3. pc[p] \in {"publish", "integrate"} /\ batch[p].user => Sighted(file'[p], batch[p])
    <3>1. pc[p] \in {"publish", "integrate"} => batch[p].version \in Nat
      BY <1>1, ClientTypes DEF CallOK, Batch
    <3>2. pc[p] \in {"publish", "integrate"} /\ batch[p].user => Sighted(file[p], batch[p])
      BY <2>1, OnceOf
    <3>3. file[p].version \in Nat
      BY OnceOf
    <3> QED BY <1>6, <3>1, <3>2, <3>3, SightedWritten
  <2>4. SightOK(file'[p], mem[p], disk[p], pc[p], listing[p], batch[p])
    BY <2>2, <2>3 DEF SightOK
  <2>5. ASSUME NEW t \in Text, Fewer(line, TextOf(file[p].state), t)
        PROVE  Fewer(line, TextOf(s), t)
    <3>1. LineChars(line) \subseteq 1..acts
      BY DEF OnceInv, CharsInv
    <3>2. ASSUME NEW c \in LineChars(line) PROVE Copies(TextOf(s), c) <= Copies(t, c)
      <4>1. c # acts + 1
        BY <1>5, <3>1
      <4>2. Copies(TextOf(s), c) <= Copies(TextOf(file[p].state), c)
        BY <1>2, <4>1
      <4>3. Copies(TextOf(file[p].state), c) <= Copies(t, c)
        BY <2>5 DEF Fewer
      <4>4. TextOf(s) \in Text /\ TextOf(file[p].state) \in Text
        BY <1>5, TextOfTypes DEF Resource
      <4>5. /\ Copies(TextOf(s), c) \in Nat /\ Copies(TextOf(file[p].state), c) \in Nat
            /\ Copies(t, c) \in Nat
        BY <4>4, CopiesType
      <4> QED BY <4>2, <4>3, <4>5
    <3> QED BY <3>2 DEF Fewer
  <2>6. TextOf(listing[p].state) \in Text /\ ContentIn(line, Stored(mem[p])) \in Text
    BY <1>1, ClientTypes, TextOfTypes, ContentChars DEF Resource, BaseInv, IsLine
  <2>7. pc[p] \in {"read", "apply"} => Fewer(line, TextOf(s), TextOf(listing[p].state))
    BY <2>1, <2>5, <2>6, OnceOf
  <2>8. p \notin unrecorded /\ ~Unsettled(pc[p], batch[p]) =>
          Fewer(line, TextOf(s), ContentIn(line, Stored(mem[p])))
    BY <2>1, <2>5, <2>6, OnceOf
  <2>9. p \notin unrecorded /\ pc[p] = "publish" /\ IsPresent(batch[p].state) /\ ~batch[p].user =>
          \A c \in Chars(ContentIn(line, TextDoc(mem[p].commits))) :
            Copies(batch[p].state.content, c) <= Copies(ContentIn(line, batch[p].doc), c)
    BY <2>1, OnceOf
  <2>10. OnceOK(line, p, file'[p], mem[p], pc[p], listing[p], batch[p], unrecorded)
    BY <1>6, <2>7, <2>8, <2>9 DEF OnceOK
  <2> QED BY <2>4, <2>10
<1>10. LineChars(line') \subseteq LineChars(line) \cup TextsOf(file[p], batch[p])
  BY <1>4
<1> QED BY <1>3, <1>7, <1>8, <1>9, <1>10, OnceFrame DEF Beside

LEMMA OnceInit == ASSUME Init PROVE OnceInv
<1>1. BaseInv
  BY BaseInit
<1>2. LineChars(line) = {}
  BY DEF Init, LineChars
<1>3. CharsOf(Missing) = {} /\ TextOf(Missing) = <<>> /\ ~IsPresent(Missing)
  BY TextOfTypes DEF IsPresent, Missing
<1>4. \A p \in Clients : TextsOf(file[p], batch[p]) = {}
  BY <1>3 DEF Init, TextsOf, Nothing, NoBatch
<1>5. CharsInv
  BY <1>2, <1>4 DEF CharsInv
<1>6. ASSUME NEW p \in Clients PROVE ClientOnce(p)
  <2>1. file[p] = Nothing /\ mem[p] = FreshState /\ disk[p] = FreshState /\ pc[p] = "idle"
        /\ listing[p] = Nothing /\ batch[p] = NoBatch
    BY DEF Init
  <2>2. Sighted(file[p], Nothing) /\ Sighted(file[p], FreshState.baseline)
    BY DEF Sighted, Nothing, FreshState, IsPresent, Missing, NoBaseline
  <2>3. SightOK(file[p], mem[p], disk[p], pc[p], listing[p], batch[p])
    BY <2>1, <2>2 DEF SightOK
  <2>4. OnceOK(line, p, file[p], mem[p], pc[p], listing[p], batch[p], unrecorded)
    BY <1>2, <2>1 DEF OnceOK, Fewer
  <2> QED BY <2>3, <2>4 DEF ClientOnce
<1> QED BY <1>1, <1>5, <1>6 DEF OnceInv

LEMMA OnceStep ==
  ASSUME OnceInv, [Next]_vars
  PROVE  OnceInv'
<1>1. CASE UNCHANGED vars
  <2>1. BaseInv'
    BY <1>1, BaseStep DEF OnceInv
  <2>2. CharsInv'
    BY <1>1 DEF vars, runVars, boundVars, OnceInv, CharsInv
  <2>3. \A p \in Clients : ClientOnce(p)'
    BY <1>1 DEF vars, runVars, historyVars, OnceInv, ClientOnce
  <2> QED BY <2>1, <2>2, <2>3 DEF OnceInv
<1>2. CASE Next
  <2>1. PICK p \in Clients : Begin(p) \/ Step(p) \/ User(p) \/ Fail(p) \/ Crash(p)
    BY <1>2 DEF Next
  <2>2. CASE Begin(p)
    BY <2>2, BeginOnce
  <2>3. CASE Step(p)
    <3>1. CASE ReadUpload(p) \/ ReadMerged(p) \/ ReadConflict(p) \/ ReadDelete(p) \/ ReadChanged(p)
      BY <3>1, ReadUploadOnce, ReadMergedOnce, ReadConflictOnce, ReadDeleteOnce, EndOnce
    <3>2. CASE PublishDelete(p) \/ PublishText(p)
      BY <3>2, PublishDeleteOnce, PublishTextOnce
    <3>3. CASE IntegrateDelete(p) \/ IntegrateUser(p) \/ IntegrateText(p) \/ IntegrateRefused(p)
      BY <3>3, IntegrateDeleteOnce, IntegrateUserOnce, IntegrateTextOnce, IntegrateRefusedOnce
    <3>4. CASE Download(p) \/ ApplyDelete(p) \/ EstablishBaseline(p) \/ EstablishDeletedBaseline(p)
      BY <3>4, DownloadOnce, ApplyDeleteOnce, EstablishBaselineOnce, EstablishDeletedBaselineOnce
    <3>5. CASE Skip(p) \/ Save(p)
      BY <3>5, EndOnce, SaveOnce
    <3> QED BY <2>3, <3>1, <3>2, <3>3, <3>4, <3>5 DEF Step
  <2>4. CASE User(p)
    <3>1. CASE Create(p) \/ Remove(p) \/ \E i \in 0..MaxEvents : Type(p, i) \/ Cut(p, i)
      BY <3>1, EditOnce
    <3>2. CASE \E c \in mem[p].commits : Rollback(p, c)
      BY <3>2, RollbackOnce
    <3>3. CASE Resolve(p)
      BY <3>3, ResolveOnce
    <3> QED BY <2>4, <3>1, <3>2, <3>3 DEF User
  <2>5. CASE Fail(p) \/ Crash(p)
    BY <2>5, FailOnce, CrashOnce
  <2> QED BY <2>1, <2>2, <2>3, <2>4, <2>5
<1> QED BY <1>1, <1>2

\* In every reachable state a client that has recorded what it published has no
\* more of what is published in its replica than in the document it works on.
THEOREM OnceHolds == Spec => []OnceInv
<1>1. Init => OnceInv
  BY OnceInit
<1>2. OnceInv /\ [Next]_vars => OnceInv'
  BY OnceStep
<1> QED BY <1>1, <1>2, PTL DEF Spec

\* What a run publishes and is shown already it replaces.
LEMMA PublishReplaces ==
  ASSUME OnceInv, NEW p \in Clients, PublishText(p), ~batch[p].user, p \notin unrecorded \cup split,
         NEW u, u = Update(batch[p].doc, batch[p].state.content),
         NEW i \in DOMAIN u.items, u.items[i].char \in Chars(Content(TextDoc(mem[p].commits)))
  PROVE  \E x \in Range(line) : x.id \in u.del /\ x.char = u.items[i].char
<1>1. BaseInv /\ IsLine(line) /\ pc[p] = "publish"
  BY OnceOf DEF BaseInv, PublishText
<1>2. PICK spot, d, n, g :
        /\ Changes(u, spot, line, batch[p].doc, batch[p].state.content, d, n, g)
        /\ batch[p].state.content \in Text /\ IsPresent(batch[p].state)
  BY <1>1, PublishTextFacts
<1>3. PICK doc, old, new, c : /\ doc = batch[p].doc /\ old = ContentIn(line, doc)
                              /\ new = batch[p].state.content /\ c = u.items[i].char
  OBVIOUS
<1>4. Copies(new, c) <= Copies(old, c)
  BY <1>1, <1>2, <1>3, OnceOf, ContentOfLine
<1>5. /\ n \in Nat /\ Lists(g, n, At(line, doc)) /\ Splices(d, old, new)
      /\ u.del = {line[g[k]].id : k \in d.start+1 .. d.start+d.remove}
      /\ u.items \in Seq(Item) /\ Len(u.items) = Len(d.insert)
      /\ \A j \in 1..Len(d.insert) : u.items[j].char = d.insert[j]
  BY <1>2, <1>3 DEF Changes, NewItems
<1>6. i \in 1..Len(d.insert) /\ d.insert[i] = c
  BY <1>3, <1>5
<1>7. /\ old = [k \in 1..n |-> line[g[k]].char] /\ old \in Text /\ Len(old) = n
  BY <1>1, <1>3, <1>5, ListedContent DEF IsLine
<1>8. Copies(old, c) \in Nat /\ Copies(new, c) \in Nat /\ new \in Text
  BY <1>2, <1>3, <1>7, CopiesType
<1>9. PICK k \in d.start+1 .. d.start+d.remove : old[k] = c
  <2>1. SUFFICES ASSUME \A k \in d.start+1 .. d.start+d.remove : old[k] # c PROVE FALSE
    OBVIOUS
  <2>2. Copies(old, c) < Copies(new, c)
    BY <1>5, <1>6, <1>7, <1>8, <2>1, CopiesSpliced
  <2> QED BY <1>4, <1>8, <2>2
<1>10. k \in 1..n
  BY <1>5, <1>7 DEF Splices
<1>11. g[k] \in 1..Len(line)
  BY <1>5, <1>10 DEF Lists, At
<1>12. line[g[k]] \in Range(line)
  BY <1>1, <1>11 DEF Range, IsLine
<1>13. line[g[k]].id \in u.del /\ line[g[k]].char = c
  BY <1>5, <1>7, <1>9, <1>10
<1> QED BY <1>3, <1>12, <1>13

\* A run does not publish a text a second time, when the client has recorded
\* what it published before and was not given the text of one of several heads.
THEOREM TextIsPublishedOnce == Spec => PublishedOnce
<1> DEFINE Replaces(p) ==
      LET u == Update(batch[p].doc, batch[p].state.content)
          replaced == {x.char : x \in {x \in Range(line) : x.id \in u.del}}
      IN  {u.items[i].char : i \in DOMAIN u.items} \cap Chars(Content(TextDoc(mem[p].commits)))
            \subseteq replaced
<1>1. ASSUME OnceInv, NEW p \in Clients, PublishText(p), ~batch[p].user, p \notin unrecorded \cup split
      PROVE  Replaces(p)
  <2>1. PICK u : u = Update(batch[p].doc, batch[p].state.content)
    OBVIOUS
  <2>2. ASSUME NEW i \in DOMAIN u.items, u.items[i].char \in Chars(Content(TextDoc(mem[p].commits)))
        PROVE  \E x \in Range(line) : x.id \in u.del /\ x.char = u.items[i].char
    BY <1>1, <2>1, <2>2, PublishReplaces
  <2> QED BY <2>1, <2>2
<1> HIDE DEF Replaces
<1>2. OnceInv /\ [Next]_vars =>
        [\A p \in Clients : PublishText(p) /\ ~batch[p].user /\ p \notin unrecorded \cup split =>
           Replaces(p)]_vars
  BY <1>1
<1> USE DEF Replaces
<1> QED BY <1>2, OnceHolds, PTL DEF Spec, PublishedOnce

---------------------------------------------------------------------------
(* The history of a character.                                             *)

\* The copies of a character on a line; those a document shows; and whether it
\* ever had one.
Ids(L, c) == {L[i].id : i \in {i \in 1..Len(L) : L[i].char = c}}

Live(L, doc, c) == Ids(L, c) \cap (doc.ins \ doc.del)

Has(L, doc, c) == Ids(L, c) \cap doc.ins # {}

LEMMA IdsFacts ==
  ASSUME NEW L, IsLine(L), NEW c
  PROVE  /\ Len(L) \in Nat /\ Ids(L, c) \subseteq 1..Len(L)
         /\ \A S \in SUBSET Ids(L, c) : IsFiniteSet(S) /\ Cardinality(S) \in Nat
<1>1. L \in Seq(Item) /\ Len(L) \in Nat
  BY LenProperties DEF IsLine
<1>2. Ids(L, c) \subseteq 1..Len(L)
  BY DEF IsLine, Ids
<1>3. IsFiniteSet(1..Len(L))
  BY <1>1, FS_Interval
<1>4. ASSUME NEW S \in SUBSET Ids(L, c) PROVE IsFiniteSet(S) /\ Cardinality(S) \in Nat
  BY <1>2, <1>3, FS_Subset, FS_CardinalityType
<1> QED BY <1>1, <1>2, <1>4

\* A text has as many copies of a character as its document shows.
LEMMA CopiesLive ==
  ASSUME NEW L, IsLine(L), NEW doc, NEW c
  PROVE  Copies(ContentIn(L, doc), c) = Cardinality(Live(L, doc, c))
<1>1. L \in Seq(Item) /\ Len(L) \in Nat
  BY LenProperties DEF IsLine
<1>2. PICK n \in Nat : \E g : Lists(g, n, At(L, doc))
  BY <1>1, ContentListed
<1>3. PICK g : Lists(g, n, At(L, doc))
  BY <1>2
<1>4. PICK t : t = ContentIn(L, doc) /\ t = [k \in 1..n |-> L[g[k]].char] /\ t \in Text /\ Len(t) = n
  BY <1>1, <1>3, ListedContent
<1>5. /\ g \in [1..n -> At(L, doc)]
      /\ \A k, m \in 1..n : k < m => g[k] < g[m]
      /\ \A i \in At(L, doc) : \E k \in 1..n : g[k] = i
  BY <1>3 DEF Lists
<1> DEFINE S == {k \in 1..Len(t) : t[k] = c}
           f == [k \in S |-> L[g[k]].id]
<1>6. \A k \in 1..n : g[k] \in 1..Len(L) /\ L[g[k]].id \in doc.ins \ doc.del
  BY <1>5 DEF At
<1>7. ASSUME NEW k \in S PROVE k \in 1..n /\ L[g[k]].char = c
  BY <1>4
<1>8. f \in [S -> Live(L, doc, c)]
  <2>1. ASSUME NEW k \in S PROVE L[g[k]].id \in Live(L, doc, c)
    BY <1>6, <1>7 DEF Live, Ids
  <2> QED BY <2>1
<1>9. ASSUME NEW k \in S, NEW m \in S, f[k] = f[m] PROVE k = m
  <2>1. k \in 1..n /\ m \in 1..n /\ g[k] \in 1..Len(L) /\ g[m] \in 1..Len(L)
    BY <1>6, <1>7
  <2>2. L[g[k]].id = L[g[m]].id
    BY <1>9
  <2>3. g[k] = g[m]
    BY <2>1, <2>2 DEF IsLine
  <2>4. ~(k < m) /\ ~(m < k)
    <3>1. ~(g[k] < g[m]) /\ ~(g[m] < g[k])
      BY <1>1, <2>1, <2>3
    <3> QED BY <1>5, <2>1, <3>1
  <2> QED BY <2>1, <2>4
<1>10. ASSUME NEW x \in Live(L, doc, c) PROVE \E k \in S : f[k] = x
  <2>1. PICK i \in 1..Len(L) : L[i].char = c /\ L[i].id = x
    BY DEF Live, Ids
  <2>2. i \in At(L, doc)
    BY <2>1 DEF At, Live
  <2>3. PICK k \in 1..n : g[k] = i
    BY <1>5, <2>2
  <2>4. k \in S
    BY <1>4, <2>1, <2>3
  <2> QED BY <2>1, <2>3, <2>4
<1>11. f \in Bijection(S, Live(L, doc, c))
  <2> HIDE DEF f, S
  <2> QED BY <1>8, <1>9, <1>10 DEF Bijection, Injection, Surjection, IsInjective
<1>12. IsFiniteSet(S) /\ Copies(t, c) = Cardinality(S)
  BY <1>4, CopiesType DEF Copies
<1>13. Cardinality(S) = Cardinality(Live(L, doc, c))
  <2> HIDE DEF f, S
  <2> QED BY <1>11, <1>12, FS_Bijection DEF ExistsBijection
<1> QED BY <1>4, <1>12, <1>13

\* A set of which some are taken out and others put in.
LEMMA Exchanged ==
  ASSUME NEW A, IsFiniteSet(A), NEW I, IsFiniteSet(I), A \cap I = {}, NEW D
  PROVE  /\ Cardinality(A) \in Nat /\ Cardinality(I) \in Nat /\ Cardinality(A \cap D) \in Nat
         /\ Cardinality((A \ D) \cup I) \in Nat
         /\ Cardinality((A \ D) \cup I) + Cardinality(A \cap D) = Cardinality(A) + Cardinality(I)
<1>1. /\ IsFiniteSet(A \ D) /\ IsFiniteSet(A \cap D)
      /\ Cardinality(A \ D) = Cardinality(A) - Cardinality(A \cap D)
  BY FS_Difference, FS_Subset
<1>2. /\ IsFiniteSet((A \ D) \cup I)
      /\ Cardinality((A \ D) \cup I) = Cardinality(A \ D) + Cardinality(I) - Cardinality((A \ D) \cap I)
  BY <1>1, FS_Union
<1>3. Cardinality((A \ D) \cap I) = 0
  <2>1. (A \ D) \cap I = {}
    OBVIOUS
  <2> QED BY <2>1, FS_EmptySet
<1>4. /\ Cardinality(A) \in Nat /\ Cardinality(I) \in Nat /\ Cardinality(A \cap D) \in Nat
      /\ Cardinality((A \ D) \cup I) \in Nat /\ Cardinality(A \ D) \in Nat
  BY <1>1, <1>2, FS_CardinalityType
<1> QED BY <1>1, <1>2, <1>3, <1>4

\* The copies on a line stay when it grows.
LEMMA IdsGrow ==
  ASSUME NEW L, IsLine(L), NEW K, Longer(L, K), NEW c
  PROVE  Ids(K, c) \cap 1..Len(L) = Ids(L, c)
<1>1. CASE K = L
  BY <1>1, IdsFacts
<1>2. CASE \E spot \in 0..Len(L) : \E items : NewItems(L, items) /\ K = Grown(L, spot, items)
  <2>1. PICK spot \in 0..Len(L) : \E items : NewItems(L, items) /\ K = Grown(L, spot, items)
    BY <1>2
  <2>2. PICK items : NewItems(L, items) /\ K = Grown(L, spot, items)
    BY <2>1
  <2>3. \A j \in 1..Len(Grown(L, spot, items)) :
          \/ \E i \in 1..Len(L) : Grown(L, spot, items)[j] = L[i]
          \/ \E k \in 1..Len(items) : Grown(L, spot, items)[j] = items[k]
    BY <2>2, GrownItems
  <2>4. \A i \in 1..Len(L) :
          \E j \in 1..Len(Grown(L, spot, items)) : Grown(L, spot, items)[j] = L[i]
    BY <2>2, GrownItems
  <2>5. /\ \A j \in 1..Len(K) : \/ \E i \in 1..Len(L) : K[j] = L[i]
                                \/ \E k \in 1..Len(items) : K[j] = items[k]
        /\ \A i \in 1..Len(L) : \E j \in 1..Len(K) : K[j] = L[i]
    BY <2>2, <2>3, <2>4
  <2>6. \A k \in 1..Len(items) : items[k].id \notin 1..Len(L)
    <3>1. Len(L) \in Nat /\ Len(items) \in Nat /\ \A k \in 1..Len(items) : items[k].id = Len(L) + k
      BY <2>2, IdsFacts, LenProperties DEF NewItems
    <3>2. \A k \in 1..Len(items) : Len(L) + k \notin 1..Len(L)
      BY <3>1
    <3> QED BY <3>1, <3>2
  <2>7. ASSUME NEW x \in Ids(K, c), x \in 1..Len(L) PROVE x \in Ids(L, c)
    <3>1. PICK j \in 1..Len(K) : K[j].char = c /\ K[j].id = x
      BY DEF Ids
    <3>2. PICK i \in 1..Len(L) : K[j] = L[i]
      BY <2>5, <2>6, <2>7, <3>1
    <3> QED BY <3>1, <3>2 DEF Ids
  <2>8. ASSUME NEW x \in Ids(L, c) PROVE x \in Ids(K, c) /\ x \in 1..Len(L)
    <3>1. PICK i \in 1..Len(L) : L[i].char = c /\ L[i].id = x
      BY DEF Ids
    <3>2. PICK j \in 1..Len(K) : K[j] = L[i]
      BY <2>5
    <3> QED BY <3>1, <3>2 DEF Ids, IsLine
  <2> QED BY <2>7, <2>8
<1> QED BY <1>1, <1>2 DEF Longer

\* So a document shows and has the same copies.
LEMMA LiveGrows ==
  ASSUME NEW L, IsLine(L), NEW K, Longer(L, K), NEW doc, Within(L, doc), NEW c
  PROVE  Live(K, doc, c) = Live(L, doc, c) /\ (Has(K, doc, c) <=> Has(L, doc, c))
<1>1. Ids(K, c) \cap 1..Len(L) = Ids(L, c)
  BY IdsGrow
<1>2. doc.ins \subseteq 1..Len(L)
  BY DEF Within
<1>3. Ids(K, c) \cap doc.ins = Ids(L, c) \cap doc.ins
  BY <1>1, <1>2
<1> QED BY <1>3 DEF Live, Has

---------------------------------------------------------------------------
(* What commits do to characters that no user removed.                     *)

\* More commits do not show fewer copies.
NoLoss(L, P, X) ==
  \A B, C \in SUBSET P : Closed(P, B) /\ Closed(P, C) /\ B \subseteq C =>
    \A c : c \notin X =>
      Cardinality(Live(L, TextDoc(B), c)) <= Cardinality(Live(L, TextDoc(C), c))

\* A character that was ever there is shown.
Alive(L, P, X) ==
  \A C \in SUBSET P : Closed(P, C) =>
    \A c : c \notin X /\ Has(L, TextDoc(C), c) => Live(L, TextDoc(C), c) # {}

\* Nothing but what users removed was ever in the text.
Emptied(L, X, C) == \A c : c \notin X => ~Has(L, TextDoc(C), c)

\* Only such texts are deleted.
Deletions(L, P, X) ==
  \A d \in P : d.change = Deleted =>
    \E S \in SUBSET P : Closed(P, S) /\ d \in S /\ Emptied(L, X, S)

GraphKept(L, P, X) == NoLoss(L, P, X) /\ Alive(L, P, X) /\ Deletions(L, P, X)

\* Commits with their ancestors that include the heads of others include these.
LEMMA HeadsCover ==
  ASSUME NEW P, GraphOK(P), NEW M, Closed(P, M), NEW C, Closed(P, C), HeadCommits(M) \subseteq C
  PROVE  M \subseteq C
<1> DEFINE S == {a.id : a \in M \ C}
<1>1. Cardinality(P) \in Nat /\ C \subseteq P /\ M \subseteq P
  BY NextNumber DEF Closed
<1>2. S \in SUBSET Nat /\ \A m \in S : m <= Cardinality(P)
  BY <1>1 DEF GraphOK
<1>3. ASSUME S # {} PROVE FALSE
  <2>1. Max(S) \in S /\ \A m \in S : m <= Max(S)
    BY <1>1, <1>2, <1>3, MaxExists
  <2>2. PICK a \in M \ C : a.id = Max(S)
    BY <2>1
  <2>3. a \notin HeadCommits(M)
    BY <2>2
  <2>4. PICK b \in M : a.id \in b.parents
    BY <2>2, <2>3 DEF HeadCommits
  <2>5. b \in C => a \in C
    BY <1>1, <2>2, <2>4 DEF Closed
  <2>6. b.id \in S
    BY <2>2, <2>4, <2>5
  <2>7. a.id < b.id /\ a.id \in Nat /\ b.id \in Nat
    BY <1>1, <2>2, <2>4 DEF GraphOK
  <2> QED BY <2>1, <2>2, <2>6, <2>7
<1> QED BY <1>3

\* Documents of more commits.
LEMMA DocsOrdered ==
  ASSUME NEW B, NEW C, B \subseteq C
  PROVE  TextDoc(B).ins \subseteq TextDoc(C).ins /\ TextDoc(B).del \subseteq TextDoc(C).del
<1>1. Updates(B) \subseteq Updates(C)
  BY DEF Updates
<1> QED BY <1>1 DEF TextDoc, Merge

\* What was ever there, with more commits or on a longer line.
LEMMA HasGrows ==
  ASSUME NEW L, IsLine(L), NEW K, Longer(L, K), NEW B, NEW C, B \subseteq C, Within(L, TextDoc(B)),
         NEW c, Has(L, TextDoc(B), c)
  PROVE  Has(K, TextDoc(C), c)
<1>1. Has(K, TextDoc(B), c)
  BY LiveGrows
<1> QED BY <1>1, DocsOrdered DEF Has

\* A text that only has what users removed.
LEMMA EmptiedGrows ==
  ASSUME NEW L, IsLine(L), NEW K, Longer(L, K), NEW C, Within(L, TextDoc(C)),
         NEW X, NEW Y, X \subseteq Y, Emptied(L, X, C)
  PROVE  Emptied(K, Y, C)
BY LiveGrows DEF Emptied

\* The graph without its last commit.
LEMMA WithoutLast ==
  ASSUME NEW P, NEW a, a \notin P, NEW C \in SUBSET (P \cup {a}), Closed(P \cup {a}, C)
  PROVE  /\ Closed(P, C \ {a}) /\ C \ {a} \in SUBSET P
         /\ a \notin C => C \ {a} = C
         /\ a \in C => C = (C \ {a}) \cup {a}
BY DEF Closed

\* What a document shows when a commit of new characters is added: l were
\* shown, e are, r are removed and i inserted.
Exchanges(l, e, r, i) == e = (l \ r) \cup i /\ l \cap i = {}

LEMMA LiveWith ==
  ASSUME NEW L, IsLine(L), NEW K, Longer(L, K), NEW C, Within(L, TextDoc(C)), NEW a,
         a.change # Deleted, a.change.ins \cap 1..Len(L) = {}, a.change.del \subseteq 1..Len(L), NEW c
  PROVE  /\ Exchanges(Live(L, TextDoc(C), c), Live(K, TextDoc(C \cup {a}), c),
                      Ids(K, c) \cap a.change.del, Ids(K, c) \cap a.change.ins)
         /\ Has(K, TextDoc(C \cup {a}), c) <=>
              Has(L, TextDoc(C), c) \/ Ids(K, c) \cap a.change.ins # {}
<1>1. PICK D : D = TextDoc(C)
  OBVIOUS
<1>2. PICK E : E = TextDoc(C \cup {a}) /\ E.ins = D.ins \cup a.change.ins /\ E.del = D.del \cup a.change.del
  BY <1>1, DocWith
<1>3. D.ins \subseteq 1..Len(L) /\ D.del \subseteq 1..Len(L)
  BY <1>1 DEF Within
<1>4. Ids(K, c) \cap 1..Len(L) = Ids(L, c)
  BY IdsGrow
<1>5. Live(K, E, c) =
        (Live(L, D, c) \ (Ids(K, c) \cap a.change.del)) \cup (Ids(K, c) \cap a.change.ins)
  BY <1>2, <1>3, <1>4 DEF Live
<1>6. Live(L, D, c) \cap (Ids(K, c) \cap a.change.ins) = {}
  BY <1>3 DEF Live
<1>7. Has(K, E, c) <=> Has(L, D, c) \/ Ids(K, c) \cap a.change.ins # {}
  BY <1>2, <1>3, <1>4 DEF Has
<1> QED BY <1>1, <1>2, <1>5, <1>6, <1>7 DEF Exchanges

\* A commit that removes a copy inserts one.
Fair(K, X, change) ==
  \A c : c \notin X =>
    Cardinality(Ids(K, c) \cap change.del) <= Cardinality(Ids(K, c) \cap change.ins)

\* a is a commit of new characters on the heads of M.
Adds(L, K, P, M, a) ==
  /\ IsLine(L) /\ Longer(L, K) /\ GraphOK(P) /\ ChangesWithin(L, P) /\ Extends(P, a)
  /\ a.change # Deleted /\ a.change.ins \cap 1..Len(L) = {} /\ a.change.del \subseteq 1..Len(L)
  /\ Closed(P, M) /\ a.parents = Heads(M) /\ a.change.del \subseteq TextDoc(M).ins

\* What it removes is in every graph it is in.
LEMMA RemovesKnown ==
  ASSUME NEW L, NEW K, NEW P, NEW M, NEW a, Adds(L, K, P, M, a),
         NEW C \in SUBSET (P \cup {a}), Closed(P \cup {a}, C), a \in C
  PROVE  a.change.del \subseteq TextDoc(C \ {a}).ins
<1>1. a \notin P /\ GraphOK(P) /\ Closed(P, M)
  BY NextNumber DEF Adds, Extends
<1>2. Closed(P, C \ {a})
  BY <1>1, WithoutLast
<1>3. HeadCommits(M) \subseteq C \ {a}
  <2>1. ASSUME NEW h \in HeadCommits(M) PROVE h \in C /\ h # a
    <3>1. h \in P /\ h.id \in a.parents
      BY <1>1, HeadsAmong DEF Adds, Heads, Closed
    <3> QED BY <1>1, <3>1 DEF Closed
  <2> QED BY <2>1
<1>4. M \subseteq C \ {a}
  BY <1>1, <1>2, <1>3, HeadsCover
<1>5. TextDoc(M).ins \subseteq TextDoc(C \ {a}).ins
  BY <1>4, DocsOrdered
<1> QED BY <1>5 DEF Adds

\* The numbers of copies before and after it: l were shown, e are, r are
\* removed and i inserted.
Counted(l, e, r, i) ==
  /\ Cardinality(l) \in Nat /\ Cardinality(e) \in Nat /\ Cardinality(i) \in Nat
  /\ IsFiniteSet(l \cap r) /\ Cardinality(l \cap r) \in Nat
  /\ Cardinality(e) + Cardinality(l \cap r) = Cardinality(l) + Cardinality(i)

LEMMA CountWith ==
  ASSUME NEW L, NEW K, NEW P, NEW M, NEW a, Adds(L, K, P, M, a), NEW C \in SUBSET P, NEW c
  PROVE  Counted(Live(L, TextDoc(C), c), Live(K, TextDoc(C \cup {a}), c),
                 Ids(K, c) \cap a.change.del, Ids(K, c) \cap a.change.ins)
<1>1. IsLine(L) /\ Longer(L, K) /\ IsLine(K)
  BY LongerFacts DEF Adds
<1>2. Within(L, TextDoc(C))
  BY DocFacts DEF Adds
<1> DEFINE l == Live(L, TextDoc(C), c)
           e == Live(K, TextDoc(C \cup {a}), c)
           r == Ids(K, c) \cap a.change.del
           i == Ids(K, c) \cap a.change.ins
<1>3. e = (l \ r) \cup i /\ l \cap i = {}
  <2>1. Exchanges(l, e, r, i)
    BY <1>1, <1>2, LiveWith DEF Adds
  <2> HIDE DEF l, e, r, i
  <2> QED BY <2>1 DEF Exchanges
<1>4. IsFiniteSet(l) /\ IsFiniteSet(i) /\ IsFiniteSet(l \cap r) /\ Cardinality(l \cap r) \in Nat
  <2>1. l \in SUBSET Ids(L, c) /\ l \cap r \in SUBSET Ids(L, c) /\ i \in SUBSET Ids(K, c)
    BY DEF Live
  <2> HIDE DEF l, r, i
  <2> QED BY <1>1, <2>1, IdsFacts
<1> HIDE DEF l, e, r, i
<1>5. /\ Cardinality(l) \in Nat /\ Cardinality(i) \in Nat /\ Cardinality((l \ r) \cup i) \in Nat
      /\ Cardinality((l \ r) \cup i) + Cardinality(l \cap r) = Cardinality(l) + Cardinality(i)
  BY <1>3, <1>4, Exchanged
<1>6. Counted(l, e, r, i)
  BY <1>3, <1>4, <1>5 DEF Counted
<1> QED BY <1>6 DEF l, e, r, i

LEMMA NoLossGrows ==
  ASSUME NEW L, NEW K, NEW P, NEW M, NEW a, Adds(L, K, P, M, a), NEW X, Fair(K, X, a.change),
         NoLoss(L, P, X)
  PROVE  NoLoss(K, P \cup {a}, X)
<1>1. IsLine(L) /\ Longer(L, K) /\ IsLine(K) /\ a \notin P
  BY LongerFacts, NextNumber DEF Adds, Extends
<1>2. \A S \in SUBSET P : Within(L, TextDoc(S))
  BY DocFacts DEF Adds
<1> SUFFICES ASSUME NEW B \in SUBSET (P \cup {a}), NEW C \in SUBSET (P \cup {a}),
                    Closed(P \cup {a}, B), Closed(P \cup {a}, C), B \subseteq C,
                    NEW c, c \notin X
             PROVE  Cardinality(Live(K, TextDoc(B), c)) <= Cardinality(Live(K, TextDoc(C), c))
  BY DEF NoLoss
<1>3. PICK b, d : /\ b = B \ {a} /\ d = C \ {a} /\ b \in SUBSET P /\ d \in SUBSET P
                  /\ Closed(P, b) /\ Closed(P, d) /\ b \subseteq d
                  /\ a \notin B => B = b
                  /\ a \in B => B = b \cup {a}
                  /\ a \notin C => C = d
                  /\ a \in C => C = d \cup {a}
  <2>1. /\ Closed(P, B \ {a}) /\ B \ {a} \in SUBSET P
        /\ a \notin B => B \ {a} = B
        /\ a \in B => B = (B \ {a}) \cup {a}
    BY <1>1, WithoutLast
  <2>2. /\ Closed(P, C \ {a}) /\ C \ {a} \in SUBSET P
        /\ a \notin C => C \ {a} = C
        /\ a \in C => C = (C \ {a}) \cup {a}
    BY <1>1, WithoutLast
  <2> QED BY <2>1, <2>2
<1> DEFINE r == Ids(K, c) \cap a.change.del
           i == Ids(K, c) \cap a.change.ins
           lb == Live(L, TextDoc(b), c)
           ld == Live(L, TextDoc(d), c)
<1>4. Cardinality(lb) <= Cardinality(ld)
  BY <1>3 DEF NoLoss
<1>5. Counted(lb, Live(K, TextDoc(b \cup {a}), c), r, i)
  BY <1>3, CountWith
<1>6. Counted(ld, Live(K, TextDoc(d \cup {a}), c), r, i)
  BY <1>3, CountWith
<1>7. Live(K, TextDoc(b), c) = lb /\ Live(K, TextDoc(d), c) = ld
  BY <1>1, <1>2, <1>3, LiveGrows
<1>8. CASE a \notin C
  BY <1>3, <1>4, <1>7, <1>8
<1>9. CASE a \in C /\ a \notin B
  <2>1. Cardinality(r) <= Cardinality(i)
    BY DEF Fair
  <2>2. IsFiniteSet(r) /\ Cardinality(r) \in Nat
    BY <1>1, IdsFacts
  <2>3. Cardinality(ld \cap r) <= Cardinality(r)
    BY <2>2, FS_Subset
  <2> HIDE DEF r, i, lb, ld
  <2>4. Cardinality(lb) <= Cardinality(Live(K, TextDoc(d \cup {a}), c))
    BY <1>4, <1>5, <1>6, <2>1, <2>2, <2>3 DEF Counted
  <2> QED BY <1>3, <1>7, <1>9, <2>4
<1>10. CASE a \in C /\ a \in B
  <2>1. a.change.del \subseteq TextDoc(b).ins
    BY <1>3, <1>10, RemovesKnown
  <2>2. TextDoc(b).del \subseteq TextDoc(d).del
    BY <1>3, DocsOrdered
  <2>3. ld \cap r \subseteq lb \cap r
    BY <2>1, <2>2 DEF Live
  <2> HIDE DEF r, i, lb, ld
  <2>4. Cardinality(ld \cap r) <= Cardinality(lb \cap r)
    BY <1>5, <2>3, FS_Subset DEF Counted
  <2>5. Cardinality(Live(K, TextDoc(b \cup {a}), c)) <= Cardinality(Live(K, TextDoc(d \cup {a}), c))
    BY <1>4, <1>5, <1>6, <2>4 DEF Counted
  <2> QED BY <1>3, <1>10, <2>5
<1> QED BY <1>8, <1>9, <1>10

LEMMA AliveWith ==
  ASSUME NEW L, NEW K, NEW P, NEW M, NEW a, Adds(L, K, P, M, a), NEW C \in SUBSET P, NEW c,
         Cardinality(Ids(K, c) \cap a.change.del) <= Cardinality(Ids(K, c) \cap a.change.ins),
         Has(L, TextDoc(C), c) => Live(L, TextDoc(C), c) # {},
         Has(K, TextDoc(C \cup {a}), c)
  PROVE  Live(K, TextDoc(C \cup {a}), c) # {}
<1>1. IsLine(L) /\ Longer(L, K) /\ IsLine(K)
  BY LongerFacts DEF Adds
<1>2. Within(L, TextDoc(C))
  BY DocFacts DEF Adds
<1> DEFINE r == Ids(K, c) \cap a.change.del
           i == Ids(K, c) \cap a.change.ins
<1>3. Live(K, TextDoc(C \cup {a}), c) = (Live(L, TextDoc(C), c) \ r) \cup i
  <2>1. Exchanges(Live(L, TextDoc(C), c), Live(K, TextDoc(C \cup {a}), c), r, i)
    BY <1>1, <1>2, LiveWith DEF Adds
  <2> QED BY <2>1 DEF Exchanges
<1>4. Has(L, TextDoc(C), c) \/ i # {}
  BY <1>1, <1>2, LiveWith DEF Adds
<1>5. CASE i # {}
  BY <1>3, <1>5
<1>6. CASE i = {}
  <2>1. Cardinality(i) = 0 /\ IsFiniteSet(r) /\ Cardinality(r) \in Nat
    BY <1>1, <1>6, FS_EmptySet, IdsFacts
  <2>2. Cardinality(r) <= 0
    BY <2>1
  <2> HIDE DEF r, i
  <2>3. r = {}
    BY <2>1, <2>2, FS_EmptySet
  <2> QED BY <1>3, <1>4, <1>6, <2>3
<1> QED BY <1>5, <1>6

LEMMA AliveGrows ==
  ASSUME NEW L, NEW K, NEW P, NEW M, NEW a, Adds(L, K, P, M, a), NEW X, Fair(K, X, a.change),
         Alive(L, P, X)
  PROVE  Alive(K, P \cup {a}, X)
<1>1. IsLine(L) /\ Longer(L, K) /\ IsLine(K) /\ a \notin P
  BY LongerFacts, NextNumber DEF Adds, Extends
<1> SUFFICES ASSUME NEW C \in SUBSET (P \cup {a}), Closed(P \cup {a}, C),
                    NEW c, c \notin X, Has(K, TextDoc(C), c)
             PROVE  Live(K, TextDoc(C), c) # {}
  BY DEF Alive
<1>2. PICK d : /\ d \in SUBSET P /\ Closed(P, d)
               /\ a \notin C => C = d
               /\ a \in C => C = d \cup {a}
  <2>1. /\ Closed(P, C \ {a}) /\ C \ {a} \in SUBSET P
        /\ a \notin C => C \ {a} = C
        /\ a \in C => C = (C \ {a}) \cup {a}
    BY <1>1, WithoutLast
  <2> QED BY <2>1
<1>3. Within(L, TextDoc(d))
  BY <1>2, DocFacts DEF Adds
<1>4. Has(L, TextDoc(d), c) => Live(L, TextDoc(d), c) # {}
  BY <1>2 DEF Alive
<1>5. CASE a \notin C
  BY <1>1, <1>2, <1>3, <1>4, <1>5, LiveGrows
<1>6. CASE a \in C
  <2>1. Cardinality(Ids(K, c) \cap a.change.del) <= Cardinality(Ids(K, c) \cap a.change.ins)
    BY DEF Fair
  <2>2. Has(K, TextDoc(d \cup {a}), c)
    BY <1>2, <1>6
  <2>3. Live(K, TextDoc(d \cup {a}), c) # {}
    BY <1>2, <1>4, <2>1, <2>2, AliveWith
  <2> QED BY <1>2, <1>6, <2>3
<1> QED BY <1>5, <1>6

\* The deletions there are stay such.
LEMMA DeletionsGrow ==
  ASSUME NEW L, IsLine(L), NEW K, Longer(L, K), NEW P, GraphOK(P), ChangesWithin(L, P),
         NEW a, Extends(P, a), NEW X, Deletions(L, P, X), NEW d \in P, d.change = Deleted
  PROVE  \E S \in SUBSET (P \cup {a}) : Closed(P \cup {a}, S) /\ d \in S /\ Emptied(K, X, S)
<1>1. PICK S \in SUBSET P : Closed(P, S) /\ d \in S /\ Emptied(L, X, S)
  BY DEF Deletions
<1>2. Within(L, TextDoc(S))
  BY DocFacts
<1>3. Emptied(K, X, S)
  BY <1>1, <1>2, EmptiedGrows
<1>4. Closed(P \cup {a}, S)
  BY <1>1, ClosedGrows
<1> QED BY <1>1, <1>3, <1>4

\* A text is published.
LEMMA GraphKeptText ==
  ASSUME NEW L, NEW K, NEW P, NEW M, NEW a, Adds(L, K, P, M, a), NEW X, Fair(K, X, a.change),
         GraphKept(L, P, X)
  PROVE  GraphKept(K, P \cup {a}, X)
<1>1. NoLoss(K, P \cup {a}, X) /\ Alive(K, P \cup {a}, X)
  BY NoLossGrows, AliveGrows DEF GraphKept
<1>2. ASSUME NEW d \in P \cup {a}, d.change = Deleted
      PROVE  \E S \in SUBSET (P \cup {a}) : Closed(P \cup {a}, S) /\ d \in S /\ Emptied(K, X, S)
  <2>1. d \in P
    BY <1>2 DEF Adds
  <2>2. IsLine(L) /\ Longer(L, K) /\ GraphOK(P) /\ ChangesWithin(L, P) /\ Extends(P, a) /\ Deletions(L, P, X)
    BY DEF GraphKept, Adds
  <2> QED BY <1>2, <2>1, <2>2, DeletionsGrow
<1> QED BY <1>1, <1>2 DEF GraphKept, Deletions

\* A deletion is published.
LEMMA GraphKeptDelete ==
  ASSUME NEW L, IsLine(L), NEW P, GraphOK(P), ChangesWithin(L, P), NEW a, Extends(P, a),
         a.change = Deleted, NEW M, Closed(P, M), a.parents = Heads(M),
         NEW X, GraphKept(L, P, X), Emptied(L, X, M)
  PROVE  GraphKept(L, P \cup {a}, X)
<1>1. a \notin P /\ GraphOK(P \cup {a}) /\ Longer(L, L)
  BY NextNumber, GraphGrows DEF Extends, Longer
<1>2. ASSUME NEW C PROVE TextDoc(C \ {a}) = TextDoc(C)
  <2>1. Updates(C \ {a}) = Updates(C)
    BY DEF Updates
  <2> QED BY <2>1 DEF TextDoc
<1>3. ASSUME NEW C \in SUBSET (P \cup {a}), Closed(P \cup {a}, C)
      PROVE  C \ {a} \in SUBSET P /\ Closed(P, C \ {a})
  BY <1>1, <1>3, WithoutLast
<1>4. NoLoss(L, P \cup {a}, X)
  <2> SUFFICES ASSUME NEW B \in SUBSET (P \cup {a}), NEW C \in SUBSET (P \cup {a}),
                      Closed(P \cup {a}, B), Closed(P \cup {a}, C), B \subseteq C,
                      NEW c, c \notin X
               PROVE  Cardinality(Live(L, TextDoc(B), c)) <= Cardinality(Live(L, TextDoc(C), c))
    BY DEF NoLoss
  <2>1. PICK b, d : /\ b = B \ {a} /\ d = C \ {a} /\ b \in SUBSET P /\ d \in SUBSET P
                    /\ Closed(P, b) /\ Closed(P, d) /\ b \subseteq d
    <3>1. B \ {a} \in SUBSET P /\ Closed(P, B \ {a})
      BY <1>3
    <3>2. C \ {a} \in SUBSET P /\ Closed(P, C \ {a})
      BY <1>3
    <3> QED BY <3>1, <3>2
  <2>2. Cardinality(Live(L, TextDoc(b), c)) <= Cardinality(Live(L, TextDoc(d), c))
    BY <2>1 DEF GraphKept, NoLoss
  <2> QED BY <1>2, <2>1, <2>2
<1>5. Alive(L, P \cup {a}, X)
  <2> SUFFICES ASSUME NEW C \in SUBSET (P \cup {a}), Closed(P \cup {a}, C),
                      NEW c, c \notin X, Has(L, TextDoc(C), c)
               PROVE  Live(L, TextDoc(C), c) # {}
    BY DEF Alive
  <2>1. PICK d : d = C \ {a} /\ d \in SUBSET P /\ Closed(P, d)
    BY <1>3
  <2>2. TextDoc(d) = TextDoc(C)
    BY <1>2, <2>1
  <2> QED BY <2>1, <2>2 DEF GraphKept, Alive
<1>6. ASSUME NEW d \in P \cup {a}, d.change = Deleted
      PROVE  \E S \in SUBSET (P \cup {a}) : Closed(P \cup {a}, S) /\ d \in S /\ Emptied(L, X, S)
  <2>1. CASE d \in P
    BY <1>1, <1>6, <2>1, DeletionsGrow DEF GraphKept
  <2>2. CASE d = a
    <3>1. PICK S : S = M \cup {a}
      OBVIOUS
    <3>2. Closed(P \cup {a}, M)
      BY ClosedGrows
    <3>3. Closed(P \cup {a}, S)
      BY <1>1, <3>1, <3>2, ClosedWithOwn
    <3>4. S \ {a} = M
      BY <1>1, <3>1 DEF Closed
    <3>5. TextDoc(S) = TextDoc(M)
      BY <1>2, <3>4
    <3>6. Emptied(L, X, S)
      BY <3>5 DEF Emptied
    <3> QED BY <2>2, <3>1, <3>3, <3>6 DEF Closed
  <2> QED BY <2>1, <2>2
<1> QED BY <1>4, <1>5, <1>6 DEF GraphKept, Deletions

\* A text whose heads are all deletions only has what users removed.
LEMMA DeletedEmptied ==
  ASSUME NEW L, IsLine(L), NEW P, GraphOK(P), ChangesWithin(L, P), NEW X, Deletions(L, P, X),
         NEW C, Closed(P, C), RemoteIn(L, C) = Deleted
  PROVE  Emptied(L, X, C)
<1>1. \A h \in HeadCommits(C) : h \in P /\ h.change = Deleted
  BY RemoteFacts, HeadsAmong DEF Closed
<1> DEFINE Z == {S \in SUBSET P : Closed(P, S) /\ Emptied(L, X, S)}
           U == UNION Z
<1>2. Closed(P, U)
  BY DEF Closed
<1>3. HeadCommits(C) \subseteq U
  BY <1>1 DEF Deletions
<1>4. C \subseteq U
  BY <1>2, <1>3, HeadsCover
<1>5. ASSUME NEW c, c \notin X, Has(L, TextDoc(C), c) PROVE FALSE
  <2>1. PICK i \in Ids(L, c) : i \in TextDoc(C).ins
    BY <1>5 DEF Has
  <2>2. PICK x \in C : x.change # Deleted /\ i \in x.change.ins
    BY <2>1, DocFacts DEF Closed
  <2>3. PICK S \in Z : x \in S
    BY <1>4
  <2>4. S \in SUBSET P /\ Emptied(L, X, S)
    OBVIOUS
  <2>5. i \in TextDoc(S).ins
    BY <2>2, <2>3, <2>4, DocFacts
  <2> QED BY <1>5, <2>4, <2>5 DEF Emptied, Has
<1> QED BY <1>5 DEF Emptied

\* An update of a text that keeps all copies inserts as many as it removes.
LEMMA UpdateFair ==
  ASSUME NEW L, IsLine(L), NEW doc, Within(L, doc), NEW new \in Text, NEW u, NEW e, NEW spot,
         NEW d, NEW n, NEW g, Changes(u, spot, L, doc, new, d, n, g),
         e.ins = u.ins, e.del = u.del,
         NEW c, Copies(ContentIn(L, doc), c) <= Copies(new, c)
  PROVE  LET K == Grown(L, spot, u.items)
         IN  Cardinality(Ids(K, c) \cap e.del) <= Cardinality(Ids(K, c) \cap e.ins)
<1>1. PICK K : K = Grown(L, spot, u.items) /\ Longer(L, K)
  BY ChangesFacts
<1>2. IsLine(K) /\ Len(L) \in Nat
  BY <1>1, LongerFacts
<1>3. PICK D : D = Merge({doc, e}) /\ D.ins = doc.ins \cup e.ins /\ D.del = doc.del \cup e.del
  BY MergeOfTwo
<1>4. ContentIn(K, D) = new
  BY <1>1, <1>3, SetTextContent
<1>5. Copies(new, c) = Cardinality(Live(K, D, c))
  BY <1>2, <1>4, CopiesLive
<1>6. Copies(ContentIn(L, doc), c) = Cardinality(Live(L, doc, c))
  BY CopiesLive
<1>7. /\ e.del \subseteq doc.ins \ doc.del /\ doc.ins \subseteq 1..Len(L) /\ doc.del \subseteq 1..Len(L)
      /\ e.ins \cap 1..Len(L) = {}
  <2>1. u.del \subseteq doc.ins \ doc.del /\ u.ins = {Len(L) + i : i \in 1..Len(u.items)}
    BY ChangesFacts
  <2>2. u.ins \cap 1..Len(L) = {}
    <3>1. ASSUME NEW i \in 1..Len(u.items) PROVE Len(L) + i \notin 1..Len(L)
      <4>1. i \in Nat /\ i # 0
        BY LenProperties DEF Changes, NewItems
      <4> QED BY <1>2, <4>1
    <3> QED BY <2>1, <3>1
  <2> QED BY <2>1, <2>2 DEF Within
<1> DEFINE l == Live(L, doc, c)
           r == Ids(K, c) \cap e.del
           i == Ids(K, c) \cap e.ins
<1>8. Ids(K, c) \cap 1..Len(L) = Ids(L, c)
  BY <1>1, IdsGrow
<1>9. Live(K, D, c) = (l \ r) \cup i /\ l \cap i = {} /\ l \cap r = r
  BY <1>3, <1>7, <1>8 DEF Live
<1>10. IsFiniteSet(l) /\ IsFiniteSet(i)
  <2>1. l \in SUBSET Ids(L, c) /\ i \in SUBSET Ids(K, c)
    BY DEF Live
  <2> HIDE DEF l, i
  <2> QED BY <1>2, <2>1, IdsFacts
<1>11. Cardinality(l) <= Cardinality(Live(K, D, c))
  BY <1>5, <1>6
<1> HIDE DEF l, r, i
<1>12. /\ Cardinality(l) \in Nat /\ Cardinality(i) \in Nat /\ Cardinality(l \cap r) \in Nat
       /\ Cardinality((l \ r) \cup i) \in Nat
       /\ Cardinality((l \ r) \cup i) + Cardinality(l \cap r) = Cardinality(l) + Cardinality(i)
  BY <1>9, <1>10, Exchanged
<1>13. Cardinality(r) <= Cardinality(i)
  BY <1>9, <1>11, <1>12
<1> QED BY <1>1, <1>13 DEF r, i

---------------------------------------------------------------------------
(* What users typed is kept: the invariant.                                *)

\* Text t has all the copies that text s has, but for characters in X.
Spares(X, s, t) == \A c : c \notin X => Copies(s, c) <= Copies(t, c)

\* The replica f has what the client's document shows and its baseline says.
StateKept(L, X, m, f) ==
  /\ Spares(X, ContentIn(L, Stored(m)), TextOf(f.state))
  /\ \A c \in CharsOf(m.baseline.state) :
       Has(L, TextDoc(m.commits), c) /\ (c \notin X => c \in CharsOf(f.state))

\* A call changes the replica and the graph for what has all of it.
CallKept(L, P, X, m, f, label, listed, op, b) ==
  /\ label = "apply" => Spares(X, TextOf(listed.state), TextOf(f.state))
  /\ label = "read" /\ op = Op("PublishDelete") => Emptied(L, X, m.commits)
  /\ label = "publish" /\ b.state = Deleted => Emptied(L, X, m.commits)
  /\ label = "publish" /\ IsPresent(b.state) => Spares(X, ContentIn(L, b.doc), b.state.content)
  /\ label \in {"publish", "integrate"} /\ b.user =>
       \A c \in CharsOf(b.state) \ X : c \in CharsOf(f.state)
  /\ label \in {"publish", "integrate"} /\ IsPresent(b.state) /\ ~b.user =>
       /\ IsPresent(listed.state)
       /\ f.version = listed.version =>
            \A c \in CharsOf(f.state) \ X : c \in CharsOf(b.state) \/ Has(L, TextDoc(P), c)

ClientKept(p) ==
  /\ disk[p].commits \subseteq mem[p].commits
  /\ StateKept(line, cut, mem[p], file[p]) /\ StateKept(line, cut, disk[p], file[p])
  /\ CallKept(line, published, cut, mem[p], file[p], pc[p], listing[p], plan[p], batch[p])

\* What was typed was published, or is in a replica.
Somewhere ==
  \A c \in (1..acts) \ cut :
    Has(line, TextDoc(published), c) \/ \E p \in Clients : c \in CharsOf(file[p].state)

Keeping ==
  /\ GraphKept(line, published, cut) /\ Somewhere
  /\ \A p \in Clients : ClientKept(p)

EditInv == OnceInv /\ (split = {} => Keeping)

\* A text has all copies of itself.
LEMMA SparesSelf ==
  ASSUME NEW X, NEW s \in Text
  PROVE  Spares(X, s, s)
<1>1. ASSUME NEW c PROVE Copies(s, c) <= Copies(s, c)
  <2>1. PICK n \in Nat : n = Copies(s, c)
    BY CopiesType
  <2>2. n <= n
    OBVIOUS
  <2> QED BY <2>1, <2>2
<1> QED BY <1>1 DEF Spares

\* The copies of three texts.
LEMMA SparesFacts ==
  ASSUME NEW X, NEW Y, X \subseteq Y, NEW s \in Text, NEW t \in Text, Spares(X, s, t)
  PROVE  /\ \A u \in Text : Spares(Y, t, u) => Spares(Y, s, u)
         /\ \A c \in Chars(s) \ X : c \in Chars(t)
         /\ Spares(Y, s, t)
<1>1. ASSUME NEW u \in Text, NEW c PROVE Copies(u, c) \in Nat /\ (c \notin Chars(u) <=> Copies(u, c) = 0)
  BY CopiesType
<1>2. ASSUME NEW u \in Text, Spares(Y, t, u), NEW c, c \notin Y PROVE Copies(s, c) <= Copies(u, c)
  <2>1. Copies(s, c) <= Copies(t, c) /\ Copies(t, c) <= Copies(u, c)
    BY <1>2 DEF Spares
  <2>2. Copies(s, c) \in Nat /\ Copies(t, c) \in Nat /\ Copies(u, c) \in Nat
    BY <1>1
  <2> QED BY <2>1, <2>2
<1>3. ASSUME NEW c \in Chars(s) \ X PROVE c \in Chars(t)
  <2>1. Copies(s, c) <= Copies(t, c) /\ Copies(s, c) \in Nat /\ Copies(t, c) \in Nat /\ Copies(s, c) # 0
    BY <1>1 DEF Spares
  <2>2. Copies(t, c) # 0
    BY <2>1
  <2> QED BY <1>1, <2>2
<1> QED BY <1>2, <1>3 DEF Spares

\* The types these texts have.
LEMMA ResourceText ==
  ASSUME NEW f \in Resource
  PROVE  TextOf(f.state) \in Text /\ CharsOf(f.state) = Chars(TextOf(f.state)) /\ f.version \in Nat
         /\ f.state \in PresentText \cup {Missing}
BY TextOfTypes DEF Resource, CharsOf

\* A client's state is still kept with a longer line, with more commits and
\* with a replica that has at least the copies it had.
LEMMA StateKeptGrows ==
  ASSUME NEW L, IsLine(L), NEW K, Longer(L, K), NEW X, NEW Y, X \subseteq Y,
         NEW m, Within(L, Stored(m)), Within(L, TextDoc(m.commits)),
         NEW n, n.baseline = m.baseline, n.text = m.text, m.commits \subseteq n.commits,
         NEW f \in Resource, NEW g \in Resource, Spares(Y, TextOf(f.state), TextOf(g.state)),
         StateKept(L, X, m, f)
  PROVE  StateKept(K, Y, n, g)
<1>1. /\ Spares(X, ContentIn(L, Stored(m)), TextOf(f.state))
      /\ \A c \in CharsOf(m.baseline.state) :
           Has(L, TextDoc(m.commits), c) /\ (c \notin X => c \in CharsOf(f.state))
  BY DEF StateKept
<1>2. Stored(n) = Stored(m)
  BY DEF Stored
<1>3. ContentIn(K, Stored(m)) = ContentIn(L, Stored(m)) /\ ContentIn(L, Stored(m)) \in Text
  BY LongerFacts, ContentChars DEF IsLine
<1>4. /\ TextOf(f.state) \in Text /\ CharsOf(f.state) = Chars(TextOf(f.state))
      /\ TextOf(g.state) \in Text /\ CharsOf(g.state) = Chars(TextOf(g.state))
  BY ResourceText
<1>5. Spares(Y, ContentIn(L, Stored(m)), TextOf(g.state))
  BY <1>1, <1>3, <1>4, SparesFacts
<1>6. \A c \in CharsOf(f.state) \ Y : c \in CharsOf(g.state)
  BY <1>4, SparesFacts
<1>7. ASSUME NEW c \in CharsOf(n.baseline.state)
      PROVE  Has(K, TextDoc(n.commits), c) /\ (c \notin Y => c \in CharsOf(g.state))
  <2>1. Has(L, TextDoc(m.commits), c) /\ (c \notin X => c \in CharsOf(f.state))
    BY <1>1
  <2>2. Has(K, TextDoc(n.commits), c)
    BY <2>1, HasGrows
  <2> QED BY <1>6, <2>1, <2>2
<1> QED BY <1>2, <1>3, <1>5, <1>7 DEF StateKept

\* It is kept when the replica gets the text of a graph with its commits.
LEMMA StateKeptShown ==
  ASSUME NEW L, IsLine(L), NEW P, GraphOK(P), ChangesWithin(L, P), NEW X, NEW Y, X \subseteq Y,
         GraphKept(L, P, X), NEW m, StateOK(P, m), NEW C, Closed(P, C), m.commits \subseteq C,
         NEW f, StateKept(L, X, m, f),
         NEW g \in Resource, Spares(Y, ContentIn(L, TextDoc(C)), TextOf(g.state))
  PROVE  StateKept(L, Y, m, g)
<1>1. /\ TextOf(g.state) \in Text /\ CharsOf(g.state) = Chars(TextOf(g.state))
      /\ \A doc : ContentIn(L, doc) \in Text
  BY ResourceText, ContentChars DEF IsLine
<1>2. C \in SUBSET P /\ m.commits \in SUBSET P /\ Closed(P, m.commits)
  BY DEF Closed, StateOK
<1>3. PICK B \in SUBSET P : Closed(P, B) /\ B \subseteq C /\ Stored(m) = TextDoc(B)
  <2>1. CASE m.text # NoText
    BY <1>2, <2>1 DEF StateOK, Stored, Closed
  <2>2. CASE m.text = NoText
    <3>1. Stored(m) = NewDoc
      BY <2>2 DEF Stored
    <3>2. TextDoc({}) = NewDoc
      BY DEF TextDoc, Updates, Merge, NewDoc
    <3>3. Closed(P, {}) /\ {} \subseteq C /\ {} \in SUBSET P
      BY DEF Closed
    <3> QED BY <3>1, <3>2, <3>3
  <2> QED BY <2>1, <2>2
<1>4. Spares(X, ContentIn(L, Stored(m)), ContentIn(L, TextDoc(C)))
  <2>1. ASSUME NEW c, c \notin X
        PROVE  Copies(ContentIn(L, TextDoc(B)), c) <= Copies(ContentIn(L, TextDoc(C)), c)
    <3>1. Cardinality(Live(L, TextDoc(B), c)) <= Cardinality(Live(L, TextDoc(C), c))
      BY <1>2, <1>3, <2>1 DEF GraphKept, NoLoss
    <3> QED BY <3>1, CopiesLive
  <2> QED BY <1>3, <2>1 DEF Spares
<1>5. Spares(Y, ContentIn(L, Stored(m)), TextOf(g.state))
  BY <1>1, <1>4, SparesFacts
<1>6. ASSUME NEW c \in CharsOf(m.baseline.state), c \notin Y PROVE c \in CharsOf(g.state)
  <2>1. Has(L, TextDoc(m.commits), c)
    BY <1>6 DEF StateKept
  <2>2. Has(L, TextDoc(C), c)
    BY <2>1, DocsOrdered DEF Has
  <2>3. Live(L, TextDoc(C), c) # {}
    BY <1>2, <1>6, <2>2 DEF GraphKept, Alive
  <2>4. c \in Chars(ContentIn(L, TextDoc(C)))
    <3>1. Cardinality(Live(L, TextDoc(C), c)) # 0
      <4>1. IsFiniteSet(Live(L, TextDoc(C), c))
        BY IdsFacts DEF Live
      <4> QED BY <2>3, <4>1, FS_EmptySet
    <3> QED BY <1>1, <3>1, CopiesLive, CopiesType
  <2> QED BY <1>1, <1>6, <2>4, SparesFacts
<1> QED BY <1>5, <1>6 DEF StateKept

\* A call goes on when others publish or the user edits the replica.
LEMMA CallKeptGrows ==
  ASSUME NEW L, IsLine(L), NEW K, Longer(L, K), NEW P, GraphOK(P), ChangesWithin(L, P),
         NEW Q, P \subseteq Q, NEW X, NEW Y, X \subseteq Y,
         NEW m, Within(L, TextDoc(m.commits)),
         NEW f \in Resource, NEW g \in Resource, Spares(Y, TextOf(f.state), TextOf(g.state)),
         NEW listed \in Resource,
         g = f \/ (IsPresent(listed.state) => g.version # listed.version),
         NEW label, NEW op, NEW b, label = "publish" /\ IsPresent(b.state) => Within(L, b.doc),
         CallKept(L, P, X, m, f, label, listed, op, b)
  PROVE  CallKept(K, Q, Y, m, g, label, listed, op, b)
<1>1. /\ TextOf(f.state) \in Text /\ CharsOf(f.state) = Chars(TextOf(f.state))
      /\ TextOf(g.state) \in Text /\ CharsOf(g.state) = Chars(TextOf(g.state))
      /\ TextOf(listed.state) \in Text
  BY ResourceText
<1>2. \A c \in CharsOf(f.state) \ Y : c \in CharsOf(g.state)
  BY <1>1, SparesFacts
<1>3. ASSUME Spares(X, TextOf(listed.state), TextOf(f.state))
      PROVE  Spares(Y, TextOf(listed.state), TextOf(g.state))
  BY <1>1, <1>3, SparesFacts
<1>4. Emptied(L, X, m.commits) => Emptied(K, Y, m.commits)
  BY EmptiedGrows
<1>5. ASSUME label = "publish", IsPresent(b.state) PROVE Spares(Y, ContentIn(K, b.doc), b.state.content)
  <2>1. Spares(X, ContentIn(L, b.doc), b.state.content)
    BY <1>5 DEF CallKept
  <2>2. ContentIn(K, b.doc) = ContentIn(L, b.doc)
    BY <1>5, LongerFacts
  <2> QED BY <2>1, <2>2 DEF Spares
<1>6. ASSUME NEW c, Has(L, TextDoc(P), c) PROVE Has(K, TextDoc(Q), c)
  <2>1. Within(L, TextDoc(P))
    BY DocFacts
  <2> QED BY <1>6, <2>1, HasGrows
<1>7. ASSUME label \in {"publish", "integrate"}, IsPresent(b.state), ~b.user
      PROVE  /\ IsPresent(listed.state)
             /\ g.version = listed.version =>
                  \A c \in CharsOf(g.state) \ Y : c \in CharsOf(b.state) \/ Has(K, TextDoc(Q), c)
  BY <1>6, <1>7 DEF CallKept
<1>8. ASSUME label \in {"publish", "integrate"}, b.user
      PROVE  \A c \in CharsOf(b.state) \ Y : c \in CharsOf(g.state)
  BY <1>2, <1>8 DEF CallKept
<1> QED BY <1>3, <1>4, <1>5, <1>7, <1>8 DEF CallKept

\* A step of client p.
LEMMA KeepFrame ==
  ASSUME OnceInv, Keeping, BaseInv', NEW p \in Clients, Others(p),
         \A q \in Clients \ {p} : file'[q] = file[q],
         Longer(line, line'), published \subseteq published', cut \subseteq cut',
         GraphKept(line', published', cut'),
         \A c \in CharsOf(file[p].state) \ cut' :
           c \in CharsOf(file'[p].state) \/ Has(line', TextDoc(published'), c),
         acts' = acts \/ (acts' = acts + 1 /\ acts' \in cut' \cup CharsOf(file'[p].state)),
         ClientKept(p)'
  PROVE  Keeping'
<1>1. BaseInv /\ IsLine(line) /\ acts \in Nat /\ GraphOK(published) /\ ChangesWithin(line, published)
  BY DEF OnceInv, BaseInv, TypeOK
<1>2. ASSUME NEW c \in (1..acts') \ cut'
      PROVE  Has(line', TextDoc(published'), c) \/ \E q \in Clients : c \in CharsOf(file'[q].state)
  <2>1. CASE c \in 1..acts
    <3>1. c \notin cut
      BY <1>2
    <3>2. CASE Has(line, TextDoc(published), c)
      <4>1. Within(line, TextDoc(published))
        BY <1>1, DocFacts
      <4> QED BY <1>1, <3>2, <4>1, HasGrows
    <3>3. CASE \E q \in Clients : c \in CharsOf(file[q].state)
      <4>1. PICK q \in Clients : c \in CharsOf(file[q].state)
        BY <3>3
      <4>2. CASE q = p
        BY <1>2, <4>1, <4>2
      <4>3. CASE q # p
        BY <4>1, <4>3
      <4> QED BY <4>2, <4>3
    <3> QED BY <2>1, <3>1, <3>2, <3>3 DEF Keeping, Somewhere
  <2>2. CASE c \notin 1..acts
    <3>1. c = acts + 1 /\ acts' = acts + 1
      BY <1>1, <1>2, <2>2
    <3> QED BY <1>1, <1>2, <3>1
  <2> QED BY <2>1, <2>2
<1>3. ASSUME NEW q \in Clients, q # p PROVE ClientKept(q)'
  <2>1. /\ file[q] \in Resource /\ listing[q] \in Resource
        /\ StateOK(published, mem[q]) /\ StateOK(published, disk[q])
        /\ CallOK(line, published, q, mem[q], pc[q], listing[q], plan[q], batch[q])
    BY <1>1, ClientTypes
  <2>2. /\ Within(line, Stored(mem[q])) /\ Within(line, TextDoc(mem[q].commits))
        /\ Within(line, Stored(disk[q])) /\ Within(line, TextDoc(disk[q].commits))
    BY <1>1, <2>1, StoredWithin
  <2>3. pc[q] = "publish" /\ IsPresent(batch[q].state) => Within(line, batch[q].doc)
    BY <2>1, <2>2 DEF CallOK
  <2>4. /\ disk[q].commits \subseteq mem[q].commits
        /\ StateKept(line, cut, mem[q], file[q]) /\ StateKept(line, cut, disk[q], file[q])
        /\ CallKept(line, published, cut, mem[q], file[q], pc[q], listing[q], plan[q], batch[q])
    BY DEF Keeping, ClientKept
  <2>5. Spares(cut', TextOf(file[q].state), TextOf(file[q].state))
    BY <2>1, ResourceText, SparesSelf
  <2>6. StateKept(line', cut', mem[q], file[q])
    BY <1>1, <2>1, <2>2, <2>4, <2>5, StateKeptGrows
  <2>7. StateKept(line', cut', disk[q], file[q])
    BY <1>1, <2>1, <2>2, <2>4, <2>5, StateKeptGrows
  <2>8. CallKept(line', published', cut', mem[q], file[q], pc[q], listing[q], plan[q], batch[q])
    BY <1>1, <2>1, <2>2, <2>3, <2>4, <2>5, CallKeptGrows
  <2> QED BY <1>3, <2>4, <2>6, <2>7, <2>8 DEF ClientKept, Others
<1> QED BY <1>2, <1>3 DEF Keeping, Somewhere

\* The client's variables after a step.
LEMMA ClientAfter ==
  ASSUME BaseInv, NEW p \in Clients, NEW m, NEW n, NEW label, NEW L, NEW op, NEW b,
         Changed(p, m, n, label, L, op, b), n.commits \subseteq m.commits,
         StateKept(line', cut', m, file'[p]), StateKept(line', cut', n, file'[p]),
         CallKept(line', published', cut', m, file'[p], label, L, op, b)
  PROVE  Others(p) /\ ClientKept(p)'
<1>1. /\ Others(p) /\ mem'[p] = m /\ disk'[p] = n /\ pc'[p] = label
      /\ listing'[p] = L /\ batch'[p] = b
  BY ChangedValues
<1>2. plan'[p] = op
  BY DEF BaseInv, TypeOK, Changed
<1> QED BY <1>1, <1>2 DEF ClientKept

\* A step that leaves the replica and the graph alone.
LEMMA QuietKeep ==
  ASSUME OnceInv, Keeping, BaseInv', NEW p \in Clients, NEW m, NEW n, NEW label, NEW L, NEW op, NEW b,
         Changed(p, m, n, label, L, op, b), UNCHANGED <<line, published, file, acts, cut>>,
         n.commits \subseteq m.commits,
         StateKept(line, cut, m, file[p]), StateKept(line, cut, n, file[p]),
         CallKept(line, published, cut, m, file[p], label, L, op, b)
  PROVE  Keeping'
<1>1. BaseInv
  BY OnceOf
<1>2. Others(p) /\ ClientKept(p)'
  BY <1>1, ClientAfter
<1>3. Longer(line, line') /\ published \subseteq published' /\ cut \subseteq cut' /\ acts' = acts
      /\ GraphKept(line', published', cut') /\ \A q \in Clients : file'[q] = file[q]
  BY DEF Longer, Keeping
<1> QED BY <1>2, <1>3, KeepFrame

\* A call that ends asks for no more.
LEMMA CallKeptRest ==
  ASSUME NEW L, NEW P, NEW X, NEW m, NEW f, NEW label \in {"save", "idle"}, NEW listed, NEW op, NEW b
  PROVE  CallKept(L, P, X, m, f, label, listed, op, b)
BY DEF CallKept

\* What is known of a client.
LEMMA KeptOf ==
  ASSUME OnceInv, Keeping, NEW p \in Clients
  PROVE  /\ BaseInv /\ IsLine(line) /\ GraphOK(published) /\ ChangesWithin(line, published)
         /\ GraphKept(line, published, cut) /\ disk[p].commits \subseteq mem[p].commits
         /\ StateKept(line, cut, mem[p], file[p]) /\ StateKept(line, cut, disk[p], file[p])
         /\ CallKept(line, published, cut, mem[p], file[p], pc[p], listing[p], plan[p], batch[p])
         /\ file[p] \in Resource /\ listing[p] \in Resource
         /\ StateOK(published, mem[p]) /\ StateOK(published, disk[p])
<1>1. BaseInv
  BY OnceOf
<1>2. /\ IsLine(line) /\ GraphOK(published) /\ ChangesWithin(line, published)
  BY <1>1 DEF BaseInv
<1>3. /\ file[p] \in Resource /\ listing[p] \in Resource
      /\ StateOK(published, mem[p]) /\ StateOK(published, disk[p])
  BY <1>1, ClientTypes
<1> QED BY <1>1, <1>2, <1>3 DEF Keeping, ClientKept

---------------------------------------------------------------------------
(* What users typed is kept: the steps.                                    *)

\* Calls that end with the state they had, or the one that was saved.
LEMMA EndKeep ==
  ASSUME OnceInv, Keeping, NEW p \in Clients,
         ReadChanged(p) \/ Skip(p) \/ Save(p) \/ Fail(p) \/ Crash(p)
  PROVE  Keeping'
<1>1. BaseInv /\ BaseInv'
  BY EndBase, SaveBase, FailBase, CrashBase, OnceOf
<1>2. UNCHANGED <<line, published, file, acts, cut>>
  BY DEF ReadChanged, Skip, Save, Fail, Crash, boundVars, historyVars
<1>3. CASE ReadChanged(p) \/ Skip(p)
  <2>1. Changed(p, mem[p], disk[p], "save", listing[p], plan[p], batch[p])
    BY <1>1, <1>3, Kept, SaveChanged DEF ReadChanged, Skip
  <2> QED BY <1>1, <1>2, <2>1, KeptOf, CallKeptRest, QuietKeep
<1>4. CASE Save(p)
  <2>1. Changed(p, mem[p], mem[p], "idle", Nothing, Op("Noop"), NoBatch)
    BY <1>1, <1>4, Kept DEF Save, Forget, Goto, Changed
  <2> QED BY <1>1, <1>2, <2>1, KeptOf, CallKeptRest, QuietKeep
<1>5. CASE Fail(p)
  <2>1. Changed(p, mem[p], disk[p], "idle", Nothing, Op("Noop"), NoBatch)
    BY <1>1, <1>5, Kept DEF Fail, Forget, Goto, Changed
  <2> QED BY <1>1, <1>2, <2>1, KeptOf, CallKeptRest, QuietKeep
<1>6. CASE Crash(p)
  <2>1. Changed(p, disk[p], disk[p], "idle", Nothing, Op("Noop"), NoBatch)
    BY <1>1, <1>6, Kept DEF Crash, Forget, Goto, Changed
  <2> QED BY <1>1, <1>2, <2>1, KeptOf, CallKeptRest, QuietKeep
<1> QED BY <1>3, <1>4, <1>5, <1>6

\* A state with the same baseline and document and more commits.
LEMMA StateKeptSame ==
  ASSUME OnceInv, Keeping, NEW p \in Clients, NEW m, m.baseline = mem[p].baseline,
         m.text = mem[p].text, mem[p].commits \subseteq m.commits
  PROVE  StateKept(line, cut, m, file[p])
<1>1. Within(line, Stored(mem[p])) /\ Within(line, TextDoc(mem[p].commits))
  BY KeptOf, StoredWithin
<1>2. TextOf(file[p].state) \in Text
  BY KeptOf, ResourceText
<1>3. Spares(cut, TextOf(file[p].state), TextOf(file[p].state)) /\ Longer(line, line)
  BY <1>2, SparesSelf DEF Longer
<1> QED BY <1>1, <1>3, KeptOf, StateKeptGrows

LEMMA ReadConflictKeep ==
  ASSUME OnceInv, Keeping, NEW p \in Clients, ReadConflict(p)
  PROVE  Keeping'
<1>1. BaseInv /\ BaseInv'
  BY ReadConflictBase, OnceOf
<1>2. PICK m : m = [mem[p] EXCEPT !.conflict = [heads |-> Heads(mem[p].commits), local |-> listing[p]]]
  OBVIOUS
<1>3. mem' = [mem EXCEPT ![p] = m] /\ Goto(p, "save") /\ UNCHANGED <<disk, runVars>>
  <2>1. mem \in [Clients -> RuntimeState]
    BY <1>1 DEF BaseInv, TypeOK
  <2> QED BY <1>2, <2>1 DEF ReadConflict
<1>4. Changed(p, m, disk[p], "save", listing[p], plan[p], batch[p])
  BY <1>1, <1>3, SaveChanged
<1>5. m.text = mem[p].text /\ m.baseline = mem[p].baseline /\ m.commits = mem[p].commits
  BY <1>1, <1>2, ClientTypes DEF RuntimeState
<1>6. UNCHANGED <<line, published, file, acts, cut>>
  BY DEF ReadConflict, boundVars, historyVars
<1>7. StateKept(line, cut, m, file[p])
  BY <1>5, StateKeptSame
<1> QED BY <1>1, <1>4, <1>5, <1>6, <1>7, KeptOf, CallKeptRest, QuietKeep

\* The state in memory when a deletion is recorded.
LEMMA DeletedKeep ==
  ASSUME OnceInv, Keeping, NEW p \in Clients, NEW C, Closed(published, C)
  PROVE  /\ StateKept(line, cut, Baselined(p, C, Deleted, 0), file[p])
         /\ Baselined(p, C, Deleted, 0).commits = C
<1>1. BaseInv /\ C \in SUBSET Commit /\ mem[p] \in RuntimeState
  BY KeptOf, ClientTypes DEF Closed, BaseInv, GraphOK
<1>2. PICK m : m = Baselined(p, C, Deleted, 0)
  OBVIOUS
<1>3. m.commits = C /\ m.baseline.state = Deleted
  BY <1>1, <1>2 DEF Baselined, RuntimeState
<1>4. Stored(m) = Stored(mem[p])
  BY <1>1, <1>2, DeletedFacts
<1>5. CharsOf(m.baseline.state) = {}
  BY <1>3, TextOfTypes DEF IsPresent, Deleted
<1>6. StateKept(line, cut, m, file[p])
  <2>1. Spares(cut, ContentIn(line, Stored(mem[p])), TextOf(file[p].state))
    BY KeptOf DEF StateKept
  <2> QED BY <1>4, <1>5, <2>1 DEF StateKept
<1> QED BY <1>2, <1>3, <1>6

LEMMA IntegrateDeleteKeep ==
  ASSUME OnceInv, Keeping, NEW p \in Clients, IntegrateDelete(p)
  PROVE  Keeping'
<1>1. BaseInv /\ BaseInv'
  BY IntegrateDeleteBase, OnceOf
<1>2. PICK m : m = Baselined(p, Integrated(p), Deleted, 0)
  OBVIOUS
<1>3. /\ mem' = [mem EXCEPT ![p] = m] /\ Goto(p, "save") /\ UNCHANGED <<disk, runVars>>
      /\ UNCHANGED <<line, published, file, acts, cut>> /\ pc[p] = "integrate"
  BY <1>2 DEF IntegrateDelete, boundVars, historyVars
<1>4. Changed(p, m, disk[p], "save", listing[p], plan[p], batch[p])
  BY <1>1, <1>3, SaveChanged
<1>5. Closed(published, Integrated(p)) /\ mem[p].commits \subseteq Integrated(p)
  BY <1>1, <1>3, IntegratedFacts
<1>6. StateKept(line, cut, m, file[p]) /\ m.commits = Integrated(p)
  BY <1>2, <1>5, DeletedKeep
<1>7. disk[p].commits \subseteq m.commits
  BY <1>5, <1>6, KeptOf
<1> QED BY <1>1, <1>3, <1>4, <1>6, <1>7, KeptOf, CallKeptRest, QuietKeep

LEMMA EstablishDeletedBaselineKeep ==
  ASSUME OnceInv, Keeping, NEW p \in Clients, EstablishDeletedBaseline(p)
  PROVE  Keeping'
<1>1. BaseInv /\ BaseInv'
  BY ApplyDeleteBase, OnceOf
<1>2. PICK m : m = Baselined(p, mem[p].commits, Deleted, 0)
  OBVIOUS
<1>3. /\ mem' = [mem EXCEPT ![p] = m] /\ Goto(p, "save") /\ UNCHANGED <<disk, runVars>>
      /\ UNCHANGED <<line, published, file, acts, cut>> /\ pc[p] = "apply"
  BY <1>2 DEF EstablishDeletedBaseline, boundVars, historyVars
<1>4. Changed(p, m, disk[p], "save", listing[p], plan[p], batch[p])
  BY <1>1, <1>3, SaveChanged
<1>5. Closed(published, mem[p].commits)
  BY KeptOf DEF StateOK
<1>6. StateKept(line, cut, m, file[p]) /\ m.commits = mem[p].commits
  BY <1>2, <1>5, DeletedKeep
<1>7. disk[p].commits \subseteq m.commits
  BY <1>6, KeptOf
<1> QED BY <1>1, <1>3, <1>4, <1>6, <1>7, KeptOf, CallKeptRest, QuietKeep

\* The document a client works on is part of that of the graph it knows.
LEMMA StoredPart ==
  ASSUME NEW P, NEW m, StateOK(P, m)
  PROVE  Stored(m).ins \subseteq TextDoc(m.commits).ins
<1>1. CASE m.text # NoText
  <2>1. PICK C \in SUBSET m.commits : Closed(P, C) /\ m.text = TextDoc(C)
    BY <1>1 DEF StateOK
  <2>2. Stored(m) = TextDoc(C)
    BY <1>1, <2>1 DEF Stored, StateOK
  <2> QED BY <2>2, DocsOrdered
<1>2. CASE m.text = NoText
  BY <1>2 DEF Stored, NewDoc
<1> QED BY <1>1, <1>2

LEMMA IntegrateRefusedKeep ==
  ASSUME OnceInv, Keeping, NEW p \in Clients, IntegrateRefused(p)
  PROVE  Keeping'
<1>1. BaseInv /\ BaseInv'
  BY IntegrateRefusedBase, OnceOf
<1>2. PICK m : m = [mem[p] EXCEPT !.commits = Integrated(p)]
  OBVIOUS
<1>3. /\ mem' = [mem EXCEPT ![p] = m] /\ Goto(p, "save") /\ UNCHANGED <<disk, runVars>>
      /\ UNCHANGED <<line, published, file, acts, cut>> /\ pc[p] = "integrate"
  BY <1>2 DEF IntegrateRefused, boundVars
<1>4. Changed(p, m, disk[p], "save", listing[p], plan[p], batch[p])
  BY <1>1, <1>3, SaveChanged
<1>5. m.baseline = mem[p].baseline /\ m.text = mem[p].text /\ m.commits = Integrated(p)
  BY <1>1, <1>2, ClientTypes DEF RuntimeState
<1>6. mem[p].commits \subseteq m.commits
  BY <1>1, <1>3, <1>5, IntegratedFacts
<1>7. StateKept(line, cut, m, file[p])
  BY <1>5, <1>6, StateKeptSame
<1>8. disk[p].commits \subseteq m.commits
  BY <1>6, KeptOf
<1> QED BY <1>1, <1>3, <1>4, <1>7, <1>8, KeptOf, CallKeptRest, QuietKeep

\* A text shows what its document has.
LEMMA ShownHas ==
  ASSUME NEW L, IsLine(L), NEW doc, NEW c, c \in Chars(ContentIn(L, doc))
  PROVE  Has(L, doc, c) /\ Live(L, doc, c) # {}
<1>1. PICK i \in At(L, doc) : L[i].char = c
  BY ContentChars DEF IsLine
<1> QED BY <1>1 DEF At, Has, Live, Ids

\* What was published is in the graph the client knows with it.
LEMMA PublishedHas ==
  ASSUME BaseInv, NEW p \in Clients, pc[p] = "integrate", IsPresent(batch[p].state),
         NEW c \in CharsOf(batch[p].state)
  PROVE  Has(line, TextDoc(Integrated(p)), c)
<1>1. /\ Own(p).change # Deleted
      /\ ContentIn(line, Merge({batch[p].doc, Own(p).change})) = batch[p].state.content
      /\ mem[p].commits \subseteq Integrated(p) /\ Closed(published, Integrated(p))
  BY IntegratedFacts
<1>2. IsLine(line) /\ GraphOK(published) /\ ChangesWithin(line, published)
  BY DEF BaseInv
<1>3. c \in Chars(batch[p].state.content)
  BY DEF CharsOf, TextOf
<1>4. PICK D : D = Merge({batch[p].doc, Own(p).change}) /\ D.ins = batch[p].doc.ins \cup Own(p).change.ins
  <2>1. Merge({batch[p].doc, Own(p).change}).ins = batch[p].doc.ins \cup Own(p).change.ins
    BY MergeOfTwo, Zenon
  <2> QED BY <2>1
<1>5. Has(line, D, c)
  BY <1>1, <1>2, <1>3, <1>4, ShownHas
<1>6. TextDoc(Integrated(p)).ins = TextDoc(mem[p].commits).ins \cup Own(p).change.ins
  BY <1>1, DocWith DEF Integrated
<1>7. batch[p].doc.ins \subseteq TextDoc(mem[p].commits).ins
  <2>1. batch[p].doc = TextDoc(mem[p].commits) \/ batch[p].doc = Stored(mem[p])
    BY ClientTypes DEF CallOK
  <2>2. Stored(mem[p]).ins \subseteq TextDoc(mem[p].commits).ins
    BY StoredPart, ClientTypes
  <2> QED BY <2>1, <2>2
<1> QED BY <1>4, <1>5, <1>6, <1>7 DEF Has

LEMMA IntegrateUserKeep ==
  ASSUME OnceInv, Keeping, NEW p \in Clients, IntegrateUser(p)
  PROVE  Keeping'
<1>1. BaseInv /\ BaseInv'
  BY IntegrateUserBase, OnceOf
<1>2. PICK k : k = Baselined(p, Integrated(p), batch[p].state, batch[p].version)
  OBVIOUS
<1>3. PICK m : m = [k EXCEPT !.conflict = IF batch[p].settles THEN NoConflict ELSE @]
  OBVIOUS
<1>4. /\ mem' = [mem EXCEPT ![p] = m] /\ Goto(p, "save") /\ UNCHANGED <<disk, runVars>>
      /\ UNCHANGED <<line, published, file, acts, cut>> /\ pc[p] = "integrate" /\ batch[p].user
  BY <1>2, <1>3 DEF IntegrateUser, boundVars
<1>5. Changed(p, m, disk[p], "save", listing[p], plan[p], batch[p])
  BY <1>1, <1>4, SaveChanged
<1>6. Closed(published, Integrated(p)) /\ mem[p].commits \subseteq Integrated(p)
  BY <1>1, <1>4, IntegratedFacts
<1>7. Integrated(p) \in SUBSET Commit /\ mem[p] \in RuntimeState /\ StateOK(published, mem[p])
  BY <1>1, <1>6, ClientTypes DEF Closed, BaseInv, GraphOK
<1>8. batch[p].state \in PresentText \cup {Deleted} /\ batch[p].version \in Nat
  BY <1>1, <1>4, IntegrateTypes
<1>9. /\ k \in RuntimeState /\ k.baseline.state = batch[p].state
      /\ k.text = mem[p].text /\ k.commits = Integrated(p)
  BY <1>2, <1>7, <1>8, BaselinedFacts
<1>10. m.baseline = k.baseline /\ m.text = k.text /\ m.commits = k.commits
  BY <1>3, <1>9 DEF RuntimeState
<1>11. Stored(m) = Stored(mem[p])
  <2>1. m.baseline.state # NoBaseline
    BY <1>8, <1>9, <1>10, Distinct, PresentTexts, Presence
  <2> QED BY <1>7, <1>9, <1>10, <2>1 DEF Stored, StateOK
<1>12. ASSUME NEW c \in CharsOf(batch[p].state)
       PROVE  Has(line, TextDoc(Integrated(p)), c) /\ (c \notin cut => c \in CharsOf(file[p].state))
  <2>1. IsPresent(batch[p].state)
    BY <1>8, <1>12, TextOfTypes
  <2>2. Has(line, TextDoc(Integrated(p)), c)
    BY <1>1, <1>4, <1>12, <2>1, PublishedHas
  <2>3. c \notin cut => c \in CharsOf(file[p].state)
    BY <1>4, <1>12, KeptOf DEF CallKept
  <2> QED BY <2>2, <2>3
<1>13. StateKept(line, cut, m, file[p])
  <2>1. Spares(cut, ContentIn(line, Stored(mem[p])), TextOf(file[p].state))
    BY KeptOf DEF StateKept
  <2> QED BY <1>9, <1>10, <1>11, <1>12, <2>1 DEF StateKept
<1>14. disk[p].commits \subseteq m.commits
  BY <1>6, <1>9, <1>10, KeptOf
<1> QED BY <1>1, <1>4, <1>5, <1>13, <1>14, KeptOf, CallKeptRest, QuietKeep

\* The state in memory when a text of the graph is recorded with its document.
LEMMA RecordedKeep ==
  ASSUME NEW L, IsLine(L), NEW X, NEW C, NEW m, m.commits = C, Stored(m) = TextDoc(C),
         NEW t \in Text, t = ContentIn(L, TextDoc(C)), CharsOf(m.baseline.state) = Chars(t),
         NEW f \in Resource, Spares(X, t, TextOf(f.state))
  PROVE  StateKept(L, X, m, f)
<1>1. TextOf(f.state) \in Text /\ CharsOf(f.state) = Chars(TextOf(f.state))
  BY ResourceText
<1>2. ASSUME NEW c \in CharsOf(m.baseline.state)
      PROVE  Has(L, TextDoc(m.commits), c) /\ (c \notin X => c \in CharsOf(f.state))
  <2>1. Has(L, TextDoc(C), c)
    BY <1>2, ShownHas
  <2>2. \A x \in Chars(t) \ X : x \in CharsOf(f.state)
    BY <1>1, SparesFacts
  <2> QED BY <1>2, <2>1, <2>2
<1> QED BY <1>2 DEF StateKept

LEMMA EstablishBaselineKeep ==
  ASSUME OnceInv, Keeping, NEW p \in Clients, EstablishBaseline(p)
  PROVE  Keeping'
<1>1. BaseInv /\ BaseInv' /\ IsLine(line)
  BY EstablishBaselineBase, KeptOf
<1>2. PICK C, t, v : C = mem[p].commits /\ t = listing[p].state /\ v = listing[p].version
  OBVIOUS
<1>3. PICK m : m = Reconciled(p, C, t, v)
  OBVIOUS
<1>4. /\ pc[p] = "apply" /\ plan[p] = Op("EstablishBaseline") /\ Goto(p, "save")
      /\ mem' = [mem EXCEPT ![p] = m] /\ UNCHANGED <<disk, runVars>>
      /\ UNCHANGED <<line, published, file, acts, cut>>
  BY <1>2, <1>3 DEF EstablishBaseline, Record, boundVars
<1>5. Changed(p, m, disk[p], "save", listing[p], plan[p], batch[p])
  BY <1>1, <1>4, SaveChanged
<1>6. /\ t \in PresentText \cup {Missing} /\ v \in Nat /\ Closed(published, C)
      /\ IsPresent(t) /\ t = RemoteState(C)
  BY <1>1, <1>2, <1>4, ApplyFacts, PlanMeans
<1>7. t \in PresentText /\ C \in SUBSET published
  BY <1>6, Presence DEF Closed
<1>8. t = Present(ContentIn(line, TextDoc(C)))
  BY <1>1, <1>6, RemoteOfLine, RemoteFacts
<1>9. TextOf(t) = ContentIn(line, TextDoc(C)) /\ TextOf(t) \in Text
  <2>1. t.content = ContentIn(line, TextDoc(C))
    BY <1>8 DEF Present
  <2> QED BY <1>7, <2>1, TextOfTypes, PresentTexts
<1>10. mem[p] \in RuntimeState /\ C \in SUBSET Commit /\ TextDoc(C) \in Doc
  BY <1>1, <1>7, ClientTypes, DocFacts DEF BaseInv, GraphOK
<1>11. m.commits = C /\ Stored(m) = TextDoc(C) /\ m.baseline.state = t
  BY <1>3, <1>6, <1>7, <1>10, RecordedFacts, ReconciledFacts
<1>12. Spares(cut, TextOf(t), TextOf(file[p].state))
  BY <1>2, <1>4, KeptOf DEF CallKept
<1>13. StateKept(line, cut, m, file[p])
  BY <1>1, <1>9, <1>11, <1>12, KeptOf, RecordedKeep DEF CharsOf
<1>14. disk[p].commits \subseteq m.commits
  BY <1>2, <1>11, KeptOf
<1> QED BY <1>1, <1>4, <1>5, <1>13, <1>14, KeptOf, CallKeptRest, QuietKeep

\* What was ever there and no user removed is in the text.
LEMMA AliveShown ==
  ASSUME NEW L, IsLine(L), NEW P, NEW X, GraphKept(L, P, X), NEW C, Closed(P, C),
         NEW c, c \notin X, Has(L, TextDoc(C), c)
  PROVE  c \in Chars(ContentIn(L, TextDoc(C)))
<1>1. C \in SUBSET P
  BY DEF Closed
<1>2. Live(L, TextDoc(C), c) # {}
  BY <1>1 DEF GraphKept, Alive
<1>3. PICK x \in Live(L, TextDoc(C), c) : TRUE
  BY <1>2
<1>4. PICK i \in 1..Len(L) : L[i].char = c /\ L[i].id = x
  BY <1>3 DEF Live, Ids
<1>5. i \in At(L, TextDoc(C))
  BY <1>3, <1>4 DEF At, Live
<1> QED BY <1>4, <1>5, ContentChars DEF IsLine

\* A replica that is missing when nobody else changed the text: users removed
\* all that was in it.
LEMMA MissingEmptied ==
  ASSUME OnceInv, Keeping, NEW p \in Clients, ~IsPresent(file[p].state),
         IsPresent(RemoteState(published)), mem[p].baseline.state = RemoteState(published)
  PROVE  Emptied(line, cut, published)
<1>1. BaseInv /\ IsLine(line) /\ GraphKept(line, published, cut)
  BY KeptOf
<1>2. RemoteState(published) = Present(ContentIn(line, TextDoc(published)))
  BY <1>1, RemoteOfLine, RemoteFacts
<1>3. CharsOf(mem[p].baseline.state) = Chars(ContentIn(line, TextDoc(published)))
  <2>1. RemoteState(published).content = ContentIn(line, TextDoc(published))
    BY <1>2 DEF Present
  <2> QED BY <2>1 DEF CharsOf, TextOf
<1>4. CharsOf(file[p].state) = {}
  <2>1. file[p].state \in PresentText \cup {Missing}
    BY KeptOf, ResourceText
  <2> QED BY <2>1, TextOfTypes
<1>5. ASSUME NEW c, c \notin cut, Has(line, TextDoc(published), c) PROVE FALSE
  <2>1. Closed(published, published)
    BY DEF Closed
  <2>2. c \in Chars(ContentIn(line, TextDoc(published)))
    BY <1>1, <1>5, <2>1, AliveShown
  <2>3. c \in CharsOf(file[p].state)
    BY <1>3, <1>5, <2>2, KeptOf DEF StateKept
  <2> QED BY <1>4, <2>3
<1> QED BY <1>5 DEF Emptied

LEMMA BeginKeep ==
  ASSUME OnceInv, Keeping, NEW p \in Clients, p \notin split, Begin(p)
  PROVE  Keeping'
<1>1. BaseInv /\ BaseInv'
  BY BeginBase, OnceOf
<1> DEFINE L == Listed(p)
           op == Planned(L.state, mem[p].baseline.state, RemoteState(published))
           k == IF op.op = "Conflict" THEN [heads |-> Heads(published), local |-> L] ELSE NoConflict
           m == [mem[p] EXCEPT !.commits = published, !.conflict = k]
           label == IF op \in {Op("Upload"), Op("PublishDelete")} THEN "read" ELSE "apply"
<1>2. /\ listing' = [listing EXCEPT ![p] = L] /\ plan' = [plan EXCEPT ![p] = op]
      /\ mem' = [mem EXCEPT ![p] = m] /\ disk' = [disk EXCEPT ![p] = m] /\ pc[p] = "idle"
      /\ Goto(p, label) /\ UNCHANGED <<line, published, file, batch, acts, cut>>
  BY DEF Begin, boundVars, historyVars
<1>3. L.state = file[p].state
  BY ListedOnce
<1>4. mem[p].baseline.state \in PresentText \cup {Deleted, NoBaseline}
  BY <1>1, ClientTypes DEF RuntimeState, Baseline
<1>5. RemoteState(published) \in PresentText \cup {Missing, Deleted, Forked}
  BY KeptOf, RemoteOfLine, RemoteFacts
<1>6. file[p].state \in PresentText \cup {Missing}
  BY KeptOf, ResourceText
<1>7. op = Op("PublishDelete") =>
        /\ ~IsPresent(file[p].state) /\ IsPresent(RemoteState(published))
        /\ mem[p].baseline.state = RemoteState(published)
  <2> HIDE DEF L
  <2> QED BY <1>3, <1>4, <1>5, <1>6, PlannedFacts
<1> HIDE DEF k, op, L
<1>8. m.text = mem[p].text /\ m.baseline = mem[p].baseline /\ m.commits = published
  BY <1>1, ClientTypes DEF RuntimeState
<1> HIDE DEF m
<1>9. label \in {"read", "apply"}
  OBVIOUS
<1> HIDE DEF label
<1>10. Changed(p, m, m, label, L, op, batch[p])
  BY <1>1, <1>2, Kept DEF Changed, Goto
<1>11. mem[p].commits \subseteq m.commits
  BY <1>8, KeptOf DEF StateOK, Closed
<1>12. StateKept(line, cut, m, file[p])
  BY <1>8, <1>11, StateKeptSame
<1>13. CallKept(line, published, cut, m, file[p], label, L, op, batch[p])
  <2>1. Spares(cut, TextOf(L.state), TextOf(file[p].state))
    BY <1>3, KeptOf, ResourceText, SparesSelf
  <2>2. op = Op("PublishDelete") => Emptied(line, cut, m.commits)
    BY <1>7, <1>8, MissingEmptied
  <2> QED BY <1>9, <2>1, <2>2 DEF CallKept
<1>14. UNCHANGED <<line, published, file, acts, cut>>
  BY <1>2
<1> QED BY <1>1, <1>10, <1>12, <1>13, <1>14, QuietKeep

\* The upload is prepared.
LEMMA PrepareKeep ==
  ASSUME OnceInv, Keeping, BaseInv', NEW p \in Clients, NEW s \in PresentText \cup {Deleted},
         NEW doc, Prepare(p, s, doc),
         s = Deleted => Emptied(line, cut, mem[p].commits),
         IsPresent(s) =>
           /\ Spares(cut, ContentIn(line, doc), s.content) /\ IsPresent(listing[p].state)
           /\ \A c \in CharsOf(file[p].state) \ cut : c \in CharsOf(s) \/ Has(line, TextDoc(published), c)
  PROVE  Keeping'
<1>1. BaseInv
  BY OnceOf
<1> DEFINE b == [state |-> s, doc |-> doc, version |-> listing[p].version, user |-> FALSE,
                 settles |-> FALSE]
<1>2. b.state = s /\ b.doc = doc /\ b.user = FALSE
  OBVIOUS
<1>3. /\ batch' = [batch EXCEPT ![p] = b] /\ Goto(p, "publish")
      /\ UNCHANGED <<mem, disk, listing, plan>> /\ UNCHANGED <<line, published, file, acts, cut>>
  BY DEF Prepare, boundVars, historyVars
<1> HIDE DEF b
<1>4. Changed(p, mem[p], disk[p], "publish", listing[p], plan[p], b)
  BY <1>1, <1>3, Kept DEF Changed, Goto
<1>5. CallKept(line, published, cut, mem[p], file[p], "publish", listing[p], plan[p], b)
  BY <1>2 DEF CallKept
<1> QED BY <1>3, <1>4, <1>5, KeptOf, QuietKeep

LEMMA ReadUploadKeep ==
  ASSUME OnceInv, Keeping, NEW p \in Clients, ReadUpload(p)
  PROVE  Keeping'
<1>1. BaseInv /\ BaseInv'
  BY ReadUploadBase, OnceOf
<1>2. PICK s, doc : s = file[p].state /\ doc = Stored(mem[p])
  OBVIOUS
<1>3. s \in PresentText
  <2>1. file[p] \in Resource
    BY <1>1, ClientTypes
  <2> QED BY <1>2, <2>1, Presence DEF ReadUpload, ReadNow, Resource
<1>4. pc[p] = "read" /\ plan[p] = Op("Upload") /\ Prepare(p, s, doc)
  BY <1>1, <1>2, KnownDocs DEF ReadUpload
<1>5. IsPresent(listing[p].state)
  BY <1>1, <1>4, PlanMeans
<1>6. TextOf(s) = s.content /\ s # Deleted
  BY <1>3, TextOfTypes, PresentTexts, Presence
<1>7. Spares(cut, ContentIn(line, doc), s.content)
  BY <1>2, <1>6, KeptOf DEF StateKept
<1>8. \A c \in CharsOf(file[p].state) : c \in CharsOf(s)
  BY <1>2
<1> QED BY <1>1, <1>3, <1>4, <1>5, <1>6, <1>7, <1>8, PrepareKeep

LEMMA ReadDeleteKeep ==
  ASSUME OnceInv, Keeping, NEW p \in Clients, ReadDelete(p)
  PROVE  Keeping'
<1>1. BaseInv /\ BaseInv'
  BY ReadDeleteBase, OnceOf
<1>2. pc[p] = "read" /\ plan[p] = Op("PublishDelete") /\ Prepare(p, Deleted, NewDoc)
  BY DEF ReadDelete
<1>3. ~IsPresent(Deleted)
  BY DEF IsPresent, Deleted
<1>4. Emptied(line, cut, mem[p].commits)
  BY <1>2, KeptOf DEF CallKept
<1> QED BY <1>1, <1>2, <1>3, <1>4, PrepareKeep


\* What Pick takes from a text has the copies that are all taken.
LEMMA CopiesTaken ==
  ASSUME NEW t \in Text, NEW I \in SUBSET (1..Len(t)), NEW u \in Text, NEW c,
         \A i \in 1..Len(t) : t[i] = c => i \in I
  PROVE  Copies(t, c) <= Copies(Pick(t, I) \o u, c)
<1>0. PICK n \in Nat : \E g : Lists(g, n, I) /\ Pick(t, I) = [k \in 1..n |-> t[g[k]]]
                                 /\ Len(Pick(t, I)) = n
  BY PickText
<1>1. PICK g : Lists(g, n, I) /\ Pick(t, I) = [k \in 1..n |-> t[g[k]]] /\ Len(Pick(t, I)) = n
  BY <1>0
<1>2. PICK s : s = Pick(t, I) /\ s \in Text /\ Len(s) = n /\ s = [k \in 1..n |-> t[g[k]]]
  BY <1>1, PickText
<1>3. Len(u) \in Nat /\ u \in Seq(Nat) /\ s \in Seq(Nat)
  BY <1>2, LenProperties DEF Text
<1>4. PICK su : su = s \o u
  OBVIOUS
<1>5. /\ su \in Text /\ Len(su) = n + Len(u)
      /\ \A i \in 1..n + Len(u) : su[i] = IF i <= n THEN s[i] ELSE u[i - n]
  BY <1>2, <1>3, <1>4, ConcatProperties DEF Text
<1>6. \A i \in I : \E k \in 1..n : g[k] = i
  BY <1>1 DEF Lists
<1> DEFINE h == [i \in 1..Len(t) |-> CHOOSE k \in 1..n : g[k] = i]
<1>7. ASSUME NEW i \in 1..Len(t), t[i] = c
      PROVE  h[i] \in 1..n /\ g[h[i]] = i /\ h[i] \in 1..Len(su) /\ su[h[i]] = c
  <2>1. \E k \in 1..n : g[k] = i
    BY <1>6, <1>7
  <2>2. h[i] \in 1..n /\ g[h[i]] = i
    BY <2>1
  <2> HIDE DEF h
  <2>3. h[i] \in 1..n + Len(u) /\ h[i] <= n
    BY <1>3, <2>2
  <2>4. su[h[i]] = s[h[i]] /\ s[h[i]] = t[g[h[i]]]
    BY <1>2, <1>5, <2>2, <2>3
  <2> QED BY <1>5, <1>7, <2>2, <2>3, <2>4
<1> HIDE DEF h
<1>8. \A i \in 1..Len(t) : t[i] = c => h[i] \in 1..Len(su) /\ su[h[i]] = c
  BY <1>7
<1>9. \A i, j \in 1..Len(t) : t[i] = c /\ t[j] = c /\ h[i] = h[j] => i = j
  BY <1>7
<1>10. Copies(t, c) <= Copies(su, c)
  BY <1>5, <1>8, <1>9, CopiesAtMost
<1> QED BY <1>2, <1>4, <1>10

\* Taken characters are in a text followed by them.
LEMMA TakenChars ==
  ASSUME NEW t \in Text, NEW I \in SUBSET (1..Len(t)), NEW u \in Text, NEW i \in I
  PROVE  t[i] \in Chars(u \o Pick(t, I))
<1>0. PICK n \in Nat : \E g : Lists(g, n, I) /\ Pick(t, I) = [k \in 1..n |-> t[g[k]]]
                                 /\ Len(Pick(t, I)) = n
  BY PickText
<1>1. PICK g : Lists(g, n, I) /\ Pick(t, I) = [k \in 1..n |-> t[g[k]]] /\ Len(Pick(t, I)) = n
  BY <1>0
<1>2. PICK s : s = Pick(t, I) /\ s \in Text /\ Len(s) = n /\ s = [k \in 1..n |-> t[g[k]]]
  BY <1>1, PickText
<1>3. Len(u) \in Nat /\ u \in Seq(Nat) /\ s \in Seq(Nat)
  BY <1>2, LenProperties DEF Text
<1>4. PICK us : us = u \o s
  OBVIOUS
<1>5. /\ Len(us) = Len(u) + n
      /\ \A j \in 1..Len(u) + n : us[j] = IF j <= Len(u) THEN u[j] ELSE s[j - Len(u)]
  BY <1>2, <1>3, <1>4, ConcatProperties
<1>6. PICK k \in 1..n : g[k] = i
  BY <1>1 DEF Lists
<1>7. Len(u) + k \in 1..Len(u) + n /\ ~(Len(u) + k <= Len(u)) /\ (Len(u) + k) - Len(u) = k
  BY <1>3
<1>8. PICK m : m = Len(u) + k
  OBVIOUS
<1>9. m \in 1..Len(u) + n /\ ~(m <= Len(u)) /\ m - Len(u) = k
  BY <1>7, <1>8
<1>10. us[m] = s[k]
  BY <1>5, <1>9
<1>11. s[k] = t[i]
  BY <1>2, <1>6
<1>12. m \in 1..Len(us) /\ us[m] = t[i]
  BY <1>5, <1>9, <1>10, <1>11
<1>13. t[i] \in Chars(us)
  BY <1>12 DEF Chars
<1> QED BY <1>2, <1>4, <1>13

\* A policy's answer has the remote text, but for what the local edits removed,
\* and what they typed.
LEMMA MergeTextKeeps ==
  ASSUME NEW base \in Text, NEW local \in Text, NEW remote \in Text
  PROVE  /\ \A c : (c \in Chars(base) => c \in Chars(local)) =>
                     Copies(remote, c) <= Copies(MergeText(base, local, remote), c)
         /\ \A c \in Chars(local) :
              c \in Chars(MergeText(base, local, remote)) \cup Chars(base) \cup Chars(remote)
<1> DEFINE kept  == {i \in 1..Len(remote) : remote[i] \in Chars(local) \/ remote[i] \notin Chars(base)}
           added == {i \in 1..Len(local) : local[i] \notin Chars(base) \cup Chars(remote)}
<1>1. kept \in SUBSET (1..Len(remote)) /\ added \in SUBSET (1..Len(local))
  OBVIOUS
<1>2. MergeText(base, local, remote) = Pick(remote, kept) \o Pick(local, added)
  BY DEF MergeText
<1>3. Pick(remote, kept) \in Text /\ Pick(local, added) \in Text
  <2> HIDE DEF kept, added
  <2> QED BY <1>1, PickText
<1>4. ASSUME NEW c, c \in Chars(base) => c \in Chars(local)
      PROVE  Copies(remote, c) <= Copies(Pick(remote, kept) \o Pick(local, added), c)
  <2>1. \A i \in 1..Len(remote) : remote[i] = c => i \in kept
    BY <1>4
  <2> HIDE DEF kept, added
  <2> QED BY <1>1, <1>3, <2>1, CopiesTaken
<1>5. ASSUME NEW c \in Chars(local), c \notin Chars(base), c \notin Chars(remote)
      PROVE  c \in Chars(Pick(remote, kept) \o Pick(local, added))
  <2>1. PICK i \in 1..Len(local) : local[i] = c
    BY DEF Chars
  <2>2. i \in added
    BY <1>5, <2>1
  <2> HIDE DEF kept, added
  <2>3. local[i] \in Chars(Pick(remote, kept) \o Pick(local, added))
    BY <1>1, <1>3, <2>2, TakenChars
  <2> QED BY <2>1, <2>3
<1> HIDE DEF kept, added
<1> QED BY <1>2, <1>4, <1>5

LEMMA ReadMergedKeep ==
  ASSUME OnceInv, Keeping, NEW p \in Clients, ReadMerged(p)
  PROVE  Keeping'
<1>1. BaseInv /\ BaseInv' /\ IsLine(line) /\ StateOK(published, mem[p])
  BY ReadMergedBase, KeptOf
<1>2. PICK doc, base, local, remote, t :
        /\ doc = TextDoc(mem[p].commits) /\ base = Content(mem[p].text)
        /\ local = file[p].state.content /\ remote = Content(doc)
        /\ t = MergeText(base, local, remote)
  OBVIOUS
<1>3. base \in Text /\ remote \in Text /\ remote = ContentIn(line, doc) /\ base = ContentIn(line, mem[p].text)
  BY <1>1, <1>2, KnownDocs
<1>4. local \in Text /\ TextOf(file[p].state) = local
  <2>1. file[p] \in Resource /\ IsPresent(file[p].state)
    BY <1>1, ClientTypes DEF ReadMerged, ReadNow
  <2> QED BY <1>2, <2>1, TextOfTypes, Presence, PresentTexts DEF Resource
<1>5. /\ t \in Text
      /\ \A c : (c \in Chars(base) => c \in Chars(local)) => Copies(remote, c) <= Copies(t, c)
      /\ \A c \in Chars(local) : c \in Chars(t) \cup Chars(base) \cup Chars(remote)
  BY <1>2, <1>3, <1>4, MergeTextType, MergeTextKeeps
<1>6. PICK s : s = Present(t)
  OBVIOUS
<1>7. s \in PresentText /\ s.content = t /\ TextOf(s) = t /\ s # Deleted
  <2>1. s \in PresentText /\ s.content = t
    BY <1>5, <1>6, PresentTexts DEF Present
  <2> QED BY <2>1, TextOfTypes, PresentTexts, Presence
<1>8. pc[p] = "read" /\ plan[p] = Op("Upload") /\ Prepare(p, s, doc) /\ mem[p].text # NoText
  BY <1>2, <1>6 DEF ReadMerged, Asked
<1>9. Stored(mem[p]) = mem[p].text
  BY <1>1, <1>8 DEF Stored, StateOK
<1>10. Spares(cut, base, local)
  BY <1>3, <1>4, <1>9, KeptOf DEF StateKept
<1>11. \A c \in Chars(base) \ cut : c \in Chars(local)
  BY <1>3, <1>4, <1>10, SparesFacts
<1>12. Spares(cut, ContentIn(line, doc), s.content)
  BY <1>3, <1>5, <1>7, <1>11 DEF Spares
<1>13. mem[p].commits \subseteq published /\ Stored(mem[p]).ins \subseteq doc.ins
  BY <1>1, <1>2, StoredPart DEF StateOK, Closed
<1>14. doc.ins \subseteq TextDoc(published).ins
  BY <1>2, <1>13, DocsOrdered
<1>15. ASSUME NEW c \in CharsOf(file[p].state)
       PROVE  c \in CharsOf(s) \/ Has(line, TextDoc(published), c)
  <2>1. c \in Chars(local)
    BY <1>4, <1>15 DEF CharsOf
  <2>2. CASE c \in Chars(t)
    BY <1>7, <2>2 DEF CharsOf
  <2>3. CASE c \in Chars(base)
    <3>1. Has(line, mem[p].text, c)
      BY <1>1, <1>3, <2>3, ShownHas
    <3> QED BY <1>9, <1>13, <1>14, <3>1 DEF Has
  <2>4. CASE c \in Chars(remote)
    <3>1. Has(line, doc, c)
      BY <1>1, <1>3, <2>4, ShownHas
    <3> QED BY <1>14, <3>1 DEF Has
  <2> QED BY <1>5, <2>1, <2>2, <2>3, <2>4
<1>16. IsPresent(listing[p].state)
  BY <1>1, <1>8, PlanMeans
<1> QED BY <1>1, <1>7, <1>8, <1>12, <1>15, <1>16, PrepareKeep

\* The replica is written with the text of the graph.
LEMMA WriteKeep ==
  ASSUME OnceInv, Keeping, BaseInv', NEW p \in Clients, NEW m, mem' = [mem EXCEPT ![p] = m],
         Goto(p, "save"), UNCHANGED <<disk, runVars>>, UNCHANGED <<line, published, acts, cut>>,
         \A q \in Clients \ {p} : file'[q] = file[q],
         Closed(published, m.commits), mem[p].commits \subseteq m.commits,
         Spares(cut, ContentIn(line, TextDoc(m.commits)), TextOf(file'[p].state)),
         StateKept(line, cut, m, file'[p]),
         \A c \in CharsOf(file[p].state) \ cut : Has(line, TextDoc(published), c)
  PROVE  Keeping'
<1>1. BaseInv /\ file'[p] \in Resource
  BY OnceOf DEF BaseInv, TypeOK
<1>2. Changed(p, m, disk[p], "save", listing[p], plan[p], batch[p])
  BY <1>1, SaveChanged
<1>3. disk[p].commits \subseteq m.commits
  BY KeptOf
<1>4. StateKept(line, cut, disk[p], file'[p])
  BY <1>1, <1>3, KeptOf, StateKeptShown
<1>5. CallKept(line, published, cut, m, file'[p], "save", listing[p], plan[p], batch[p])
  BY CallKeptRest
<1>6. Others(p) /\ ClientKept(p)'
  BY <1>1, <1>2, <1>3, <1>4, <1>5, ClientAfter
<1>7. Longer(line, line') /\ published \subseteq published' /\ cut \subseteq cut' /\ acts' = acts
      /\ GraphKept(line', published', cut')
      /\ \A c \in CharsOf(file[p].state) \ cut' : Has(line', TextDoc(published'), c)
  BY DEF Longer, Keeping
<1> QED BY <1>6, <1>7, KeepFrame


LEMMA IntegrateTextKeep ==
  ASSUME OnceInv, Keeping, NEW p \in Clients, IntegrateText(p)
  PROVE  Keeping'
<1>1. BaseInv /\ BaseInv' /\ IsLine(line)
  BY IntegrateTextBase, KeptOf
<1>2. PICK C, s, m : /\ C = Integrated(p) /\ s = Present(Content(TextDoc(C)))
                     /\ m = Reconciled(p, C, s, file[p].version + 1)
  OBVIOUS
<1>3. /\ pc[p] = "integrate" /\ Goto(p, "save") /\ mem' = [mem EXCEPT ![p] = m]
      /\ file' = Written(p, s) /\ UNCHANGED <<disk, runVars>> /\ UNCHANGED <<line, published, acts, cut>>
      /\ ~batch[p].user /\ IsPresent(batch[p].state) /\ Precondition(p, listing[p])
  BY <1>2 DEF IntegrateText, Record, boundVars
<1>4. s \in PresentText /\ file[p].version + 1 \in Nat /\ file \in [Clients -> Resource]
  BY <1>1, <1>2, <1>3, IntegrateTypes
<1>5. Closed(published, C) /\ C \in SUBSET published /\ mem[p].commits \subseteq C
  BY <1>1, <1>2, <1>3, IntegratedFacts DEF Closed
<1>6. /\ file'[p].state = s /\ \A q \in Clients \ {p} : file'[q] = file[q]
  BY <1>3, <1>4, WrittenTypes
<1>7. TextOf(s) = ContentIn(line, TextDoc(C)) /\ TextOf(s) \in Text
  <2>1. s.content = ContentIn(line, TextDoc(C))
    BY <1>2, ContentOfLine DEF Present
  <2> QED BY <1>4, <2>1, TextOfTypes, PresentTexts
<1>8. Spares(cut, ContentIn(line, TextDoc(C)), TextOf(file'[p].state))
  BY <1>6, <1>7, SparesSelf
<1>9. mem[p] \in RuntimeState /\ C \in SUBSET Commit /\ TextDoc(C) \in Doc
  BY <1>1, <1>5, ClientTypes, DocFacts DEF BaseInv, GraphOK
<1>10. m.commits = C /\ Stored(m) = TextDoc(C) /\ m.baseline.state = s
  BY <1>2, <1>4, <1>9, RecordedFacts, ReconciledFacts
<1>11. file'[p] \in Resource
  BY <1>1 DEF BaseInv, TypeOK
<1>12. StateKept(line, cut, m, file'[p])
  BY <1>1, <1>7, <1>8, <1>10, <1>11, RecordedKeep DEF CharsOf
<1>13. ASSUME NEW c \in CharsOf(file[p].state) \ cut PROVE Has(line, TextDoc(published), c)
  <2>1. /\ IsPresent(listing[p].state)
        /\ file[p].version = listing[p].version =>
             \A x \in CharsOf(file[p].state) \ cut :
               x \in CharsOf(batch[p].state) \/ Has(line, TextDoc(published), x)
    BY <1>3, KeptOf DEF CallKept
  <2>2. file[p].version = listing[p].version
    BY <1>3, <2>1 DEF Precondition, IsPresent, Missing
  <2>3. CASE c \in CharsOf(batch[p].state)
    <3>1. Has(line, TextDoc(C), c)
      BY <1>1, <1>2, <1>3, <2>3, PublishedHas
    <3>2. TextDoc(C).ins \subseteq TextDoc(published).ins
      BY <1>5, DocsOrdered
    <3> QED BY <3>1, <3>2 DEF Has
  <2> QED BY <2>1, <2>2, <2>3
<1> QED BY <1>1, <1>3, <1>5, <1>6, <1>8, <1>10, <1>12, <1>13, WriteKeep

\* What a run replaces was published.
LEMMA ReplacedHas ==
  ASSUME OnceInv, Keeping, NEW p \in Clients, p \notin split, pc[p] = "apply",
         plan[p] \in {Op("Download"), Op("ApplyDelete")}, Precondition(p, listing[p]),
         NEW c \in CharsOf(file[p].state)
  PROVE  Has(line, TextDoc(published), c)
<1>1. BaseInv /\ file[p].state \in PresentText \cup {Missing} /\ listing[p].state \in PresentText \cup {Missing}
  BY KeptOf, ResourceText
<1>2. IsPresent(file[p].state)
  BY <1>1, TextOfTypes
<1>3. file[p].state # Missing
  BY <1>2 DEF IsPresent, Missing
<1>4. listing[p].state # Missing /\ file[p].version = listing[p].version
  BY <1>3 DEF Precondition
<1>5. IsPresent(listing[p].state)
  BY <1>1, <1>4, PresentTexts
<1>6. listing[p].state = file[p].state
  BY <1>4, <1>5, OnceOf DEF Sighted
<1>7. mem[p].baseline.state = listing[p].state
  BY <1>1, <1>5, PlanMeans
<1>8. Has(line, TextDoc(mem[p].commits), c)
  BY <1>6, <1>7, KeptOf DEF StateKept
<1>9. TextDoc(mem[p].commits).ins \subseteq TextDoc(published).ins
  BY KeptOf, DocsOrdered DEF StateOK, Closed
<1> QED BY <1>8, <1>9 DEF Has

LEMMA DownloadKeep ==
  ASSUME OnceInv, Keeping, NEW p \in Clients, Download(p), split' = {}
  PROVE  Keeping'
<1>1. BaseInv /\ BaseInv' /\ IsLine(line)
  BY DownloadBase, KeptOf
<1>2. PICK C, s, t, m : /\ C = mem[p].commits /\ s = Present(Content(TextDocAt(C, FirstHead(C).id)))
                        /\ t = RemoteState(C) /\ m = Reconciled(p, C, t, file[p].version + 1)
  OBVIOUS
<1>3. /\ pc[p] = "apply" /\ plan[p] = Op("Download") /\ Goto(p, "save")
      /\ mem' = [mem EXCEPT ![p] = m] /\ split' = (IF s = t THEN split ELSE split \cup {p})
      /\ file' = Written(p, s) /\ UNCHANGED <<disk, runVars>> /\ UNCHANGED <<line, published, acts, cut>>
      /\ Precondition(p, listing[p])
  BY <1>2 DEF Download, Record, boundVars
<1>4. s = t /\ p \notin split
  BY <1>3
<1>5. /\ t \in PresentText \cup {Missing, Deleted, Forked}
      /\ file[p].version + 1 \in Nat /\ Closed(published, C) /\ file \in [Clients -> Resource]
  BY <1>1, <1>2, <1>3, ApplyFacts DEF SideTypes
<1>6. IsPresent(t)
  BY <1>1, <1>2, <1>3, PlanMeans
<1>7. t \in PresentText /\ C \in SUBSET published
  BY <1>5, <1>6, Presence DEF Closed
<1>8. /\ file'[p].state = t /\ \A q \in Clients \ {p} : file'[q] = file[q]
  BY <1>3, <1>4, <1>5, <1>7, WrittenTypes
<1>9. TextOf(t) = ContentIn(line, TextDoc(C)) /\ TextOf(t) \in Text
  <2>1. t = Present(ContentIn(line, TextDoc(C)))
    BY <1>1, <1>2, <1>6, RemoteOfLine, RemoteFacts
  <2>2. t.content = ContentIn(line, TextDoc(C))
    BY <2>1 DEF Present
  <2> QED BY <1>7, <2>2, TextOfTypes, PresentTexts
<1>10. Spares(cut, ContentIn(line, TextDoc(C)), TextOf(file'[p].state))
  BY <1>8, <1>9, SparesSelf
<1>11. mem[p] \in RuntimeState /\ C \in SUBSET Commit /\ TextDoc(C) \in Doc
  BY <1>1, <1>7, ClientTypes, DocFacts DEF BaseInv, GraphOK
<1>12. m.commits = C /\ Stored(m) = TextDoc(C) /\ m.baseline.state = t
  BY <1>2, <1>5, <1>7, <1>11, RecordedFacts, ReconciledFacts
<1>13. file'[p] \in Resource
  BY <1>1 DEF BaseInv, TypeOK
<1>14. StateKept(line, cut, m, file'[p])
  BY <1>1, <1>9, <1>10, <1>12, <1>13, RecordedKeep DEF CharsOf
<1>15. ASSUME NEW c \in CharsOf(file[p].state) PROVE Has(line, TextDoc(published), c)
  BY <1>3, <1>4, <1>15, ReplacedHas
<1>16. mem[p].commits \subseteq C
  BY <1>2
<1> QED BY <1>1, <1>3, <1>5, <1>8, <1>10, <1>12, <1>14, <1>15, <1>16, WriteKeep

\* A text that users emptied has nothing to spare.
LEMMA EmptiedSpares ==
  ASSUME NEW L, IsLine(L), NEW X, NEW C, Emptied(L, X, C), NEW t \in Text
  PROVE  Spares(X, ContentIn(L, TextDoc(C)), t)
<1>1. ContentIn(L, TextDoc(C)) \in Text
  BY ContentChars DEF IsLine
<1>2. ASSUME NEW c, c \notin X PROVE Copies(ContentIn(L, TextDoc(C)), c) <= Copies(t, c)
  <2>1. c \notin Chars(ContentIn(L, TextDoc(C)))
    BY <1>2, ShownHas DEF Emptied
  <2>2. Copies(ContentIn(L, TextDoc(C)), c) = 0
    BY <1>1, <2>1, CopiesType
  <2>3. Copies(t, c) \in Nat
    BY CopiesType
  <2> QED BY <2>2, <2>3
<1> QED BY <1>2 DEF Spares

LEMMA ApplyDeleteKeep ==
  ASSUME OnceInv, Keeping, NEW p \in Clients, p \notin split, ApplyDelete(p)
  PROVE  Keeping'
<1>1. BaseInv /\ BaseInv' /\ IsLine(line)
  BY ApplyDeleteBase, KeptOf
<1>2. PICK C, m : C = mem[p].commits /\ m = Baselined(p, C, Deleted, 0)
  OBVIOUS
<1>3. /\ mem' = [mem EXCEPT ![p] = m] /\ Goto(p, "save") /\ UNCHANGED <<disk, runVars>>
      /\ file' = Written(p, Missing) /\ UNCHANGED <<line, published, acts, cut>>
      /\ pc[p] = "apply" /\ plan[p] = Op("ApplyDelete") /\ Precondition(p, listing[p])
  BY <1>2 DEF ApplyDelete, boundVars, historyVars
<1>4. Closed(published, C) /\ file \in [Clients -> Resource]
  BY <1>1, <1>2, <1>3, ApplyFacts DEF SideTypes
<1>5. /\ file'[p].state = Missing /\ \A q \in Clients \ {p} : file'[q] = file[q]
  BY <1>3, <1>4, WrittenTypes
<1>6. file'[p] \in Resource
  BY <1>1 DEF BaseInv, TypeOK
<1>7. RemoteIn(line, C) = Deleted
  BY <1>1, <1>2, <1>3, PlanMeans, RemoteOfLine
<1>8. Emptied(line, cut, C)
  BY <1>1, <1>4, <1>7, KeptOf, DeletedEmptied DEF GraphKept
<1>9. Spares(cut, ContentIn(line, TextDoc(C)), TextOf(file'[p].state))
  BY <1>1, <1>6, <1>8, ResourceText, EmptiedSpares
<1>10. StateKept(line, cut, mem[p], file'[p])
  BY <1>2, <1>4, <1>6, <1>9, KeptOf, StateKeptShown
<1>11. mem[p] \in RuntimeState /\ C \in SUBSET Commit
  BY <1>1, <1>4, ClientTypes DEF Closed, BaseInv, GraphOK
<1>12. m.commits = C /\ m.baseline.state = Deleted
  BY <1>2, <1>11 DEF Baselined, RuntimeState
<1>13. Stored(m) = Stored(mem[p])
  BY <1>1, <1>2, <1>4, DeletedFacts
<1>14. CharsOf(m.baseline.state) = {}
  BY <1>12, TextOfTypes DEF IsPresent, Deleted
<1>15. StateKept(line, cut, m, file'[p])
  BY <1>10, <1>13, <1>14 DEF StateKept
<1>16. ASSUME NEW c \in CharsOf(file[p].state) PROVE Has(line, TextDoc(published), c)
  BY <1>3, <1>16, ReplacedHas
<1>17. mem[p].commits \subseteq C
  BY <1>2
<1> QED BY <1>1, <1>3, <1>4, <1>5, <1>9, <1>12, <1>15, <1>16, <1>17, WriteKeep


\* A commit has been published.
LEMMA PublishedKeep ==
  ASSUME OnceInv, Keeping, BaseInv', NEW p \in Clients, pc[p] = "publish", Goto(p, "integrate"),
         UNCHANGED <<mem, disk, runVars>>, UNCHANGED <<file, acts, cut>>, Longer(line, line'),
         published \subseteq published', GraphKept(line', published', cut)
  PROVE  Keeping'
<1>1. BaseInv
  BY OnceOf
<1>2. Changed(p, mem[p], disk[p], "integrate", listing[p], plan[p], batch[p])
  BY <1>1, Kept DEF Changed, Goto, runVars
<1>3. /\ Within(line, Stored(mem[p])) /\ Within(line, TextDoc(mem[p].commits))
      /\ Within(line, Stored(disk[p])) /\ Within(line, TextDoc(disk[p].commits))
  BY KeptOf, StoredWithin
<1>4. Spares(cut, TextOf(file[p].state), TextOf(file[p].state))
  BY KeptOf, ResourceText, SparesSelf
<1>5. StateKept(line', cut, mem[p], file[p])
  BY <1>3, <1>4, KeptOf, StateKeptGrows
<1>6. StateKept(line', cut, disk[p], file[p])
  BY <1>3, <1>4, KeptOf, StateKeptGrows
<1>7. IsPresent(batch[p].state) => Within(line, batch[p].doc)
  BY <1>1, <1>3, ClientTypes DEF CallOK
<1>8. CallKept(line', published', cut, mem[p], file[p], pc[p], listing[p], plan[p], batch[p])
  BY <1>3, <1>4, <1>7, KeptOf, CallKeptGrows
<1>9. CallKept(line', published', cut, mem[p], file[p], "integrate", listing[p], plan[p], batch[p])
  BY <1>8 DEF CallKept
<1>10. Others(p) /\ ClientKept(p)'
  BY <1>1, <1>2, <1>5, <1>6, <1>9, KeptOf, ClientAfter
<1>11. cut \subseteq cut' /\ acts' = acts /\ GraphKept(line', published', cut')
       /\ \A q \in Clients : file'[q] = file[q]
  OBVIOUS
<1> QED BY <1>10, <1>11, KeepFrame

LEMMA PublishDeleteKeep ==
  ASSUME OnceInv, Keeping, NEW p \in Clients, PublishDelete(p)
  PROVE  Keeping'
<1>1. BaseInv /\ BaseInv'
  BY PublishDeleteBase, OnceOf
<1>2. PICK a : a = NewCommit(p, Deleted)
  OBVIOUS
<1>3. /\ pc[p] = "publish" /\ Goto(p, "integrate") /\ line' = line /\ published' = published \cup {a}
      /\ UNCHANGED <<mem, disk, runVars>> /\ UNCHANGED <<file, acts, cut>> /\ batch[p].state = Deleted
  BY <1>2 DEF PublishDelete, boundVars, historyVars
<1>4. Extends(published, a) /\ a.change = Deleted /\ a.parents = Heads(mem[p].commits)
  BY <1>1, <1>2, NewCommitFacts
<1>5. Closed(published, mem[p].commits)
  BY KeptOf DEF StateOK
<1>6. Emptied(line, cut, mem[p].commits)
  BY <1>3, KeptOf DEF CallKept
<1>7. GraphKept(line, published \cup {a}, cut)
  BY <1>4, <1>5, <1>6, KeptOf, GraphKeptDelete
<1>8. Longer(line, line') /\ published \subseteq published' /\ GraphKept(line', published', cut)
  BY <1>3, <1>7 DEF Longer
<1> QED BY <1>1, <1>3, <1>8, PublishedKeep

LEMMA PublishTextKeep ==
  ASSUME OnceInv, Keeping, NEW p \in Clients, PublishText(p)
  PROVE  Keeping'
<1>1. BaseInv /\ BaseInv' /\ IsLine(line)
  BY PublishTextBase, KeptOf
<1>2. PICK u, spot, d, n, g :
        /\ Changes(u, spot, line, batch[p].doc, batch[p].state.content, d, n, g)
        /\ line' = Grown(line, spot, u.items)
        /\ published' = published \cup {NewCommit(p, [ins |-> u.ins, del |-> u.del])}
        /\ batch[p].state.content \in Text /\ Within(line, batch[p].doc)
        /\ IsPresent(batch[p].state)
  BY <1>1, PublishTextFacts
<1>3. PICK doc, new, e : /\ doc = batch[p].doc /\ new = batch[p].state.content
                         /\ e = [ins |-> u.ins, del |-> u.del]
  OBVIOUS
<1>4. /\ Changes(u, spot, line, doc, new, d, n, g) /\ new \in Text /\ Within(line, doc)
      /\ e.ins = u.ins /\ e.del = u.del /\ e # Deleted
  BY <1>2, <1>3 DEF Deleted
<1>5. /\ pc[p] = "publish" /\ Goto(p, "integrate")
      /\ UNCHANGED <<mem, disk, runVars>> /\ UNCHANGED <<file, acts, cut>>
  BY DEF PublishText, boundVars, historyVars
<1>6. /\ u.ins = {Len(line) + i : i \in 1..Len(u.items)} /\ u.del \subseteq doc.ins \ doc.del
      /\ u.ins \subseteq 1..Len(line) + Len(u.items) /\ u.del \subseteq 1..Len(line)
      /\ Longer(line, line') /\ Len(line) \in Nat /\ NewItems(line, u.items)
  BY <1>1, <1>2, <1>4, ChangesFacts, LongerFacts
<1>7. u.ins \cap 1..Len(line) = {}
  <2>1. ASSUME NEW i \in 1..Len(u.items) PROVE Len(line) + i \notin 1..Len(line)
    <3>1. i \in Nat /\ i # 0
      BY <1>6, LenProperties DEF NewItems
    <3> QED BY <1>6, <3>1
  <2> QED BY <1>6, <2>1
<1>8. e \in Doc \cup {Deleted}
  <2>1. Len(u.items) \in Nat
    BY <1>6, LenProperties DEF NewItems
  <2>2. u.ins \subseteq Nat /\ u.del \subseteq Nat
    BY <1>6, <2>1
  <2> QED BY <1>3, <2>2 DEF Doc
<1>9. PICK a : a = NewCommit(p, e)
  OBVIOUS
<1>10. Extends(published, a) /\ a.change = e /\ a.parents = Heads(mem[p].commits)
  BY <1>1, <1>8, <1>9, NewCommitFacts
<1>11. Closed(published, mem[p].commits)
  BY KeptOf DEF StateOK
<1>12. doc.ins \subseteq TextDoc(mem[p].commits).ins
  <2>1. doc = TextDoc(mem[p].commits) \/ doc = Stored(mem[p])
    BY <1>1, <1>2, <1>3, <1>5, ClientTypes DEF CallOK
  <2>2. Stored(mem[p]).ins \subseteq TextDoc(mem[p].commits).ins
    BY KeptOf, StoredPart
  <2> QED BY <2>1, <2>2
<1>13. Adds(line, line', published, mem[p].commits, a)
  BY <1>1, <1>4, <1>6, <1>7, <1>10, <1>11, <1>12, KeptOf DEF Adds
<1>14. Fair(line', cut, a.change)
  <2>1. Spares(cut, ContentIn(line, doc), new)
    BY <1>2, <1>3, <1>5, KeptOf DEF CallKept
  <2>2. ASSUME NEW c, c \notin cut
        PROVE  Cardinality(Ids(line', c) \cap e.del) <= Cardinality(Ids(line', c) \cap e.ins)
    <3>1. Copies(ContentIn(line, doc), c) <= Copies(new, c)
      BY <2>1, <2>2 DEF Spares
    <3>2. Cardinality(Ids(Grown(line, spot, u.items), c) \cap e.del)
            <= Cardinality(Ids(Grown(line, spot, u.items), c) \cap e.ins)
      BY <1>1, <1>4, <3>1, UpdateFair
    <3> QED BY <1>2, <3>2
  <2> QED BY <1>10, <2>2 DEF Fair
<1>15. GraphKept(line', published \cup {a}, cut)
  BY <1>13, <1>14, KeptOf, GraphKeptText
<1>16. published' = published \cup {a}
  BY <1>2, <1>3, <1>9
<1>17. published \subseteq published' /\ GraphKept(line', published', cut)
  BY <1>15, <1>16
<1> QED BY <1>1, <1>5, <1>6, <1>17, PublishedKeep


\* Users remove more characters.
LEMMA GraphKeptMore ==
  ASSUME NEW L, NEW P, NEW X, NEW Y, X \subseteq Y, GraphKept(L, P, X)
  PROVE  GraphKept(L, P, Y)
<1>1. NoLoss(L, P, Y)
  BY DEF GraphKept, NoLoss
<1>2. Alive(L, P, Y)
  BY DEF GraphKept, Alive
<1>3. \A S : Emptied(L, X, S) => Emptied(L, Y, S)
  BY DEF Emptied
<1>4. Deletions(L, P, Y)
  BY <1>3 DEF GraphKept, Deletions
<1> QED BY <1>1, <1>2, <1>4 DEF GraphKept

\* A user keeps the copies of what is not noted as removed.
LEMMA ActSpares ==
  ASSUME NEW before, NEW s, TextOf(s) \in Text, Act(before, s), NEW t \in before, t \in Text
  PROVE  Spares(cut', t, TextOf(s))
<1>1. Dropped(t, TextOf(s)) \subseteq cut'
  BY DEF Act
<1>2. PICK u \in Text : u = TextOf(s)
  OBVIOUS
<1>3. ASSUME NEW c, c \notin cut' PROVE Copies(t, c) <= Copies(u, c)
  <2>1. Copies(t, c) \in Nat /\ Copies(u, c) \in Nat /\ (c \notin Chars(t) => Copies(t, c) = 0)
    BY CopiesType
  <2>2. c \notin Chars(t) \/ ~(Copies(u, c) < Copies(t, c))
    BY <1>1, <1>2, <1>3 DEF Dropped
  <2> QED BY <2>1, <2>2
<1> QED BY <1>2, <1>3 DEF Spares

LEMMA EditKeep ==
  ASSUME OnceInv, Keeping, NEW p \in Clients, p \notin split,
         Create(p) \/ Remove(p) \/ \E i \in 0..MaxEvents : Type(p, i) \/ Cut(p, i)
  PROVE  Keeping'
<1>1. BaseInv /\ IsLine(line) /\ file[p] \in Resource
  BY KeptOf
<1>2. PICK s \in PresentText \cup {Missing} : Edit(p, s)
  BY <1>1, EditFacts
<1>3. BaseInv'
  BY <1>1, <1>2, EditBase
<1>4. /\ file' = Written(p, s) /\ acts' = acts + 1 /\ Act({TextOf(file[p].state)}, s)
      /\ UNCHANGED <<line, published, mem, disk, pc, listing, plan, batch>>
  BY <1>2 DEF Edit, Act, runVars
<1>5. file \in [Clients -> Resource] /\ acts \in Nat /\ cut \subseteq Nat
  BY <1>1 DEF BaseInv, TypeOK
<1>6. /\ file'[p].state = s /\ file'[p].version = file[p].version + 1
      /\ \A q \in Clients \ {p} : file'[q] = file[q]
  BY <1>4, <1>5, WrittenTypes
<1>7. PICK f, g : f = file[p] /\ g = file'[p]
  OBVIOUS
<1>8. f \in Resource /\ g \in Resource /\ TextOf(f.state) \in Text /\ TextOf(s) \in Text
  BY <1>1, <1>3, <1>7, ResourceText, TextOfTypes DEF BaseInv, TypeOK
<1>9. Spares(cut', TextOf(f.state), TextOf(g.state))
  BY <1>4, <1>6, <1>7, <1>8, ActSpares
<1>10. cut \subseteq cut' /\ acts' \in cut' \cup CharsOf(g.state)
  BY <1>4, <1>6, <1>7 DEF Act
<1>11. Longer(line, line)
  BY DEF Longer
<1>12. /\ Within(line, Stored(mem[p])) /\ Within(line, TextDoc(mem[p].commits))
       /\ Within(line, Stored(disk[p])) /\ Within(line, TextDoc(disk[p].commits))
  BY KeptOf, StoredWithin
<1>13. StateKept(line, cut', mem[p], g)
  BY <1>7, <1>8, <1>9, <1>10, <1>11, <1>12, KeptOf, StateKeptGrows
<1>14. StateKept(line, cut', disk[p], g)
  BY <1>7, <1>8, <1>9, <1>10, <1>11, <1>12, KeptOf, StateKeptGrows
<1>15. pc[p] = "publish" /\ IsPresent(batch[p].state) => Within(line, batch[p].doc)
  BY <1>1, <1>12, ClientTypes DEF CallOK
<1>16. IsPresent(listing[p].state) => g.version # listing[p].version
  <2>1. Sighted(file[p], listing[p]) /\ file[p].version \in Nat /\ listing[p].version \in Nat
    BY OnceOf
  <2> QED BY <1>6, <1>7, <2>1 DEF Sighted
<1>17. CallKept(line, published, cut', mem[p], g, pc[p], listing[p], plan[p], batch[p])
  BY <1>7, <1>8, <1>9, <1>10, <1>11, <1>12, <1>15, <1>16, KeptOf, CallKeptGrows
<1>18. ClientKept(p)'
  BY <1>4, <1>7, <1>13, <1>14, <1>17, KeptOf DEF ClientKept
<1>19. Others(p) /\ Longer(line, line') /\ published \subseteq published'
  BY <1>4, <1>11 DEF Others
<1>20. GraphKept(line', published', cut')
  BY <1>4, <1>10, KeptOf, GraphKeptMore
<1>21. \A c \in CharsOf(file[p].state) \ cut' : c \in CharsOf(file'[p].state)
  BY <1>6, <1>7, <1>8, <1>9, SparesFacts DEF CharsOf
<1> QED BY <1>3, <1>4, <1>6, <1>7, <1>10, <1>18, <1>19, <1>20, <1>21, KeepFrame

\* A request of a user: the replica has what is about to be published.
LEMMA UserCommitKeep ==
  ASSUME OnceInv, Keeping, BaseInv', NEW p \in Clients, NEW s \in PresentText \cup {Deleted}, NEW v,
         NEW x, UserCommit(p, s, v, x), \A q \in Clients \ {p} : file'[q] = file[q],
         TextOf(file'[p].state) = TextOf(s)
  PROVE  Keeping'
<1>1. BaseInv /\ IsLine(line)
  BY KeptOf
<1> DEFINE b == [state |-> s, doc |-> TextDoc(mem[p].commits), version |-> v, user |-> TRUE,
                 settles |-> x]
<1>2. b.state = s /\ b.user = TRUE /\ b.doc = TextDoc(mem[p].commits)
  OBVIOUS
<1>3. /\ batch' = [batch EXCEPT ![p] = b] /\ Goto(p, "publish")
      /\ UNCHANGED <<line, published, mem, disk, listing, plan>> /\ acts' = acts + 1
      /\ Act({TextOf(file[p].state), Content(TextDoc(mem[p].commits))}, s)
  BY DEF UserCommit, Act
<1> HIDE DEF b
<1>4. Changed(p, mem[p], disk[p], "publish", listing[p], plan[p], b)
  BY <1>1, <1>3, Kept DEF Changed, Goto
<1>5. PICK f, g, t, u : /\ f = file[p] /\ g = file'[p] /\ t = ContentIn(line, TextDoc(mem[p].commits))
                        /\ u = TextOf(s)
  OBVIOUS
<1>6. /\ f \in Resource /\ g \in Resource /\ TextOf(f.state) \in Text /\ u \in Text /\ t \in Text
      /\ t = Content(TextDoc(mem[p].commits))
  BY <1>1, <1>5, ClientTypes, ResourceText, TextOfTypes, KnownDocs DEF BaseInv, TypeOK
<1>7. Spares(cut', TextOf(f.state), u)
  BY <1>3, <1>5, <1>6, ActSpares
<1>8. Spares(cut', t, u)
  BY <1>3, <1>5, <1>6, ActSpares
<1>9. cut \subseteq cut' /\ acts' \in cut' \cup CharsOf(s)
  BY <1>3 DEF Act
<1>10. TextOf(g.state) = u /\ CharsOf(g.state) = Chars(u) /\ CharsOf(s) = Chars(u)
  BY <1>5 DEF CharsOf
<1>11. Closed(published, mem[p].commits) /\ disk[p].commits \subseteq mem[p].commits
  BY KeptOf DEF StateOK
<1>12. Spares(cut', ContentIn(line, TextDoc(mem[p].commits)), TextOf(g.state))
  BY <1>5, <1>8, <1>10
<1>13. StateKept(line, cut', mem[p], g)
  BY <1>6, <1>9, <1>11, <1>12, KeptOf, StateKeptShown
<1>14. StateKept(line, cut', disk[p], g)
  BY <1>6, <1>9, <1>11, <1>12, KeptOf, StateKeptShown
<1>15. ASSUME s = Deleted PROVE Emptied(line, cut', mem[p].commits)
  <2>1. Chars(u) = {}
    BY <1>10, <1>15, TextOfTypes DEF IsPresent, Deleted
  <2>2. ASSUME NEW c, c \notin cut', Has(line, TextDoc(mem[p].commits), c) PROVE FALSE
    <3>1. c \in Chars(t)
      BY <1>1, <1>5, <1>9, <1>11, <2>2, KeptOf, AliveShown
    <3>2. c \in Chars(u)
      BY <1>6, <1>8, <2>2, <3>1, SparesFacts
    <3> QED BY <2>1, <3>2
  <2> QED BY <2>2 DEF Emptied
<1>16. IsPresent(s) => Spares(cut', ContentIn(line, b.doc), s.content)
  BY <1>2, <1>5, <1>8 DEF TextOf
<1>17. CallKept(line, published, cut', mem[p], g, "publish", listing[p], plan[p], b)
  BY <1>2, <1>10, <1>15, <1>16 DEF CallKept
<1>18. Others(p) /\ ClientKept(p)'
  BY <1>1, <1>3, <1>4, <1>5, <1>11, <1>13, <1>14, <1>17, ClientAfter
<1>19. Longer(line, line') /\ published \subseteq published'
  BY <1>3 DEF Longer
<1>20. GraphKept(line', published', cut')
  BY <1>3, <1>9, KeptOf, GraphKeptMore
<1>21. \A c \in CharsOf(file[p].state) \ cut' : c \in CharsOf(file'[p].state)
  BY <1>5, <1>6, <1>7, <1>10, SparesFacts DEF CharsOf
<1>22. acts' \in cut' \cup CharsOf(file'[p].state)
  BY <1>5, <1>9, <1>10
<1> QED BY <1>3, <1>9, <1>18, <1>19, <1>20, <1>21, <1>22, KeepFrame

LEMMA UserRestoreKeep ==
  ASSUME OnceInv, Keeping, NEW p \in Clients, NEW s \in PresentText \cup {Deleted},
         NEW x \in BOOLEAN, UserRestore(p, s, x)
  PROVE  Keeping'
<1>1. BaseInv /\ BaseInv'
  BY UserRestoreBase, OnceOf
<1>2. PICK v : UserCommit(p, s, v, x)
  BY DEF UserRestore
<1>3. file \in [Clients -> Resource]
  BY <1>1 DEF BaseInv, TypeOK
<1>4. TextOf(Missing) = <<>> /\ TextOf(Deleted) = <<>>
  BY TextOfTypes DEF IsPresent, Missing, Deleted
<1>5. TextOf(file'[p].state) = TextOf(s) /\ \A q \in Clients \ {p} : file'[q] = file[q]
  <2>1. CASE s # Deleted
    <3>1. s \in PresentText /\ file' = Written(p, s)
      BY <2>1 DEF UserRestore
    <3> QED BY <1>3, <3>1, WrittenTypes
  <2>2. CASE s = Deleted /\ IsPresent(file[p].state)
    <3>1. file' = Written(p, Missing)
      BY <2>2 DEF UserRestore
    <3> QED BY <1>3, <1>4, <2>2, <3>1, WrittenTypes
  <2>3. CASE s = Deleted /\ ~IsPresent(file[p].state)
    <3>1. file' = file
      BY <2>3 DEF UserRestore
    <3>2. TextOf(file[p].state) = <<>>
      BY <1>1, <2>3, ClientTypes, TextOfTypes DEF Resource
    <3> QED BY <1>4, <2>3, <3>1, <3>2
  <2> QED BY <2>1, <2>2, <2>3
<1> QED BY <1>1, <1>2, <1>5, UserCommitKeep

LEMMA VersionRestoredKeep ==
  ASSUME OnceInv, Keeping, NEW p \in Clients, NEW c, NEW x \in BOOLEAN,
         UserRestore(p, VersionAt(mem[p].commits, c), x)
  PROVE  Keeping'
<1>1. IsLine(line)
  BY KeptOf
<1>2. PICK s : s = VersionAt(mem[p].commits, c)
  OBVIOUS
<1>3. s \in PresentText \cup {Deleted}
  BY <1>1, <1>2, VersionTypes
<1>4. UserRestore(p, s, x)
  BY <1>2
<1> QED BY <1>3, <1>4, UserRestoreKeep

LEMMA RollbackKeep ==
  ASSUME OnceInv, Keeping, NEW p \in Clients, NEW c, Rollback(p, c)
  PROVE  Keeping'
BY VersionRestoredKeep DEF Rollback

LEMMA ResolveKeep ==
  ASSUME OnceInv, Keeping, NEW p \in Clients, Resolve(p)
  PROVE  Keeping'
<1>1. BaseInv /\ BaseInv'
  BY ResolveBase, OnceOf
<1>2. CASE \E c \in HeadCommits(mem[p].commits) : UserRestore(p, VersionAt(mem[p].commits, c), TRUE)
  BY <1>2, VersionRestoredKeep
<1>3. CASE UserRestore(p, Deleted, TRUE)
  BY <1>3, UserRestoreKeep
<1>4. CASE IsPresent(file[p].state) /\ UserCommit(p, file[p].state, file[p].version, TRUE)
           /\ UNCHANGED file
  <2>1. PICK s, v : s = file[p].state /\ v = file[p].version
    OBVIOUS
  <2>2. s \in PresentText
    BY <1>1, <1>4, <2>1, ClientTypes, Presence DEF Resource
  <2> QED BY <1>1, <1>4, <2>1, <2>2, UserCommitKeep
<1> QED BY <1>2, <1>3, <1>4 DEF Resolve


---------------------------------------------------------------------------
(* What users typed is kept: the theorem.                                  *)

LEMMA EditInit == ASSUME Init PROVE EditInv
<1>1. OnceInv /\ IsLine(line)
  BY OnceInit DEF OnceInv, BaseInv
<1>2. line = <<>> /\ published = {} /\ acts = 0
  BY DEF Init
<1>3. \A c : Ids(line, c) = {}
  BY <1>2 DEF Ids
<1>4. \A doc, c : Live(line, doc, c) = {} /\ ~Has(line, doc, c)
  BY <1>3 DEF Live, Has
<1>5. GraphKept(line, published, cut)
  <2>1. Cardinality({}) <= Cardinality({})
    BY FS_EmptySet
  <2>2. NoLoss(line, published, cut)
    BY <1>4, <2>1 DEF NoLoss
  <2>3. Alive(line, published, cut) /\ Deletions(line, published, cut)
    BY <1>2, <1>4 DEF Alive, Deletions
  <2> QED BY <2>2, <2>3 DEF GraphKept
<1>6. Somewhere
  BY <1>2 DEF Somewhere
<1>7. ASSUME NEW p \in Clients PROVE ClientKept(p)
  <2>1. file[p] = Nothing /\ mem[p] = FreshState /\ disk[p] = FreshState /\ pc[p] = "idle"
    BY DEF Init
  <2>2. CharsOf(FreshState.baseline.state) = {}
    <3>1. FreshState.baseline.state = NoBaseline
      BY DEF FreshState
    <3> QED BY <3>1, TextOfTypes DEF IsPresent, NoBaseline
  <2>3. PICK t : t = ContentIn(line, Stored(FreshState)) /\ t \in Text
    BY <1>1, ContentChars DEF IsLine
  <2>4. TextOf(Nothing.state) \in Text
    BY TextOfTypes DEF Nothing
  <2>5. ASSUME NEW c PROVE Copies(t, c) <= Copies(TextOf(Nothing.state), c)
    <3>1. c \notin Chars(t)
      BY <1>1, <1>4, <2>3, ShownHas
    <3>2. Copies(t, c) = 0
      BY <2>3, <3>1, CopiesType
    <3>3. Copies(TextOf(Nothing.state), c) \in Nat
      BY <2>4, CopiesType
    <3> QED BY <3>2, <3>3
  <2>6. StateKept(line, cut, FreshState, Nothing)
    BY <2>2, <2>3, <2>5 DEF StateKept, Spares
  <2>7. CallKept(line, published, cut, mem[p], file[p], pc[p], listing[p], plan[p], batch[p])
    BY <2>1, CallKeptRest
  <2> QED BY <2>1, <2>6, <2>7 DEF ClientKept
<1> QED BY <1>1, <1>5, <1>6, <1>7 DEF EditInv, Keeping

\* Clients that were given the text of one head are remembered.
LEMMA SplitGrows ==
  ASSUME [Next]_vars
  PROVE  split \subseteq split'
<1>1. CASE UNCHANGED vars
  BY <1>1 DEF vars, historyVars
<1>2. CASE Next
  <2>1. PICK p \in Clients : Begin(p) \/ Step(p) \/ User(p) \/ Fail(p) \/ Crash(p)
    BY <1>2 DEF Next
  <2>2. CASE Begin(p) \/ Fail(p) \/ Crash(p)
    BY <2>2 DEF Begin, Fail, Crash, historyVars
  <2>3. CASE Step(p)
    <3>1. CASE ReadUpload(p) \/ ReadMerged(p) \/ ReadConflict(p) \/ ReadDelete(p) \/ ReadChanged(p)
      BY <3>1 DEF ReadUpload, ReadMerged, ReadConflict, ReadDelete, ReadChanged, Prepare, historyVars
    <3>2. CASE PublishDelete(p) \/ PublishText(p)
      BY <3>2 DEF PublishDelete, PublishText, historyVars
    <3>3. CASE IntegrateDelete(p) \/ IntegrateUser(p) \/ IntegrateText(p) \/ IntegrateRefused(p)
      BY <3>3 DEF IntegrateDelete, IntegrateUser, IntegrateText, IntegrateRefused, historyVars
    <3>4. CASE Download(p) \/ ApplyDelete(p) \/ EstablishBaseline(p) \/ EstablishDeletedBaseline(p)
      BY <3>4 DEF Download, ApplyDelete, EstablishBaseline, EstablishDeletedBaseline, historyVars
    <3>5. CASE Skip(p) \/ Save(p)
      BY <3>5 DEF Skip, Save, historyVars
    <3> QED BY <2>3, <3>1, <3>2, <3>3, <3>4, <3>5 DEF Step
  <2>4. CASE User(p)
    <3>1. CASE \E s : Edit(p, s)
      BY <3>1 DEF Edit
    <3>2. CASE \E s, v, x : UserCommit(p, s, v, x)
      BY <3>2 DEF UserCommit
    <3>3. CASE Create(p) \/ Remove(p) \/ \E i \in 0..MaxEvents : Type(p, i) \/ Cut(p, i)
      BY <3>1, <3>3 DEF Create, Remove, Type, Cut
    <3>4. CASE (\E c \in mem[p].commits : Rollback(p, c)) \/ Resolve(p)
      BY <3>2, <3>4 DEF Rollback, Resolve, UserRestore
    <3> QED BY <2>4, <3>3, <3>4 DEF User
  <2> QED BY <2>1, <2>2, <2>3, <2>4
<1> QED BY <1>1, <1>2

LEMMA EditStep ==
  ASSUME EditInv, [Next]_vars
  PROVE  EditInv'
<1>1. OnceInv /\ OnceInv'
  BY OnceStep DEF EditInv
<1>2. SUFFICES ASSUME split' = {} PROVE Keeping'
  BY <1>1 DEF EditInv
<1>3. split = {} /\ Keeping
  BY <1>2, SplitGrows DEF EditInv
<1>4. CASE UNCHANGED vars
  <2>1. GraphKept(line, published, cut)' /\ Somewhere'
    BY <1>3, <1>4 DEF vars, boundVars, historyVars, Keeping, Somewhere
  <2>2. \A p \in Clients : ClientKept(p)'
    BY <1>3, <1>4 DEF vars, runVars, historyVars, Keeping, ClientKept
  <2> QED BY <2>1, <2>2 DEF Keeping
<1>5. CASE Next
  <2>1. PICK p \in Clients : Begin(p) \/ Step(p) \/ User(p) \/ Fail(p) \/ Crash(p)
    BY <1>5 DEF Next
  <2>2. p \notin split
    BY <1>3
  <2>3. CASE Begin(p)
    BY <1>1, <1>3, <2>2, <2>3, BeginKeep
  <2>4. CASE Step(p)
    <3>1. CASE ReadUpload(p) \/ ReadMerged(p) \/ ReadConflict(p) \/ ReadDelete(p) \/ ReadChanged(p)
      BY <1>1, <1>3, <3>1, ReadUploadKeep, ReadMergedKeep, ReadConflictKeep, ReadDeleteKeep, EndKeep
    <3>2. CASE PublishDelete(p) \/ PublishText(p)
      BY <1>1, <1>3, <3>2, PublishDeleteKeep, PublishTextKeep
    <3>3. CASE IntegrateDelete(p) \/ IntegrateUser(p) \/ IntegrateText(p) \/ IntegrateRefused(p)
      BY <1>1, <1>3, <3>3, IntegrateDeleteKeep, IntegrateUserKeep, IntegrateTextKeep, IntegrateRefusedKeep
    <3>4. CASE Download(p) \/ ApplyDelete(p)
      BY <1>1, <1>2, <1>3, <2>2, <3>4, DownloadKeep, ApplyDeleteKeep
    <3>5. CASE EstablishBaseline(p) \/ EstablishDeletedBaseline(p)
      BY <1>1, <1>3, <3>5, EstablishBaselineKeep, EstablishDeletedBaselineKeep
    <3>6. CASE Skip(p) \/ Save(p)
      BY <1>1, <1>3, <3>6, EndKeep
    <3> QED BY <2>4, <3>1, <3>2, <3>3, <3>4, <3>5, <3>6 DEF Step
  <2>5. CASE User(p)
    <3>1. CASE Create(p) \/ Remove(p) \/ \E i \in 0..MaxEvents : Type(p, i) \/ Cut(p, i)
      BY <1>1, <1>3, <2>2, <3>1, EditKeep
    <3>2. CASE \E c \in mem[p].commits : Rollback(p, c)
      BY <1>1, <1>3, <3>2, RollbackKeep
    <3>3. CASE Resolve(p)
      BY <1>1, <1>3, <3>3, ResolveKeep
    <3> QED BY <2>5, <3>1, <3>2, <3>3 DEF User
  <2>6. CASE Fail(p) \/ Crash(p)
    BY <1>1, <1>3, <2>6, EndKeep
  <2> QED BY <2>1, <2>3, <2>4, <2>5, <2>6
<1> QED BY <1>4, <1>5

\* What a user typed and no user removed is in a replica or in the text of the
\* graph as long as no client was given the text of one of several heads: the
\* run never drops it when it merges, downloads or deletes, and no failed call,
\* crash or refused write does.
THEOREM EditsAreKept == Spec => []EditsKept
<1>1. Init => EditInv
  BY EditInit
<1>2. EditInv /\ [Next]_vars => EditInv'
  BY EditStep
<1>3. EditInv => EditsKept
  <2> SUFFICES ASSUME EditInv, split = {}, NEW c \in (1..acts) \ cut
               PROVE  \/ c \in Chars(Content(TextDoc(published)))
                      \/ \E p \in Clients : c \in CharsOf(file[p].state)
    BY DEF EditsKept, NoEditLost
  <2>1. Keeping /\ IsLine(line)
    BY DEF EditInv, OnceInv, BaseInv
  <2>2. CASE Has(line, TextDoc(published), c)
    <3>1. Closed(published, published)
      BY DEF Closed
    <3>2. c \in Chars(ContentIn(line, TextDoc(published)))
      BY <2>1, <2>2, <3>1, AliveShown DEF Keeping
    <3> QED BY <3>2, ContentOfLine
  <2> QED BY <2>1, <2>2 DEF Keeping, Somewhere
<1> QED BY <1>1, <1>2, <1>3, PTL DEF Spec

============================================================================
