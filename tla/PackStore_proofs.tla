-------------------------- MODULE PackStore_proofs -------------------------
(***************************************************************************)
(* Proofs about PackStore, for any clients, manifests, pack size and       *)
(* bounds.                                                                 *)
(*                                                                         *)
(* ChunksStored is not inductive: an upload leaves out the chunks that an  *)
(* index listed when it began, and a collection deletes what it found no   *)
(* use for some time ago.  IndInv says what uploads, downloads and         *)
(* collections rely on in between: an index without its pack is orphaned   *)
(* or about to be deleted (IndexInv); what an upload did not send is still *)
(* stored (UploadInv); what is visible is stored in packs the collection   *)
(* has found live (CollectInv); and two calls, one of them a collection,   *)
(* know of each other (RaceInv).                                           *)
(***************************************************************************)
EXTENDS PackStore, NaturalSets, TLAPS, FiniteSetTheorems, SequenceTheorems

---------------------------------------------------------------------------
(* The inductive invariant.                                                *)

\* The packs a reader finds through an index, and those an orphaned index names.
Stored == (packs \cap Indexed) \cup orphans

IndexInv ==
  /\ strays \subseteq packs \cup orphans
  /\ \A k \in indexes :
       k \in packs \cup orphans \/ \E p \in Clients : job[p].pc = "delete" /\ k \in job[p].indexes

RaceInv ==
  \A p, q \in Clients :
    p # q /\ Collecting(q) =>
      /\ job[p].pc # "idle" => job[p].raced /\ job[q].raced
      /\ Collecting(p) => visible \subseteq exposed

UploadInv(p) ==
  job[p].pc = "upload" =>
    /\ job[p].content \in Manifests
    /\ ~job[p].raced =>
         /\ job[p].indexes \subseteq packs \cup job[p].packs
         /\ ToSet(job[p].content) \subseteq ChunksOf(Stored \cup job[p].indexes)

DownloadInv(p) ==
  job[p].pc = "read" /\ ~job[p].raced => job[p].found \subseteq packs \cup orphans

CollectInv(p) ==
  Collecting(p) =>
    /\ \A m \in visible \ exposed :
         ToSet(m) \subseteq ChunksOf((packs \cap Indexed \cap job[p].found) \cup orphans)
    /\ \A k \in job[p].found : \E m \in mem[p] : ToSet(k) \cap ToSet(m) # {}
    /\ job[p].indexes \cap job[p].found = {}
    /\ job[p].pc = "list" => job[p].indexes = {}
    /\ job[p].pc = "delete" =>
         /\ job[p].packs \cap job[p].found = {}
         /\ ~job[p].raced => packs \subseteq job[p].packs \cup job[p].found

CallsInv == \A p \in Clients : UploadInv(p) /\ DownloadInv(p) /\ CollectInv(p)

IndInv == TypeOK /\ IndexInv /\ RaceInv /\ CallsInv /\ ChunksStored

---------------------------------------------------------------------------
(* Sequences of chunks.                                                    *)

\* Pick takes exactly the elements at the given positions.
LEMMA PickFacts ==
  ASSUME NEW s \in Seq(Chunks), NEW I \in SUBSET (1..Len(s))
  PROVE  /\ Pick(s, I) \in Seq(Chunks)
         /\ \A i \in I : \E n \in 1..Len(Pick(s, I)) : Pick(s, I)[n] = s[i]
         /\ \A n \in 1..Len(Pick(s, I)) : \E i \in I : Pick(s, I)[n] = s[i]
<1>1. Len(s) \in Nat /\ I \in SUBSET Nat
  BY LenProperties
<1>2. Cardinality(I) \in Nat /\ \E g : Lists(g, Cardinality(I), I)
  BY <1>1, ListExists
<1>3. PICK n \in Nat : \E g : Lists(g, n, I)
  BY <1>2
<1>4. PICK g : Lists(g, n, I)
  BY <1>3
<1>5. Pick(s, I) = [k \in 1..n |-> s[g[k]]]
  BY <1>1, <1>4, PickOfList
<1>6. g \in [1..n -> I] /\ \A i \in I : \E k \in 1..n : g[k] = i
  BY <1>4 DEF Lists
<1>7. \A k \in 1..n : s[g[k]] \in Chunks
  BY <1>6, ElementOfSeq
<1>8. Pick(s, I) \in Seq(Chunks) /\ Len(Pick(s, I)) = n
  BY <1>5, <1>7
<1>9. ASSUME NEW i \in I PROVE \E k \in 1..n : Pick(s, I)[k] = s[i]
  BY <1>5, <1>6
<1>10. ASSUME NEW k \in 1..n PROVE \E i \in I : Pick(s, I)[k] = s[i]
  BY <1>5, <1>6
<1> QED BY <1>8, <1>9, <1>10

\* The elements of a sequence of chunks.
LEMMA Elements ==
  ASSUME NEW s \in Seq(Chunks)
  PROVE  /\ ToSet(s) \subseteq Chunks
         /\ \A c : c \in ToSet(s) <=> \E i \in 1..Len(s) : s[i] = c
BY LenProperties DEF ToSet

\* Leaving out repetitions leaves out no chunk.
LEMMA DistinctFacts ==
  ASSUME NEW s \in Seq(Chunks)
  PROVE  Distinct(s) \in Seq(Chunks) /\ ToSet(s) \subseteq ToSet(Distinct(s))
<1> DEFINE firsts == {i \in 1..Len(s) : \A j \in 1..(i - 1) : s[j] # s[i]}
<1>1. Distinct(s) = Pick(s, firsts)
  BY DEF Distinct
<1>2. firsts \in SUBSET (1..Len(s))
  OBVIOUS
<1>3. ASSUME NEW i \in 1..Len(s) PROVE \E j \in firsts : s[j] = s[i]
  <2> DEFINE S == {j \in 1..Len(s) : s[j] = s[i]}
  <2>1. Len(s) \in Nat
    BY LenProperties
  <2>2. S \in SUBSET Nat /\ i \in S
    BY <2>1
  <2>3. PICK j \in S : \A k \in S : j <= k
    BY <2>2, LeastExists
  <2>4. ASSUME NEW k \in 1..(j - 1) PROVE s[k] # s[j]
    <3>1. j \in 1..Len(s) /\ s[j] = s[i] /\ k \in 1..Len(s) /\ k < j
      BY <2>1
    <3> QED BY <2>3, <3>1
  <2> QED BY <2>4
<1> HIDE DEF firsts
<1>4. Pick(s, firsts) \in Seq(Chunks)
  BY <1>2, PickFacts
<1>5. ASSUME NEW i \in 1..Len(s) PROVE s[i] \in ToSet(Pick(s, firsts))
  <2>1. PICK j \in firsts : s[j] = s[i]
    BY <1>3
  <2>2. \E n \in 1..Len(Pick(s, firsts)) : Pick(s, firsts)[n] = s[j]
    BY <1>2, PickFacts
  <2> QED BY <1>4, <2>1, <2>2, Elements
<1> QED BY <1>1, <1>4, <1>5, Elements

\* Every position is in some pack.
LEMMA PackOfPosition ==
  ASSUME NEW i \in Nat \ {0}
  PROVE  \E n \in 0..(i - 1) : n * PackSize < i /\ i <= (n + 1) * PackSize
<1> DEFINE S == {n \in Nat : i <= (n + 1) * PackSize}
<1>1. PackSize \in Nat \ {0}
  BY PackStoreAssumption
<1>2. i - 1 \in S
  BY <1>1
<1>3. PICK n \in S : \A k \in S : n <= k
  BY <1>2, LeastExists
<1>4. n \in 0..(i - 1) /\ i <= (n + 1) * PackSize
  BY <1>2, <1>3
<1>5. n * PackSize < i
  <2>1. CASE n = 0
    BY <1>1, <2>1
  <2>2. CASE n # 0
    <3>1. n - 1 \in Nat /\ ~(i <= ((n - 1) + 1) * PackSize)
      BY <1>3, <2>2
    <3>2. (n - 1) + 1 = n /\ n * PackSize \in Nat
      BY <1>1
    <3> QED BY <3>1, <3>2
  <2> QED BY <2>1, <2>2
<1> QED BY <1>4, <1>5

\* build_packs makes packs that are neither empty nor too large, and packs every chunk.
LEMMA BuildPacksFacts ==
  ASSUME NEW chunks \in Seq(Chunks)
  PROVE  BuildPacks(chunks) \subseteq Pack /\ ToSet(chunks) \subseteq ChunksOf(BuildPacks(chunks))
<1> DEFINE s == Distinct(chunks)
           first(n) == n * PackSize + 1
           last(n) == Min({(n + 1) * PackSize, Len(s)})
           numbers == {n \in 0..Len(s) : n * PackSize < Len(s)}
<1>1. s \in Seq(Chunks) /\ ToSet(chunks) \subseteq ToSet(s)
  BY DistinctFacts
<1>2. BuildPacks(chunks) = {NthPack(s, n) : n \in numbers}
  BY DEF BuildPacks
<1> HIDE DEF s
<1>3. PackSize \in Nat \ {0} /\ Len(s) \in Nat
  BY <1>1, PackStoreAssumption, LenProperties
<1>4. ASSUME NEW n \in numbers
      PROVE  /\ first(n) \in 1..Len(s) /\ last(n) \in first(n)..Len(s)
             /\ last(n) - first(n) + 1 <= PackSize
             /\ \A i \in Nat : first(n) <= i /\ i <= (n + 1) * PackSize /\ i <= Len(s) => i <= last(n)
  <2>1. n \in Nat /\ n * PackSize \in Nat /\ (n + 1) * PackSize \in Nat
        /\ (n + 1) * PackSize = n * PackSize + PackSize
    BY <1>3
  <2>2. last(n) = IF (n + 1) * PackSize <= Len(s) THEN (n + 1) * PackSize ELSE Len(s)
    BY <1>3, <2>1, MinOfTwo
  <2> HIDE DEF last
  <2> QED BY <1>3, <2>1, <2>2
<1>5. ASSUME NEW n \in numbers
      PROVE  /\ NthPack(s, n) \in Pack
             /\ Len(NthPack(s, n)) = last(n) - first(n) + 1
             /\ \A i \in 1..(last(n) - first(n) + 1) : NthPack(s, n)[i] = s[first(n) + i - 1]
  <2>1. NthPack(s, n) = SubSeq(s, first(n), last(n))
    BY DEF NthPack
  <2>2. first(n) \in Int /\ last(n) \in Int /\ first(n) <= last(n)
    BY <1>3, <1>4
  <2>3. \A i \in first(n)..last(n) : s[i] \in Chunks
    BY <1>1, <1>3, <1>4, ElementOfSeq
  <2> HIDE DEF first, last
  <2>4. /\ SubSeq(s, first(n), last(n)) \in Seq(Chunks)
        /\ Len(SubSeq(s, first(n), last(n))) = last(n) - first(n) + 1
        /\ \A i \in 1..(last(n) - first(n) + 1) :
             SubSeq(s, first(n), last(n))[i] = s[first(n) + i - 1]
    BY <2>2, <2>3, SubSeqProperties
  <2>5. last(n) - first(n) + 1 \in 1..PackSize
    BY <1>3, <1>4, <2>2
  <2> QED BY <2>1, <2>4, <2>5 DEF Pack
<1>6. BuildPacks(chunks) \subseteq Pack
  BY <1>2, <1>5
<1>7. ASSUME NEW i \in 1..Len(s) PROVE \E n \in numbers : s[i] \in ToSet(NthPack(s, n))
  <2>0. i \in Nat \ {0}
    BY <1>3
  <2>1. PICK n \in 0..(i - 1) : n * PackSize < i /\ i <= (n + 1) * PackSize
    BY <2>0, PackOfPosition
  <2>2. n \in numbers
    BY <1>3, <2>1
  <2>3. first(n) <= i /\ i <= last(n)
    BY <1>3, <1>4, <2>1, <2>2
  <2>4. first(n) \in Nat /\ last(n) \in Nat
    BY <1>3, <1>4, <2>2
  <2> DEFINE j == i - first(n) + 1
  <2>5. j \in 1..(last(n) - first(n) + 1) /\ first(n) + j - 1 = i
    BY <2>3, <2>4
  <2> HIDE DEF first, last, j, numbers
  <2>6. NthPack(s, n)[j] = s[i] /\ j \in 1..Len(NthPack(s, n)) /\ NthPack(s, n) \in Seq(Chunks)
    BY <1>5, <2>2, <2>5 DEF Pack
  <2> QED BY <2>2, <2>6, Elements
<1> HIDE DEF numbers
<1>8. ToSet(s) \subseteq ChunksOf(BuildPacks(chunks))
  BY <1>1, <1>2, <1>7, Elements DEF ChunksOf
<1> QED BY <1>1, <1>6, <1>8

\* An upload is made of chunks that an index lists and chunks it packs.
LEMMA NewPacksFacts ==
  ASSUME NEW m \in Manifests
  PROVE  LET new == BuildPacks(Pick(m, {i \in 1..Len(m) : m[i] \notin ChunksOf(Indexed)}))
         IN  new \subseteq Pack /\ ToSet(m) \subseteq ChunksOf(Indexed) \cup ChunksOf(new)
<1> DEFINE I == {i \in 1..Len(m) : m[i] \notin ChunksOf(Indexed)}
           new == BuildPacks(Pick(m, I))
<1>1. m \in Seq(Chunks) /\ I \in SUBSET (1..Len(m))
  BY PackStoreAssumption
<1>2. Pick(m, I) \in Seq(Chunks)
  BY <1>1, PickFacts
<1>3. new \subseteq Pack /\ ToSet(Pick(m, I)) \subseteq ChunksOf(new)
  BY <1>2, BuildPacksFacts
<1>4. ASSUME NEW i \in I PROVE m[i] \in ToSet(Pick(m, I))
  <2>1. \E n \in 1..Len(Pick(m, I)) : Pick(m, I)[n] = m[i]
    BY <1>1, PickFacts
  <2> QED BY <1>2, <2>1, Elements
<1>5. ASSUME NEW c \in ToSet(m) PROVE c \in ChunksOf(Indexed) \cup ChunksOf(new)
  <2>1. PICK i \in 1..Len(m) : m[i] = c
    BY <1>1, Elements
  <2> QED BY <1>3, <1>4, <2>1
<1> QED BY <1>3, <1>5

\* A lookup finds an index for every chunk that some index lists.
LEMMA LookupFacts ==
  ASSUME NEW hashes, NEW found \in LookupChunks(hashes), Indexed \subseteq Pack
  PROVE  /\ found \subseteq Indexed
         /\ \A c \in hashes \cap ChunksOf(Indexed) : \E k \in found : c \in ToSet(k)
         /\ \A k \in found : \E c \in hashes : c \in ToSet(k)
<1>1. PICK f \in [hashes \cap ChunksOf(Indexed) -> Indexed] :
        (\A c \in DOMAIN f : Contains(f[c], c)) /\ found = {f[c] : c \in DOMAIN f}
  BY DEF LookupChunks
<1>2. ASSUME NEW c \in DOMAIN f PROVE c \in ToSet(f[c])
  <2>1. f[c] \in Seq(Chunks) /\ Contains(f[c], c)
    BY <1>1 DEF Pack
  <2> QED BY <2>1, Elements DEF Contains
<1> QED BY <1>1, <1>2

LEMMA ChunksOfMonotone ==
  ASSUME NEW S, NEW T, S \subseteq T
  PROVE  ChunksOf(S) \subseteq ChunksOf(T)
BY DEF ChunksOf

LEMMA ChunksOfUnion ==
  ASSUME NEW S, NEW T
  PROVE  ChunksOf(S \cup T) = ChunksOf(S) \cup ChunksOf(T)
BY DEF ChunksOf

LEMMA ChunksOfMember == \A S, c : c \in ChunksOf(S) <=> \E k \in S : c \in ToSet(k)
BY DEF ChunksOf

---------------------------------------------------------------------------
(* What steps do to the other calls.                                       *)

\* The call of p goes on where it was, at most noticed by a collection.
SameCall(p) ==
  /\ job'[p].pc = job[p].pc /\ job'[p].content = job[p].content
  /\ job'[p].packs = job[p].packs /\ job'[p].indexes = job[p].indexes
  /\ job'[p].found = job[p].found
  /\ job[p].raced => job'[p].raced

LEMMA EnterFacts ==
  ASSUME TypeOK, NEW p \in Clients, NEW new \in Job, Enter(p, new)
  PROVE  /\ job' \in [Clients -> Job]
         /\ job[p].pc = "idle"
         /\ job'[p].pc = new.pc /\ job'[p].content = new.content
         /\ job'[p].packs = new.packs /\ job'[p].indexes = new.indexes
         /\ job'[p].found = new.found
         /\ \A q \in Clients \ {p} : SameCall(q)
         /\ \A q \in Clients \ {p} :
              job[q].pc # "idle" /\ (Collecting(q) \/ new.pc = "list")
                => job'[q].raced /\ job'[p].raced
<1> DEFINE races(q) == q # p /\ job[q].pc # "idle" /\ (Collecting(q) \/ new.pc = "list")
<1>1. job' = [q \in Clients |->
           IF q = p THEN [new EXCEPT !.raced = \E r \in Clients : races(r)]
           ELSE [job[q] EXCEPT !.raced = @ \/ races(q)]]
  BY DEF Enter
<1>2. job \in [Clients -> Job]
  BY DEF TypeOK
<1>3. job'[p] = [new EXCEPT !.raced = \E r \in Clients : races(r)]
  BY <1>1
<1>4. ASSUME NEW q \in Clients \ {p} PROVE job'[q] = [job[q] EXCEPT !.raced = @ \/ races(q)]
  BY <1>1
<1>5. job[p].pc = "idle"
  BY DEF Enter
<1> HIDE DEF races
<1>6. job'[p] \in Job /\ job'[p].pc = new.pc /\ job'[p].content = new.content
      /\ job'[p].packs = new.packs /\ job'[p].indexes = new.indexes
      /\ job'[p].found = new.found
  <2>1. (\E r \in Clients : races(r)) \in BOOLEAN
    BY Zenon
  <2> QED BY <1>3, <2>1 DEF Job
<1>7. ASSUME NEW q \in Clients \ {p} PROVE job'[q] \in Job /\ SameCall(q)
  <2>1. job[q] \in Job
    BY <1>2
  <2>2. (job[q].raced \/ races(q)) \in BOOLEAN
    BY Zenon
  <2>3. job'[q] = [job[q] EXCEPT !.raced = job[q].raced \/ races(q)]
    BY <1>4
  <2> QED BY <2>1, <2>2, <2>3 DEF Job, SameCall
<1>8. ASSUME NEW q \in Clients \ {p}, races(q) PROVE job'[q].raced /\ job'[p].raced
  <2>1. job[q] \in Job
    BY <1>2
  <2>2. job'[q].raced = (job[q].raced \/ races(q))
    BY <1>4, <2>1 DEF Job
  <2>3. job'[p].raced = \E r \in Clients : races(r)
    BY <1>3 DEF Job
  <2> QED BY <1>8, <2>2, <2>3, Zenon
<1>9. job' \in [Clients -> Job]
  <2>1. DOMAIN job' = Clients /\ job' = [q \in DOMAIN job' |-> job'[q]]
    BY <1>1
  <2> QED BY <1>6, <1>7, <2>1
<1> QED BY <1>5, <1>6, <1>7, <1>8, <1>9 DEF races

\* A call that only others' writes concern goes on undisturbed.
LEMMA GrowFrame ==
  ASSUME NEW p \in Clients, UploadInv(p), DownloadInv(p), CollectInv(p), SameCall(p),
         mem'[p] = mem[p],
         packs \subseteq packs', Indexed \subseteq Indexed', orphans \subseteq orphans',
         visible' \ exposed' \subseteq visible \ exposed,
         packs' = packs \/ (Collecting(p) => job'[p].raced)
  PROVE  UploadInv(p)' /\ DownloadInv(p)' /\ CollectInv(p)'
<1> USE DEF SameCall, Collecting
<1>1. UploadInv(p)'
  <2>1. SUFFICES ASSUME job[p].pc = "upload" PROVE UploadInv(p)'
    BY DEF UploadInv
  <2>2. CASE job'[p].raced
    BY <2>1, <2>2 DEF UploadInv
  <2>3. CASE ~job'[p].raced
    <3>1. ~job[p].raced
      BY <2>3
    <3>2. Stored \cup job[p].indexes \subseteq Stored' \cup job'[p].indexes
      BY DEF Stored
    <3>3. ToSet(job[p].content) \subseteq ChunksOf(Stored' \cup job'[p].indexes)
      BY <2>1, <3>1, <3>2, ChunksOfMonotone DEF UploadInv
    <3> QED BY <2>1, <2>3, <3>1, <3>3 DEF UploadInv, ChunksOf
  <2> QED BY <2>2, <2>3
<1>2. DownloadInv(p)'
  BY DEF DownloadInv
<1>3. CollectInv(p)'
  <2>1. SUFFICES ASSUME Collecting(p) PROVE CollectInv(p)'
    BY DEF CollectInv
  <2>2. ASSUME NEW m \in visible' \ exposed'
        PROVE  ToSet(m) \subseteq
                 ChunksOf((packs' \cap Indexed' \cap job'[p].found) \cup orphans')
    <3>1. ToSet(m) \subseteq ChunksOf((packs \cap Indexed \cap job[p].found) \cup orphans)
      BY <2>1, <2>2 DEF CollectInv
    <3>2. (packs \cap Indexed \cap job[p].found) \cup orphans
            \subseteq (packs' \cap Indexed' \cap job'[p].found) \cup orphans'
      OBVIOUS
    <3> QED BY <3>1, <3>2, ChunksOfMonotone
  <2> QED BY <2>1, <2>2 DEF CollectInv, ChunksOf
<1> QED BY <1>1, <1>2, <1>3

\* While a collection deletes, every other call knows that it races, and
\* nothing visible is promised once there are two collections.
LEMMA ShrinkFrame ==
  ASSUME NEW p \in Clients, NEW q \in Clients, p # q, Collecting(q), RaceInv,
         UploadInv(p), DownloadInv(p), CollectInv(p), SameCall(p),
         mem'[p] = mem[p], packs' \subseteq packs,
         visible' = visible, exposed' = exposed
  PROVE  UploadInv(p)' /\ DownloadInv(p)' /\ CollectInv(p)'
<1> USE DEF SameCall, Collecting
<1>1. job[p].pc # "idle" => job'[p].raced
  BY DEF RaceInv
<1>2. Collecting(p) => visible' \ exposed' = {}
  BY DEF RaceInv
<1>3. UploadInv(p)'
  BY <1>1 DEF UploadInv
<1>4. DownloadInv(p)'
  BY <1>1 DEF DownloadInv
<1>5. CollectInv(p)'
  BY <1>1, <1>2 DEF CollectInv
<1> QED BY <1>3, <1>4, <1>5

\* No call begins: what was known of races stays true.
LEMMA RaceFrame ==
  ASSUME RaceInv,
         \A p \in Clients :
           job'[p].pc # "idle" =>
             /\ job[p].pc # "idle"
             /\ Collecting(p)' => Collecting(p)
             /\ job[p].raced => job'[p].raced,
         visible \subseteq exposed => visible' \subseteq exposed'
  PROVE  RaceInv'
BY DEF RaceInv, Collecting

---------------------------------------------------------------------------
(* The steps of an upload.                                                 *)

LEMMA LookupStep ==
  ASSUME IndInv, NEW p \in Clients, NEW m \in Manifests, Lookup(p, m)
  PROVE  IndInv'
<1> DEFINE new == BuildPacks(Pick(m, {i \in 1..Len(m) : m[i] \notin ChunksOf(Indexed)}))
           call == [Idle EXCEPT !.pc = "upload", !.content = m, !.packs = new, !.indexes = new]
<1>1. new \subseteq Pack /\ ToSet(m) \subseteq ChunksOf(Indexed) \cup ChunksOf(new)
  BY NewPacksFacts
<1>2. /\ Enter(p, call)
      /\ uploads < MaxUploads /\ uploads' = uploads + 1
      /\ UNCHANGED <<packs, indexes, strays, visible, mem, faults, orphans, exposed>>
  BY DEF Lookup
<1> HIDE DEF new
<1>3. call \in Job /\ call.pc = "upload" /\ call.content = m /\ call.packs = new
      /\ call.indexes = new
  BY <1>1, PackStoreAssumption DEF Idle, Job
<1> HIDE DEF call
<1>4. /\ job' \in [Clients -> Job] /\ job[p].pc = "idle"
      /\ job'[p].pc = "upload" /\ job'[p].content = m
      /\ job'[p].packs = new /\ job'[p].indexes = new
      /\ \A q \in Clients \ {p} : SameCall(q)
      /\ \A q \in Clients \ {p} : Collecting(q) => job'[q].raced /\ job'[p].raced
  BY <1>2, <1>3, EnterFacts DEF IndInv, Collecting
<1>5. TypeOK'
  <2>1. uploads' \in 0..MaxUploads
    BY <1>2, PackStoreAssumption DEF IndInv, TypeOK
  <2> QED BY <1>2, <1>4, <2>1 DEF IndInv, TypeOK
<1>6. IndexInv'
  BY <1>2, <1>4 DEF IndInv, IndexInv, SameCall
<1>7. RaceInv'
  <2>1. ~Collecting(p)'
    BY <1>4 DEF Collecting
  <2>2. ASSUME NEW q \in Clients \ {p}
        PROVE  /\ job'[q].pc = job[q].pc /\ (Collecting(q)' <=> Collecting(q))
               /\ job[q].raced => job'[q].raced
    BY <1>4 DEF Collecting, SameCall
  <2>3. visible' = visible /\ exposed' = exposed
    BY <1>2
  <2> QED BY <1>4, <2>1, <2>2, <2>3 DEF IndInv, RaceInv
<1>8. ASSUME NEW q \in Clients \ {p} PROVE UploadInv(q)' /\ DownloadInv(q)' /\ CollectInv(q)'
  BY <1>2, <1>4, GrowFrame DEF IndInv, CallsInv, Indexed
<1>9. UploadInv(p)'
  <2>1. SUFFICES ASSUME ~job'[p].raced
                 PROVE  ToSet(m) \subseteq ChunksOf(Stored' \cup new)
    BY <1>4 DEF UploadInv, Stored, ChunksOf
  <2>2. \A q \in Clients : job[q].pc # "delete"
    BY <1>4, <2>1 DEF Collecting
  <2>3. Indexed \subseteq Stored'
    BY <1>2, <2>2 DEF IndInv, IndexInv, Stored, Indexed
  <2> QED BY <1>1, <2>3, ChunksOfUnion, ChunksOfMonotone
<1>10. DownloadInv(p)' /\ CollectInv(p)'
  BY <1>4 DEF DownloadInv, CollectInv, Collecting
<1>11. ChunksStored'
  BY <1>2 DEF IndInv, ChunksStored, ChunksOf, Indexed
<1>12. CallsInv'
  BY <1>8, <1>9, <1>10 DEF CallsInv
<1> QED BY <1>5, <1>6, <1>7, <1>11, <1>12 DEF IndInv

LEMMA WritePackStep ==
  ASSUME IndInv, NEW p \in Clients, NEW k, WritePack(p, k)
  PROVE  IndInv'
<1>1. /\ job[p].pc = "upload" /\ k \in job[p].packs
      /\ packs' = packs \cup {k}
      /\ UNCHANGED <<indexes, strays, visible, mem, uploads, faults, orphans, exposed>>
  BY DEF WritePack
<1>2. job \in [Clients -> Job] /\ job[p] \in Job
  BY DEF IndInv, TypeOK
<1>3. job' = [job EXCEPT ![p].packs = @ \ {k}]
  BY <1>2 DEF WritePack, Step
<1>4. /\ job'[p] = [job[p] EXCEPT !.packs = @ \ {k}]
      /\ \A q \in Clients \ {p} : job'[q] = job[q]
  BY <1>2, <1>3
<1>5. job'[p] \in Job /\ job'[p].pc = "upload" /\ job'[p].packs = job[p].packs \ {k}
      /\ job'[p].content = job[p].content /\ job'[p].indexes = job[p].indexes
      /\ job'[p].raced = job[p].raced
  <2>1. job'[p] \in Job
    BY <1>1, <1>2, <1>4 DEF Job
  <2>2. /\ job'[p].pc = "upload" /\ job'[p].packs = job[p].packs \ {k} /\ job'[p].content = job[p].content
        /\ job'[p].indexes = job[p].indexes /\ job'[p].raced = job[p].raced
    BY <1>1, <1>2, <1>4 DEF Job
  <2> QED BY <2>1, <2>2
<1>6. TypeOK'
  BY <1>1, <1>2, <1>3, <1>4, <1>5 DEF IndInv, TypeOK, Job
<1>7. IndexInv'
  BY <1>1, <1>4, <1>5 DEF IndInv, IndexInv
<1>8. RaceInv'
  BY <1>1, <1>4, <1>5, RaceFrame DEF IndInv, Collecting
<1>9. ASSUME NEW q \in Clients \ {p} PROVE UploadInv(q)' /\ DownloadInv(q)' /\ CollectInv(q)'
  <2>1. Collecting(q) => job'[q].raced
    BY <1>1, <1>4 DEF IndInv, RaceInv
  <2> QED BY <1>1, <1>4, <2>1, GrowFrame DEF IndInv, CallsInv, SameCall, Indexed
<1>10. UploadInv(p)'
  <2>1. Stored \cup job[p].indexes \subseteq Stored' \cup job[p].indexes
    BY <1>1 DEF Stored, Indexed
  <2>2. ChunksOf(Stored \cup job[p].indexes) \subseteq ChunksOf(Stored' \cup job[p].indexes)
    BY <2>1, ChunksOfMonotone
  <2>3. ChunksOf(Stored \cup job[p].indexes) \subseteq ChunksOf(Stored \cup job[p].indexes)'
    BY <1>5, <2>2 DEF ChunksOf
  <2>4. ~job[p].raced => job[p].indexes \subseteq packs' \cup job'[p].packs
    BY <1>1, <1>5 DEF IndInv, CallsInv, UploadInv
  <2> QED BY <1>1, <1>5, <2>3, <2>4 DEF IndInv, CallsInv, UploadInv
<1>11. DownloadInv(p)' /\ CollectInv(p)'
  BY <1>5 DEF DownloadInv, CollectInv, Collecting
<1>12. ChunksStored'
  <2>1. ChunksOf((packs \cap Indexed) \cup orphans)
          \subseteq ChunksOf((packs' \cap Indexed') \cup orphans')
    BY <1>1, ChunksOfMonotone DEF Indexed
  <2> QED BY <1>1, <2>1 DEF IndInv, ChunksStored, ChunksOf
<1>13. CallsInv'
  BY <1>9, <1>10, <1>11 DEF CallsInv
<1> QED BY <1>6, <1>7, <1>8, <1>12, <1>13 DEF IndInv

LEMMA WriteIndexStep ==
  ASSUME IndInv, NEW p \in Clients, NEW k, WriteIndex(p, k)
  PROVE  IndInv'
<1>1. /\ job[p].pc = "upload" /\ job[p].packs = {} /\ k \in job[p].indexes
      /\ indexes' = indexes \cup {k}
      /\ orphans' = IF job[p].raced THEN orphans \cup ({k} \ packs) ELSE orphans
      /\ UNCHANGED <<packs, strays, visible, mem, uploads, faults, exposed>>
  BY DEF WriteIndex
<1>2. job \in [Clients -> Job] /\ job[p] \in Job
  BY DEF IndInv, TypeOK
<1>3. job' = [job EXCEPT ![p].indexes = @ \ {k}]
  BY <1>2 DEF WriteIndex, Step
<1>4. /\ job'[p] = [job[p] EXCEPT !.indexes = @ \ {k}]
      /\ \A q \in Clients \ {p} : job'[q] = job[q]
  BY <1>2, <1>3
<1>5. job'[p] \in Job /\ job'[p].pc = "upload" /\ job'[p].packs = {}
      /\ job'[p].content = job[p].content /\ job'[p].indexes = job[p].indexes \ {k}
      /\ job'[p].raced = job[p].raced
  <2>1. job'[p] \in Job
    BY <1>1, <1>2, <1>4 DEF Job
  <2>2. /\ job'[p].pc = "upload" /\ job'[p].packs = {} /\ job'[p].content = job[p].content
        /\ job'[p].indexes = job[p].indexes \ {k} /\ job'[p].raced = job[p].raced
    BY <1>1, <1>2, <1>4 DEF Job
  <2> QED BY <2>1, <2>2
<1>6. k \in packs \cup orphans' /\ orphans \subseteq orphans' /\ k \in Pack
  BY <1>1, <1>2 DEF IndInv, CallsInv, UploadInv, Job
<1>7. TypeOK'
  BY <1>1, <1>2, <1>3, <1>4, <1>5, <1>6 DEF IndInv, TypeOK, Job
<1>8. IndexInv'
  BY <1>1, <1>4, <1>5, <1>6 DEF IndInv, IndexInv
<1>9. RaceInv'
  BY <1>1, <1>4, <1>5, RaceFrame DEF IndInv, Collecting
<1>10. ASSUME NEW q \in Clients \ {p} PROVE UploadInv(q)' /\ DownloadInv(q)' /\ CollectInv(q)'
  BY <1>1, <1>4, <1>6, GrowFrame DEF IndInv, CallsInv, SameCall, Indexed
<1>11. UploadInv(p)'
  <2>1. Stored \cup job[p].indexes \subseteq Stored' \cup job'[p].indexes
    BY <1>1, <1>5, <1>6 DEF Stored, Indexed
  <2>2. ChunksOf(Stored \cup job[p].indexes) \subseteq ChunksOf(Stored' \cup job'[p].indexes)
    BY <2>1, ChunksOfMonotone
  <2>3. ChunksOf(Stored \cup job[p].indexes) \subseteq ChunksOf(Stored \cup job[p].indexes)'
    BY <2>2 DEF ChunksOf
  <2> QED BY <1>1, <1>5, <2>3 DEF IndInv, CallsInv, UploadInv
<1>12. DownloadInv(p)' /\ CollectInv(p)'
  BY <1>5 DEF DownloadInv, CollectInv, Collecting
<1>13. ChunksStored'
  <2>1. ChunksOf((packs \cap Indexed) \cup orphans)
          \subseteq ChunksOf((packs' \cap Indexed') \cup orphans')
    BY <1>1, <1>6, ChunksOfMonotone DEF Indexed
  <2> QED BY <1>1, <2>1 DEF IndInv, ChunksStored, ChunksOf
<1>14. CallsInv'
  BY <1>10, <1>11, <1>12 DEF CallsInv
<1> QED BY <1>7, <1>8, <1>9, <1>13, <1>14 DEF IndInv

\* The call of p ends, and the others go on.
LEMMA EndFacts ==
  ASSUME TypeOK, NEW p \in Clients, Start(p, Idle)
  PROVE  /\ job' \in [Clients -> Job] /\ job'[p] = Idle /\ job'[p].pc = "idle"
         /\ \A q \in Clients \ {p} : job'[q] = job[q]
         /\ UploadInv(p)' /\ DownloadInv(p)' /\ CollectInv(p)'
<1>1. job \in [Clients -> Job] /\ job' = [job EXCEPT ![p] = Idle]
  BY DEF TypeOK, Start
<1>2. Idle \in Job /\ Idle.pc = "idle"
  BY EmptySeq DEF Idle, Job
<1>3. job'[p] = Idle /\ job'[p].pc = "idle"
  BY <1>1, <1>2
<1>4. UploadInv(p)' /\ DownloadInv(p)' /\ CollectInv(p)'
  BY <1>3 DEF UploadInv, DownloadInv, CollectInv, Collecting
<1> QED BY <1>1, <1>2, <1>3, <1>4

LEMMA PublishStep ==
  ASSUME IndInv, NEW p \in Clients, Publish(p)
  PROVE  IndInv'
<1> DEFINE m == job[p].content
<1>1. /\ job[p].pc = "upload" /\ job[p].packs = {} /\ job[p].indexes = {}
      /\ visible' = visible \cup {m}
      /\ mem' = [mem EXCEPT ![p] = @ \cup {m}]
      /\ exposed' = IF job[p].raced THEN exposed \cup {m} ELSE exposed \ {m}
      /\ UNCHANGED <<packs, indexes, strays, uploads, faults, orphans>>
      /\ Start(p, Idle)
  BY DEF Publish
<1>2. m \in Manifests
  BY <1>1 DEF IndInv, CallsInv, UploadInv
<1>3. /\ job' \in [Clients -> Job] /\ job'[p].pc = "idle"
      /\ \A q \in Clients \ {p} : job'[q] = job[q]
      /\ UploadInv(p)' /\ DownloadInv(p)' /\ CollectInv(p)'
  BY <1>1, EndFacts DEF IndInv
<1>4. mem' \in [Clients -> SUBSET Manifests] /\ \A q \in Clients \ {p} : mem'[q] = mem[q]
  BY <1>1, <1>2 DEF IndInv, TypeOK
<1>5. TypeOK'
  BY <1>1, <1>2, <1>3, <1>4 DEF IndInv, TypeOK
<1>6. IndexInv'
  BY <1>1, <1>3 DEF IndInv, IndexInv
<1>7. \A q \in Clients : Collecting(q)' => Collecting(q) /\ q # p
  BY <1>3 DEF Collecting
<1>8. (\E q \in Clients : Collecting(q)) => job[p].raced
  BY <1>1 DEF IndInv, RaceInv, Collecting
<1>9. RaceInv'
  <2>1. CASE job[p].raced
    BY <1>1, <1>3, <1>7, <2>1, RaceFrame DEF IndInv
  <2>2. CASE ~job[p].raced
    BY <1>7, <1>8, <2>2 DEF RaceInv
  <2> QED BY <2>1, <2>2
<1>10. ASSUME NEW q \in Clients \ {p} PROVE UploadInv(q)' /\ DownloadInv(q)' /\ CollectInv(q)'
  <2>1. CASE job[p].raced
    <3>1. visible' \ exposed' \subseteq visible \ exposed
      BY <1>1, <2>1
    <3> QED BY <1>1, <1>3, <1>4, <3>1, GrowFrame DEF IndInv, CallsInv, SameCall, Indexed
  <2>2. CASE ~job[p].raced
    <3>1. ~Collecting(q)'
      BY <1>7, <1>8, <2>2
    <3>2. CollectInv(q)'
      BY <3>1 DEF CollectInv
    <3>3. UploadInv(q)' /\ DownloadInv(q)'
      BY <1>1, <1>3 DEF IndInv, CallsInv, UploadInv, DownloadInv, Stored, ChunksOf, Indexed
    <3> QED BY <3>2, <3>3
  <2> QED BY <2>1, <2>2
<1>11. ChunksStored'
  <2>1. ASSUME ~job[p].raced PROVE ToSet(m) \subseteq ChunksOf((packs \cap Indexed) \cup orphans)
    BY <1>1, <2>1 DEF IndInv, CallsInv, UploadInv, Stored
  <2> QED BY <1>1, <2>1 DEF IndInv, ChunksStored, ChunksOf, Indexed
<1>12. CallsInv'
  BY <1>3, <1>10 DEF CallsInv
<1> QED BY <1>5, <1>6, <1>9, <1>11, <1>12 DEF IndInv

---------------------------------------------------------------------------
(* The steps of a download.                                                *)

LEMMA LocateStep ==
  ASSUME IndInv, NEW p \in Clients, NEW m \in Manifests, Locate(p, m)
  PROVE  IndInv'
<1>1. /\ mem' = [mem EXCEPT ![p] = @ \cup visible]
      /\ UNCHANGED <<packs, indexes, strays, visible, uploads, faults, orphans, exposed>>
  BY DEF Locate
<1>2. PICK found \in LookupChunks(ToSet(m)) :
        Enter(p, [Idle EXCEPT !.pc = "read", !.found = found])
  BY DEF Locate
<1> DEFINE call == [Idle EXCEPT !.pc = "read", !.found = found]
<1>3. found \subseteq Indexed /\ Indexed \subseteq Pack
  BY LookupFacts DEF IndInv, TypeOK, Indexed
<1>4. call \in Job /\ call.pc = "read" /\ call.found = found
  BY <1>3, EmptySeq DEF Idle, Job
<1>5. /\ job' \in [Clients -> Job] /\ job[p].pc = "idle"
      /\ job'[p].pc = "read" /\ job'[p].found = found
      /\ \A q \in Clients \ {p} : SameCall(q)
      /\ \A q \in Clients \ {p} : Collecting(q) => job'[q].raced /\ job'[p].raced
  BY <1>2, <1>4, EnterFacts DEF IndInv, Collecting
<1>6. mem' \in [Clients -> SUBSET Manifests] /\ \A q \in Clients \ {p} : mem'[q] = mem[q]
  BY <1>1 DEF IndInv, TypeOK
<1>7. TypeOK'
  BY <1>1, <1>5, <1>6 DEF IndInv, TypeOK
<1>8. IndexInv'
  BY <1>1, <1>5 DEF IndInv, IndexInv, SameCall
<1>9. RaceInv'
  <2>1. ~Collecting(p)'
    BY <1>5 DEF Collecting
  <2>2. ASSUME NEW q \in Clients \ {p}
        PROVE  /\ job'[q].pc = job[q].pc /\ (Collecting(q)' <=> Collecting(q))
               /\ job[q].raced => job'[q].raced
    BY <1>5 DEF Collecting, SameCall
  <2>3. visible' = visible /\ exposed' = exposed
    BY <1>1
  <2> QED BY <1>5, <2>1, <2>2, <2>3 DEF IndInv, RaceInv
<1>10. ASSUME NEW q \in Clients \ {p} PROVE UploadInv(q)' /\ DownloadInv(q)' /\ CollectInv(q)'
  BY <1>1, <1>5, <1>6, GrowFrame DEF IndInv, CallsInv, Indexed
<1>11. DownloadInv(p)'
  <2>1. SUFFICES ASSUME ~job'[p].raced PROVE found \subseteq packs \cup orphans
    BY <1>1, <1>5 DEF DownloadInv
  <2>2. \A q \in Clients : job[q].pc # "delete"
    BY <1>5, <2>1 DEF Collecting
  <2> QED BY <1>3, <2>2 DEF IndInv, IndexInv, Indexed
<1>12. UploadInv(p)' /\ CollectInv(p)'
  BY <1>5 DEF UploadInv, CollectInv, Collecting
<1>13. ChunksStored'
  BY <1>1 DEF IndInv, ChunksStored, ChunksOf, Indexed
<1>14. CallsInv'
  BY <1>10, <1>11, <1>12 DEF CallsInv
<1> QED BY <1>7, <1>8, <1>9, <1>13, <1>14 DEF IndInv

\* A call that ends leaves the rest as it is, but for an index that it did not
\* rename: ReadRanges, Finish and the calls that fail.
LEMMA EndStep ==
  ASSUME IndInv, NEW p \in Clients, Start(p, Idle),
         Collecting(p) => job[p].indexes \subseteq orphans',
         orphans \subseteq orphans', orphans' \subseteq Pack,
         mem' \in [Clients -> SUBSET Manifests], \A q \in Clients \ {p} : mem'[q] = mem[q],
         faults' \in 0..MaxFaults,
         strays \subseteq strays', strays' \subseteq strays \cup (Pack \cap (packs \cup orphans')),
         UNCHANGED <<packs, indexes, visible, uploads, exposed>>
  PROVE  IndInv'
<1>1. /\ job' \in [Clients -> Job] /\ job'[p].pc = "idle"
      /\ \A q \in Clients \ {p} : job'[q] = job[q]
      /\ UploadInv(p)' /\ DownloadInv(p)' /\ CollectInv(p)'
  BY EndFacts DEF IndInv
<1>2. TypeOK'
  BY <1>1 DEF IndInv, TypeOK
<1>3. IndexInv'
  BY <1>1 DEF IndInv, IndexInv, Collecting
<1>4. RaceInv'
  BY <1>1, RaceFrame DEF IndInv, Collecting
<1>5. ASSUME NEW q \in Clients \ {p} PROVE UploadInv(q)' /\ DownloadInv(q)' /\ CollectInv(q)'
  BY <1>1, GrowFrame DEF IndInv, CallsInv, SameCall, Indexed
<1>6. ChunksStored'
  <2>1. ChunksOf((packs \cap Indexed) \cup orphans)
          \subseteq ChunksOf((packs' \cap Indexed') \cup orphans')
    BY ChunksOfMonotone DEF Indexed
  <2> QED BY <2>1 DEF IndInv, ChunksStored, ChunksOf
<1>7. CallsInv'
  BY <1>1, <1>5 DEF CallsInv
<1> QED BY <1>2, <1>3, <1>4, <1>6, <1>7 DEF IndInv

LEMMA StrayIndexStep ==
  ASSUME IndInv, NEW p \in Clients, NEW k, StrayIndex(p, k)
  PROVE  IndInv'
<1>1. /\ job[p].pc = "upload" /\ job[p].packs = {} /\ k \in job[p].indexes
      /\ strays' = strays \cup {k}
      /\ orphans' = IF job[p].raced THEN orphans \cup ({k} \ packs) ELSE orphans
      /\ UNCHANGED <<packs, indexes, visible, mem, uploads, exposed>>
      /\ Start(p, Idle)
  BY DEF StrayIndex
<1>2. job[p] \in Job
  BY DEF IndInv, TypeOK
<1>3. k \in Pack /\ orphans' \subseteq Pack
  BY <1>1, <1>2 DEF IndInv, TypeOK, Job
<1>4. k \in packs \cup orphans' /\ orphans \subseteq orphans'
  BY <1>1 DEF IndInv, CallsInv, UploadInv
<1>5. faults' \in 0..MaxFaults
  BY PackStoreAssumption DEF IndInv, TypeOK, StrayIndex
<1>6. ~Collecting(p) /\ mem' \in [Clients -> SUBSET Manifests]
  BY <1>1 DEF Collecting, IndInv, TypeOK
<1> QED BY <1>1, <1>3, <1>4, <1>5, <1>6, EndStep

LEMMA ReadRangesStep ==
  ASSUME IndInv, NEW p \in Clients, ReadRanges(p)
  PROVE  IndInv'
BY EndStep DEF ReadRanges, IndInv, TypeOK, Collecting

---------------------------------------------------------------------------
(* The steps of a collection.                                              *)

LEMMA SurveyStep ==
  ASSUME IndInv, NEW p \in Clients, NEW obsolete \in SUBSET (mem[p] \cup visible),
         Survey(p, obsolete)
  PROVE  IndInv'
<1> DEFINE known == (mem[p] \cup visible) \ obsolete
<1>1. /\ visible' = visible \ obsolete
      /\ mem' = [mem EXCEPT ![p] = known]
      /\ exposed' = IF \E q \in Clients : Collecting(q) THEN visible' ELSE exposed \ obsolete
      /\ UNCHANGED <<packs, indexes, strays, uploads, faults, orphans>>
  BY DEF Survey
<1>2. PICK found \in LookupChunks(ChunksOf(known)) :
        Enter(p, [Idle EXCEPT !.pc = "list", !.found = found, !.obsolete = obsolete])
  BY DEF Survey
<1> DEFINE call == [Idle EXCEPT !.pc = "list", !.found = found, !.obsolete = obsolete]
<1>3. obsolete \subseteq Manifests /\ known \subseteq Manifests /\ Indexed \subseteq Pack
  BY DEF IndInv, TypeOK, Indexed
<1> HIDE DEF known
<1>4. /\ found \subseteq Indexed
      /\ \A c \in ChunksOf(known) \cap ChunksOf(Indexed) : \E k \in found : c \in ToSet(k)
      /\ \A k \in found : \E c \in ChunksOf(known) : c \in ToSet(k)
  BY <1>3, LookupFacts
<1>5. call \in Job /\ call.pc = "list" /\ call.found = found /\ call.indexes = {}
  BY <1>3, <1>4, EmptySeq DEF Idle, Job
<1> HIDE DEF call
<1>6. /\ job' \in [Clients -> Job] /\ job[p].pc = "idle"
      /\ job'[p].pc = "list" /\ job'[p].found = found /\ job'[p].indexes = {}
      /\ \A q \in Clients \ {p} : SameCall(q)
      /\ \A q \in Clients \ {p} : job[q].pc # "idle" => job'[q].raced /\ job'[p].raced
  <2>1. TypeOK /\ Enter(p, call)
    BY <1>2 DEF IndInv, call
  <2>2. /\ job' \in [Clients -> Job] /\ job[p].pc = "idle" /\ job'[p].pc = call.pc
        /\ job'[p].found = call.found /\ job'[p].indexes = call.indexes
        /\ \A q \in Clients \ {p} : SameCall(q)
    BY <1>5, <2>1, EnterFacts
  <2>3. \A q \in Clients \ {p} : job[q].pc # "idle" => job'[q].raced /\ job'[p].raced
    BY <1>5, <2>1, EnterFacts
  <2> QED BY <1>5, <2>2, <2>3
<1>7. mem' \in [Clients -> SUBSET Manifests] /\ mem'[p] = known
      /\ \A q \in Clients \ {p} : mem'[q] = mem[q]
  BY <1>1, <1>3 DEF IndInv, TypeOK
<1>8. visible' \ exposed' \subseteq visible \ exposed
  BY <1>1
<1>9. TypeOK'
  BY <1>1, <1>6, <1>7 DEF IndInv, TypeOK
<1>10. IndexInv'
  BY <1>1, <1>6 DEF IndInv, IndexInv, SameCall
<1>11. RaceInv'
  <2>1. ASSUME NEW q \in Clients \ {p}
        PROVE  /\ job'[q].pc = job[q].pc /\ (Collecting(q)' <=> Collecting(q))
               /\ job[q].raced => job'[q].raced
    BY <1>6 DEF Collecting, SameCall
  <2>2. (\E q \in Clients : Collecting(q)) => visible' \subseteq exposed'
    BY <1>1
  <2>3. ASSUME NEW q \in Clients, NEW r \in Clients, q # r, Collecting(r)',
               job'[q].pc # "idle"
        PROVE  job'[q].raced /\ job'[r].raced
    <3>1. CASE q = p
      BY <1>6, <2>1, <2>3, <3>1 DEF Collecting
    <3>2. CASE r = p
      BY <1>6, <2>1, <2>3, <3>2
    <3>3. CASE q # p /\ r # p
      BY <2>1, <2>3, <3>3 DEF IndInv, RaceInv
    <3> QED BY <3>1, <3>2, <3>3
  <2>4. ASSUME NEW q \in Clients, NEW r \in Clients, q # r, Collecting(r)', Collecting(q)'
        PROVE  visible' \subseteq exposed'
    BY <2>1, <2>2, <2>4
  <2> QED BY <2>3, <2>4 DEF RaceInv
<1>12. ASSUME NEW q \in Clients \ {p} PROVE UploadInv(q)' /\ DownloadInv(q)' /\ CollectInv(q)'
  BY <1>1, <1>6, <1>7, <1>8, GrowFrame DEF IndInv, CallsInv, Indexed
<1>13. UploadInv(p)' /\ DownloadInv(p)'
  BY <1>6 DEF UploadInv, DownloadInv
<1>14. CollectInv(p)'
  <2>1. ASSUME NEW m \in visible' \ exposed', NEW c \in ToSet(m)
        PROVE  c \in ChunksOf((packs \cap Indexed \cap found) \cup orphans)
    <3>1. m \in visible \ exposed /\ m \in known /\ \A q \in Clients : ~Collecting(q)
      BY <1>1, <2>1 DEF known
    <3>2. c \in ChunksOf((packs \cap Indexed) \cup orphans) /\ c \in ChunksOf(known)
      BY <2>1, <3>1, ChunksOfMember DEF IndInv, ChunksStored
    <3>3. CASE c \in ChunksOf(orphans)
      BY <3>3, ChunksOfMember
    <3>4. CASE c \in ChunksOf(packs \cap Indexed)
      <4>1. c \in ChunksOf(Indexed)
        BY <3>4, ChunksOfMember
      <4>2. PICK k \in found : c \in ToSet(k)
        BY <1>4, <3>2, <4>1
      <4>3. k \in packs \cup orphans
        BY <1>4, <3>1, <4>2 DEF IndInv, IndexInv, Collecting, Indexed
      <4> QED BY <1>4, <4>2, <4>3, ChunksOfMember
    <3> QED BY <3>2, <3>3, <3>4, ChunksOfUnion
  <2>2. \A k \in found : \E m \in known : ToSet(k) \cap ToSet(m) # {}
    BY <1>4, ChunksOfMember
  <2>3. \A m \in visible' \ exposed' :
          ToSet(m) \subseteq ChunksOf((packs' \cap Indexed' \cap job'[p].found) \cup orphans')
    BY <1>1, <1>6, <2>1 DEF Indexed
  <2> QED BY <1>6, <1>7, <2>2, <2>3 DEF CollectInv, ChunksOf
<1>15. ChunksStored'
  BY <1>1, <1>8 DEF IndInv, ChunksStored, ChunksOf, Indexed
<1>16. CallsInv'
  BY <1>12, <1>13, <1>14 DEF CallsInv
<1> QED BY <1>9, <1>10, <1>11, <1>15, <1>16 DEF IndInv

LEMMA ListPacksStep ==
  ASSUME IndInv, NEW p \in Clients, ListPacks(p)
  PROVE  IndInv'
<1>1. /\ job[p].pc = "list"
      /\ UNCHANGED <<packs, indexes, strays, visible, mem, uploads, faults, orphans, exposed>>
      /\ job' = [job EXCEPT ![p] = [job[p] EXCEPT !.pc = "delete", !.packs = packs \ job[p].found]]
  BY DEF ListPacks, Start, Dead
<1>2. job \in [Clients -> Job] /\ job[p] \in Job /\ packs \subseteq Pack
  BY DEF IndInv, TypeOK
<1>3. /\ job'[p] = [job[p] EXCEPT !.pc = "delete", !.packs = packs \ job[p].found]
      /\ \A q \in Clients \ {p} : job'[q] = job[q]
  BY <1>1, <1>2
<1>4. /\ job'[p] \in Job /\ job'[p].pc = "delete" /\ job'[p].packs = packs \ job[p].found
      /\ job'[p].indexes = job[p].indexes /\ job'[p].found = job[p].found
      /\ job'[p].raced = job[p].raced
  <2> DEFINE rest == packs \ job[p].found
  <2>1. rest \in SUBSET Pack /\ job'[p] = [job[p] EXCEPT !.pc = "delete", !.packs = rest]
    BY <1>2, <1>3
  <2> HIDE DEF rest
  <2>2. job'[p] \in Job
    BY <1>2, <2>1 DEF Job
  <2>3. /\ job'[p].pc = "delete" /\ job'[p].packs = rest /\ job'[p].indexes = job[p].indexes
        /\ job'[p].found = job[p].found /\ job'[p].raced = job[p].raced
    BY <1>2, <2>1 DEF Job
  <2> QED BY <2>2, <2>3 DEF rest
<1>5. TypeOK'
  <2>1. job' \in [Clients -> Job]
    BY <1>1, <1>2, <1>3, <1>4
  <2> QED BY <1>1, <2>1 DEF IndInv, TypeOK
<1>6. IndexInv'
  BY <1>1, <1>3, <1>4 DEF IndInv, IndexInv
<1>7. RaceInv'
  BY <1>1, <1>3, <1>4, RaceFrame DEF IndInv, Collecting
<1>8. ASSUME NEW q \in Clients \ {p} PROVE UploadInv(q)' /\ DownloadInv(q)' /\ CollectInv(q)'
  BY <1>1, <1>3, GrowFrame DEF IndInv, CallsInv, SameCall, Indexed
<1>9. UploadInv(p)' /\ DownloadInv(p)'
  BY <1>4 DEF UploadInv, DownloadInv
<1>10. CollectInv(p)'
  BY <1>1, <1>4 DEF IndInv, CallsInv, CollectInv, Collecting, ChunksOf, Indexed
<1>11. ChunksStored'
  BY <1>1 DEF IndInv, ChunksStored, ChunksOf, Indexed
<1>12. CallsInv'
  BY <1>8, <1>9, <1>10 DEF CallsInv
<1> QED BY <1>5, <1>6, <1>7, <1>11, <1>12 DEF IndInv

\* What a collection deletes holds nothing it found live: here is what is left
\* of the contents that are promised.
LEMMA LiveStored ==
  ASSUME IndInv, NEW p \in Clients, Collecting(p), job'[p].found = job[p].found,
         packs \cap Indexed \cap job[p].found \subseteq packs' \cap Indexed',
         orphans \subseteq orphans', UNCHANGED <<visible, exposed>>
  PROVE  /\ \A m \in visible' \ exposed' :
              ToSet(m) \subseteq ChunksOf((packs' \cap Indexed' \cap job'[p].found) \cup orphans')
         /\ ChunksStored'
<1>1. ASSUME NEW m \in visible \ exposed
      PROVE  ToSet(m) \subseteq ChunksOf((packs \cap Indexed \cap job[p].found) \cup orphans)
  BY DEF IndInv, CallsInv, CollectInv
<1>2. ChunksOf((packs \cap Indexed \cap job[p].found) \cup orphans)
        \subseteq ChunksOf((packs' \cap Indexed' \cap job'[p].found) \cup orphans')
  BY ChunksOfMonotone
<1>3. ChunksOf((packs' \cap Indexed' \cap job'[p].found) \cup orphans')
        \subseteq ChunksOf((packs' \cap Indexed') \cup orphans')
  BY ChunksOfMonotone
<1> QED BY <1>1, <1>2, <1>3 DEF ChunksStored, ChunksOf

LEMMA DeletePackStep ==
  ASSUME IndInv, NEW p \in Clients, NEW k, DeletePack(p, k)
  PROVE  IndInv'
<1>1. /\ job[p].pc = "delete" /\ k \in job[p].packs /\ job[p].indexes = {}
      /\ packs' = packs \ {k}
      /\ orphans' = orphans \cup ({k} \cap strays)
      /\ UNCHANGED <<indexes, strays, visible, mem, uploads, faults, exposed>>
      /\ job' = [job EXCEPT ![p] = [job[p] EXCEPT !.packs = @ \ {k}, !.indexes = {k}]]
  BY DEF DeletePack, Start
<1>2. job \in [Clients -> Job] /\ job[p] \in Job /\ k \in Pack
  BY <1>1 DEF IndInv, TypeOK, Job
<1>3. /\ job'[p] = [job[p] EXCEPT !.packs = @ \ {k}, !.indexes = {k}]
      /\ \A q \in Clients \ {p} : job'[q] = job[q]
  BY <1>1, <1>2
<1>4. /\ job'[p] \in Job /\ job'[p].pc = "delete" /\ job'[p].packs = job[p].packs \ {k}
      /\ job'[p].indexes = {k} /\ job'[p].found = job[p].found
      /\ job'[p].raced = job[p].raced
  BY <1>1, <1>2, <1>3 DEF Job
<1>5. Collecting(p) /\ k \notin job[p].found
  BY <1>1 DEF IndInv, CallsInv, CollectInv, Collecting
<1>6. TypeOK'
  <2>1. job' \in [Clients -> Job]
    BY <1>1, <1>2, <1>3, <1>4
  <2> QED BY <1>1, <1>2, <2>1 DEF IndInv, TypeOK
<1>7. IndexInv'
  BY <1>1, <1>3, <1>4 DEF IndInv, IndexInv
<1>8. RaceInv'
  BY <1>1, <1>3, <1>4, RaceFrame DEF IndInv, Collecting
<1>9. ASSUME NEW q \in Clients \ {p} PROVE UploadInv(q)' /\ DownloadInv(q)' /\ CollectInv(q)'
  BY <1>1, <1>3, <1>5, ShrinkFrame DEF IndInv, CallsInv, SameCall
<1>10. UploadInv(p)' /\ DownloadInv(p)'
  BY <1>4 DEF UploadInv, DownloadInv
<1>11. /\ \A m \in visible' \ exposed' :
            ToSet(m) \subseteq ChunksOf((packs' \cap Indexed' \cap job'[p].found) \cup orphans')
       /\ ChunksStored'
  <2>1. packs \cap Indexed \cap job[p].found \subseteq packs' \cap Indexed'
    BY <1>1, <1>5 DEF Indexed
  <2>2. orphans \subseteq orphans' /\ UNCHANGED <<visible, exposed>> /\ job'[p].found = job[p].found
    BY <1>1, <1>4
  <2> QED BY <1>5, <2>1, <2>2, LiveStored
<1>12. CollectInv(p)'
  <2> DEFINE found == job[p].found
  <2>0. /\ \A l \in found : \E m \in mem[p] : ToSet(l) \cap ToSet(m) # {}
        /\ job[p].packs \cap found = {}
        /\ ~job[p].raced => packs \subseteq job[p].packs \cup found
    BY <1>1, <1>5 DEF IndInv, CallsInv, CollectInv
  <2>1. \A l \in job'[p].found : \E m \in mem'[p] : ToSet(l) \cap ToSet(m) # {}
    BY <1>1, <1>4, <2>0
  <2>2. job'[p].packs \cap job'[p].found = {} /\ job'[p].indexes \cap job'[p].found = {}
    BY <1>4, <1>5, <2>0
  <2>3. ~job'[p].raced => packs' \subseteq job'[p].packs \cup job'[p].found
    BY <1>1, <1>4, <2>0
  <2> QED BY <1>4, <1>11, <2>1, <2>2, <2>3 DEF CollectInv, ChunksOf
<1>13. CallsInv'
  BY <1>9, <1>10, <1>12 DEF CallsInv
<1> QED BY <1>6, <1>7, <1>8, <1>11, <1>13 DEF IndInv

LEMMA DeleteIndexStep ==
  ASSUME IndInv, NEW p \in Clients, NEW k, DeleteIndex(p, k)
  PROVE  IndInv'
<1>1. /\ job[p].pc = "delete" /\ k \in job[p].indexes
      /\ indexes' = indexes \ {k}
      /\ UNCHANGED <<packs, strays, visible, mem, uploads, faults, orphans, exposed>>
  BY DEF DeleteIndex
<1>2. job \in [Clients -> Job] /\ job[p] \in Job
  BY DEF IndInv, TypeOK
<1>3. job' = [job EXCEPT ![p].indexes = @ \ {k}]
  BY <1>2 DEF DeleteIndex, Step
<1>4. /\ job'[p] = [job[p] EXCEPT !.indexes = @ \ {k}]
      /\ \A q \in Clients \ {p} : job'[q] = job[q]
  BY <1>2, <1>3
<1>5. /\ job'[p] \in Job /\ job'[p].pc = "delete" /\ job'[p].packs = job[p].packs
      /\ job'[p].indexes = job[p].indexes \ {k} /\ job'[p].found = job[p].found
      /\ job'[p].raced = job[p].raced
  <2>1. job'[p] \in Job
    BY <1>1, <1>2, <1>4 DEF Job
  <2>2. /\ job'[p].pc = "delete" /\ job'[p].packs = job[p].packs /\ job'[p].indexes = job[p].indexes \ {k}
        /\ job'[p].found = job[p].found /\ job'[p].raced = job[p].raced
    BY <1>1, <1>2, <1>4 DEF Job
  <2> QED BY <2>1, <2>2
<1>6. Collecting(p) /\ k \notin job[p].found
  BY <1>1 DEF IndInv, CallsInv, CollectInv, Collecting
<1>7. TypeOK'
  <2>1. job' \in [Clients -> Job]
    BY <1>2, <1>3, <1>4, <1>5
  <2> QED BY <1>1, <2>1 DEF IndInv, TypeOK
<1>8. IndexInv'
  <2>1. ASSUME NEW l \in indexes', NEW q \in Clients, job[q].pc = "delete", l \in job[q].indexes
        PROVE  job'[q].pc = "delete" /\ l \in job'[q].indexes
    BY <1>1, <1>4, <1>5, <2>1
  <2> QED BY <1>1, <2>1 DEF IndInv, IndexInv
<1>9. RaceInv'
  BY <1>1, <1>4, <1>5, RaceFrame DEF IndInv, Collecting
<1>10. ASSUME NEW q \in Clients \ {p} PROVE UploadInv(q)' /\ DownloadInv(q)' /\ CollectInv(q)'
  BY <1>1, <1>4, <1>6, ShrinkFrame DEF IndInv, CallsInv, SameCall
<1>11. UploadInv(p)' /\ DownloadInv(p)'
  BY <1>5 DEF UploadInv, DownloadInv
<1>12. /\ \A m \in visible' \ exposed' :
            ToSet(m) \subseteq ChunksOf((packs' \cap Indexed' \cap job'[p].found) \cup orphans')
       /\ ChunksStored'
  BY <1>1, <1>5, <1>6, LiveStored DEF Indexed
<1>13. CollectInv(p)'
  BY <1>1, <1>5, <1>6, <1>12 DEF IndInv, CallsInv, CollectInv, ChunksOf
<1>14. CallsInv'
  BY <1>10, <1>11, <1>13 DEF CallsInv
<1> QED BY <1>7, <1>8, <1>9, <1>12, <1>14 DEF IndInv

LEMMA FinishStep ==
  ASSUME IndInv, NEW p \in Clients, Finish(p)
  PROVE  IndInv'
BY EndStep DEF Finish, IndInv, TypeOK

LEMMA FailStep ==
  ASSUME IndInv, NEW p \in Clients, Fail(p)
  PROVE  IndInv'
<1>1. job[p] \in Job
  BY DEF IndInv, TypeOK
<1>2. PICK remembered \in {{}, job[p].obsolete} : mem' = [mem EXCEPT ![p] = @ \cup remembered]
  BY DEF Fail
<1>3. remembered \subseteq Manifests
  BY <1>1, <1>2 DEF Job
<1>4. mem' \in [Clients -> SUBSET Manifests] /\ \A q \in Clients \ {p} : mem'[q] = mem[q]
  BY <1>2, <1>3 DEF IndInv, TypeOK
<1>5. faults' \in 0..MaxFaults
  BY PackStoreAssumption DEF IndInv, TypeOK, Fail
<1>6. /\ orphans' = IF Collecting(p) THEN orphans \cup job[p].indexes ELSE orphans
      /\ orphans' \subseteq Pack
  BY <1>1 DEF IndInv, TypeOK, Fail, Job
<1> QED BY <1>4, <1>5, <1>6, EndStep DEF Fail

---------------------------------------------------------------------------
(* The theorems.                                                           *)

LEMMA InitIndInv == Init => IndInv
<1> SUFFICES ASSUME Init PROVE IndInv
  OBVIOUS
<1>1. Idle \in Job /\ Idle.pc = "idle"
  BY EmptySeq DEF Idle, Job
<1>2. TypeOK
  BY <1>1, PackStoreAssumption DEF Init, TypeOK
<1>3. \A p \in Clients : job[p].pc = "idle"
  BY <1>1 DEF Init
<1> QED BY <1>2, <1>3 DEF Init, IndInv, IndexInv, RaceInv, CallsInv, UploadInv, DownloadInv,
           CollectInv, Collecting, ChunksStored

LEMMA NextIndInv == IndInv /\ [Next]_vars => IndInv'
<1> SUFFICES ASSUME IndInv, [Next]_vars PROVE IndInv'
  OBVIOUS
<1>1. CASE UNCHANGED vars
  BY <1>1 DEF vars, IndInv, TypeOK, IndexInv, RaceInv, CallsInv, UploadInv, DownloadInv,
     CollectInv, Collecting, ChunksStored, Stored, ChunksOf, Indexed
<1>2. ASSUME NEW p \in Clients,
             \/ \E m \in Manifests : Lookup(p, m) \/ Locate(p, m)
             \/ \E k \in job[p].packs : WritePack(p, k) \/ DeletePack(p, k)
             \/ \E k \in job[p].indexes : WriteIndex(p, k) \/ StrayIndex(p, k) \/ DeleteIndex(p, k)
             \/ Publish(p) \/ ReadRanges(p)
             \/ \E obsolete \in SUBSET (mem[p] \cup visible) : Survey(p, obsolete)
             \/ ListPacks(p) \/ Finish(p) \/ Fail(p)
      PROVE  IndInv'
  BY <1>2, LookupStep, LocateStep, WritePackStep, DeletePackStep, WriteIndexStep,
     StrayIndexStep, DeleteIndexStep, PublishStep, ReadRangesStep, SurveyStep, ListPacksStep, FinishStep, FailStep
<1> QED BY <1>1, <1>2 DEF Next

\* The inductive invariant holds in every run.
THEOREM Invariance == Spec => []IndInv
BY InitIndInv, NextIndInv, PTL DEF Spec

\* The variables have their types in every run; in particular no pack that an
\* upload makes, that is stored or that an index names is empty or holds more
\* than PackSize chunks.
THEOREM TypeCorrect == Spec => []TypeOK
<1>1. IndInv => TypeOK
  BY DEF IndInv
<1> QED BY Invariance, <1>1, PTL

\* In every run every chunk of a visible content is stored and indexed, whatever
\* uploads shared and whatever collections deleted, unless the content was
\* uploaded during a collection or an orphaned index lists the chunk.
THEOREM VisibleStaysStored == Spec => []ChunksStored
<1>1. IndInv => ChunksStored
  BY DEF IndInv
<1> QED BY Invariance, <1>1, PTL

\* In every run a download finds the packs its lookup returned, unless a
\* collection ran meanwhile or the index is orphaned.
THEOREM DownloadsRead == Spec => []DownloadReadable
<1>1. IndInv => DownloadReadable
  BY DEF IndInv, CallsInv, DownloadInv, DownloadReadable
<1> QED BY Invariance, <1>1, PTL

\* In every run a collection that ends, alone, leaves only packs with a chunk
\* of a commit its client knows.
THEOREM CollectionIsComplete == Spec => GarbageCollected
<1>1. ASSUME IndInv, NEW p \in Clients, Finish(p), ~job[p].raced, NEW k \in packs'
      PROVE  \E m \in mem'[p] : ToSet(k) \cap ToSet(m) # {}
  <2>1. k \in packs /\ mem' = mem /\ job[p].pc = "delete" /\ job[p].packs = {}
    BY <1>1 DEF Finish
  <2>2. k \in job[p].found
    BY <1>1, <2>1 DEF IndInv, CallsInv, CollectInv, Collecting
  <2> QED BY <1>1, <2>1, <2>2 DEF IndInv, CallsInv, CollectInv, Collecting
<1>2. IndInv /\ [Next]_vars =>
        [\A p \in Clients : Finish(p) /\ ~job[p].raced =>
           \A k \in packs' : \E m \in mem'[p] : ToSet(k) \cap ToSet(m) # {}]_vars
  BY <1>1
<1> QED BY Invariance, <1>2, PTL DEF Spec, GarbageCollected

============================================================================
