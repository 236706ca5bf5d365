------------------------- MODULE Maintenance_proofs ------------------------
(***************************************************************************)
(* Proofs about Maintenance, for any clients, maintainers, clocks, bounds, *)
(* retention and any finite set of resources.                              *)
(*                                                                         *)
(* HeadsSurvive is not inductive: that an object is there says nothing of  *)
(* what a compaction which was prepared earlier will delete, and that a    *)
(* version can be found nothing of what the next snapshot will hold.       *)
(* IndInv says both of every compaction under way.  That a truncation      *)
(* spares current versions rests on the graph: a commit's parents are      *)
(* older, so the newest commit is a head, and a history with one head has  *)
(* no other current version.  What the catalog lists is safe only if one   *)
(* client compacts: SoleInv says what that client knows and has in hand.   *)
(***************************************************************************)
EXTENDS Maintenance, NaturalSets, TLAPS, FunctionTheorems

---------------------------------------------------------------------------
(* The inductive invariant.                                                *)

\* The versions that have to survive.
Vital == {c \in published : c \in HeadCommits(published, c.key) /\ ~Outdated(c)}

\* C has what these cursors are past.
Covers(C, cursors) == \A c \in Vital : c.id <= cursors[c.author] => c \in C

\* What these cursors are not past has a segment.
ListsAbove(cursors) == \A c \in published : c.id > cursors[c.author] => c \in listed

Size == Cardinality(published)

GraphInv ==
  /\ IsFiniteSet(published)
  /\ \A c \in published : c.id > 0 /\ c.id <= Size /\ \A i \in c.parents : i < c.id
  /\ \A c, d \in published : c.id = d.id => c = d

\* A snapshot knows no commit, and no number, that was not published.
Known(s) == s.events \subseteq published /\ \A a \in Clients : s.cursors[a] <= Size

\* Nor does anybody else.
ViewsInv ==
  /\ objects \subseteq published /\ listed \subseteq published
  /\ Known(snapshot)
  /\ \A p \in Clients : /\ mem[p].commits \subseteq published
                        /\ \A a \in Clients : mem[p].cursors[a] <= Size
                        /\ Known(compaction[p].snapshot)
                        /\ compaction[p].obsolete \subseteq published

VitalInv ==
  /\ Vital \subseteq objects
  /\ \A p \in Clients : compaction[p].obsolete \cap Vital = {}

Compacting(p) == pc[p] \in {"remove", "rename", "delete"}

\* Where a call may be, and that it has a compaction in hand only when it does.
CallInv ==
  \A p \in Clients :
    /\ pc[p] = "survey" \/ Compacting(p) => p \in Compactors
    /\ ~Compacting(p) => compaction[p].obsolete = {}

\* Everybody who has to has had a version that builds on p's checkpoint of k.
Reached(p, k) ==
  \A q \in ActiveClients(p, mem[p], k) :
    \E d \in seen[q] : IsDescendant(published, d.id, mem[p].checkpoints[k])

\* Nobody holds or acknowledges what he has not had.
AckInv ==
  /\ \A q \in Clients : mem[q].commits \subseteq seen[q]
  /\ \A q \in Clients, k \in Keys : \A i \in acks[q][k] : \E d \in seen[q] : d.id = i
  /\ \A p \in Clients : \A c \in compaction[p].obsolete : Reached(p, c.key)

\* The one client that compacts knows what its cursors are past, and none that
\* was deleted but what it is deleting.
SoleOf(p) ==
  LET s        == compaction[p].snapshot
      obsolete == compaction[p].obsolete
  IN  /\ Covers(mem[p].commits, mem[p].cursors)
      /\ ListsAbove(mem[p].cursors)
      /\ mem[p].commits \subseteq objects \cup obsolete
      /\ pc[p] # "delete" => mem[p].commits \subseteq objects
      /\ pc[p] = "survey" => \A c \in mem[p].commits : c.id <= mem[p].cursors[c.author]
      /\ Compacting(p) =>
           /\ s.cursors = mem[p].cursors
           /\ Covers(s.events, s.cursors)
           /\ s.events \subseteq objects /\ s.events \cap obsolete = {}
           /\ \A c \in obsolete : c.id <= s.cursors[c.author]
      /\ pc[p] = "delete" => snapshot = s

NobodyRenames == \A p \in Clients : pc[p] # "rename"

SoleInv ==
  OneCompacts =>
    /\ snapshot.events \subseteq objects /\ listed \subseteq objects
    /\ NobodyRenames => Covers(snapshot.events, snapshot.cursors) /\ ListsAbove(snapshot.cursors)
    /\ \A p \in Compactors : SoleOf(p)

IndInv ==
  TypeOK /\ GraphInv /\ ViewsInv /\ VitalInv /\ CallInv /\ AckInv /\ SoleInv

---------------------------------------------------------------------------
(* Reading the catalog.                                                    *)

LEMMA SizeFacts == ASSUME GraphInv PROVE Size \in Nat
BY FS_CardinalityType DEF GraphInv, Size

\* The cursor of author a after a scan.
LEMMA CursorFacts ==
  ASSUME IndInv, NEW p \in Clients, NEW a \in Clients
  PROVE  LET old == mem[p].cursors[a]
             new == Max({old, snapshot.cursors[a]} \cup {c.id : c \in {c \in listed : c.author = a}})
         IN  /\ new \in Nat /\ new <= Size
             /\ new >= old /\ new >= snapshot.cursors[a]
             /\ \A c \in listed : c.author = a => c.id <= new
             /\ new = old \/ new = snapshot.cursors[a] \/ \E c \in listed : c.author = a /\ c.id = new
<1> DEFINE old == mem[p].cursors[a]
           snap == snapshot.cursors[a]
           N == {c.id : c \in {c \in listed : c.author = a}}
           S == {old, snap} \cup N
<1>1. old \in Nat /\ snap \in Nat /\ old <= Size /\ snap <= Size /\ Size \in Nat
  BY SizeFacts DEF IndInv, TypeOK, RuntimeState, Snapshot, Cursors, ViewsInv, Known
<1>2. ASSUME NEW n \in N PROVE n \in Nat /\ n <= Size
  BY DEF IndInv, TypeOK, Commit, ViewsInv, GraphInv
<1>3. S \in SUBSET Nat /\ S # {} /\ \A n \in S : n <= Size
  BY <1>1, <1>2
<1> HIDE DEF S
<1>4. Max(S) \in S /\ \A n \in S : n <= Max(S)
  BY <1>1, <1>3, MaxExists
<1>5. Max(S) \in Nat /\ Max(S) <= Size
  BY <1>3, <1>4
<1>6. old \in S /\ snap \in S /\ \A c \in listed : c.author = a => c.id \in S
  BY DEF S
<1>7. Max(S) >= old /\ Max(S) >= snap /\ \A c \in listed : c.author = a => c.id <= Max(S)
  BY <1>1, <1>4, <1>5, <1>6
<1>8. Max(S) = old \/ Max(S) = snap \/ \E c \in listed : c.author = a /\ c.id = Max(S)
  BY <1>4 DEF S
<1> QED BY <1>5, <1>7, <1>8 DEF S

\* What a client knows after a scan.
LEMMA RefreshedFacts ==
  ASSUME IndInv, NEW p \in Clients
  PROVE  LET state == Refreshed(p)
         IN  /\ state \in RuntimeState
             /\ state.commits = mem[p].commits \cup Scanned(mem[p].cursors)
             /\ Scanned(mem[p].cursors) \subseteq Commit
             /\ state.commits \subseteq published
             /\ state.checkpoints = mem[p].checkpoints /\ state.retired = mem[p].retired
             /\ \A a \in Clients : /\ state.cursors[a] <= Size
                                   /\ state.cursors[a] >= mem[p].cursors[a]
                                   /\ state.cursors[a] >= snapshot.cursors[a]
             /\ \A c \in listed : c.id <= state.cursors[c.author]
<1> USE DEF IndInv
<1> DEFINE new(a) == Max({mem[p].cursors[a], snapshot.cursors[a]}
                         \cup {c.id : c \in {c \in listed : c.author = a}})
           cursors == [a \in Clients |-> new(a)]
           scan == Scanned(mem[p].cursors)
           state == [mem[p] EXCEPT !.commits = @ \cup scan, !.cursors = cursors]
<1>1. mem[p] \in RuntimeState /\ snapshot \in Snapshot /\ listed \subseteq Commit
  BY DEF TypeOK
<1>2. Refreshed(p) = state
  BY DEF Refreshed
<1>3. \A a \in Clients :
        /\ new(a) \in Nat /\ new(a) <= Size
        /\ new(a) >= mem[p].cursors[a] /\ new(a) >= snapshot.cursors[a]
        /\ \A c \in listed : c.author = a => c.id <= new(a)
  BY CursorFacts
<1> HIDE DEF new
<1>4. cursors \in Cursors /\ \A a \in Clients : cursors[a] = new(a)
  BY <1>3 DEF Cursors
<1>5. scan \subseteq Commit /\ scan \subseteq published
  BY <1>1 DEF Scanned, Snapshot, ViewsInv, Known
<1> HIDE DEF cursors, scan
<1>6. /\ state.commits = mem[p].commits \cup scan /\ state.cursors = cursors
      /\ state.checkpoints = mem[p].checkpoints /\ state.retired = mem[p].retired
  BY <1>1 DEF RuntimeState
<1>7. state \in RuntimeState
  BY <1>1, <1>4, <1>5 DEF RuntimeState
<1> HIDE DEF state
<1>8. mem[p].commits \subseteq published
  BY DEF ViewsInv
<1>9. ASSUME NEW c \in listed PROVE c.id <= cursors[c.author]
  <2>1. c.author \in Clients
    BY <1>1 DEF Commit
  <2> QED BY <1>3, <1>4, <2>1
<1>10. /\ state.commits = mem[p].commits \cup Scanned(mem[p].cursors)
       /\ Scanned(mem[p].cursors) \subseteq Commit
       /\ state.commits \subseteq published
  BY <1>5, <1>6, <1>8 DEF scan
<1>11. \A a \in Clients : /\ state.cursors[a] <= Size
                          /\ state.cursors[a] >= mem[p].cursors[a]
                          /\ state.cursors[a] >= snapshot.cursors[a]
  BY <1>3, <1>4, <1>6
<1> QED BY <1>2, <1>6, <1>7, <1>9, <1>10, <1>11

\* The one client that compacts gets all that the catalog has: the current
\* versions, and the numbers of all commits.
LEMMA SoleRefreshed ==
  ASSUME IndInv, NEW p \in Clients, SoleOf(p),
         Covers(snapshot.events, snapshot.cursors), ListsAbove(snapshot.cursors)
  PROVE  LET state == Refreshed(p)
         IN  /\ Vital \subseteq state.commits
             /\ \A c \in published : c.id <= state.cursors[c.author]
<1> DEFINE state == Refreshed(p)
<1>1. /\ state \in RuntimeState
      /\ state.commits = mem[p].commits \cup Scanned(mem[p].cursors)
      /\ \A a \in Clients : state.cursors[a] >= snapshot.cursors[a]
      /\ \A c \in listed : c.id <= state.cursors[c.author]
  BY RefreshedFacts
<1> HIDE DEF state
<1>2. ASSUME NEW c \in published
      PROVE  /\ c.author \in Clients /\ c.id \in Nat /\ mem[p].cursors[c.author] \in Nat
             /\ snapshot.cursors[c.author] \in Nat /\ state.cursors[c.author] \in Nat
  <2>1. c.author \in Clients /\ c.id \in Nat
    BY DEF IndInv, TypeOK, Commit
  <2> QED BY <1>1, <2>1 DEF IndInv, TypeOK, RuntimeState, Snapshot, Cursors
<1>3. ASSUME NEW c \in Vital PROVE c \in mem[p].commits \cup Scanned(mem[p].cursors)
  <2>1. c \in published
    BY DEF Vital
  <2>2. CASE c.id <= mem[p].cursors[c.author]
    BY <2>2 DEF SoleOf, Covers
  <2>3. CASE c.id > mem[p].cursors[c.author] /\ c.id <= snapshot.cursors[c.author]
    BY <2>3 DEF Covers, Scanned
  <2>4. CASE c.id > mem[p].cursors[c.author] /\ c.id > snapshot.cursors[c.author]
    BY <2>1, <2>4 DEF ListsAbove, Scanned
  <2> QED BY <1>2, <2>1, <2>2, <2>3, <2>4
<1>4. ASSUME NEW c \in published PROVE c.id <= state.cursors[c.author]
  <2>1. CASE c.id <= snapshot.cursors[c.author]
    BY <1>1, <1>2, <2>1
  <2>2. CASE c.id > snapshot.cursors[c.author]
    BY <1>1, <2>2 DEF ListsAbove
  <2> QED BY <1>2, <2>1, <2>2
<1> QED BY <1>1, <1>3, <1>4 DEF state

---------------------------------------------------------------------------
(* The graph.                                                              *)

\* Publishing makes no old version current.
LEMMA VitalStays ==
  ASSUME NEW N, published' = published \cup N
  PROVE  Vital' \subseteq Vital \cup N
<1> SUFFICES ASSUME NEW c \in Vital', c \notin N PROVE c \in Vital
  OBVIOUS
<1>1. c \in published' /\ c \in HeadCommits(published, c.key)' /\ ~Outdated(c)'
  BY DEF Vital
<1>2. c \in published /\ c \in HeadCommits(published, c.key)
  BY <1>1 DEF HeadCommits, ResourceCommits
<1>3. ~Outdated(c)
  BY <1>1 DEF Outdated, ResourceCommits
<1> QED BY <1>2, <1>3 DEF Vital

\* The newest commit of a resource is one of its heads.
LEMMA NewestIsHead ==
  ASSUME IndInv, NEW C, C \subseteq published, NEW k \in Keys,
         NEW d \in ResourceCommits(C, k)
  PROVE  \E h \in HeadCommits(C, k) : h.id >= d.id
<1> DEFINE R == ResourceCommits(C, k)
           I == {c.id : c \in R}
<1>1. R \subseteq published /\ \A c \in R : c \in Commit
  BY DEF IndInv, TypeOK, ResourceCommits
<1>2. Size \in Nat
  BY SizeFacts DEF IndInv
<1>3. I \in SUBSET Nat /\ I # {} /\ \A n \in I : n <= Size
  <2>1. ASSUME NEW n \in I PROVE n \in Nat /\ n <= Size
    BY <1>1 DEF IndInv, GraphInv, Commit
  <2> QED BY <2>1
<1>4. Max(I) \in I /\ \A n \in I : n <= Max(I)
  BY <1>2, <1>3, MaxExists
<1>5. PICK h \in R : h.id = Max(I)
  BY <1>4
<1>6. \A e \in R : e.id <= h.id
  BY <1>4, <1>5
<1>7. ASSUME NEW e \in R, h.id \in e.parents PROVE FALSE
  <2>1. h.id < e.id
    BY <1>1, <1>7 DEF IndInv, GraphInv
  <2>2. h.id \in Nat /\ e.id \in Nat
    BY <1>1 DEF Commit
  <2> QED BY <1>6, <2>1, <2>2
<1>8. h \in HeadCommits(C, k)
  BY <1>7 DEF HeadCommits
<1>9. d.id \in Nat /\ h.id \in Nat /\ d.id <= h.id
  BY <1>1, <1>6 DEF Commit
<1> QED BY <1>8, <1>9

\* The heads of a resource are finitely many.
LEMMA HeadsFinite ==
  ASSUME IndInv, NEW C, C \subseteq published, NEW k \in Keys
  PROVE  Heads(C, k) \in SUBSET Nat /\ IsFiniteSet(Heads(C, k))
<1>1. ASSUME NEW n \in Heads(C, k) PROVE n \in Nat /\ n <= Size
  <2>1. PICK c \in published : c.id = n
    BY DEF Heads, HeadCommits, ResourceCommits
  <2>2. c \in Commit
    BY DEF IndInv, TypeOK
  <2> QED BY <2>1, <2>2 DEF IndInv, GraphInv, Commit
<1>2. Heads(C, k) \in SUBSET Nat
  BY <1>1
<1>3. Size \in Nat
  BY SizeFacts DEF IndInv
<1> HIDE DEF Heads
<1> QED BY <1>1, <1>2, <1>3, FS_BoundedSetOfNaturals

\* Where there is one head, there is no other current version, and nothing has
\* a later time stamp than it: truncation spares it.
LEMMA VitalRetained ==
  ASSUME IndInv, NEW state, state.commits \subseteq published, NEW k \in Keys,
         Cardinality(Heads(state.commits, k)) = 1,
         NEW c \in Vital, c \in ResourceCommits(state.commits, k)
  PROVE  c \in Retained(state, k)
<1> DEFINE C == state.commits
           R == ResourceCommits(C, k)
<1>1. c.key = k /\ c \in HeadCommits(published, k) /\ ~Outdated(c)
  BY DEF Vital, ResourceCommits
<1>2. c \in HeadCommits(C, k)
  BY <1>1 DEF HeadCommits, ResourceCommits
<1>3. PICK i : Heads(C, k) = {i}
  BY HeadsFinite, FS_Singleton
<1>4. ASSUME NEW d \in R, d.time > c.time PROVE FALSE
  <2>1. d \in published /\ d.key = k /\ d \in Commit /\ c \in Commit
    BY DEF ResourceCommits, Vital, IndInv, TypeOK
  <2>2. c.id \in Nat /\ d.id \in Nat /\ c.time \in Nat /\ d.time \in Nat
    BY <2>1 DEF Commit
  <2>3. ~(d.id < c.id)
    BY <1>1, <1>4, <2>1 DEF Outdated, ResourceCommits
  <2>4. c # d
    BY <1>4, <2>2
  <2>5. d.id > c.id
    <3>1. c.id # d.id
      BY <2>1, <2>4 DEF IndInv, GraphInv, Vital
    <3> QED BY <2>2, <2>3, <3>1
  <2>6. PICK h \in HeadCommits(C, k) : h.id >= d.id
    BY NewestIsHead
  <2>7. h.id \in Nat
    BY DEF HeadCommits, ResourceCommits, IndInv, TypeOK, Commit
  <2>8. h.id # c.id
    BY <2>2, <2>5, <2>6, <2>7
  <2>9. h.id \in Heads(C, k) /\ c.id \in Heads(C, k)
    BY <1>2 DEF Heads
  <2> QED BY <1>3, <2>8, <2>9
<1>5. {d \in R : d.time > c.time} = {}
  BY <1>4
<1>6. Cardinality({d \in R : d.time > c.time}) < Retention
  <2>1. Cardinality({d \in R : d.time > c.time}) = 0
    BY <1>5, FS_EmptySet
  <2> QED BY <2>1, MaintenanceAssumption
<1> QED BY <1>6 DEF Retained

\* New commits get the next numbers and name only older ones.
LEMMA GraphGrows ==
  ASSUME IndInv, NEW N, IsFiniteSet(N), published' = published \cup N,
         \A c \in N : /\ c.id \in Nat /\ c.id > Size /\ c.id <= Size + Cardinality(N)
                      /\ \A i \in c.parents : i < c.id,
         \A c, d \in N : c.id = d.id => c = d
  PROVE  GraphInv' /\ Size' = Size + Cardinality(N) /\ Size \in Nat /\ Size' \in Nat /\ Size <= Size'
<1>1. Size \in Nat /\ Cardinality(N) \in Nat
  BY SizeFacts, FS_CardinalityType DEF IndInv
<1>2. \A c \in published : c.id \in Nat /\ c.id > 0 /\ c.id <= Size
  BY DEF IndInv, GraphInv, TypeOK, Commit
<1>3. published \cap N = {}
  BY <1>1, <1>2
<1>4. IsFiniteSet(published \cup N) /\ Size' = Size + Cardinality(N)
  <2>1. IsFiniteSet(published)
    BY DEF IndInv, GraphInv
  <2>2. Cardinality(published \cap N) = 0
    BY <1>3, FS_EmptySet
  <2>3. Cardinality(published \cup N) = Cardinality(published) + Cardinality(N) - 0
    BY <2>1, <2>2, FS_Union
  <2>4. IsFiniteSet(published \cup N)
    BY <2>1, FS_Union
  <2> QED BY <1>1, <2>3, <2>4 DEF Size
<1>5. Size' \in Nat /\ Size <= Size'
  BY <1>1, <1>4
<1> HIDE DEF Size
<1>6. ASSUME NEW c \in published' PROVE c.id > 0 /\ c.id <= Size' /\ \A i \in c.parents : i < c.id
  <2>1. CASE c \in published
    <3>1. c.id \in Nat /\ c.id > 0 /\ c.id <= Size
      BY <1>2, <2>1
    <3> QED BY <1>1, <1>5, <2>1, <3>1 DEF IndInv, GraphInv
  <2>2. CASE c \in N
    BY <1>1, <1>4, <2>2
  <2> QED BY <2>1, <2>2
<1>7. ASSUME NEW c \in published', NEW d \in published', c.id = d.id PROVE c = d
  <2>1. CASE c \in published /\ d \in published
    BY <1>7, <2>1 DEF IndInv, GraphInv
  <2>2. CASE c \in N /\ d \in N
    BY <1>7, <2>2
  <2>3. CASE c \in published /\ d \in N
    BY <1>1, <1>2, <1>7, <2>3
  <2>4. CASE c \in N /\ d \in published
    BY <1>1, <1>2, <1>7, <2>4
  <2> QED BY <2>1, <2>2, <2>3, <2>4
<1> QED BY <1>1, <1>4, <1>5, <1>6, <1>7 DEF GraphInv

\* new are commits of client p that continue the published history: their ids
\* come next and are distinct, and they rest on what was published before.
Extends(p, new) ==
  /\ new \subseteq Commit /\ IsFiniteSet(new)
  /\ \A c \in new : /\ c.id > Size /\ c.id <= Size + Cardinality(new)
                    /\ c.author = p
                    /\ \A i \in c.parents : i \in Nat /\ i <= Size /\ i < c.id
  /\ \A c, d \in new : c.id = d.id => c = d

\* The checkpoints that one call of maintain publishes extend the history.
LEMMA NewCheckpoints ==
  ASSUME IndInv, NEW p \in Clients, NEW state, state.commits \subseteq published,
         NEW starting \in SUBSET Keys,
         \A k \in starting : Cardinality(Heads(state.commits, k)) = 1,
         NEW order \in [starting -> 1..Cardinality(starting)],
         \A j, k \in starting : order[j] = order[k] => j = k,
         NEW new,
         \A k \in starting : Checkpoint(p, state, k, Size + order[k]) \in new,
         \A c \in new : \E k \in starting : c = Checkpoint(p, state, k, Size + order[k])
  PROVE  Extends(p, new)
<1> DEFINE f == [k \in starting |-> Checkpoint(p, state, k, Size + order[k])]
<1> HIDE DEF Checkpoint
<1>0. /\ \A k \in starting : f[k] \in new
      /\ \A c \in new : \E k \in starting : c = f[k]
  OBVIOUS
<1>1. Size \in Nat
  BY SizeFacts DEF IndInv
<1>2. IsFiniteSet(starting) /\ Cardinality(starting) \in Nat
  BY MaintenanceAssumption, FS_Subset, FS_CardinalityType
<1>3. ASSUME NEW k \in starting
      PROVE  /\ f[k] \in Commit /\ f[k].id = Size + order[k] /\ f[k].author = p
             /\ \A i \in f[k].parents : i \in Nat /\ i <= Size /\ i < f[k].id
  <2> DEFINE head == CHOOSE c \in HeadCommits(state.commits, k) : TRUE
  <2>1. HeadCommits(state.commits, k) # {}
    <3>1. PICK i : Heads(state.commits, k) = {i}
      BY HeadsFinite, FS_Singleton
    <3> QED BY <3>1 DEF Heads
  <2>2. head \in published
    BY <2>1 DEF HeadCommits, ResourceCommits
  <2>3. head \in Commit /\ head.id <= Size
    BY <2>2 DEF IndInv, TypeOK, GraphInv
  <2>4. head.id \in Nat /\ head.content \in Nat
    BY <2>3 DEF Commit
  <2>5. order[k] \in 1..Cardinality(starting)
    OBVIOUS
  <2>6. Size + order[k] \in Nat /\ head.id < Size + order[k]
    BY <1>1, <1>2, <2>3, <2>4, <2>5
  <2>7. Clock(p, Size + order[k]) \in Nat
    BY <2>6, MaintenanceAssumption DEF Clock
  <2>8. f[k] = [id |-> Size + order[k], author |-> p, key |-> k, parents |-> {head.id},
                content |-> head.content, time |-> Clock(p, Size + order[k])]
    BY DEF Checkpoint
  <2> HIDE DEF f, head, Clock
  <2>9. f[k].id = Size + order[k] /\ f[k].author = p /\ f[k].parents = {head.id}
    BY <2>8
  <2>10. f[k] \in Commit
    BY <2>4, <2>6, <2>7, <2>8 DEF Commit
  <2> QED BY <2>3, <2>4, <2>6, <2>9, <2>10
<1> HIDE DEF f
<1>4. ASSUME NEW j \in starting, NEW k \in starting, f[j].id = f[k].id PROVE j = k
  <2>1. order[j] \in Nat /\ order[k] \in Nat
    BY <1>2
  <2>2. order[j] = order[k]
    BY <1>1, <1>3, <1>4, <2>1
  <2> QED BY <2>2
<1>5. IsFiniteSet(new) /\ Cardinality(new) = Cardinality(starting)
  <2>1. f \in [starting -> new]
    BY <1>0 DEF f
  <2>2. \A j, k \in starting : f[j] = f[k] => j = k
    BY <1>4
  <2>3. f \in Bijection(starting, new)
    BY <1>0, <2>1, <2>2 DEF Bijection, Injection, Surjection, IsInjective
  <2>4. ExistsBijection(starting, new)
    BY <2>3 DEF ExistsBijection
  <2> QED BY <1>2, <2>4, FS_Bijection
<1>6. ASSUME NEW c \in new
      PROVE  /\ c \in Commit /\ c.id > Size /\ c.id <= Size + Cardinality(new) /\ c.author = p
             /\ \A i \in c.parents : i \in Nat /\ i <= Size /\ i < c.id
  <2>1. PICK k \in starting : c = f[k]
    BY <1>0
  <2>2. order[k] \in 1..Cardinality(starting) /\ c.id = Size + order[k]
    BY <1>3, <2>1
  <2> QED BY <1>1, <1>2, <1>3, <1>5, <2>1, <2>2
<1>7. ASSUME NEW c \in new, NEW d \in new, c.id = d.id PROVE c = d
  <2>1. PICK j \in starting : c = f[j]
    BY <1>0
  <2>2. PICK k \in starting : d = f[k]
    BY <1>0
  <2> QED BY <1>4, <1>7, <2>1, <2>2
<1> QED BY <1>5, <1>6, <1>7 DEF Extends

---------------------------------------------------------------------------
(* What a step leaves alone.                                               *)

\* A candidate's ancestors stay its ancestors.
LEMMA DescendantStays ==
  ASSUME NEW C, NEW D, C \subseteq D, NEW i, NEW j, IsDescendant(C, i, j)
  PROVE  IsDescendant(D, i, j)
<1> SUFFICES ASSUME NEW visited \in SUBSET ({i} \cup UNION {c.parents : c \in D}),
                    i \in visited, \A c \in D : c.id \in visited => c.parents \subseteq visited
             PROVE  j \in visited
  BY DEF IsDescendant
<1> DEFINE inC == visited \cap ({i} \cup UNION {c.parents : c \in C})
<1>1. inC \in SUBSET ({i} \cup UNION {c.parents : c \in C}) /\ i \in inC
  OBVIOUS
<1>2. \A c \in C : c.id \in inC => c.parents \subseteq inC
  OBVIOUS
<1>3. j \in inC
  <2> HIDE DEF inC
  <2> QED BY <1>1, <1>2 DEF IsDescendant
<1> QED BY <1>3

\* What has reached everybody stays so.
LEMMA ReachedStays ==
  ASSUME TypeOK, NEW p \in Clients, NEW k \in Keys, Reached(p, k), mem'[p] = mem[p],
         published \subseteq published', \A q \in Clients : seen[q] \subseteq seen'[q]
  PROVE  Reached(p, k)'
<1> SUFFICES ASSUME NEW q \in ActiveClients(p, mem[p], k)
             PROVE  \E d \in seen'[q] : IsDescendant(published', d.id, mem[p].checkpoints[k])
  BY DEF Reached, ActiveClients, ResourceCommits, IsDescendant
<1>1. q \in Clients
  BY DEF ActiveClients, ResourceCommits, TypeOK, RuntimeState, Commit
<1>2. PICK d \in seen[q] : IsDescendant(published, d.id, mem[p].checkpoints[k])
  BY DEF Reached
<1>3. IsDescendant(published', d.id, mem[p].checkpoints[k])
  BY <1>2, DescendantStays
<1> QED BY <1>1, <1>2, <1>3

\* The history grows by the commits N, which are new: the graph stays well
\* formed, and only they can become current.
LEMMA Grows ==
  ASSUME IndInv, NEW p \in Clients, NEW N, Extends(p, N), published' = published \cup N
  PROVE  /\ GraphInv'
         /\ Size \in Nat /\ Size' \in Nat /\ Size <= Size'
         /\ \A c \in N : c.id \in Nat /\ c.author \in Clients /\ c.id > Size
         /\ Vital' \subseteq Vital \cup N
         /\ \A c \in published : c.id \in Nat /\ c.author \in Clients /\ c.id <= Size
<1>1. \A c \in N : c.id \in Nat /\ c.author \in Clients /\ c.id > Size
  BY DEF Extends, Commit
<1>2. /\ IsFiniteSet(N)
      /\ \A c \in N : /\ c.id \in Nat /\ c.id > Size /\ c.id <= Size + Cardinality(N)
                      /\ \A i \in c.parents : i < c.id
      /\ \A c, d \in N : c.id = d.id => c = d
  BY <1>1 DEF Extends
<1>3. GraphInv' /\ Size \in Nat /\ Size' \in Nat /\ Size <= Size'
  BY <1>2, GraphGrows
<1>4. \A c \in published : c.id \in Nat /\ c.author \in Clients /\ c.id <= Size
  BY DEF IndInv, TypeOK, GraphInv, Commit
<1>5. Vital' \subseteq Vital \cup N
  BY VitalStays
<1> QED BY <1>1, <1>3, <1>4, <1>5

LEMMA ExtendsNothing ==
  ASSUME NEW p PROVE Extends(p, {})
BY FS_EmptySet DEF Extends

\* Cursors cover no commit that is published after them.
LEMMA CoversStays ==
  ASSUME IndInv, NEW p \in Clients, NEW N, Extends(p, N), published' = published \cup N,
         NEW C, NEW cursors, \A a \in Clients : cursors[a] \in Nat /\ cursors[a] <= Size,
         Covers(C, cursors)
  PROVE  \A c \in Vital' : c.id <= cursors[c.author] => c \in C
<1> SUFFICES ASSUME NEW c \in Vital', c.id <= cursors[c.author] PROVE c \in C
  OBVIOUS
<1>1. /\ Size \in Nat /\ Vital' \subseteq Vital \cup N
      /\ \A d \in N : d.id \in Nat /\ d.author \in Clients /\ d.id > Size
  BY Grows
<1>2. CASE c \in N
  BY <1>1, <1>2
<1>3. CASE c \in Vital
  BY <1>3 DEF Covers
<1> QED BY <1>1, <1>2, <1>3

\* The bounds of all cursors, which outlive a step that publishes N.
LEMMA Bounds ==
  ASSUME IndInv
  PROVE  /\ Size \in Nat
         /\ \A a \in Clients : snapshot.cursors[a] \in Nat /\ snapshot.cursors[a] <= Size
         /\ \A q, a \in Clients :
              /\ mem[q].cursors[a] \in Nat /\ mem[q].cursors[a] <= Size
              /\ compaction[q].snapshot.cursors[a] \in Nat
              /\ compaction[q].snapshot.cursors[a] <= Size
<1>1. Size \in Nat
  BY SizeFacts DEF IndInv
<1>2. \A q \in Clients : mem[q].cursors \in Cursors /\ compaction[q].snapshot.cursors \in Cursors
  BY DEF IndInv, TypeOK, RuntimeState, CatalogCompaction, Snapshot
<1>3. snapshot.cursors \in Cursors
  BY DEF IndInv, TypeOK, Snapshot
<1> QED BY <1>1, <1>2, <1>3 DEF IndInv, ViewsInv, Known, Cursors

\* What the one client that compacts knows outlives a step of another client,
\* and a step of its own that publishes or acknowledges.
LEMMA SoleStays ==
  ASSUME IndInv, NEW p \in Clients, NEW N, Extends(p, N), published' = published \cup N,
         N \subseteq listed', N \subseteq objects',
         listed \subseteq listed', objects \subseteq objects', snapshot' = snapshot,
         NEW r \in Clients, SoleOf(r), compaction'[r] = compaction[r],
         mem'[r].cursors = mem[r].cursors, mem[r].commits \subseteq mem'[r].commits,
         mem'[r].commits \subseteq mem[r].commits \cup N,
         \/ pc'[r] = pc[r] /\ mem'[r].commits = mem[r].commits
         \/ pc[r] \in {"idle", "fresh", "done"} /\ pc'[r] \in {"idle", "fresh", "done"}
  PROVE  SoleOf(r)'
<1> DEFINE s == compaction[r].snapshot
           obsolete == compaction[r].obsolete
<1>1. /\ \A a \in Clients : mem[r].cursors[a] \in Nat /\ mem[r].cursors[a] <= Size
      /\ \A a \in Clients : s.cursors[a] \in Nat /\ s.cursors[a] <= Size
  BY Bounds
<1>2. Covers(mem[r].commits, mem[r].cursors)'
  <2>1. PICK C, cursors : C = mem[r].commits /\ cursors = mem[r].cursors
    OBVIOUS
  <2>2. \A c \in Vital' : c.id <= cursors[c.author] => c \in C
    BY <1>1, <2>1, CoversStays DEF SoleOf
  <2> QED BY <2>1, <2>2 DEF Covers
<1>3. ListsAbove(mem[r].cursors)'
  BY DEF SoleOf, ListsAbove
<1>4. mem'[r].commits \subseteq objects' \cup obsolete
  BY DEF SoleOf
<1>5. pc'[r] # "delete" => mem'[r].commits \subseteq objects'
  BY DEF SoleOf
<1>6. pc'[r] = "survey" => \A c \in mem'[r].commits : c.id <= mem'[r].cursors[c.author]
  BY DEF SoleOf
<1>7. ASSUME Compacting(r)'
      PROVE  /\ s.cursors = mem'[r].cursors
             /\ Covers(compaction[r].snapshot.events, compaction[r].snapshot.cursors)'
             /\ s.events \subseteq objects' /\ s.events \cap obsolete = {}
             /\ \A c \in obsolete : c.id <= s.cursors[c.author]
  <2>1. Compacting(r)
    BY <1>7 DEF Compacting
  <2>2. PICK C, cursors : C = s.events /\ cursors = s.cursors
    OBVIOUS
  <2>3. \A c \in Vital' : c.id <= cursors[c.author] => c \in C
    BY <1>1, <2>1, <2>2, CoversStays DEF SoleOf
  <2> QED BY <2>1, <2>2, <2>3 DEF SoleOf, Covers
<1>8. pc'[r] = "delete" => snapshot' = s
  BY DEF SoleOf
<1> QED BY <1>2, <1>3, <1>4, <1>5, <1>6, <1>7, <1>8 DEF SoleOf

\* What can be found in the catalog can still be found after new segments.
LEMMA CatalogStays ==
  ASSUME IndInv, NEW p \in Clients, NEW N, Extends(p, N), published' = published \cup N,
         N \subseteq listed', listed \subseteq listed', snapshot' = snapshot,
         Covers(snapshot.events, snapshot.cursors), ListsAbove(snapshot.cursors)
  PROVE  Covers(snapshot.events, snapshot.cursors)' /\ ListsAbove(snapshot.cursors)'
<1>1. \A a \in Clients : snapshot.cursors[a] \in Nat /\ snapshot.cursors[a] <= Size
  BY Bounds
<1>2. PICK C, cursors : C = snapshot.events /\ cursors = snapshot.cursors
  OBVIOUS
<1>3. \A c \in Vital' : c.id <= cursors[c.author] => c \in C
  BY <1>1, <1>2, CoversStays
<1>4. Covers(snapshot.events, snapshot.cursors)'
  BY <1>2, <1>3 DEF Covers
<1>5. ListsAbove(snapshot.cursors)'
  BY DEF ListsAbove
<1> QED BY <1>4, <1>5

\* Nobody's view names what is not published.
LEMMA ViewsStay ==
  ASSUME IndInv, NEW p \in Clients, NEW N, Extends(p, N), published' = published \cup N,
         objects' \subseteq objects \cup N, listed' \subseteq listed \cup N, snapshot' = snapshot,
         \A q \in Clients :
           /\ mem'[q].commits \subseteq published'
           /\ \A a \in Clients : mem'[q].cursors[a] \in Nat /\ mem'[q].cursors[a] <= Size
           /\ \/ compaction'[q] = compaction[q]
              \/ /\ compaction'[q].obsolete \subseteq published'
                 /\ compaction'[q].snapshot.events \subseteq published'
                 /\ \A a \in Clients : /\ compaction'[q].snapshot.cursors[a] \in Nat
                                       /\ compaction'[q].snapshot.cursors[a] <= Size
  PROVE  ViewsInv'
<1>1. Size \in Nat /\ Size' \in Nat /\ Size <= Size'
  BY Grows
<1>2. /\ \A a \in Clients : snapshot.cursors[a] \in Nat /\ snapshot.cursors[a] <= Size
      /\ \A q, a \in Clients : /\ compaction[q].snapshot.cursors[a] \in Nat
                               /\ compaction[q].snapshot.cursors[a] <= Size
  BY Bounds
<1>3. Known(snapshot)'
  BY <1>1, <1>2 DEF Known, IndInv, ViewsInv
<1>4. ASSUME NEW q \in Clients
      PROVE  /\ \A a \in Clients : mem'[q].cursors[a] <= Size'
             /\ Known(compaction[q].snapshot)'
             /\ compaction'[q].obsolete \subseteq published'
  <2>1. \A a \in Clients : mem'[q].cursors[a] <= Size'
    BY <1>1
  <2>2. CASE compaction'[q] = compaction[q]
    BY <1>1, <1>2, <2>1, <2>2 DEF Known, IndInv, ViewsInv
  <2>3. CASE /\ compaction'[q].obsolete \subseteq published'
             /\ compaction'[q].snapshot.events \subseteq published'
             /\ \A a \in Clients : /\ compaction'[q].snapshot.cursors[a] \in Nat
                                   /\ compaction'[q].snapshot.cursors[a] <= Size
    BY <1>1, <2>1, <2>3 DEF Known
  <2> QED BY <2>2, <2>3, <2>1
<1>5. objects' \subseteq published' /\ listed' \subseteq published'
  BY DEF IndInv, ViewsInv
<1> QED BY <1>3, <1>4, <1>5 DEF ViewsInv

\* A step that publishes N or nothing, and touches no compaction.
LEMMA OrdinaryStep ==
  ASSUME IndInv, NEW p \in Clients, NEW N, Extends(p, N), TypeOK',
         published' = published \cup N, objects' = objects \cup N, listed' = listed \cup N,
         snapshot' = snapshot, compaction' = compaction,
         \A q \in Clients :
           /\ mem'[q].cursors = mem[q].cursors /\ mem[q].commits \subseteq mem'[q].commits
           /\ mem'[q].commits \subseteq mem[q].commits \cup N
           /\ \/ pc'[q] = pc[q] /\ mem'[q] = mem[q]
              \/ pc[q] \in {"idle", "fresh", "done"} /\ pc'[q] \in {"idle", "fresh", "done"}
           /\ seen[q] \subseteq seen'[q] /\ mem'[q].commits \subseteq seen'[q]
           /\ \A k \in Keys : \A i \in acks'[q][k] : \E d \in seen'[q] : d.id = i
  PROVE  IndInv'
<1>1. /\ GraphInv' /\ Size \in Nat /\ Vital' \subseteq Vital \cup N
      /\ \A c \in N : c.id \in Nat /\ c.author \in Clients /\ c.id > Size
      /\ \A c \in published : c.id \in Nat /\ c.author \in Clients /\ c.id <= Size
  BY Grows
<1>2. ViewsInv'
  <2>1. \A q \in Clients : mem'[q].commits \subseteq published'
    BY DEF IndInv, ViewsInv
  <2>2. \A q, a \in Clients : mem'[q].cursors[a] \in Nat /\ mem'[q].cursors[a] <= Size
    BY Bounds
  <2> QED BY <2>1, <2>2, ViewsStay
<1>3. VitalInv'
  <2>1. ASSUME NEW q \in Clients, NEW c \in compaction[q].obsolete PROVE c \notin Vital'
    <3>1. c \in published /\ c \notin Vital
      BY DEF IndInv, ViewsInv, VitalInv
    <3> QED BY <1>1, <3>1
  <2>2. Vital' \subseteq objects'
    BY <1>1 DEF IndInv, VitalInv
  <2> QED BY <2>1, <2>2 DEF VitalInv
<1>4. CallInv'
  BY DEF IndInv, CallInv, Compacting, Compactors
<1>5. AckInv'
  <2>1. ASSUME NEW q \in Clients, NEW c \in compaction[q].obsolete PROVE Reached(q, c.key)'
    <3>1. Compacting(q)
      BY DEF IndInv, CallInv
    <3>2. mem'[q] = mem[q]
      BY <3>1 DEF Compacting
    <3>3. c \in Commit
      BY DEF IndInv, TypeOK, CatalogCompaction
    <3>4. c.key \in Keys
      BY <3>3 DEF Commit
    <3>5. Reached(q, c.key)
      BY DEF IndInv, AckInv
    <3> QED BY <3>2, <3>4, <3>5, ReachedStays DEF IndInv
  <2> QED BY <2>1 DEF AckInv
<1>6. SoleInv'
  <2> SUFFICES ASSUME OneCompacts PROVE SoleInv'
    BY DEF SoleInv, OneCompacts, Compactors
  <2>1. snapshot'.events \subseteq objects' /\ listed' \subseteq objects'
    BY DEF IndInv, SoleInv
  <2>2. ASSUME NobodyRenames'
        PROVE  Covers(snapshot.events, snapshot.cursors)' /\ ListsAbove(snapshot.cursors)'
    <3>1. NobodyRenames
      BY <2>2 DEF NobodyRenames
    <3>2. Covers(snapshot.events, snapshot.cursors) /\ ListsAbove(snapshot.cursors)
      BY <3>1 DEF IndInv, SoleInv
    <3> QED BY <3>2, CatalogStays
  <2>3. ASSUME NEW r \in Compactors PROVE SoleOf(r)'
    <3>1. r \in Clients /\ SoleOf(r)
      BY MaintenanceAssumption DEF Compactors, IndInv, SoleInv
    <3> QED BY <3>1, SoleStays
  <2> QED BY <2>1, <2>2, <2>3 DEF SoleInv, Compactors
<1> QED BY <1>1, <1>2, <1>3, <1>4, <1>5, <1>6 DEF IndInv

---------------------------------------------------------------------------
(* The steps of a reconciliation, and retire_client.                       *)

LEMMA InitInv == Init => IndInv
<1> SUFFICES ASSUME Init PROVE IndInv
  OBVIOUS
<1>1. NoCursors \in Cursors /\ \A a \in Clients : NoCursors[a] = 0
  BY DEF NoCursors, Cursors
<1>2. NoSnapshot \in Snapshot /\ NoSnapshot.events = {} /\ NoSnapshot.cursors = NoCursors
  BY <1>1 DEF NoSnapshot, Snapshot
<1>3. /\ NoCompaction \in CatalogCompaction
      /\ NoCompaction.snapshot = NoSnapshot /\ NoCompaction.obsolete = {}
  BY <1>2 DEF NoCompaction, CatalogCompaction
<1>4. ASSUME NEW p \in Clients
      PROVE  /\ mem[p] \in RuntimeState /\ mem[p].commits = {} /\ mem[p].cursors = NoCursors
             /\ compaction[p] = NoCompaction /\ pc[p] = "idle"
             /\ \A k \in Keys : acks[p][k] = {}
  BY <1>1 DEF Init, RuntimeState
<1>5. Size = 0 /\ IsFiniteSet(published) /\ published = {} /\ Vital = {}
  BY FS_EmptySet DEF Init, Size, Vital
<1>6. TypeOK
  <2>1. mem \in [Clients -> RuntimeState]
    BY <1>4 DEF Init
  <2>2. pc \in [Clients -> Label] /\ compaction \in [Clients -> CatalogCompaction]
    BY <1>3 DEF Init, Label
  <2> QED BY <1>2, <2>1, <2>2 DEF Init, TypeOK
<1>7. GraphInv
  BY <1>5 DEF GraphInv
<1>8. ViewsInv
  BY <1>1, <1>2, <1>3, <1>4, <1>5 DEF Init, ViewsInv, Known
<1>9. VitalInv
  BY <1>5 DEF VitalInv
<1>10. CallInv
  BY <1>3, <1>4 DEF CallInv, Compacting
<1>11. AckInv
  BY <1>3, <1>4 DEF AckInv
<1>12. SoleInv
  <2>1. ASSUME NEW p \in Compactors PROVE SoleOf(p)
    <3>1. p \in Clients
      BY MaintenanceAssumption DEF Compactors
    <3> QED BY <1>4, <1>5, <3>1 DEF SoleOf, Covers, ListsAbove, Compacting
  <2>2. snapshot.events = {} /\ listed = {}
    BY <1>2 DEF Init
  <2> QED BY <1>5, <2>1, <2>2 DEF SoleInv, Covers, ListsAbove
<1> QED BY <1>6, <1>7, <1>8, <1>9, <1>10, <1>11, <1>12 DEF IndInv

LEMMA Stutter == ASSUME IndInv, UNCHANGED vars PROVE IndInv'
<1>1. TypeOK'
  BY DEF IndInv, vars, TypeOK
<1>2. CASE Clients = {}
  <2>1. Size' = Size /\ Vital' = Vital
    BY DEF vars, Size, Vital, Outdated, HeadCommits, ResourceCommits
  <2>2. Compactors = {}
    BY <1>2, MaintenanceAssumption DEF Compactors
  <2> QED BY <1>1, <1>2, <2>1, <2>2
          DEF vars, IndInv, GraphInv, ViewsInv, Known, VitalInv, CallInv, AckInv, SoleInv,
              NobodyRenames, Covers, ListsAbove, OneCompacts, Compactors
<1>3. ASSUME NEW p \in Clients PROVE IndInv'
  <2>1. Extends(p, {})
    BY ExtendsNothing
  <2>2. /\ published' = published \cup {} /\ objects' = objects \cup {}
        /\ listed' = listed \cup {} /\ snapshot' = snapshot /\ compaction' = compaction
        /\ mem' = mem /\ pc' = pc /\ seen' = seen /\ acks' = acks
    BY DEF vars
  <2>3. \A q \in Clients :
          /\ mem[q].commits \subseteq seen[q]
          /\ \A k \in Keys : \A i \in acks[q][k] : \E d \in seen[q] : d.id = i
    BY DEF IndInv, AckInv
  <2> QED BY <1>1, <2>1, <2>2, <2>3, OrdinaryStep
<1> QED BY <1>2, <1>3

LEMMA WriteInv ==
  ASSUME IndInv, NEW p \in Clients, NEW k \in Keys, Write(p, k)
  PROVE  IndInv'
<1> DEFINE c == [id |-> NextId, author |-> p, key |-> k, parents |-> Heads(mem[p].commits, k),
                 content |-> NextId, time |-> Clock(p, NextId)]
           m == [mem[p] EXCEPT !.commits = @ \cup {c}]
<1>1. /\ published' = published \cup {c} /\ objects' = objects \cup {c}
      /\ listed' = listed \cup {c} /\ mem' = [mem EXCEPT ![p] = m]
      /\ pc' = [pc EXCEPT ![p] = "done"] /\ snapshot' = snapshot /\ acks' = acks
      /\ compaction' = compaction /\ seen' = [seen EXCEPT ![p] = @ \cup {c}]
      /\ pc[p] = "fresh"
  BY DEF Write, Store, Goto
<1>2. Size \in Nat /\ NextId = Size + 1
  BY SizeFacts DEF IndInv, NextId, Size
<1>3. mem[p].commits \subseteq published
  BY DEF IndInv, ViewsInv
<1>4. /\ c \in Commit /\ c.id = Size + 1 /\ c.parents = Heads(mem[p].commits, k)
      /\ c.author = p
  <2>1. Clock(p, NextId) \in Nat
    BY <1>2, MaintenanceAssumption DEF Clock
  <2>2. Heads(mem[p].commits, k) \in SUBSET Nat
    BY <1>3, HeadsFinite
  <2> HIDE DEF Heads, Clock
  <2> QED BY <1>2, <2>1, <2>2 DEF Commit
<1>5. ASSUME NEW i \in c.parents PROVE i \in Nat /\ i <= Size /\ i < c.id
  <2>1. PICK d \in mem[p].commits : d.id = i
    BY <1>4 DEF Heads, HeadCommits, ResourceCommits
  <2>2. i \in Nat /\ i <= Size
    BY <1>3, <2>1 DEF IndInv, GraphInv, TypeOK, Commit
  <2> QED BY <1>2, <1>4, <2>2
<1> HIDE DEF c
<1>6. /\ mem[p] \in RuntimeState
      /\ m.commits = mem[p].commits \cup {c} /\ m.cursors = mem[p].cursors
  BY DEF IndInv, TypeOK, RuntimeState
<1>7. m \in RuntimeState
  BY <1>4, <1>6 DEF RuntimeState
<1> HIDE DEF m
<1>8. Extends(p, {c})
  <2>1. IsFiniteSet({c}) /\ Cardinality({c}) = 1
    BY FS_Singleton
  <2> QED BY <1>2, <1>4, <1>5, <2>1 DEF Extends
<1>9. TypeOK'
  BY <1>1, <1>4, <1>7 DEF IndInv, TypeOK, Label
<1>10. /\ mem'[p] = m /\ pc'[p] = "done" /\ seen'[p] = seen[p] \cup {c}
       /\ \A q \in Clients : q # p => mem'[q] = mem[q] /\ pc'[q] = pc[q] /\ seen'[q] = seen[q]
  BY <1>1 DEF IndInv, TypeOK
<1>11. ASSUME NEW q \in Clients
       PROVE  /\ mem'[q].cursors = mem[q].cursors /\ mem[q].commits \subseteq mem'[q].commits
              /\ mem'[q].commits \subseteq mem[q].commits \cup {c}
              /\ \/ pc'[q] = pc[q] /\ mem'[q] = mem[q]
                 \/ pc[q] \in {"idle", "fresh", "done"} /\ pc'[q] \in {"idle", "fresh", "done"}
              /\ seen[q] \subseteq seen'[q] /\ mem'[q].commits \subseteq seen'[q]
              /\ \A j \in Keys : \A i \in acks'[q][j] : \E d \in seen'[q] : d.id = i
  <2>1. /\ mem[q].commits \subseteq seen[q]
        /\ \A j \in Keys : \A i \in acks[q][j] : \E d \in seen[q] : d.id = i
    BY DEF IndInv, AckInv
  <2>2. CASE q = p
    BY <1>1, <1>6, <1>10, <2>1, <2>2
  <2>3. CASE q # p
    BY <1>1, <1>10, <2>1, <2>3
  <2> QED BY <2>2, <2>3
<1> QED BY <1>1, <1>8, <1>9, <1>11, OrdinaryStep

LEMMA AcknowledgeInv ==
  ASSUME IndInv, NEW p \in Clients, NEW conflicting \in SUBSET Keys, Acknowledge(p, conflicting)
  PROVE  IndInv'
<1>1. /\ UNCHANGED <<objects, listed, snapshot, mem, compaction, published, seen>>
      /\ pc[p] \in {"fresh", "done"} /\ pc' = [pc EXCEPT ![p] = "idle"]
  BY DEF Acknowledge, Goto
<1>2. TypeOK'
  <2>1. mem[p].commits \subseteq published
    BY DEF IndInv, ViewsInv
  <2>2. \A k \in Keys : Heads(mem[p].commits, k) \in SUBSET Nat
    BY <2>1, HeadsFinite
  <2>3. pc' \in [Clients -> Label]
    BY <1>1 DEF IndInv, TypeOK, Label
  <2> HIDE DEF Heads
  <2>4. acks' \in [Clients -> [Keys -> SUBSET Nat]]
    BY <2>2 DEF Acknowledge, IndInv, TypeOK
  <2> QED BY <1>1, <2>3, <2>4 DEF IndInv, TypeOK
<1>3. ASSUME NEW q \in Clients, NEW k \in Keys, NEW i \in acks'[q][k]
      PROVE  \E d \in seen[q] : d.id = i
  <2>1. i \in acks[q][k] \/ i \in Heads(mem[q].commits, k)
    BY DEF Acknowledge, IndInv, TypeOK
  <2>2. CASE i \in acks[q][k]
    BY <2>2 DEF IndInv, AckInv
  <2>3. CASE i \in Heads(mem[q].commits, k)
    BY <2>3 DEF Heads, HeadCommits, ResourceCommits, IndInv, AckInv
  <2> QED BY <2>1, <2>2, <2>3
<1>4. \A q \in Clients : (q = p /\ pc'[q] = "idle") \/ pc'[q] = pc[q]
  BY <1>1 DEF IndInv, TypeOK
<1>5. /\ published' = published \cup {} /\ objects' = objects \cup {} /\ listed' = listed \cup {}
      /\ mem' = mem /\ seen' = seen /\ snapshot' = snapshot /\ compaction' = compaction
  BY <1>1
<1>6. \A q \in Clients : mem[q].commits \subseteq seen[q]
  BY DEF IndInv, AckInv
<1> QED BY <1>1, <1>2, <1>3, <1>4, <1>5, <1>6, ExtendsNothing, OrdinaryStep

LEMMA RetireInv ==
  ASSUME IndInv, NEW p \in Clients, NEW q \in Clients, Retire(p, q)
  PROVE  IndInv'
<1> DEFINE m == [mem[p] EXCEPT !.retired = @ \cup {q}]
<1>1. /\ UNCHANGED <<objects, listed, snapshot, acks, pc, compaction, published, seen>>
      /\ mem' = [mem EXCEPT ![p] = m] /\ mem[p] \in RuntimeState /\ pc[p] = "idle"
  BY DEF Retire, IndInv, TypeOK
<1>2. m \in RuntimeState
  BY <1>1 DEF RuntimeState
<1>3. m.commits = mem[p].commits /\ m.cursors = mem[p].cursors
  BY <1>1 DEF RuntimeState
<1> HIDE DEF m
<1>4. TypeOK'
  BY <1>1, <1>2 DEF IndInv, TypeOK
<1>5. \A r \in Clients :
        /\ mem'[r].commits = mem[r].commits /\ mem'[r].cursors = mem[r].cursors
        /\ r = p \/ mem'[r] = mem[r]
  BY <1>1, <1>3 DEF IndInv, TypeOK
<1>6. /\ published' = published \cup {} /\ objects' = objects \cup {} /\ listed' = listed \cup {}
      /\ pc' = pc /\ seen' = seen /\ snapshot' = snapshot /\ compaction' = compaction /\ acks' = acks
  BY <1>1
<1>7. \A r \in Clients :
        /\ mem[r].commits \subseteq seen[r]
        /\ \A k \in Keys : \A i \in acks[r][k] : \E d \in seen[r] : d.id = i
  BY DEF IndInv, AckInv
<1>8. ASSUME NEW r \in Clients
      PROVE  \/ pc'[r] = pc[r] /\ mem'[r] = mem[r]
             \/ pc[r] \in {"idle", "fresh", "done"} /\ pc'[r] \in {"idle", "fresh", "done"}
  BY <1>1, <1>5
<1>9. Extends(p, {})
  BY ExtendsNothing
<1> QED BY <1>4, <1>5, <1>6, <1>7, <1>8, <1>9, OrdinaryStep

\* A step that reads the catalog and, perhaps, begins to replace it by a
\* snapshot of all that is known then.
LEMMA ReadStep ==
  ASSUME IndInv, NEW p \in Clients, NEW label \in {"fresh", "survey", "remove"},
         Read(p), Goto(p, label), label = "survey" => p \in Maintainers,
         label = "remove" => Snapshots,
         \/ label # "remove" /\ compaction' = compaction
         \/ label = "remove" /\ compaction' = [compaction EXCEPT ![p] =
              [snapshot |-> [events |-> Refreshed(p).commits, cursors |-> Refreshed(p).cursors],
               obsolete |-> {}]]
  PROVE  IndInv'
<1> DEFINE state == Refreshed(p)
           s == [events |-> state.commits, cursors |-> state.cursors]
<1>1. /\ state \in RuntimeState
      /\ state.commits = mem[p].commits \cup Scanned(mem[p].cursors)
      /\ Scanned(mem[p].cursors) \subseteq Commit
      /\ state.commits \subseteq published
      /\ \A a \in Clients : /\ state.cursors[a] <= Size
                            /\ state.cursors[a] >= mem[p].cursors[a]
                            /\ state.cursors[a] >= snapshot.cursors[a]
      /\ \A c \in listed : c.id <= state.cursors[c.author]
  BY RefreshedFacts
<1>2. /\ pc[p] = "idle" /\ Scanned(mem[p].cursors) \ mem[p].commits \subseteq objects
      /\ mem' = [mem EXCEPT ![p] = state]
      /\ seen' = [seen EXCEPT ![p] = @ \cup Scanned(mem[p].cursors)]
      /\ pc' = [pc EXCEPT ![p] = label]
      /\ objects' = objects /\ listed' = listed /\ snapshot' = snapshot /\ acks' = acks
      /\ published' = published
  BY DEF Read, Loadable, Goto
<1>3. \/ label # "remove" /\ compaction' = compaction
      \/ label = "remove" /\ compaction' = [compaction EXCEPT ![p] = [snapshot |-> s, obsolete |-> {}]]
  OBVIOUS
<1> HIDE DEF state
<1>4. /\ s \in Snapshot /\ s.events = state.commits /\ s.cursors = state.cursors
      /\ [snapshot |-> s, obsolete |-> {}] \in CatalogCompaction
  <2>1. s \in Snapshot
    BY <1>1 DEF RuntimeState, Snapshot
  <2> QED BY <2>1 DEF CatalogCompaction
<1> HIDE DEF s
<1>5. /\ mem'[p] = state /\ pc'[p] = label /\ seen'[p] = seen[p] \cup Scanned(mem[p].cursors)
      /\ \A q \in Clients : q # p => /\ mem'[q] = mem[q] /\ pc'[q] = pc[q]
                                     /\ seen'[q] = seen[q] /\ compaction'[q] = compaction[q]
      /\ compaction'[p] = IF label = "remove" THEN [snapshot |-> s, obsolete |-> {}] ELSE compaction[p]
  BY <1>2, <1>3 DEF IndInv, TypeOK
<1>6. TypeOK'
  <2>1. mem' \in [Clients -> RuntimeState] /\ pc' \in [Clients -> Label]
    BY <1>1, <1>2 DEF IndInv, TypeOK, Label
  <2>2. compaction' \in [Clients -> CatalogCompaction]
    BY <1>3, <1>4 DEF IndInv, TypeOK
  <2>3. seen' \in [Clients -> SUBSET Commit]
    BY <1>1, <1>2 DEF IndInv, TypeOK
  <2> QED BY <1>2, <2>1, <2>2, <2>3 DEF IndInv, TypeOK
<1>7. Extends(p, {}) /\ published' = published \cup {}
  BY <1>2, ExtendsNothing
<1>8. GraphInv' /\ Vital' = Vital /\ Size' = Size
  <2>1. GraphInv'
    BY <1>7, Grows
  <2> QED BY <1>2, <2>1 DEF Vital, Size, Outdated, HeadCommits, ResourceCommits
<1>9. \A a \in Clients : state.cursors[a] \in Nat
  BY <1>1 DEF RuntimeState, Cursors
<1>10. p \in Clients /\ compaction[p].obsolete = {} /\ compaction'[p].obsolete = {}
  BY <1>2, <1>5 DEF IndInv, CallInv, Compacting
<1>11. ViewsInv'
  <2>1. ASSUME NEW q \in Clients
        PROVE  /\ mem'[q].commits \subseteq published'
               /\ \A a \in Clients : mem'[q].cursors[a] \in Nat /\ mem'[q].cursors[a] <= Size
               /\ \/ compaction'[q] = compaction[q]
                  \/ /\ compaction'[q].obsolete \subseteq published'
                     /\ compaction'[q].snapshot.events \subseteq published'
                     /\ \A a \in Clients : /\ compaction'[q].snapshot.cursors[a] \in Nat
                                           /\ compaction'[q].snapshot.cursors[a] <= Size
    <3>1. CASE q = p
      BY <1>1, <1>2, <1>4, <1>5, <1>9, <3>1
    <3>2. CASE q # p
      <4>1. mem[q].commits \subseteq published
        BY DEF IndInv, ViewsInv
      <4>2. \A a \in Clients : mem[q].cursors[a] \in Nat /\ mem[q].cursors[a] <= Size
        BY Bounds
      <4> QED BY <1>2, <1>5, <3>2, <4>1, <4>2
    <3> QED BY <3>1, <3>2
  <2> QED BY <1>2, <1>7, <2>1, ViewsStay
<1>12. VitalInv'
  BY <1>2, <1>5, <1>8, <1>10 DEF IndInv, VitalInv
<1>13. CallInv'
  <2>1. label \in {"survey", "remove"} => p \in Compactors
    BY MaintenanceAssumption DEF Compactors
  <2>2. ASSUME NEW q \in Clients
        PROVE  /\ pc'[q] = "survey" \/ Compacting(q)' => q \in Compactors
               /\ ~Compacting(q)' => compaction'[q].obsolete = {}
    <3>1. CASE q = p
      BY <1>5, <1>10, <2>1, <3>1 DEF Compacting
    <3>2. CASE q # p
      BY <1>5, <3>2 DEF IndInv, CallInv, Compacting
    <3> QED BY <3>1, <3>2
  <2> QED BY <2>2 DEF CallInv, Compactors
<1>14. AckInv'
  <2>1. ASSUME NEW q \in Clients PROVE seen[q] \subseteq seen'[q] /\ mem'[q].commits \subseteq seen'[q]
    <3>1. mem[q].commits \subseteq seen[q]
      BY DEF IndInv, AckInv
    <3> QED BY <1>1, <1>5, <3>1
  <2>2. ASSUME NEW q \in Clients, NEW k \in Keys, NEW i \in acks'[q][k]
        PROVE  \E d \in seen'[q] : d.id = i
    BY <1>2, <2>1 DEF IndInv, AckInv
  <2>3. ASSUME NEW q \in Clients, NEW c \in compaction'[q].obsolete PROVE Reached(q, c.key)'
    <3>1. q # p
      BY <1>10, <2>3
    <3>2. mem'[q] = mem[q] /\ c \in compaction[q].obsolete
      BY <1>5, <2>3, <3>1
    <3>3. c \in Commit
      BY <3>2 DEF IndInv, TypeOK, CatalogCompaction
    <3>4. c.key \in Keys
      BY <3>3 DEF Commit
    <3>5. Reached(q, c.key)
      BY <3>2 DEF IndInv, AckInv
    <3> QED BY <1>2, <2>1, <3>2, <3>4, <3>5, ReachedStays DEF IndInv
  <2> QED BY <2>1, <2>2, <2>3 DEF AckInv
<1>15. SoleInv'
  <2> SUFFICES ASSUME OneCompacts PROVE SoleInv'
    BY DEF SoleInv, OneCompacts, Compactors
  <2>1. snapshot'.events \subseteq objects' /\ listed' \subseteq objects'
    BY <1>2 DEF IndInv, SoleInv
  <2>2. NobodyRenames' => NobodyRenames
    BY <1>2, <1>5 DEF NobodyRenames
  <2>3. NobodyRenames' => Covers(snapshot.events, snapshot.cursors)' /\ ListsAbove(snapshot.cursors)'
    <3>1. NobodyRenames => Covers(snapshot.events, snapshot.cursors) /\ ListsAbove(snapshot.cursors)
      BY DEF IndInv, SoleInv
    <3> QED BY <1>2, <1>8, <2>2, <3>1 DEF Covers, ListsAbove
  <2>4. ASSUME NEW r \in Compactors, r # p PROVE SoleOf(r)'
    <3>1. r \in Clients /\ SoleOf(r)
      BY MaintenanceAssumption DEF Compactors, IndInv, SoleInv
    <3>2. mem'[r] = mem[r] /\ pc'[r] = pc[r] /\ compaction'[r] = compaction[r]
      BY <1>5, <2>4, <3>1
    <3> QED BY <1>2, <1>7, <3>1, <3>2, SoleStays
  <2>5. ASSUME p \in Compactors PROVE SoleOf(p)'
    <3>1. SoleOf(p)
      BY <2>5 DEF IndInv, SoleInv
    <3>2. NobodyRenames
      <4>1. ASSUME NEW q \in Clients, pc[q] = "rename" PROVE FALSE
        <5>1. q \in Compactors
          BY <4>1 DEF IndInv, CallInv, Compacting
        <5> QED BY <1>2, <2>5, <4>1, <5>1 DEF OneCompacts
      <4> QED BY <4>1 DEF NobodyRenames
    <3>3. Vital \subseteq state.commits /\ \A c \in published : c.id <= state.cursors[c.author]
      BY <3>1, <3>2, SoleRefreshed DEF state, IndInv, SoleInv
    <3>4. mem[p].commits \subseteq objects
      BY <1>2, <3>1 DEF SoleOf
    <3>5. state.commits \subseteq objects
      BY <1>1, <1>2, <3>4
    <3>6. Covers(mem[p].commits, mem[p].cursors)'
      BY <1>5, <1>8, <3>3 DEF Covers
    <3>7. ListsAbove(mem[p].cursors)'
      <4>1. ASSUME NEW c \in published, c.id > state.cursors[c.author] PROVE FALSE
        <5>1. c.id \in Nat /\ c.author \in Clients
          BY DEF IndInv, TypeOK, Commit
        <5> QED BY <1>9, <3>3, <4>1, <5>1
      <4> QED BY <1>2, <1>5, <4>1 DEF ListsAbove
    <3>8. ASSUME Compacting(p)'
          PROVE  /\ compaction'[p].snapshot = s
                 /\ Covers(compaction[p].snapshot.events, compaction[p].snapshot.cursors)'
      <4>1. label = "remove"
        BY <1>5, <3>8 DEF Compacting
      <4>2. compaction'[p].snapshot = s
        BY <1>5, <4>1
      <4> QED BY <1>4, <1>8, <3>3, <4>2 DEF Covers
    <3>9. pc'[p] # "delete" /\ mem'[p].commits \subseteq published
      BY <1>1, <1>5
    <3>10. mem'[p].commits \subseteq objects'
      BY <1>2, <1>5, <3>5
    <3> QED BY <1>2, <1>4, <1>5, <1>10, <3>3, <3>6, <3>7, <3>8, <3>9, <3>10 DEF SoleOf
  <2> QED BY <2>1, <2>3, <2>4, <2>5 DEF SoleInv, Compactors
<1> QED BY <1>6, <1>8, <1>11, <1>12, <1>13, <1>14, <1>15 DEF IndInv

LEMMA RefreshInv ==
  ASSUME IndInv, NEW p \in Clients, Refresh(p)
  PROVE  IndInv'
<1>1. CASE Read(p) /\ Goto(p, "fresh") /\ UNCHANGED compaction
  BY <1>1, ReadStep
<1>2. CASE Read(p) /\ Snapshots /\ Compact(p, Refreshed(p), {})
  <2>1. Refreshed(p).commits \ {} = Refreshed(p).commits
    OBVIOUS
  <2> QED BY <1>2, <2>1, ReadStep DEF Compact
<1> QED BY <1>1, <1>2 DEF Refresh

LEMMA BeginMaintainInv ==
  ASSUME IndInv, NEW p \in Clients, BeginMaintain(p)
  PROVE  IndInv'
BY ReadStep DEF BeginMaintain

---------------------------------------------------------------------------
(* maintain.                                                               *)

\* What a survey does: it publishes the commits in new, and has found old to be
\* obsolete, commits of resources with one head and an acknowledged checkpoint.
Surveys(p, new, old, m) ==
  /\ Extends(p, new) /\ m \in RuntimeState
  /\ old \subseteq mem[p].commits /\ old \cap Vital = {}
  /\ \A c \in old : Reached(p, c.key)
  /\ published' = published \cup new /\ objects' = objects \cup new
  /\ listed' = listed \cup new /\ snapshot' = snapshot
  /\ m.commits = mem[p].commits \cup new /\ m.cursors = mem[p].cursors
  /\ m.retired = mem[p].retired
  /\ \A c \in old : /\ m.checkpoints[c.key] = mem[p].checkpoints[c.key]
                    /\ \A d \in new : d.key # c.key
  /\ mem' = [mem EXCEPT ![p] = m]
  /\ seen' = [seen EXCEPT ![p] = @ \cup new]
  /\ \A q \in Clients : \A k \in Keys : \A i \in acks'[q][k] :
       i \in acks[q][k] \/ (q = p /\ \E c \in new : c.id = i)
  /\ acks' \in [Clients -> [Keys -> SUBSET Nat]]
  /\ pc[p] = "survey"
  /\ \/ pc' = [pc EXCEPT ![p] = "idle"] /\ compaction' = compaction
     \/ /\ pc' = [pc EXCEPT ![p] = "remove"]
        /\ compaction' = [compaction EXCEPT ![p] =
             [snapshot |-> [events |-> m.commits \ old, cursors |-> m.cursors],
              obsolete |-> old]]

LEMMA SurveyFacts ==
  ASSUME IndInv, NEW p \in Clients, NEW deferred \in SUBSET Keys, Survey(p, deferred)
  PROVE  \E new, old, m : Surveys(p, new, old, m)
<1> DEFINE state == mem[p]
           ready == Ready(state, deferred)
           starting == {k \in ready : state.checkpoints[k] = 0}
           finished == {k \in ready \ starting : AllAcknowledged(p, state, k)}
           obsolete(k) == ResourceCommits(state.commits, k) \ Retained(state, k)
           done == {k \in finished : obsolete(k) = {}}
           old == UNION {obsolete(k) : k \in finished}
<1>1. PICK order \in [starting -> 1..Cardinality(starting)] :
        LET new == {Checkpoint(p, state, k, Cardinality(published) + order[k]) : k \in starting}
            left == [state EXCEPT !.commits = @ \cup new,
                                  !.checkpoints = Surveyed(state, new, done)]
        IN  /\ \A j, k \in starting : order[j] = order[k] => j = k
            /\ Store(new)
            /\ listed' = listed \cup new
            /\ mem' = [mem EXCEPT ![p] = left]
            /\ seen' = [seen EXCEPT ![p] = @ \cup new]
            /\ acks' = [acks EXCEPT ![p] = [k \in Keys |->
                 IF k \in starting THEN {c.id : c \in {c \in new : c.key = k}} ELSE @[k]]]
            /\ IF old = {} THEN Goto(p, "idle") /\ UNCHANGED compaction
               ELSE Compact(p, left, old)
  BY DEF Survey
<1>2. pc[p] = "survey" /\ snapshot' = snapshot
  BY DEF Survey
<1> DEFINE new == {Checkpoint(p, state, k, Cardinality(published) + order[k]) : k \in starting}
           left == [state EXCEPT !.commits = @ \cup new,
                                 !.checkpoints = Surveyed(state, new, done)]
<1>3. state \in RuntimeState /\ state.commits \subseteq published
  BY DEF IndInv, TypeOK, ViewsInv
<1>4. /\ published' = published \cup new /\ objects' = objects \cup new
      /\ listed' = listed \cup new /\ mem' = [mem EXCEPT ![p] = left]
      /\ seen' = [seen EXCEPT ![p] = @ \cup new]
      /\ acks' = [acks EXCEPT ![p] = [k \in Keys |->
           IF k \in starting THEN {c.id : c \in {c \in new : c.key = k}} ELSE @[k]]]
  BY <1>1 DEF Store
<1>5. \/ old = {} /\ pc' = [pc EXCEPT ![p] = "idle"] /\ compaction' = compaction
      \/ /\ pc' = [pc EXCEPT ![p] = "remove"]
         /\ compaction' = [compaction EXCEPT ![p] =
              [snapshot |-> [events |-> left.commits \ old, cursors |-> left.cursors],
               obsolete |-> old]]
  BY <1>1 DEF Compact, Goto
<1> HIDE DEF state
<1>6. /\ ready \subseteq Keys /\ starting \subseteq ready /\ finished \subseteq ready
      /\ \A k \in ready : Cardinality(Heads(state.commits, k)) = 1
      /\ \A k \in ready : k \in Long(state)
  BY DEF Ready, Long
<1> HIDE DEF ready
<1>7. Extends(p, new) /\ \A c \in new : c.key \in starting
  <2>1. starting \in SUBSET Keys /\ \A k \in starting : Cardinality(Heads(state.commits, k)) = 1
    BY <1>6
  <2>2. \A j, k \in starting : order[j] = order[k] => j = k
    BY <1>1
  <2>3. /\ \A k \in starting : Checkpoint(p, state, k, Size + order[k]) \in new
        /\ \A c \in new : \E k \in starting : c = Checkpoint(p, state, k, Size + order[k])
    BY DEF Size
  <2>4. \A c \in new : c.key \in starting
    BY <2>3 DEF Checkpoint
  <2> HIDE DEF starting, new
  <2>5. PICK s, S, N : s = state /\ S = starting /\ N = new
    OBVIOUS
  <2>6. /\ s.commits \subseteq published
        /\ S \in SUBSET Keys /\ order \in [S -> 1..Cardinality(S)]
        /\ \A k \in S : Cardinality(Heads(s.commits, k)) = 1
    BY <1>3, <2>1, <2>5
  <2>7. \A j, k \in S : order[j] = order[k] => j = k
    BY <2>2, <2>5
  <2>8. /\ \A k \in S : Checkpoint(p, s, k, Size + order[k]) \in N
        /\ \A c \in N : \E k \in S : c = Checkpoint(p, s, k, Size + order[k])
    BY <2>3, <2>5
  <2>9. Extends(p, N)
    BY <2>6, <2>7, <2>8, NewCheckpoints
  <2> QED BY <2>4, <2>5, <2>9
<1> HIDE DEF new
<1>8. \A c \in new : c.id \in Nat
  BY <1>7 DEF Extends, Commit
<1>9. ASSUME NEW c \in old
      PROVE  /\ c \in mem[p].commits /\ c \notin Vital /\ c.key \in finished
             /\ c.key \in Keys /\ c.key \in Long(state) \ done
             /\ AllAcknowledged(p, mem[p], c.key)
  <2>1. PICK k \in finished : c \in obsolete(k)
    OBVIOUS
  <2>2. c \in ResourceCommits(state.commits, k) /\ c \notin Retained(state, k)
    BY <2>1
  <2>3. c \in mem[p].commits /\ c.key = k
    BY <2>2 DEF ResourceCommits, state
  <2>4. k \in ready /\ k \in Keys /\ Cardinality(Heads(state.commits, k)) = 1 /\ k \in Long(state)
    BY <1>6
  <2>5. c \notin Vital
    BY <1>3, <2>2, <2>4, VitalRetained
  <2>6. k \notin done /\ AllAcknowledged(p, state, k)
    BY <2>1
  <2> QED BY <2>3, <2>4, <2>5, <2>6 DEF state
<1> HIDE DEF starting, done, old
<1>10. Surveyed(state, new, done) \in [Keys -> Nat]
  <2>1. ASSUME NEW k \in Keys, \E c \in new : c.key = k
        PROVE  (CHOOSE c \in new : c.key = k).id \in Nat
    <3>1. (CHOOSE c \in new : c.key = k) \in new
      BY <2>1
    <3> QED BY <1>8, <3>1
  <2>2. ASSUME NEW k \in Keys PROVE state.checkpoints[k] \in Nat
    BY <1>3 DEF RuntimeState
  <2> QED BY <2>1, <2>2 DEF Surveyed
<1>11. new \subseteq Commit
  BY <1>7 DEF Extends
<1>12. /\ left.commits = mem[p].commits \cup new /\ left.cursors = mem[p].cursors
       /\ left.retired = mem[p].retired /\ left.checkpoints = Surveyed(state, new, done)
       /\ left \in RuntimeState
  <2> HIDE DEF Surveyed
  <2> QED BY <1>3, <1>10, <1>11 DEF RuntimeState, state
<1> HIDE DEF left
<1>13. ASSUME NEW c \in old
       PROVE  /\ left.checkpoints[c.key] = mem[p].checkpoints[c.key]
              /\ \A d \in new : d.key # c.key
  <2>1. \A d \in new : d.key # c.key
    BY <1>7, <1>9
  <2>2. left.checkpoints[c.key] = mem[p].checkpoints[c.key]
    BY <1>9, <1>12, <2>1 DEF Surveyed, state
  <2> QED BY <2>1, <2>2
<1>14. ASSUME NEW c \in old PROVE Reached(p, c.key)
  <2> SUFFICES ASSUME NEW q \in ActiveClients(p, mem[p], c.key)
               PROVE  \E d \in seen[q] : IsDescendant(published, d.id, mem[p].checkpoints[c.key])
    BY DEF Reached
  <2>1. PICK h \in acks[q][c.key] :
          IsDescendant(mem[p].commits, h, mem[p].checkpoints[c.key])
    BY <1>9 DEF AllAcknowledged
  <2>2. q \in Clients
    BY DEF ActiveClients, ResourceCommits, IndInv, TypeOK, RuntimeState, Commit
  <2>3. PICK d \in seen[q] : d.id = h
    BY <1>9, <2>2 DEF IndInv, AckInv
  <2>4. IsDescendant(published, h, mem[p].checkpoints[c.key])
    BY <1>3, <2>1, DescendantStays DEF state
  <2> QED BY <2>3, <2>4
<1>15. /\ \A q \in Clients : \A k \in Keys : \A i \in acks'[q][k] :
            i \in acks[q][k] \/ (q = p /\ \E c \in new : c.id = i)
       /\ acks' \in [Clients -> [Keys -> SUBSET Nat]]
  <2>1. \A k \in Keys : {c.id : c \in {c \in new : c.key = k}} \in SUBSET Nat
    BY <1>8
  <2>2. acks' \in [Clients -> [Keys -> SUBSET Nat]]
    BY <1>4, <2>1 DEF IndInv, TypeOK
  <2>3. ASSUME NEW q \in Clients, NEW k \in Keys, NEW i \in acks'[q][k]
        PROVE  i \in acks[q][k] \/ (q = p /\ \E c \in new : c.id = i)
    BY <1>4 DEF IndInv, TypeOK
  <2> QED BY <2>2, <2>3
<1>16. old \subseteq mem[p].commits /\ old \cap Vital = {}
  BY <1>9
<1>17. /\ left.commits = mem[p].commits \cup new /\ left.cursors = mem[p].cursors
       /\ left.retired = mem[p].retired /\ left \in RuntimeState
  BY <1>12
<1>18. \/ pc' = [pc EXCEPT ![p] = "idle"] /\ compaction' = compaction
       \/ /\ pc' = [pc EXCEPT ![p] = "remove"]
          /\ compaction' = [compaction EXCEPT ![p] =
               [snapshot |-> [events |-> left.commits \ old, cursors |-> left.cursors],
                obsolete |-> old]]
  BY <1>5
<1>19. Surveys(p, new, old, left)
  BY <1>2, <1>4, <1>7, <1>13, <1>14, <1>15, <1>16, <1>17, <1>18, Zenon DEF Surveys
<1> QED BY <1>19

LEMMA SurveyInv ==
  ASSUME IndInv, NEW p \in Clients, NEW deferred \in SUBSET Keys, Survey(p, deferred)
  PROVE  IndInv'
<1>0. PICK new, old, m : Surveys(p, new, old, m)
  BY SurveyFacts
<1>1. /\ Extends(p, new) /\ m \in RuntimeState
      /\ old \subseteq mem[p].commits /\ old \cap Vital = {}
      /\ \A c \in old : Reached(p, c.key)
      /\ published' = published \cup new /\ objects' = objects \cup new
      /\ listed' = listed \cup new /\ snapshot' = snapshot
      /\ m.commits = mem[p].commits \cup new /\ m.cursors = mem[p].cursors
      /\ m.retired = mem[p].retired
      /\ \A c \in old : /\ m.checkpoints[c.key] = mem[p].checkpoints[c.key]
                        /\ \A d \in new : d.key # c.key
      /\ mem' = [mem EXCEPT ![p] = m]
      /\ seen' = [seen EXCEPT ![p] = @ \cup new]
      /\ \A q \in Clients : \A k \in Keys : \A i \in acks'[q][k] :
           i \in acks[q][k] \/ (q = p /\ \E c \in new : c.id = i)
      /\ acks' \in [Clients -> [Keys -> SUBSET Nat]]
      /\ pc[p] = "survey"
      /\ \/ pc' = [pc EXCEPT ![p] = "idle"] /\ compaction' = compaction
         \/ /\ pc' = [pc EXCEPT ![p] = "remove"]
            /\ compaction' = [compaction EXCEPT ![p] =
                 [snapshot |-> [events |-> m.commits \ old, cursors |-> m.cursors],
                  obsolete |-> old]]
  BY <1>0 DEF Surveys
<1> DEFINE s == [events |-> m.commits \ old, cursors |-> m.cursors]
           job == [snapshot |-> s, obsolete |-> old]
<1>2. /\ job \in CatalogCompaction /\ job.obsolete = old
      /\ job.snapshot.events = m.commits \ old /\ job.snapshot.cursors = m.cursors
  <2>1. s \in Snapshot
    BY <1>1 DEF RuntimeState, Snapshot
  <2>2. mem[p].commits \subseteq Commit
    BY DEF IndInv, TypeOK, RuntimeState
  <2> QED BY <1>1, <2>1, <2>2 DEF CatalogCompaction
<1>3. \/ pc' = [pc EXCEPT ![p] = "idle"] /\ compaction' = compaction
      \/ pc' = [pc EXCEPT ![p] = "remove"] /\ compaction' = [compaction EXCEPT ![p] = job]
  BY <1>1
<1> HIDE DEF job
<1>4. new \subseteq Commit
  BY <1>1 DEF Extends
<1>5. TypeOK'
  <2>1. mem' \in [Clients -> RuntimeState] /\ pc' \in [Clients -> Label]
    BY <1>1, <1>3 DEF IndInv, TypeOK, Label
  <2>2. compaction' \in [Clients -> CatalogCompaction]
    BY <1>2, <1>3 DEF IndInv, TypeOK
  <2>3. seen' \in [Clients -> SUBSET Commit]
    BY <1>1, <1>4 DEF IndInv, TypeOK
  <2>4. objects' \subseteq Commit /\ listed' \subseteq Commit /\ published' \subseteq Commit
    BY <1>1, <1>4 DEF IndInv, TypeOK
  <2> QED BY <1>1, <2>1, <2>2, <2>3, <2>4 DEF IndInv, TypeOK
<1>6. /\ GraphInv' /\ Size \in Nat /\ Vital' \subseteq Vital \cup new
      /\ \A c \in new : c.id \in Nat /\ c.author \in Clients /\ c.id > Size
      /\ \A c \in published : c.id \in Nat /\ c.author \in Clients /\ c.id <= Size
  BY <1>1, Grows
<1>7. /\ mem'[p] = m /\ seen'[p] = seen[p] \cup new
      /\ \A q \in Clients : q # p => /\ mem'[q] = mem[q] /\ pc'[q] = pc[q]
                                     /\ seen'[q] = seen[q] /\ compaction'[q] = compaction[q]
      /\ \/ pc'[p] = "idle" /\ compaction'[p] = compaction[p]
         \/ pc'[p] = "remove" /\ compaction'[p] = job
  BY <1>1, <1>3 DEF IndInv, TypeOK
<1>8. mem[p].commits \subseteq published /\ p \in Compactors /\ compaction[p].obsolete = {}
  BY <1>1 DEF IndInv, ViewsInv, CallInv, Compacting
<1>9. old \cap Vital' = {} /\ new \cap published = {}
  BY <1>1, <1>6, <1>8
<1>10. ViewsInv'
  <2>1. ASSUME NEW q \in Clients
        PROVE  /\ mem'[q].commits \subseteq published'
               /\ \A a \in Clients : mem'[q].cursors[a] \in Nat /\ mem'[q].cursors[a] <= Size
               /\ \/ compaction'[q] = compaction[q]
                  \/ /\ compaction'[q].obsolete \subseteq published'
                     /\ compaction'[q].snapshot.events \subseteq published'
                     /\ \A a \in Clients : /\ compaction'[q].snapshot.cursors[a] \in Nat
                                           /\ compaction'[q].snapshot.cursors[a] <= Size
    <3>1. /\ mem[q].commits \subseteq published
          /\ \A a \in Clients : mem[q].cursors[a] \in Nat /\ mem[q].cursors[a] <= Size
      BY Bounds DEF IndInv, ViewsInv
    <3>2. CASE q = p
      BY <1>1, <1>2, <1>7, <3>1, <3>2
    <3>3. CASE q # p
      BY <1>1, <1>7, <3>1, <3>3
    <3> QED BY <3>2, <3>3
  <2> QED BY <1>1, <2>1, ViewsStay
<1>11. VitalInv'
  <2>1. Vital' \subseteq objects'
    BY <1>1, <1>6 DEF IndInv, VitalInv
  <2>2. ASSUME NEW q \in Clients PROVE compaction'[q].obsolete \cap Vital' = {}
    <3>1. compaction[q].obsolete \cap Vital = {} /\ compaction[q].obsolete \subseteq published
      BY DEF IndInv, VitalInv, ViewsInv
    <3>2. compaction[q].obsolete \cap Vital' = {}
      BY <1>6, <1>9, <3>1
    <3> QED BY <1>2, <1>7, <1>9, <3>2
  <2> QED BY <2>1, <2>2 DEF VitalInv
<1>12. CallInv'
  <2>1. ASSUME NEW q \in Clients
        PROVE  /\ pc'[q] = "survey" \/ Compacting(q)' => q \in Compactors
               /\ ~Compacting(q)' => compaction'[q].obsolete = {}
    <3>1. CASE q = p
      BY <1>7, <1>8, <3>1 DEF Compacting
    <3>2. CASE q # p
      BY <1>7, <3>2 DEF IndInv, CallInv, Compacting
    <3> QED BY <3>1, <3>2
  <2> QED BY <2>1 DEF CallInv, Compactors
<1>13. AckInv'
  <2>1. ASSUME NEW q \in Clients PROVE seen[q] \subseteq seen'[q] /\ mem'[q].commits \subseteq seen'[q]
    <3>1. mem[q].commits \subseteq seen[q]
      BY DEF IndInv, AckInv
    <3> QED BY <1>1, <1>7, <3>1
  <2>2. ASSUME NEW q \in Clients, NEW k \in Keys, NEW i \in acks'[q][k]
        PROVE  \E d \in seen'[q] : d.id = i
    <3>1. CASE i \in acks[q][k]
      BY <2>1, <3>1 DEF IndInv, AckInv
    <3>2. CASE q = p /\ \E c \in new : c.id = i
      BY <1>7, <3>2
    <3> QED BY <1>1, <3>1, <3>2
  <2>3. ASSUME NEW q \in Clients, NEW c \in compaction'[q].obsolete PROVE Reached(q, c.key)'
    <3>1. c \in Commit /\ c.key \in Keys
      <4>1. compaction'[q] \in CatalogCompaction
        BY <1>5 DEF TypeOK
      <4>2. c \in Commit
        BY <4>1 DEF CatalogCompaction
      <4> QED BY <4>2 DEF Commit
    <3>2. CASE q # p
      <4>1. Reached(q, c.key) /\ mem'[q] = mem[q]
        BY <1>7, <3>2 DEF IndInv, AckInv
      <4> QED BY <1>1, <2>1, <3>1, <4>1, ReachedStays DEF IndInv
    <3>3. CASE q = p
      <4>1. c \in old
        BY <1>2, <1>7, <1>8, <3>3
      <4>2. ActiveClients(p, m, c.key) = ActiveClients(p, mem[p], c.key)
        <5>1. ResourceCommits(m.commits, c.key) = ResourceCommits(mem[p].commits, c.key)
          BY <1>1, <4>1 DEF ResourceCommits
        <5> QED BY <1>1, <5>1 DEF ActiveClients
      <4>3. ASSUME NEW r \in ActiveClients(p, m, c.key)
            PROVE  \E d \in seen'[r] : IsDescendant(published', d.id, m.checkpoints[c.key])
        <5>1. r \in Clients
          BY <4>2 DEF ActiveClients, ResourceCommits, IndInv, TypeOK, RuntimeState, Commit
        <5>2. PICK d \in seen[r] : IsDescendant(published, d.id, mem[p].checkpoints[c.key])
          BY <1>1, <4>1, <4>2 DEF Reached
        <5>3. IsDescendant(published', d.id, mem[p].checkpoints[c.key])
          BY <1>1, <5>2, DescendantStays
        <5> QED BY <1>1, <2>1, <4>1, <5>1, <5>3
      <4>4. Reached(p, c.key)'
        BY <1>7, <4>3 DEF Reached, ActiveClients, ResourceCommits, IsDescendant
      <4> QED BY <3>3, <4>4
    <3> QED BY <3>2, <3>3
  <2> QED BY <2>1, <2>2, <2>3 DEF AckInv
<1>14. SoleInv'
  <2> SUFFICES ASSUME OneCompacts PROVE SoleInv'
    BY DEF SoleInv, OneCompacts, Compactors
  <2>1. snapshot'.events \subseteq objects' /\ listed' \subseteq objects'
    BY <1>1 DEF IndInv, SoleInv
  <2>2. ASSUME NobodyRenames'
        PROVE  Covers(snapshot.events, snapshot.cursors)' /\ ListsAbove(snapshot.cursors)'
    <3>1. NobodyRenames
      BY <1>1, <1>7, <2>2 DEF NobodyRenames
    <3>2. Covers(snapshot.events, snapshot.cursors) /\ ListsAbove(snapshot.cursors)
      BY <3>1 DEF IndInv, SoleInv
    <3> QED BY <1>1, <3>2, CatalogStays
  <2>3. SoleOf(p)'
    <3>1. SoleOf(p)
      BY <1>8 DEF IndInv, SoleInv
    <3>2. mem[p].commits \subseteq objects /\ \A c \in mem[p].commits : c.id <= mem[p].cursors[c.author]
      BY <1>1, <3>1 DEF SoleOf
    <3>3. \A a \in Clients : mem[p].cursors[a] \in Nat /\ mem[p].cursors[a] <= Size
      BY Bounds
    <3>4. \A c \in Vital' : c.id <= m.cursors[c.author] => c \in mem[p].commits
      <4>1. PICK C, cursors : C = mem[p].commits /\ cursors = mem[p].cursors
        OBVIOUS
      <4>2. Covers(C, cursors)
        BY <3>1, <4>1 DEF SoleOf
      <4>3. \A c \in Vital' : c.id <= cursors[c.author] => c \in C
        BY <1>1, <3>3, <4>1, <4>2, CoversStays
      <4> QED BY <1>1, <4>1, <4>3
    <3>5. Covers(mem[p].commits, mem[p].cursors)'
      BY <1>1, <1>7, <3>4 DEF Covers
    <3>6. ListsAbove(mem[p].cursors)'
      BY <1>1, <1>7, <3>1 DEF SoleOf, ListsAbove
    <3>7. mem'[p].commits \subseteq objects' /\ pc'[p] # "survey" /\ pc'[p] # "delete"
      BY <1>1, <1>7, <3>2
    <3>8. ASSUME Compacting(p)'
          PROVE  /\ compaction'[p].snapshot.cursors = mem'[p].cursors
                 /\ Covers(compaction[p].snapshot.events, compaction[p].snapshot.cursors)'
                 /\ compaction'[p].snapshot.events \subseteq objects'
                 /\ compaction'[p].snapshot.events \cap compaction'[p].obsolete = {}
                 /\ \A c \in compaction'[p].obsolete : c.id <= compaction'[p].snapshot.cursors[c.author]
      <4>1. compaction'[p] = job
        BY <1>7, <3>8 DEF Compacting
      <4>2. Covers(compaction[p].snapshot.events, compaction[p].snapshot.cursors)'
        <5>1. \A c \in Vital' : c.id <= m.cursors[c.author] => c \in m.commits \ old
          BY <1>1, <1>9, <3>4
        <5> QED BY <1>2, <4>1, <5>1 DEF Covers
      <4> QED BY <1>1, <1>2, <1>7, <3>2, <3>7, <4>1, <4>2
    <3> QED BY <3>5, <3>6, <3>7, <3>8 DEF SoleOf
  <2>4. \A r \in Compactors : r = p
    BY <1>8 DEF OneCompacts
  <2> QED BY <2>1, <2>2, <2>3, <2>4 DEF SoleInv, Compactors
<1> QED BY <1>5, <1>6, <1>10, <1>11, <1>12, <1>13, <1>14 DEF IndInv

---------------------------------------------------------------------------
(* The steps of a compaction.                                              *)

\* A step of p's compaction, as far as it is the business of others.
LEMMA CompactionInv ==
  ASSUME IndInv, NEW p \in Clients, Compacting(p), TypeOK',
         published' = published, seen' = seen, acks' = acks,
         objects' \subseteq objects, listed' \subseteq listed,
         snapshot' \in {snapshot, NoSnapshot, compaction[p].snapshot},
         \A q \in Clients : q # p => /\ mem'[q] = mem[q] /\ pc'[q] = pc[q]
                                     /\ compaction'[q] = compaction[q],
         \/ /\ compaction'[p] = NoCompaction /\ pc'[p] \in {"idle", "fresh"}
            /\ mem'[p].commits \subseteq mem[p].commits /\ mem'[p].cursors = mem[p].cursors
         \/ compaction'[p] = compaction[p] /\ mem'[p] = mem[p] /\ Compacting(p)',
         Vital \subseteq objects',
         OneCompacts =>
           /\ snapshot'.events \subseteq objects' /\ listed' \subseteq objects'
           /\ pc'[p] # "rename" =>
                Covers(snapshot.events, snapshot.cursors)' /\ ListsAbove(snapshot.cursors)'
           /\ SoleOf(p)'
  PROVE  IndInv'
<1>1. Vital' = Vital /\ Size' = Size /\ GraphInv'
  <2>1. GraphInv'
    BY DEF IndInv, GraphInv, Size
  <2> QED BY <2>1 DEF Vital, Size, Outdated, HeadCommits, ResourceCommits
<1>2. Size \in Nat
  BY Bounds
<1>3. /\ NoSnapshot.events = {} /\ NoCompaction.obsolete = {} /\ NoCompaction.snapshot = NoSnapshot
      /\ \A a \in Clients : NoSnapshot.cursors[a] = 0
  BY DEF NoSnapshot, NoCompaction, NoCursors
<1>5. Known(NoSnapshot)
  BY <1>2, <1>3 DEF Known
<1>6. ViewsInv'
  <2>1. Known(snapshot)'
    BY <1>1, <1>5 DEF Known, IndInv, ViewsInv
  <2>2. ASSUME NEW q \in Clients
        PROVE  /\ mem'[q].commits \subseteq published'
               /\ \A a \in Clients : mem'[q].cursors[a] <= Size'
               /\ Known(compaction[q].snapshot)'
               /\ compaction'[q].obsolete \subseteq published'
    <3>1. /\ mem[q].commits \subseteq published /\ \A a \in Clients : mem[q].cursors[a] <= Size
          /\ Known(compaction[q].snapshot) /\ compaction[q].obsolete \subseteq published
      BY DEF IndInv, ViewsInv
    <3>2. CASE q # p
      BY <1>1, <3>1, <3>2 DEF Known
    <3>3. CASE q = p
      BY <1>1, <1>3, <1>5, <3>1, <3>3 DEF Known
    <3> QED BY <3>2, <3>3
  <2>3. objects' \subseteq published' /\ listed' \subseteq published'
    BY DEF IndInv, ViewsInv
  <2> QED BY <2>1, <2>2, <2>3 DEF ViewsInv
<1>7. VitalInv'
  BY <1>1, <1>3 DEF IndInv, VitalInv
<1>8. p \in Compactors
  BY DEF IndInv, CallInv
<1>9. CallInv'
  <2>1. ASSUME NEW q \in Clients
        PROVE  /\ pc'[q] = "survey" \/ Compacting(q)' => q \in Compactors
               /\ ~Compacting(q)' => compaction'[q].obsolete = {}
    <3>1. CASE q = p
      BY <1>3, <1>8, <3>1
    <3>2. CASE q # p
      BY <3>2 DEF IndInv, CallInv, Compacting
    <3> QED BY <3>1, <3>2
  <2> QED BY <2>1 DEF CallInv, Compactors
<1>10. AckInv'
  <2>1. \A q \in Clients : mem'[q].commits \subseteq seen'[q]
    BY DEF IndInv, AckInv
  <2>2. \A q \in Clients, k \in Keys : \A i \in acks'[q][k] : \E d \in seen'[q] : d.id = i
    BY DEF IndInv, AckInv
  <2>3. ASSUME NEW q \in Clients, NEW c \in compaction'[q].obsolete PROVE Reached(q, c.key)'
    <3>1. mem'[q] = mem[q] /\ c \in compaction[q].obsolete
      BY <1>3
    <3>2. c \in Commit
      BY <3>1 DEF IndInv, TypeOK, CatalogCompaction
    <3>3. c.key \in Keys
      BY <3>2 DEF Commit
    <3>4. Reached(q, c.key)
      BY <3>1 DEF IndInv, AckInv
    <3> QED BY <3>1, <3>3, <3>4, ReachedStays DEF IndInv
  <2> QED BY <2>1, <2>2, <2>3 DEF AckInv
<1>11. SoleInv'
  <2> SUFFICES ASSUME OneCompacts PROVE SoleInv'
    BY DEF SoleInv, OneCompacts, Compactors
  <2>1. \A r \in Compactors : r = p
    BY <1>8 DEF OneCompacts
  <2>2. NobodyRenames' => pc'[p] # "rename"
    BY DEF NobodyRenames
  <2> QED BY <2>1, <2>2 DEF SoleInv, Compactors
<1> QED BY <1>1, <1>6, <1>7, <1>9, <1>10, <1>11 DEF IndInv

\* What p has in hand while it compacts, if nobody else does.
LEMMA InHand ==
  ASSUME IndInv, OneCompacts, NEW p \in Clients, Compacting(p)
  PROVE  /\ SoleOf(p) /\ p \in Compactors
         /\ snapshot.events \subseteq objects /\ listed \subseteq objects
         /\ pc[p] # "rename" => Covers(snapshot.events, snapshot.cursors) /\ ListsAbove(snapshot.cursors)
<1>1. p \in Compactors
  BY DEF IndInv, CallInv
<1>2. ASSUME NEW q \in Clients, pc[q] = "rename" PROVE q = p
  <2>1. q \in Compactors
    BY <1>2 DEF IndInv, CallInv, Compacting
  <2> QED BY <1>1, <2>1 DEF OneCompacts
<1>3. pc[p] # "rename" => NobodyRenames
  BY <1>2 DEF NobodyRenames
<1> QED BY <1>1, <1>3 DEF IndInv, SoleInv

LEMMA RemoveLatestInv ==
  ASSUME IndInv, NEW p \in Clients, RemoveLatest(p)
  PROVE  IndInv'
<1>1. /\ pc[p] = "remove" /\ snapshot' = NoSnapshot /\ pc' = [pc EXCEPT ![p] = "rename"]
      /\ UNCHANGED <<objects, listed, acks, mem, compaction, published, seen>>
  BY DEF RemoveLatest, Goto
<1>2. pc'[p] = "rename" /\ \A q \in Clients : q # p => pc'[q] = pc[q]
  BY <1>1 DEF IndInv, TypeOK
<1>3. NoSnapshot \in Snapshot /\ NoSnapshot.events = {}
  BY DEF NoSnapshot, NoCursors, Snapshot, Cursors
<1>4. TypeOK'
  BY <1>1, <1>3 DEF IndInv, TypeOK, Label
<1>5. Compacting(p) /\ Compacting(p)'
  BY <1>1, <1>2 DEF Compacting
<1>6. Vital' = Vital
  BY <1>1 DEF Vital, Outdated, HeadCommits, ResourceCommits
<1>7. OneCompacts => /\ snapshot'.events \subseteq objects' /\ listed' \subseteq objects'
                     /\ SoleOf(p)'
  <2> SUFFICES ASSUME OneCompacts PROVE listed \subseteq objects /\ SoleOf(p)'
    BY <1>1, <1>3
  <2>1. SoleOf(p) /\ listed \subseteq objects
    BY <1>5, InHand
  <2> QED BY <1>1, <1>2, <1>5, <1>6, <2>1 DEF SoleOf, Covers, ListsAbove
<1>8. Vital \subseteq objects'
  BY <1>1 DEF IndInv, VitalInv
<1> QED BY <1>1, <1>2, <1>4, <1>5, <1>7, <1>8, CompactionInv

LEMMA RenameLatestInv ==
  ASSUME IndInv, NEW p \in Clients, RenameLatest(p)
  PROVE  IndInv'
<1>1. /\ pc[p] = "rename" /\ snapshot' = compaction[p].snapshot
      /\ pc' = [pc EXCEPT ![p] = "delete"]
      /\ UNCHANGED <<objects, listed, acks, mem, compaction, published, seen>>
  BY DEF RenameLatest, Goto
<1>2. pc'[p] = "delete" /\ \A q \in Clients : q # p => pc'[q] = pc[q]
  BY <1>1 DEF IndInv, TypeOK
<1>3. TypeOK'
  BY <1>1 DEF IndInv, TypeOK, Label, CatalogCompaction
<1>4. Compacting(p) /\ Compacting(p)'
  BY <1>1, <1>2 DEF Compacting
<1>5. Vital' = Vital
  BY <1>1 DEF Vital, Outdated, HeadCommits, ResourceCommits
<1>6. ASSUME OneCompacts
      PROVE  /\ snapshot'.events \subseteq objects' /\ listed' \subseteq objects'
             /\ Covers(snapshot.events, snapshot.cursors)' /\ ListsAbove(snapshot.cursors)'
             /\ SoleOf(p)'
  <2>1. SoleOf(p) /\ listed \subseteq objects
    BY <1>4, <1>6, InHand
  <2>2. /\ compaction[p].snapshot.cursors = mem[p].cursors
        /\ compaction[p].snapshot.events \subseteq objects
        /\ Covers(compaction[p].snapshot.events, compaction[p].snapshot.cursors)
        /\ ListsAbove(mem[p].cursors)
    BY <1>4, <2>1 DEF SoleOf
  <2>3. Covers(snapshot.events, snapshot.cursors)' /\ ListsAbove(snapshot.cursors)'
    BY <1>1, <1>5, <2>2 DEF Covers, ListsAbove
  <2>4. SoleOf(p)'
    BY <1>1, <1>2, <1>4, <1>5, <2>1 DEF SoleOf, Covers, ListsAbove
  <2> QED BY <1>1, <2>1, <2>2, <2>3, <2>4
<1>7. Vital \subseteq objects'
  BY <1>1 DEF IndInv, VitalInv
<1> QED BY <1>1, <1>2, <1>3, <1>4, <1>6, <1>7, CompactionInv

LEMMA DeleteSegmentInv ==
  ASSUME IndInv, NEW p \in Clients, NEW c \in published, DeleteSegment(p, c)
  PROVE  IndInv'
<1>1. /\ pc[p] = "delete" /\ c \in listed /\ c.id <= compaction[p].snapshot.cursors[c.author]
      /\ listed' = listed \ {c}
      /\ UNCHANGED <<objects, snapshot, acks, mem, pc, compaction, published, seen>>
  BY DEF DeleteSegment, Covered
<1>2. TypeOK'
  BY <1>1 DEF IndInv, TypeOK
<1>3. Compacting(p) /\ Compacting(p)'
  BY <1>1 DEF Compacting
<1>4. Vital' = Vital
  BY <1>1 DEF Vital, Outdated, HeadCommits, ResourceCommits
<1>5. ASSUME OneCompacts
      PROVE  /\ snapshot'.events \subseteq objects' /\ listed' \subseteq objects'
             /\ Covers(snapshot.events, snapshot.cursors)' /\ ListsAbove(snapshot.cursors)'
             /\ SoleOf(p)'
  <2>1. /\ SoleOf(p) /\ listed \subseteq objects /\ snapshot.events \subseteq objects
        /\ Covers(snapshot.events, snapshot.cursors) /\ ListsAbove(snapshot.cursors)
    BY <1>1, <1>3, <1>5, InHand
  <2>2. snapshot.cursors = mem[p].cursors /\ compaction[p].snapshot.cursors = mem[p].cursors
    BY <1>1, <1>3, <2>1 DEF SoleOf
  <2>3. ~(c.id > mem[p].cursors[c.author])
    <3>1. c.id \in Nat /\ c.author \in Clients
      BY DEF IndInv, TypeOK, Commit
    <3>2. mem[p].cursors[c.author] \in Nat
      BY <3>1, Bounds
    <3> QED BY <1>1, <2>2, <3>1, <3>2
  <2>4. ListsAbove(mem[p].cursors)'
    BY <1>1, <2>1, <2>3 DEF SoleOf, ListsAbove
  <2>5. ListsAbove(snapshot.cursors)'
    BY <1>1, <2>2, <2>4 DEF ListsAbove
  <2>6. Covers(snapshot.events, snapshot.cursors)'
    BY <1>1, <1>4, <2>1 DEF Covers
  <2>7. SoleOf(p)'
    BY <1>1, <1>3, <1>4, <2>1, <2>4 DEF SoleOf, Covers
  <2> QED BY <1>1, <2>1, <2>5, <2>6, <2>7
<1>6. Vital \subseteq objects'
  BY <1>1 DEF IndInv, VitalInv
<1> QED BY <1>1, <1>2, <1>3, <1>5, <1>6, CompactionInv

LEMMA DeleteObjectInv ==
  ASSUME IndInv, NEW p \in Clients, NEW c \in published, DeleteObject(p, c)
  PROVE  IndInv'
<1>1. /\ pc[p] = "delete" /\ Covered(p) = {} /\ c \in compaction[p].obsolete
      /\ objects' = objects \ {c}
      /\ UNCHANGED <<listed, snapshot, acks, mem, pc, compaction, published, seen>>
  BY DEF DeleteObject
<1>2. TypeOK'
  BY <1>1 DEF IndInv, TypeOK
<1>3. Compacting(p) /\ Compacting(p)'
  BY <1>1 DEF Compacting
<1>4. Vital' = Vital
  BY <1>1 DEF Vital, Outdated, HeadCommits, ResourceCommits
<1>5. ASSUME OneCompacts
      PROVE  /\ snapshot'.events \subseteq objects' /\ listed' \subseteq objects'
             /\ Covers(snapshot.events, snapshot.cursors)' /\ ListsAbove(snapshot.cursors)'
             /\ SoleOf(p)'
  <2>1. /\ SoleOf(p) /\ listed \subseteq objects /\ snapshot.events \subseteq objects
        /\ Covers(snapshot.events, snapshot.cursors) /\ ListsAbove(snapshot.cursors)
    BY <1>1, <1>3, <1>5, InHand
  <2>2. /\ snapshot = compaction[p].snapshot
        /\ compaction[p].snapshot.events \cap compaction[p].obsolete = {}
        /\ c.id <= compaction[p].snapshot.cursors[c.author]
    BY <1>1, <1>3, <2>1 DEF SoleOf
  <2>3. c \notin listed /\ c \notin snapshot.events
    BY <1>1, <2>2 DEF Covered
  <2>4. Covers(snapshot.events, snapshot.cursors)' /\ ListsAbove(snapshot.cursors)'
    BY <1>1, <1>4, <2>1 DEF Covers, ListsAbove
  <2>5. SoleOf(p)'
    BY <1>1, <1>3, <1>4, <2>1, <2>2 DEF SoleOf, Covers, ListsAbove
  <2> QED BY <1>1, <2>1, <2>3, <2>4, <2>5
<1>6. Vital \subseteq objects'
  BY <1>1 DEF IndInv, VitalInv
<1> QED BY <1>1, <1>2, <1>3, <1>5, <1>6, CompactionInv

LEMMA FinishCompactionInv ==
  ASSUME IndInv, NEW p \in Clients, FinishCompaction(p)
  PROVE  IndInv'
<1> DEFINE obsolete == compaction[p].obsolete
           m == [mem[p] EXCEPT !.commits = @ \ obsolete,
                               !.checkpoints = IF obsolete = {} THEN @ ELSE NoCheckpoints]
           label == IF obsolete = {} THEN "fresh" ELSE "idle"
<1>1. /\ pc[p] = "delete" /\ mem' = [mem EXCEPT ![p] = m]
      /\ compaction' = [compaction EXCEPT ![p] = NoCompaction]
      /\ pc' = [pc EXCEPT ![p] = label] /\ objects \cap obsolete = {}
      /\ UNCHANGED <<objects, listed, snapshot, acks, published, seen>>
  BY DEF FinishCompaction, Goto
<1>2. /\ mem[p] \in RuntimeState /\ NoCheckpoints \in [Keys -> Nat]
      /\ label \in {"idle", "fresh"}
  BY DEF IndInv, TypeOK, NoCheckpoints
<1> HIDE DEF label
<1>3. /\ m \in RuntimeState /\ m.commits = mem[p].commits \ obsolete
      /\ m.cursors = mem[p].cursors
  BY <1>2 DEF RuntimeState
<1> HIDE DEF m
<1>4. NoCompaction \in CatalogCompaction /\ NoCompaction.obsolete = {}
  BY DEF NoCompaction, CatalogCompaction, NoSnapshot, NoCursors, Snapshot, Cursors
<1>5. TypeOK'
  <2>1. mem' \in [Clients -> RuntimeState] /\ compaction' \in [Clients -> CatalogCompaction]
    BY <1>1, <1>3, <1>4 DEF IndInv, TypeOK
  <2>2. pc' \in [Clients -> Label]
    BY <1>1, <1>2 DEF IndInv, TypeOK, Label
  <2> QED BY <1>1, <2>1, <2>2 DEF IndInv, TypeOK
<1>6. /\ mem'[p] = m /\ pc'[p] = label /\ compaction'[p] = NoCompaction
      /\ \A q \in Clients : q # p => /\ mem'[q] = mem[q] /\ pc'[q] = pc[q]
                                     /\ compaction'[q] = compaction[q]
  BY <1>1 DEF IndInv, TypeOK
<1>7. Compacting(p) /\ pc'[p] \in {"idle", "fresh"}
  BY <1>1, <1>2, <1>6 DEF Compacting
<1>8. Vital' = Vital
  BY <1>1 DEF Vital, Outdated, HeadCommits, ResourceCommits
<1>9. ASSUME OneCompacts
      PROVE  /\ snapshot'.events \subseteq objects' /\ listed' \subseteq objects'
             /\ Covers(snapshot.events, snapshot.cursors)' /\ ListsAbove(snapshot.cursors)'
             /\ SoleOf(p)'
  <2>1. /\ SoleOf(p) /\ listed \subseteq objects /\ snapshot.events \subseteq objects
        /\ Covers(snapshot.events, snapshot.cursors) /\ ListsAbove(snapshot.cursors)
    BY <1>1, <1>7, <1>9, InHand
  <2>2. Covers(snapshot.events, snapshot.cursors)' /\ ListsAbove(snapshot.cursors)'
    BY <1>1, <1>8, <2>1 DEF Covers, ListsAbove
  <2>3. Covers(mem[p].commits, mem[p].cursors)'
    <3>1. obsolete \cap Vital = {}
      BY DEF IndInv, VitalInv
    <3> QED BY <1>3, <1>6, <1>8, <2>1, <3>1 DEF SoleOf, Covers
  <2>4. ListsAbove(mem[p].cursors)'
    BY <1>1, <1>3, <1>6, <2>1 DEF SoleOf, ListsAbove
  <2>5. mem'[p].commits \subseteq objects'
    BY <1>1, <1>3, <1>6, <2>1 DEF SoleOf
  <2>6. SoleOf(p)'
    BY <1>7, <2>3, <2>4, <2>5 DEF SoleOf, Compacting
  <2> QED BY <1>1, <2>1, <2>2, <2>6
<1>10. Vital \subseteq objects'
  BY <1>1 DEF IndInv, VitalInv
<1>11. mem'[p].commits \subseteq mem[p].commits /\ mem'[p].cursors = mem[p].cursors
  BY <1>3, <1>6
<1> QED BY <1>1, <1>5, <1>6, <1>7, <1>9, <1>10, <1>11, CompactionInv

LEMMA CollideInv ==
  ASSUME IndInv, NEW p \in Clients, Collide(p)
  PROVE  IndInv'
<1>1. /\ pc[p] \in {"remove", "delete"} /\ \E q \in Compactors : q # p
      /\ compaction' = [compaction EXCEPT ![p] = NoCompaction]
      /\ pc' = [pc EXCEPT ![p] = "idle"]
      /\ UNCHANGED <<objects, listed, snapshot, acks, mem, published, seen>>
  BY DEF Collide, Goto
<1>2. Compacting(p)
  BY <1>1 DEF Compacting
<1>3. p \in Compactors
  BY <1>2 DEF IndInv, CallInv
<1>4. ~OneCompacts
  BY <1>1, <1>3 DEF OneCompacts
<1>5. NoCompaction \in CatalogCompaction
  BY DEF NoCompaction, CatalogCompaction, NoSnapshot, NoCursors, Snapshot, Cursors
<1>6. TypeOK'
  BY <1>1, <1>5 DEF IndInv, TypeOK, Label
<1>7. /\ pc'[p] = "idle" /\ compaction'[p] = NoCompaction
      /\ \A q \in Clients : q # p => pc'[q] = pc[q] /\ compaction'[q] = compaction[q]
  BY <1>1 DEF IndInv, TypeOK
<1>8. Vital \subseteq objects'
  BY <1>1 DEF IndInv, VitalInv
<1> QED BY <1>1, <1>2, <1>4, <1>6, <1>7, <1>8, CompactionInv

---------------------------------------------------------------------------
(* Theorems.                                                               *)

\* The inductive invariant holds in every state of every behaviour of clients
\* that reconcile, maintain, compact and retire one another.
THEOREM Invariance == Spec => []IndInv
<1>1. ASSUME IndInv, [Next]_vars PROVE IndInv'
  <2>1. CASE UNCHANGED vars
    BY <1>1, <2>1, Stutter
  <2>2. CASE Next
    <3> PICK p \in Clients :
          \/ Refresh(p)
          \/ \E conflicting \in SUBSET Keys : Acknowledge(p, conflicting)
          \/ \E k \in Keys : Write(p, k)
          \/ BeginMaintain(p)
          \/ \E deferred \in SUBSET Keys : Survey(p, deferred)
          \/ CompactionStep(p) \/ Collide(p)
          \/ \E q \in Clients \ {p} : Retire(p, q)
      BY <2>2 DEF Next
    <3>1. CASE Refresh(p)
      BY <1>1, <3>1, RefreshInv
    <3>2. CASE \E conflicting \in SUBSET Keys : Acknowledge(p, conflicting)
      BY <1>1, <3>2, AcknowledgeInv
    <3>3. CASE \E k \in Keys : Write(p, k)
      BY <1>1, <3>3, WriteInv
    <3>4. CASE BeginMaintain(p)
      BY <1>1, <3>4, BeginMaintainInv
    <3>5. CASE \E deferred \in SUBSET Keys : Survey(p, deferred)
      BY <1>1, <3>5, SurveyInv
    <3>6. CASE CompactionStep(p)
      BY <1>1, <3>6, RemoveLatestInv, RenameLatestInv, FinishCompactionInv, DeleteSegmentInv,
         DeleteObjectInv DEF CompactionStep
    <3>7. CASE Collide(p)
      BY <1>1, <3>7, CollideInv
    <3>8. CASE \E q \in Clients \ {p} : Retire(p, q)
      BY <1>1, <3>8, RetireInv
    <3> QED BY <3>1, <3>2, <3>3, <3>4, <3>5, <3>6, <3>7, <3>8
  <2> QED BY <1>1, <2>1, <2>2
<1> QED BY <1>1, InitInv, PTL DEF Spec

\* Every variable of maintain has its type.
THEOREM TypeCorrect == Spec => []TypeOK
<1>1. IndInv => TypeOK
  BY DEF IndInv
<1> QED BY <1>1, Invariance, PTL

\* No step of compact_catalog, for maintain or for a large catalog, deletes a
\* current version, with any number of clients that compact at once, any clocks
\* and any retention; and the catalog of a single one keeps listing it.
THEOREM CurrentVersionsSurvive == Spec => []HeadsSurvive
<1>1. IndInv => HeadsSurvive
  <2> SUFFICES ASSUME IndInv, NEW k \in Keys, NEW c \in HeadCommits(published, k), ~Outdated(c)
               PROVE  /\ c \in objects
                      /\ OneCompacts /\ NobodyRenames => c \in Discoverable
    BY DEF HeadsSurvive, NobodyRenames
  <2>1. c \in Vital
    BY DEF Vital, HeadCommits, ResourceCommits
  <2>2. c.id \in Nat /\ c.id > 0 /\ c.author \in Clients
    BY <2>1 DEF Vital, IndInv, TypeOK, GraphInv, Commit
  <2>3. NoCursors[c.author] = 0 /\ snapshot.cursors[c.author] \in Nat
    BY <2>2, Bounds DEF NoCursors
  <2>4. ASSUME OneCompacts, NobodyRenames PROVE c \in Discoverable
    <3>1. Covers(snapshot.events, snapshot.cursors) /\ ListsAbove(snapshot.cursors)
      BY <2>4 DEF IndInv, SoleInv
    <3>2. CASE c.id <= snapshot.cursors[c.author]
      BY <2>1, <2>2, <2>3, <3>1, <3>2 DEF Covers, Discoverable, Scanned
    <3>3. CASE c.id > snapshot.cursors[c.author]
      BY <2>1, <2>2, <2>3, <3>1, <3>3 DEF ListsAbove, Vital, Discoverable, Scanned
    <3> QED BY <2>2, <2>3, <3>2, <3>3
  <2> QED BY <2>1, <2>4 DEF IndInv, VitalInv
<1> QED BY <1>1, Invariance, PTL

\* If one client compacts, refresh_remote of a client that knows nothing finds
\* every object that the catalog names, at every step of the compaction.
THEOREM CatalogLoads == Spec => []NewcomersLoad
<1>1. IndInv => NewcomersLoad
  BY DEF IndInv, SoleInv, NewcomersLoad, Discoverable, Scanned
<1> QED BY <1>1, Invariance, PTL

\* Truncation by maintain waits for everybody who matters: a client that wrote
\* a version which is left, and was not retired, has had a version that builds
\* on the checkpoint, whatever other maintainers and writers did meanwhile.
THEOREM TruncationWaits == Spec => CheckpointReached
<1> DEFINE Waits ==
      \A p \in Clients, c \in objects : DeleteObject(p, c) =>
        \A q \in ActiveClients(p, mem[p], c.key) :
          \E d \in seen[q] : IsDescendant(published, d.id, mem[p].checkpoints[c.key])
<1>1. ASSUME IndInv, [Next]_vars PROVE [Waits]_vars
  <2> SUFFICES ASSUME NEW p \in Clients, NEW c \in objects, DeleteObject(p, c)
               PROVE  Reached(p, c.key)
    BY DEF Reached
  <2>1. c \in compaction[p].obsolete
    BY DEF DeleteObject
  <2> QED BY <1>1, <2>1 DEF IndInv, AckInv
<1> QED BY <1>1, Invariance, PTL DEF Spec, CheckpointReached

============================================================================
