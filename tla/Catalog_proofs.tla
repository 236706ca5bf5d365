--------------------------- MODULE Catalog_proofs --------------------------
(***************************************************************************)
(* Proofs about Catalog, for any clients, scopes, threshold and bounds.    *)
(*                                                                         *)
(* Type correctness needs the finiteness and boundedness of what has been  *)
(* published, since scans take maxima and cardinalities.  CursorSound is   *)
(* not inductive by itself: what a scan returns depends on snapshots read  *)
(* earlier, on batches half written and on segments deleted meanwhile.     *)
(* IndInv says of every set of cursors in the system (in memory, saved, in *)
(* a delta, in a snapshot) that the commits it came with hold what is      *)
(* below it, that every number in a cursor is the number of a published    *)
(* commit, and that every published commit is in a segment or below the    *)
(* floor of deleted segments.                                              *)
(*                                                                         *)
(* The refinement of CommitLog needs the converse too, that cursors have   *)
(* reached the commits held; FrontierInv, further below, adds it.          *)
(***************************************************************************)
EXTENDS Catalog, NaturalSets, TLAPS, FiniteSetTheorems

---------------------------------------------------------------------------
(* The inductive invariant.                                                *)

\* With P published and the streams in X excused, a client or a snapshot that
\* holds K may have these cursors of scope s: every entry is the number of a
\* published commit, and K holds what is at or below it.
Sound(P, X, K, cursors, s) ==
  /\ K \subseteq P
  /\ \A a \in Clients :
       \/ cursors[a] = 0
       \/ \E c \in P : c.author = a /\ c.scope = s /\ c.counter = cursors[a]
  /\ \A c \in P :
       c.scope = s /\ <<c.author, s>> \notin X /\ c.counter <= cursors[c.author] => c \in K

PublishedInv ==
  /\ IsFiniteSet(published)
  /\ published \subseteq objects
  /\ \A c \in published : c.counter > 0
  /\ \A c \in published : c.author \notin rewound => c.counter <= mem[c.author].counter
  /\ \E n \in Nat : \A c \in published : c.counter <= n

SegmentInv ==
  \A g \in segments :
    /\ g.events \subseteq published
    /\ \A c \in g.events : c.author = g.author /\ c.scope = g.scope /\ c.counter <= g.last
    /\ \E c \in g.events : c.counter = g.last

\* A commit whose segment is gone is at or below the floor.
FloorInv ==
  \A c \in published :
    (\E g \in segments : c \in g.events) \/ c.counter <= floor[c.scope][c.author]

RemoteSound ==
  \A s \in Scopes :
    /\ Sound(published, excusedStreams, latest[s].events, latest[s].cursors, s)
    /\ Sound(published, excusedStreams, published, floor[s], s)

StateSound(m) ==
  \A s \in Scopes : Sound(published, excusedStreams, m.commits, m.cursors[s], s)

ClientSound(p) ==
  /\ StateSound(mem[p])
  /\ StateSound(disk[p])
  /\ \A s \in Scopes :
       /\ Sound(published, excusedStreams, mem[p].commits \cup delta[p].events,
                delta[p].cursors[s], s)
       /\ Sound(published, excusedStreams, scan[p].view[s].events, scan[p].view[s].cursors, s)
       /\ s \notin scan[p].scopes => scan[p].view[s].cursors = NoCursors
  /\ Sound(published, excusedStreams, snap[p].body.events, snap[p].body.cursors, snap[p].scope)

ClientsSound == \A p \in Clients : ClientSound(p)

\* The batch of p is numbered by p, above everything p has published in the
\* scopes it still has to write.
BatchOf(p) ==
  /\ IsFiniteSet(batch[p])
  /\ batch[p] \subseteq objects
  /\ pc[p] \notin {"publish", "write"} => batch[p] = {} /\ todo[p] = {}
  /\ \A s \in todo[p] : \E c \in batch[p] : c.scope = s
  /\ \A c \in batch[p] :
       /\ c.author = p /\ c.counter > 0 /\ c.counter <= mem[p].counter
       /\ c.scope \notin todo[p] => c \in published
       /\ p \notin rewound /\ c.scope \in todo[p] =>
            \A d \in published : d.author = p /\ d.scope = c.scope => d.counter < c.counter

BatchInv == \A p \in Clients : BatchOf(p)

IndInv ==
  /\ TypeOK /\ PublishedInv /\ SegmentInv /\ FloorInv
  /\ RemoteSound /\ ClientsSound /\ BatchInv

---------------------------------------------------------------------------
(* What a scan computes.                                                   *)

\* The horizon of a scan is the greater of cursor and snapshot cursor.
LEMMA HorizonFacts ==
  ASSUME TypeOK, NEW p \in Clients, NEW a \in Clients, NEW s \in Scopes
  PROVE  /\ Cursor(p, a, s) \in Nat /\ Covered(p, a, s) \in Nat
         /\ Horizon(p, a, s) \in Nat
         /\ Horizon(p, a, s) \in {Cursor(p, a, s), Covered(p, a, s)}
         /\ Horizon(p, a, s) >= Cursor(p, a, s)
         /\ Horizon(p, a, s) >= Covered(p, a, s)
<1>1. Cursor(p, a, s) \in Nat /\ Covered(p, a, s) \in Nat
  BY DEF TypeOK, RuntimeState, Scan, Snapshot, Cursors, Cursor, Covered
<1> QED BY <1>1, MaxOfTwo DEF Horizon

\* The next cursor is the horizon or the last number of a segment read, and
\* at least as great as both.
LEMMA NextCursorFacts ==
  ASSUME TypeOK, PublishedInv, SegmentInv,
         NEW p \in Clients, NEW a \in Clients, NEW s \in Scopes
  PROVE  /\ NextCursors(p)[s][a] \in Nat
         /\ NextCursors(p)[s][a] >= Horizon(p, a, s)
         /\ \/ NextCursors(p)[s][a] = Horizon(p, a, s)
            \/ \E g \in UnreadSegments(p) :
                 g.author = a /\ g.scope = s /\ g.last = NextCursors(p)[s][a]
         /\ \A g \in UnreadSegments(p) :
              g.author = a /\ g.scope = s => g.last <= NextCursors(p)[s][a]
<1> DEFINE L == {g.last : g \in {g \in UnreadSegments(p) : g.author = a /\ g.scope = s}}
           S == {Horizon(p, a, s)} \cup L
<1>1. PICK n \in Nat : \A c \in published : c.counter <= n
  BY DEF PublishedInv
<1>2. L \subseteq Nat /\ \A m \in L : m <= n
  <2>1. ASSUME NEW g \in segments PROVE g.last \in Nat /\ g.last <= n
    <3>1. g.last \in Nat
      BY DEF TypeOK, Segment
    <3>2. PICK c \in published : c.counter = g.last
      BY DEF SegmentInv
    <3> QED BY <1>1, <3>1, <3>2
  <2> QED BY <2>1 DEF UnreadSegments
<1>3. Horizon(p, a, s) \in Nat
  BY HorizonFacts
<1> DEFINE b == IF n >= Horizon(p, a, s) THEN n ELSE Horizon(p, a, s)
<1>4. S \in SUBSET Nat /\ S # {} /\ b \in Nat /\ \A m \in S : m <= b
  BY <1>2, <1>3
<1>5. Max(S) \in S /\ \A m \in S : m <= Max(S)
  BY <1>4, MaxExists
<1>6. NextCursors(p)[s][a] = Max(S)
  BY DEF NextCursors
<1> QED BY <1>2, <1>3, <1>5, <1>6

---------------------------------------------------------------------------
(* How soundness carries over.                                             *)

\* Holding more and excusing more is sound.
LEMMA SoundWeaken ==
  ASSUME NEW P, NEW X, NEW Y, NEW K, NEW L, NEW cursors, NEW s,
         Sound(P, X, K, cursors, s), X \subseteq Y, K \subseteq L, L \subseteq P
  PROVE  Sound(P, Y, L, cursors, s)
BY DEF Sound

\* Cursors that have seen nothing are sound with anything.
LEMMA SoundZero ==
  ASSUME NEW P \in SUBSET Commit, NEW X, NEW K \in SUBSET P, NEW s,
         \A c \in P : c.counter > 0
  PROVE  Sound(P, X, K, NoCursors, s)
BY DEF Sound, NoCursors, Commit

\* Publishing commits numbered above the old ones of their stream keeps every
\* cursor sound, since a cursor is no higher than an old number.
LEMMA SoundGrow ==
  ASSUME NEW P \in SUBSET Commit, NEW N \in SUBSET Commit, NEW X, NEW K,
         NEW cursors \in Cursors, NEW s \in Scopes,
         Sound(P, X, K, cursors, s),
         \A c \in N : c.counter > 0,
         \A c \in N, d \in P :
           c.author = d.author /\ c.scope = d.scope /\ <<c.author, c.scope>> \notin X
             => d.counter < c.counter
  PROVE  Sound(P \cup N, X, K, cursors, s)
<1>1. ASSUME NEW c \in N, c.scope = s, <<c.author, s>> \notin X, c.counter <= cursors[c.author]
      PROVE  FALSE
  <2>1. c.author \in Clients /\ c.counter \in Nat
    BY DEF Commit
  <2>2. cursors[c.author] \in Nat
    BY <2>1 DEF Cursors
  <2>3. PICK d \in P : d.author = c.author /\ d.scope = s /\ d.counter = cursors[c.author]
    BY <1>1, <2>1, <2>2 DEF Sound
  <2> QED BY <1>1, <2>1, <2>2, <2>3
<1> QED BY <1>1 DEF Sound

\* The values a client's variables have when no job uses them.
LEMMA Defaults ==
  /\ NoCursors \in Cursors
  /\ NoSnapshot \in Snapshot /\ NoSnapshot.events = {} /\ NoSnapshot.cursors = NoCursors
  /\ NoScan \in Scan /\ \A s \in Scopes : NoScan.view[s] = NoSnapshot
  /\ NoDelta \in Delta /\ NoDelta.events = {} /\ \A s \in Scopes : NoDelta.cursors[s] = NoCursors
  /\ NoSnap \in SnapshotJob /\ NoSnap.body = NoSnapshot
  /\ FreshState \in RuntimeState /\ FreshState.commits = {} /\ FreshState.counter = 0
  /\ \A s \in Scopes : FreshState.cursors[s] = NoCursors
<1>1. NoCursors \in Cursors
  BY DEF NoCursors, Cursors
<1>2. NoSnapshot \in Snapshot /\ NoSnapshot.events = {} /\ NoSnapshot.cursors = NoCursors
  BY <1>1 DEF NoSnapshot, Snapshot
<1>3. NoScan \in Scan /\ \A s \in Scopes : NoScan.view[s] = NoSnapshot
  BY <1>2 DEF NoScan, Scan
<1>4. NoDelta \in Delta /\ NoDelta.events = {} /\ \A s \in Scopes : NoDelta.cursors[s] = NoCursors
  BY <1>1 DEF NoDelta, Delta
<1>5. NoSnap \in SnapshotJob /\ NoSnap.body = NoSnapshot
  BY <1>2, CatalogAssumption DEF NoSnap, SnapshotJob
<1>6. FreshState \in RuntimeState /\ FreshState.commits = {} /\ FreshState.counter = 0
  BY <1>1 DEF FreshState, RuntimeState
<1>7. \A s \in Scopes : FreshState.cursors[s] = NoCursors
  BY DEF FreshState
<1> QED BY <1>1, <1>2, <1>3, <1>4, <1>5, <1>6, <1>7

---------------------------------------------------------------------------
(* Steps that publish nothing leave alone what they do not touch.          *)

\* Excuses only grow.
LEMMA ExcusesGrow ==
  ASSUME rewound \subseteq rewound', holed \subseteq holed'
  PROVE  excusedStreams \subseteq excusedStreams'
BY DEF excusedStreams, Trusted

\* The snapshots and the floor.
LEMMA RemoteFrame ==
  ASSUME RemoteSound, published' = published, excusedStreams \subseteq excusedStreams',
         latest' = latest, floor' = floor
  PROVE  RemoteSound'
<1>1. ASSUME NEW K, NEW cursors, NEW s, Sound(published, excusedStreams, K, cursors, s)
      PROVE  Sound(published', excusedStreams', K, cursors, s)
  BY <1>1, SoundWeaken DEF Sound
<1> QED BY <1>1 DEF RemoteSound

\* A client that takes no step.
LEMMA ClientFrame ==
  ASSUME NEW q \in Clients, ClientSound(q),
         published' = published, excusedStreams \subseteq excusedStreams',
         mem'[q] = mem[q], disk'[q] = disk[q], delta'[q] = delta[q], scan'[q] = scan[q],
         snap'[q] = snap[q]
  PROVE  ClientSound(q)'
<1>1. ASSUME NEW K, NEW cursors, NEW s, Sound(published, excusedStreams, K, cursors, s)
      PROVE  Sound(published', excusedStreams', K, cursors, s)
  BY <1>1, SoundWeaken DEF Sound
<1> QED BY <1>1 DEF ClientSound, StateSound

\* Its batch.
LEMMA BatchFrame ==
  ASSUME NEW q \in Clients, BatchOf(q),
         published' = published, rewound \subseteq rewound', objects \subseteq objects',
         mem'[q].counter = mem[q].counter, batch'[q] = batch[q], todo'[q] = todo[q],
         pc'[q] = pc[q] \/ (batch[q] = {} /\ todo[q] = {})
  PROVE  BatchOf(q)'
BY DEF BatchOf

---------------------------------------------------------------------------
(* Preservation of the invariant, action by action.                        *)

\* Reading the snapshots copies sound snapshots.
LEMMA ReadSnapshotsStep ==
  ASSUME IndInv, NEW p \in Clients, NEW S \in SUBSET Scopes, ReadSnapshots(p, S)
  PROVE  IndInv'
<1> USE DEF IndInv, ReadSnapshots, remoteVars, historyVars, Goto
<1>1. /\ scan' \in [Clients -> Scan]
      /\ \A q \in Clients \ {p} : scan'[q] = scan[q]
      /\ \A s \in Scopes : /\ scan'[p].view[s] \in {latest[s], NoSnapshot}
                            /\ s \notin scan'[p].scopes => scan'[p].view[s] = NoSnapshot
  BY Defaults DEF TypeOK, Scan
<1>2. TypeOK'
  BY <1>1 DEF TypeOK
<1>3. PublishedInv' /\ SegmentInv' /\ FloorInv'
  BY DEF PublishedInv, SegmentInv, FloorInv
<1>4. excusedStreams \subseteq excusedStreams'
  BY ExcusesGrow
<1>5. RemoteSound'
  BY <1>4, RemoteFrame
<1>6. ClientsSound'
  <2>1. ASSUME NEW q \in Clients, q # p PROVE ClientSound(q)'
    BY <1>1, <1>4, <2>1, ClientFrame DEF ClientsSound
  <2>2. excusedStreams' = excusedStreams
    BY DEF excusedStreams, Trusted
  <2>3. ASSUME NEW s \in Scopes
        PROVE  /\ Sound(published', excusedStreams', scan'[p].view[s].events,
                         scan'[p].view[s].cursors, s)
               /\ s \notin scan'[p].scopes => scan'[p].view[s].cursors = NoCursors
    <3>1. Sound(published, excusedStreams, {}, NoCursors, s)
      BY SoundZero DEF TypeOK, PublishedInv
    <3> QED BY <1>1, <2>2, <3>1, Defaults DEF RemoteSound
  <2>4. ClientSound(p)'
    BY <2>2, <2>3 DEF ClientsSound, ClientSound, StateSound
  <2> QED BY <2>1, <2>4 DEF ClientsSound
<1>7. BatchInv'
  BY BatchFrame DEF BatchInv, BatchOf, TypeOK
<1> QED BY <1>2, <1>3, <1>5, <1>6, <1>7

\* Integrating a delta: the delta was sound with what it adds to.
LEMMA LoadCommitsStep ==
  ASSUME IndInv, NEW p \in Clients, LoadCommits(p)
  PROVE  IndInv'
<1> USE DEF IndInv, LoadCommits, remoteVars, historyVars, Goto
<1>0. mem[p] \in RuntimeState /\ delta[p] \in Delta
  BY DEF TypeOK
<1>1. /\ mem'[p] = [mem[p] EXCEPT !.commits = mem[p].commits \cup delta[p].events,
                                  !.cursors = delta[p].cursors]
      /\ \A q \in Clients \ {p} : mem'[q] = mem[q]
      /\ delta'[p] = NoDelta
      /\ \A q \in Clients \ {p} : delta'[q] = delta[q]
  BY DEF TypeOK
<1>2. /\ mem'[p].counter = mem[p].counter
      /\ mem'[p].commits = mem[p].commits \cup delta[p].events
      /\ mem'[p].cursors = delta[p].cursors
      /\ mem'[p] \in RuntimeState
  <2>1. mem[p].commits \cup delta[p].events \subseteq Commit
    BY <1>0 DEF RuntimeState, Delta
  <2>2. delta[p].cursors \in [Scopes -> Cursors]
    BY <1>0 DEF Delta
  <2>3. ASSUME NEW n, n = [mem[p] EXCEPT !.commits = mem[p].commits \cup delta[p].events,
                                         !.cursors = delta[p].cursors]
        PROVE  /\ n.counter = mem[p].counter
               /\ n.commits = mem[p].commits \cup delta[p].events
               /\ n.cursors = delta[p].cursors
               /\ n \in RuntimeState
    BY ONLY <1>0, <2>1, <2>2, <2>3 DEF RuntimeState
  <2> QED BY ONLY <1>1, <2>3
<1>3. TypeOK'
  <2>1. mem' \in [Clients -> RuntimeState]
    BY <1>1, <1>2 DEF TypeOK
  <2>2. delta' \in [Clients -> Delta]
    BY Defaults DEF TypeOK
  <2> QED BY <2>1, <2>2 DEF TypeOK
<1>4. PublishedInv' /\ SegmentInv' /\ FloorInv'
  <2>1. \A q \in Clients : mem'[q].counter = mem[q].counter
    BY <1>1, <1>2
  <2> QED BY <2>1 DEF PublishedInv, SegmentInv, FloorInv, TypeOK, Commit
<1>5. excusedStreams' = excusedStreams
  BY DEF excusedStreams, Trusted
<1>6. RemoteSound'
  BY <1>5, RemoteFrame
<1>7. ClientsSound'
  <2>1. ASSUME NEW q \in Clients, q # p PROVE ClientSound(q)'
    BY <1>1, <1>5, <2>1, ClientFrame DEF ClientsSound
  <2>2. mem[p].commits \cup delta[p].events \subseteq published
    BY CatalogAssumption DEF ClientsSound, ClientSound, Sound
  <2>3. ASSUME NEW s \in Scopes
        PROVE  Sound(published', excusedStreams', mem'[p].commits \cup delta'[p].events,
                     delta'[p].cursors[s], s)
    BY <1>1, <1>2, <1>5, <2>2, SoundZero, Defaults DEF TypeOK, PublishedInv
  <2>4. StateSound(mem[p])'
    BY <1>2, <1>5 DEF ClientsSound, ClientSound, StateSound
  <2>5. ClientSound(p)'
    BY <1>5, <2>3, <2>4 DEF ClientsSound, ClientSound, StateSound
  <2> QED BY <2>1, <2>5 DEF ClientsSound
<1>8. BatchInv'
  <2>1. ASSUME NEW q \in Clients PROVE BatchOf(q)'
    BY <1>1, <1>2, BatchFrame DEF BatchInv, BatchOf, TypeOK
  <2> QED BY <2>1 DEF BatchInv
<1> QED BY <1>3, <1>4, <1>6, <1>7, <1>8

\* Saving copies the state in memory.
LEMMA SaveStep ==
  ASSUME IndInv, NEW p \in Clients, Journal(p) \/ Save(p)
  PROVE  IndInv'
<1> USE DEF IndInv, Journal, Save, remoteVars, jobVars, historyVars, Goto
<1>1. /\ disk'[p] = mem[p]
      /\ \A q \in Clients \ {p} : disk'[q] = disk[q]
      /\ UNCHANGED <<remoteVars, mem, jobVars, life, faults, historyVars>>
      /\ pc' = [pc EXCEPT ![p] = "idle"] /\ pc[p] \notin {"publish", "write"}
  BY DEF TypeOK
<1>2. TypeOK'
  <2>1. disk' \in [Clients -> RuntimeState]
    BY DEF TypeOK
  <2> QED BY <1>1, <2>1 DEF TypeOK
<1>3. PublishedInv' /\ SegmentInv' /\ FloorInv'
  BY <1>1 DEF PublishedInv, SegmentInv, FloorInv
<1>4. excusedStreams' = excusedStreams
  BY <1>1 DEF excusedStreams, Trusted
<1>5. RemoteSound'
  BY <1>1, <1>4, RemoteFrame
<1>6. ClientsSound'
  <2>1. ASSUME NEW q \in Clients, q # p PROVE ClientSound(q)'
    BY <1>1, <1>4, <2>1, ClientFrame DEF ClientsSound
  <2>2. ClientSound(p)'
    BY <1>1, <1>4 DEF ClientsSound, ClientSound, StateSound
  <2> QED BY <2>1, <2>2 DEF ClientsSound
<1>7. BatchInv'
  <2>1. ASSUME NEW q \in Clients PROVE BatchOf(q)'
    BY <1>1, BatchFrame DEF BatchInv, BatchOf, TypeOK
  <2> QED BY <2>1 DEF BatchInv
<1> QED BY <1>2, <1>3, <1>5, <1>6, <1>7

\* The author integrates a batch whose segments are all written.
LEMMA IntegrateStep ==
  ASSUME IndInv, NEW p \in Clients, Integrate(p)
  PROVE  IndInv'
<1> USE DEF IndInv, Integrate, remoteVars, historyVars, Goto
<1>0. mem[p] \in RuntimeState /\ batch[p] \subseteq Commit /\ batch[p] \subseteq published
  BY DEF TypeOK, BatchInv, BatchOf
<1>1. /\ mem'[p] = [mem[p] EXCEPT !.commits = mem[p].commits \cup batch[p]]
      /\ \A q \in Clients \ {p} : mem'[q] = mem[q]
  BY DEF TypeOK
<1>2. /\ mem'[p].counter = mem[p].counter
      /\ mem'[p].commits = mem[p].commits \cup batch[p]
      /\ mem'[p].cursors = mem[p].cursors
      /\ mem'[p] \in RuntimeState
  <2>1. mem[p].commits \cup batch[p] \subseteq Commit
    BY <1>0 DEF RuntimeState
  <2>2. ASSUME NEW n, n = [mem[p] EXCEPT !.commits = mem[p].commits \cup batch[p]]
        PROVE  /\ n.counter = mem[p].counter
               /\ n.commits = mem[p].commits \cup batch[p]
               /\ n.cursors = mem[p].cursors
               /\ n \in RuntimeState
    BY ONLY <1>0, <2>1, <2>2 DEF RuntimeState
  <2> QED BY ONLY <1>1, <2>2
<1>3. TypeOK'
  <2>1. mem' \in [Clients -> RuntimeState]
    BY <1>1, <1>2 DEF TypeOK
  <2> QED BY <2>1 DEF TypeOK
<1>4. PublishedInv' /\ SegmentInv' /\ FloorInv'
  <2>1. \A q \in Clients : mem'[q].counter = mem[q].counter
    BY <1>1, <1>2
  <2> QED BY <2>1 DEF PublishedInv, SegmentInv, FloorInv, TypeOK, Commit
<1>5. excusedStreams' = excusedStreams
  BY DEF excusedStreams, Trusted
<1>6. RemoteSound'
  BY <1>5, RemoteFrame
<1>7. ClientsSound'
  <2>1. ASSUME NEW q \in Clients, q # p PROVE ClientSound(q)'
    BY <1>1, <1>5, <2>1, ClientFrame DEF ClientsSound
  <2>2. ASSUME NEW s \in Scopes
        PROVE  /\ Sound(published, excusedStreams, mem'[p].commits, mem[p].cursors[s], s)
               /\ Sound(published, excusedStreams, mem'[p].commits \cup delta[p].events,
                        delta[p].cursors[s], s)
    <3>1. /\ Sound(published, excusedStreams, mem[p].commits, mem[p].cursors[s], s)
          /\ Sound(published, excusedStreams, mem[p].commits \cup delta[p].events,
                   delta[p].cursors[s], s)
      BY DEF ClientsSound, ClientSound, StateSound
    <3>2. /\ mem'[p].commits \subseteq published
          /\ mem'[p].commits \cup delta[p].events \subseteq published
      BY <1>0, <1>2, <3>1 DEF Sound
    <3> QED BY <1>2, <3>1, <3>2, SoundWeaken
  <2>3. ClientSound(p)'
    BY <1>2, <1>5, <2>2 DEF ClientsSound, ClientSound, StateSound
  <2> QED BY <2>1, <2>3 DEF ClientsSound
<1>8. BatchInv'
  <2>1. ASSUME NEW q \in Clients, q # p PROVE BatchOf(q)'
    BY <1>1, <2>1, BatchFrame DEF BatchInv, TypeOK
  <2>2. BatchOf(p)'
    <3>1. batch'[p] = {} /\ todo'[p] = {}
      BY DEF TypeOK
    <3> QED BY <3>1, FS_EmptySet DEF BatchOf
  <2> QED BY <2>1, <2>2 DEF BatchInv
<1> QED BY <1>3, <1>4, <1>6, <1>7, <1>8

\* A snapshot of sound state is sound, and so is the lack of one.
LEMMA BeginSnapshotStep ==
  ASSUME IndInv, NEW p \in Clients, NEW s \in Scopes, BeginSnapshot(p, s)
  PROVE  IndInv'
<1> USE DEF IndInv, BeginSnapshot, historyVars, Goto
<1> DEFINE body == [events |-> InScope(mem[p].commits, s), cursors |-> mem[p].cursors[s]]
<1>1. /\ snap'[p] = [scope |-> s, body |-> body]
      /\ \A q \in Clients \ {p} : snap'[q] = snap[q]
  BY DEF TypeOK
<1>2. body \in Snapshot /\ InScope(mem[p].commits, s) \subseteq mem[p].commits
  BY DEF TypeOK, RuntimeState, Snapshot, InScope
<1>3. TypeOK'
  <2>1. snap' \in [Clients -> SnapshotJob]
    BY <1>2 DEF TypeOK, SnapshotJob
  <2>2. latest' \in [Scopes -> Snapshot]
    BY Defaults DEF TypeOK
  <2> QED BY <2>1, <2>2 DEF TypeOK
<1>4. PublishedInv' /\ SegmentInv' /\ FloorInv'
  BY DEF PublishedInv, SegmentInv, FloorInv
<1>5. excusedStreams' = excusedStreams
  BY DEF excusedStreams, Trusted
<1>6. RemoteSound'
  <2>1. Sound(published, excusedStreams, {}, NoCursors, s)
    BY SoundZero DEF TypeOK, PublishedInv
  <2>2. \A t \in Scopes : latest'[t] = IF t = s THEN NoSnapshot ELSE latest[t]
    BY DEF TypeOK
  <2>3. \A t \in Scopes : Sound(published, excusedStreams, latest'[t].events, latest'[t].cursors, t)
    <3> TAKE t \in Scopes
    <3>1. CASE t = s
      BY <2>1, <2>2, <3>1, Defaults
    <3>2. CASE t # s
      BY <2>2, <3>2 DEF RemoteSound
    <3> QED BY <3>1, <3>2
  <2> QED BY <1>5, <2>3 DEF RemoteSound
<1>7. ClientsSound'
  <2>1. ASSUME NEW q \in Clients, q # p PROVE ClientSound(q)'
    BY <1>1, <1>5, <2>1, ClientFrame DEF ClientsSound
  <2>2. Sound(published, excusedStreams, body.events, body.cursors, s)
    <3>1. Sound(published, excusedStreams, mem[p].commits, mem[p].cursors[s], s)
      BY DEF ClientsSound, ClientSound, StateSound
    <3> QED BY <3>1 DEF Sound, InScope
  <2>3. Sound(published', excusedStreams', snap'[p].body.events, snap'[p].body.cursors,
              snap'[p].scope)
    <3>1. snap'[p].body = body /\ snap'[p].scope = s /\ published' = published
      BY <1>1
    <3> HIDE DEF body
    <3> QED BY <1>5, <2>2, <3>1
  <2>4. /\ StateSound(mem[p])' /\ StateSound(disk[p])'
        /\ \A t \in Scopes :
             /\ Sound(published, excusedStreams, mem[p].commits \cup delta[p].events,
                      delta[p].cursors[t], t)'
             /\ Sound(published, excusedStreams, scan[p].view[t].events,
                      scan[p].view[t].cursors, t)'
             /\ (t \notin scan[p].scopes => scan[p].view[t].cursors = NoCursors)'
    BY <1>5 DEF ClientsSound, ClientSound, StateSound
  <2>5. ClientSound(p)'
    BY <2>3, <2>4 DEF ClientSound
  <2> QED BY <2>1, <2>5 DEF ClientsSound
<1>8. BatchInv'
  <2>1. ASSUME NEW q \in Clients PROVE BatchOf(q)'
    BY BatchFrame DEF BatchInv, BatchOf, TypeOK
  <2> QED BY <2>1 DEF BatchInv
<1> QED BY <1>3, <1>4, <1>6, <1>7, <1>8

\* Installing the snapshot.
LEMMA RenameLatestStep ==
  ASSUME IndInv, NEW p \in Clients, RenameLatest(p)
  PROVE  IndInv'
<1> USE DEF IndInv, RenameLatest, jobVars, historyVars, Goto
<1>1. /\ snap[p].scope \in Scopes /\ snap[p].body \in Snapshot
      /\ \A t \in Scopes : latest'[t] = IF t = snap[p].scope THEN snap[p].body ELSE latest[t]
  BY DEF TypeOK, SnapshotJob
<1>2. TypeOK'
  <2>1. latest' \in [Scopes -> Snapshot]
    BY <1>1 DEF TypeOK
  <2> QED BY <2>1 DEF TypeOK
<1>3. PublishedInv' /\ SegmentInv' /\ FloorInv'
  BY DEF PublishedInv, SegmentInv, FloorInv
<1>4. excusedStreams' = excusedStreams
  BY DEF excusedStreams, Trusted
<1>5. RemoteSound'
  BY <1>1, <1>4 DEF RemoteSound, ClientsSound, ClientSound
<1>6. ClientsSound'
  <2>1. ASSUME NEW q \in Clients PROVE ClientSound(q)'
    BY <1>4, ClientFrame DEF ClientsSound
  <2> QED BY <2>1 DEF ClientsSound
<1>7. BatchInv'
  <2>1. ASSUME NEW q \in Clients PROVE BatchOf(q)'
    BY BatchFrame DEF BatchInv, BatchOf, TypeOK
  <2> QED BY <2>1 DEF BatchInv
<1> QED BY <1>2, <1>3, <1>5, <1>6, <1>7

\* Finishing a snapshot resets the count of events.
LEMMA FinishSnapshotStep ==
  ASSUME IndInv, NEW p \in Clients, FinishSnapshot(p)
  PROVE  IndInv'
<1> USE DEF IndInv, FinishSnapshot, remoteVars, historyVars, Goto
<1>0. mem[p] \in RuntimeState /\ snap[p].scope \in Scopes
  BY DEF TypeOK, SnapshotJob
<1>1. /\ mem'[p] = [mem[p] EXCEPT !.since[snap[p].scope] = 0]
      /\ \A q \in Clients \ {p} : mem'[q] = mem[q]
      /\ snap'[p] = NoSnap
      /\ \A q \in Clients \ {p} : snap'[q] = snap[q]
  BY DEF TypeOK
<1>2. /\ mem'[p].counter = mem[p].counter
      /\ mem'[p].commits = mem[p].commits
      /\ mem'[p].cursors = mem[p].cursors
      /\ mem'[p] \in RuntimeState
  <2>1. ASSUME NEW n, NEW s \in Scopes, n = [mem[p] EXCEPT !.since[s] = 0]
        PROVE  /\ n.counter = mem[p].counter
               /\ n.commits = mem[p].commits
               /\ n.cursors = mem[p].cursors
               /\ n \in RuntimeState
    BY ONLY <1>0, <2>1 DEF RuntimeState
  <2> QED BY ONLY <1>0, <1>1, <2>1
<1>3. TypeOK'
  <2>1. mem' \in [Clients -> RuntimeState]
    BY <1>1, <1>2 DEF TypeOK
  <2>2. snap' \in [Clients -> SnapshotJob]
    BY Defaults DEF TypeOK
  <2> QED BY <2>1, <2>2 DEF TypeOK
<1>4. PublishedInv' /\ SegmentInv' /\ FloorInv'
  <2>1. \A q \in Clients : mem'[q].counter = mem[q].counter
    BY <1>1, <1>2
  <2> QED BY <2>1 DEF PublishedInv, SegmentInv, FloorInv, TypeOK, Commit
<1>5. excusedStreams' = excusedStreams
  BY DEF excusedStreams, Trusted
<1>6. RemoteSound'
  BY <1>5, RemoteFrame
<1>7. ClientsSound'
  <2>1. ASSUME NEW q \in Clients, q # p PROVE ClientSound(q)'
    BY <1>1, <1>5, <2>1, ClientFrame DEF ClientsSound
  <2>2. Sound(published, excusedStreams, snap[p].body.events, snap[p].body.cursors,
              snap[p].scope)'
    BY <1>1, SoundZero, Defaults DEF TypeOK, PublishedInv
  <2>3. ClientSound(p)'
    BY <1>2, <1>5, <2>2 DEF ClientsSound, ClientSound, StateSound
  <2> QED BY <2>1, <2>3 DEF ClientsSound
<1>8. BatchInv'
  <2>1. ASSUME NEW q \in Clients PROVE BatchOf(q)'
    BY <1>1, <1>2, BatchFrame DEF BatchInv, BatchOf, TypeOK
  <2> QED BY <2>1 DEF BatchInv
<1> QED BY <1>3, <1>4, <1>6, <1>7, <1>8

\* An abandoned job leaves the defaults behind, which are sound.  This holds
\* of a failed call and of a crash alike, whose state in memory is sound too.
LEMMA AbandonStep ==
  ASSUME IndInv, NEW p \in Clients, AbandonJob(p),
         UNCHANGED <<remoteVars, disk, published, floor, holed>>,
         mem' \in [Clients -> RuntimeState], life' \in [Clients -> Nat], faults' \in Nat,
         mem'[p] \in {mem[p], disk[p]},
         \A q \in Clients \ {p} : mem'[q] = mem[q],
         rewound \subseteq rewound', rewound' \subseteq Clients,
         \A c \in published : c.author \notin rewound' => c.counter <= mem'[c.author].counter
  PROVE  IndInv'
<1> USE DEF IndInv, AbandonJob, remoteVars, Goto
<1>1. /\ scan'[p] = NoScan /\ delta'[p] = NoDelta /\ batch'[p] = {} /\ todo'[p] = {}
      /\ snap'[p] = NoSnap
      /\ \A q \in Clients \ {p} :
           /\ scan'[q] = scan[q] /\ delta'[q] = delta[q] /\ batch'[q] = batch[q]
           /\ todo'[q] = todo[q] /\ snap'[q] = snap[q] /\ pc'[q] = pc[q]
  BY DEF TypeOK
<1>2. TypeOK'
  <2>1. /\ scan' \in [Clients -> Scan] /\ delta' \in [Clients -> Delta]
        /\ batch' \in [Clients -> SUBSET Commit] /\ todo' \in [Clients -> SUBSET Scopes]
        /\ snap' \in [Clients -> SnapshotJob]
    BY Defaults DEF TypeOK
  <2> QED BY <2>1 DEF TypeOK
<1>3. PublishedInv' /\ SegmentInv' /\ FloorInv'
  BY DEF PublishedInv, SegmentInv, FloorInv
<1>4. excusedStreams \subseteq excusedStreams'
  BY ExcusesGrow
<1>5. RemoteSound'
  BY <1>4, RemoteFrame
<1>6. ClientsSound'
  <2>1. ASSUME NEW q \in Clients, q # p PROVE ClientSound(q)'
    BY <1>1, <1>4, <2>1, ClientFrame DEF ClientsSound
  <2>2. ASSUME NEW K, NEW cursors, NEW s, Sound(published, excusedStreams, K, cursors, s)
        PROVE  Sound(published', excusedStreams', K, cursors, s)
    BY <1>4, <2>2, SoundWeaken DEF Sound
  <2>3. StateSound(mem[p])' /\ StateSound(disk[p])'
    BY <2>2 DEF ClientsSound, ClientSound, StateSound
  <2>4. ASSUME NEW K \in SUBSET published, NEW s
        PROVE  Sound(published', excusedStreams', K, NoCursors, s)
    BY SoundZero DEF TypeOK, PublishedInv
  <2>5. mem'[p].commits \subseteq published
    BY <2>3, CatalogAssumption DEF StateSound, Sound
  <2>6. ClientSound(p)'
    BY <1>1, <2>3, <2>4, <2>5, Defaults DEF ClientSound
  <2> QED BY <2>1, <2>6 DEF ClientsSound
<1>7. BatchInv'
  <2>1. ASSUME NEW q \in Clients, q # p PROVE BatchOf(q)'
    BY <1>1, <2>1, BatchFrame DEF BatchInv
  <2>2. BatchOf(p)'
    BY <1>1, FS_EmptySet DEF BatchOf
  <2> QED BY <2>1, <2>2 DEF BatchInv
<1> QED BY <1>2, <1>3, <1>5, <1>6, <1>7

\* A failed call.
LEMMA FailStep ==
  ASSUME IndInv, NEW p \in Clients, Fail(p)
  PROVE  IndInv'
BY AbandonStep DEF Fail, IndInv, TypeOK, PublishedInv, historyVars

\* A call that fails at a file it cannot parse.
LEMMA MeetTornStep ==
  ASSUME IndInv, NEW p \in Clients, MeetTorn(p)
  PROVE  IndInv'
BY AbandonStep DEF MeetTorn, IndInv, TypeOK, PublishedInv, historyVars

\* A crash: an author that restarts below a number it has published is from
\* now on excused.
LEMMA CrashStep ==
  ASSUME IndInv, NEW p \in Clients, Crash(p)
  PROVE  IndInv'
<1> USE DEF Crash, IndInv
<1>1. /\ mem'[p] = disk[p]
      /\ \A q \in Clients \ {p} : mem'[q] = mem[q]
      /\ mem' \in [Clients -> RuntimeState]
      /\ life' \in [Clients -> Nat] /\ faults' \in Nat
  BY DEF TypeOK
<1>2. rewound \subseteq rewound' /\ rewound' \subseteq Clients
  BY DEF TypeOK
<1>3. ASSUME NEW c \in published, c.author \notin rewound'
      PROVE  c.counter <= mem'[c.author].counter
  <2>1. c.author \in Clients /\ c.counter \in Nat /\ disk[p].counter \in Nat
    BY DEF TypeOK, Commit, RuntimeState
  <2>2. CASE c.author = p
    BY <1>1, <1>3, <2>1, <2>2
  <2>3. CASE c.author # p
    BY <1>1, <1>2, <1>3, <2>1, <2>3 DEF PublishedInv
  <2> QED BY <2>2, <2>3
<1> QED BY <1>1, <1>2, <1>3, AbandonStep

\* A new batch is numbered above everything its author has published, unless
\* the author was rewound.
LEMMA BeginPublishStep ==
  ASSUME IndInv, NEW p \in Clients, NEW n \in 1..MaxBatch, NEW assign \in [1..n -> Scopes],
         BeginPublish(p, n, assign)
  PROVE  IndInv'
<1> USE DEF IndInv, historyVars
<1> DEFINE base == mem[p].counter
           commit(i) == [author |-> p, counter |-> base + i, scope |-> assign[i],
                         life |-> life[p]]
           commits == {commit(i) : i \in 1..n}
           scopes == {assign[i] : i \in 1..n}
<1>0. mem[p] \in RuntimeState /\ base \in Nat /\ n \in Nat /\ life[p] \in Nat
  BY CatalogAssumption DEF TypeOK, RuntimeState
<1>1. /\ pc[p] = "idle" /\ pc'[p] = "publish"
      /\ mem'[p] = [mem[p] EXCEPT !.counter = base + n]
      /\ batch'[p] = commits /\ todo'[p] = scopes
      /\ objects' = objects \cup commits
      /\ \A q \in Clients \ {p} :
           mem'[q] = mem[q] /\ batch'[q] = batch[q] /\ todo'[q] = todo[q] /\ pc'[q] = pc[q]
      /\ UNCHANGED <<segments, torn, latest, disk, scan, delta, snap, life, faults, historyVars>>
  BY DEF BeginPublish, TypeOK, Goto
<1>2. /\ mem'[p].counter = base + n
      /\ mem'[p].commits = mem[p].commits
      /\ mem'[p].cursors = mem[p].cursors
      /\ mem'[p] \in RuntimeState
  <2>1. ASSUME NEW m, NEW k \in Nat, m = [mem[p] EXCEPT !.counter = k]
        PROVE  m.counter = k /\ m.commits = mem[p].commits /\ m.cursors = mem[p].cursors
               /\ m \in RuntimeState
    BY ONLY <1>0, <2>1 DEF RuntimeState
  <2>2. base + n \in Nat
    BY <1>0
  <2> HIDE DEF base
  <2> QED BY ONLY <1>1, <2>1, <2>2
<1>3. ASSUME NEW i \in 1..n PROVE commit(i) \in Commit
  BY <1>0, <1>3 DEF Commit
<1>4. \A c \in commits : /\ c \in Commit /\ c.author = p /\ c.scope \in scopes
                         /\ c.counter > base /\ c.counter <= base + n
  BY <1>0, <1>3
<1>5. IsFiniteSet(commits)
  <2> DEFINE f == [i \in 1..n |-> commit(i)]
  <2>1. IsFiniteSet(1..n)
    BY <1>0, FS_Interval
  <2>2. f \in Surjection(1..n, commits)
    BY DEF Surjection
  <2> QED BY <2>1, <2>2, FS_Surjection
<1> HIDE DEF commits, base, commit
<1>6. scopes \subseteq Scopes /\ \A s \in scopes : \E c \in commits : c.scope = s
  <2>1. ASSUME NEW i \in 1..n
        PROVE  assign[i] \in Scopes /\ commit(i) \in commits /\ commit(i).scope = assign[i]
    BY DEF commits, commit
  <2> QED BY <2>1
<1> HIDE DEF scopes
<1>7. TypeOK'
  <2>1. mem' \in [Clients -> RuntimeState]
    BY <1>1, <1>2 DEF BeginPublish, TypeOK
  <2>2. batch' \in [Clients -> SUBSET Commit] /\ todo' \in [Clients -> SUBSET Scopes]
    <3>1. batch' = [batch EXCEPT ![p] = commits] /\ todo' = [todo EXCEPT ![p] = scopes]
      BY DEF BeginPublish, commits, commit, base, scopes
    <3>2. commits \in SUBSET Commit /\ scopes \in SUBSET Scopes
      BY <1>4, <1>6
    <3> QED BY ONLY TypeOK, <3>1, <3>2 DEF TypeOK
  <2>3. objects' \subseteq Commit
    BY <1>1, <1>4 DEF TypeOK
  <2>4. pc' \in [Clients -> {"idle", "segments", "load", "fresh", "publish", "write", "save",
                             "rename", "delete"}]
    BY DEF TypeOK, BeginPublish, Goto
  <2> QED BY <1>1, <2>1, <2>2, <2>3, <2>4 DEF TypeOK
<1>8. PublishedInv' /\ SegmentInv' /\ FloorInv'
  <2>1. \A q \in Clients :
          /\ mem[q].counter \in Nat /\ mem'[q].counter \in Nat
          /\ mem'[q].counter >= mem[q].counter
    <3>1. ASSUME NEW q \in Clients PROVE mem[q].counter \in Nat
      BY DEF TypeOK, RuntimeState
    <3>2. ASSUME NEW q \in Clients, q # p PROVE mem'[q].counter = mem[q].counter
      BY <1>1, <3>2
    <3>3. base + n \in Nat /\ base + n >= base /\ mem[p].counter = base
      BY <1>0 DEF base
    <3> QED BY <1>2, <3>1, <3>2, <3>3
  <2>2. ASSUME NEW c \in published, c.author \notin rewound
        PROVE  c.counter <= mem'[c.author].counter
    <3>1. c.author \in Clients /\ c.counter \in Nat /\ c.counter <= mem[c.author].counter
      BY <2>2 DEF PublishedInv, TypeOK, Commit
    <3> QED BY <2>1, <3>1
  <2> QED BY <1>1, <2>2 DEF PublishedInv, SegmentInv, FloorInv
<1>9. excusedStreams' = excusedStreams
  BY <1>1 DEF excusedStreams, Trusted
<1>10. RemoteSound'
  BY <1>1, <1>9, RemoteFrame
<1>11. ClientsSound'
  <2>1. ASSUME NEW q \in Clients, q # p PROVE ClientSound(q)'
    BY <1>1, <1>9, <2>1, ClientFrame DEF ClientsSound
  <2>2. ClientSound(p)'
    BY <1>1, <1>2, <1>9 DEF ClientsSound, ClientSound, StateSound
  <2> QED BY <2>1, <2>2 DEF ClientsSound
<1>12. BatchInv'
  <2>1. ASSUME NEW q \in Clients, q # p PROVE BatchOf(q)'
    BY <1>1, <2>1, BatchFrame DEF BatchInv
  <2>2. ASSUME NEW c \in commits, p \notin rewound, NEW d \in published, d.author = p
        PROVE  d.counter < c.counter
    <3>1. d.counter \in Nat /\ c.counter \in Nat
      BY <1>4 DEF TypeOK, Commit
    <3>2. d.counter <= base
      BY <2>2 DEF PublishedInv, base
    <3> QED BY <1>0, <1>4, <3>1, <3>2
  <2>3. \A c \in commits : c.counter > 0 /\ c.counter \in Nat
    <3>1. ASSUME NEW c \in commits PROVE c.counter > 0 /\ c.counter \in Nat
      <4>1. c.counter \in Nat
        BY <1>4 DEF Commit
      <4> QED BY <1>0, <1>4, <4>1
    <3> QED BY <3>1
  <2>4. BatchOf(p)'
    BY <1>1, <1>2, <1>4, <1>5, <1>6, <2>2, <2>3 DEF BatchOf
  <2> QED BY <2>1, <2>4 DEF BatchInv
<1> QED BY <1>7, <1>8, <1>10, <1>11, <1>12

\* The segment of a batch holds the batch's commits of the scope, and its last
\* number is the greatest of theirs.
LEMMA SegmentFacts ==
  ASSUME IndInv, NEW p \in Clients, NEW s \in todo[p]
  PROVE  LET N == InScope(batch[p], s)
             G == SegmentOf(p, s)
         IN  /\ N \subseteq batch[p] /\ N \subseteq Commit /\ N # {} /\ IsFiniteSet(N)
             /\ N \subseteq objects
             /\ \A c \in N : /\ c.author = p /\ c.scope = s /\ c.counter \in Nat /\ c.counter > 0
                             /\ c.counter <= mem[p].counter
             /\ G.author = p /\ G.scope = s /\ G.events = N /\ G.last \in Nat
             /\ \E c \in N : c.counter = G.last
             /\ \A c \in N : c.counter <= G.last
             /\ G \in Segment
<1> USE DEF IndInv
<1> DEFINE N == InScope(batch[p], s)
           G == SegmentOf(p, s)
<1>0. s \in Scopes
  BY DEF TypeOK
<1>1. /\ N \subseteq batch[p] /\ N \subseteq Commit /\ N # {} /\ IsFiniteSet(N)
      /\ N \subseteq objects
      /\ \A c \in N : /\ c.author = p /\ c.scope = s /\ c.counter \in Nat /\ c.counter > 0
                      /\ c.counter <= mem[p].counter
  <2>1. N \subseteq batch[p] /\ \A c \in N : c.scope = s
    BY DEF InScope
  <2>2. BatchOf(p)
    BY DEF BatchInv
  <2>3. batch[p] \subseteq Commit
    BY DEF TypeOK
  <2>4. N # {}
    BY <2>2 DEF BatchOf, InScope
  <2>5. IsFiniteSet(N)
    BY <2>1, <2>2, FS_Subset DEF BatchOf
  <2>6. \A c \in N : c.author = p /\ c.counter \in Nat /\ c.counter > 0
                    /\ c.counter <= mem[p].counter
    BY <2>1, <2>2, <2>3 DEF BatchOf, Commit
  <2> QED BY <2>1, <2>2, <2>3, <2>4, <2>5, <2>6 DEF BatchOf
<1> HIDE DEF N
<1>2. /\ G.author = p /\ G.scope = s /\ G.events = N /\ G.last \in Nat
      /\ \E c \in N : c.counter = G.last
      /\ \A c \in N : c.counter <= G.last
      /\ G \in Segment
  <2> DEFINE C == {c.counter : c \in N}
  <2>1. C \in SUBSET Nat /\ C # {}
    BY <1>1
  <2>2. mem[p].counter \in Nat /\ \A m \in C : m <= mem[p].counter
    BY <1>1 DEF TypeOK, RuntimeState
  <2>3. Max(C) \in C /\ \A m \in C : m <= Max(C)
    BY <2>1, <2>2, MaxExists
  <2>4. G = [author |-> p, scope |-> s, last |-> Max(C), events |-> N]
    BY DEF SegmentOf, N
  <2>5. Max(C) \in Nat /\ \E c \in N : c.counter = Max(C)
    BY <2>1, <2>3
  <2>6. G.author = p /\ G.scope = s /\ G.events = N /\ G.last = Max(C)
    BY <2>4
  <2>7. G \in Segment
    BY <1>0, <1>1, <2>4, <2>5 DEF Segment
  <2> QED BY <2>3, <2>5, <2>6, <2>7
<1> QED BY <1>1, <1>2 DEF N

LEMMA BeginSegmentStep ==
  ASSUME IndInv, NEW p \in Clients, NEW s \in Scopes, BeginSegment(p, s)
  PROVE  IndInv'
<1> USE DEF IndInv
<1>1. /\ pc[p] = "publish" /\ s \in todo[p]
      /\ torn' = torn \cup {SegmentOf(p, s)}
      /\ pc' = [pc EXCEPT ![p] = "write"]
      /\ UNCHANGED <<objects, segments, latest, mem, disk, scan, delta, batch, todo, snap, life,
                     faults, published, floor, rewound, holed>>
  BY DEF BeginSegment, Goto, jobVars, historyVars
<1>2. SegmentOf(p, s) \in Segment
  BY <1>1, SegmentFacts
<1>3. TypeOK'
  BY <1>1, <1>2 DEF TypeOK
<1>4. PublishedInv' /\ SegmentInv' /\ FloorInv'
  BY <1>1 DEF PublishedInv, SegmentInv, FloorInv
<1>5. excusedStreams' = excusedStreams
  BY <1>1 DEF excusedStreams, Trusted
<1>6. RemoteSound' /\ ClientsSound'
  BY <1>1, <1>5 DEF RemoteSound, ClientsSound, ClientSound, StateSound
<1>7. \A q \in Clients : pc'[q] = IF q = p THEN "write" ELSE pc[q]
  BY <1>1 DEF TypeOK
<1>8. BatchInv'
  BY <1>1, <1>7 DEF BatchInv, BatchOf
<1> QED BY <1>3, <1>4, <1>6, <1>8

\* Publishing keeps every cursor sound, because of how batches are numbered,
\* and the new segment is found by everybody who has not read it.
LEMMA WriteSegmentStep ==
  ASSUME IndInv, NEW p \in Clients, NEW s \in Scopes, WriteSegment(p, s)
  PROVE  IndInv'
<1> USE DEF IndInv
<1> DEFINE N == InScope(batch[p], s)
           G == SegmentOf(p, s)
<1>1. /\ pc[p] = "write" /\ s \in todo[p]
      /\ pc' = [pc EXCEPT ![p] = "publish"]
      /\ torn' \subseteq torn
      /\ segments' = segments \cup {G}
      /\ published' = published \cup N
      /\ todo'[p] = todo[p] \ {s}
      /\ \A q \in Clients \ {p} : todo'[q] = todo[q]
      /\ UNCHANGED <<objects, latest, mem, disk, scan, delta, batch, snap, life, faults,
                     floor, rewound, holed>>
  BY DEF WriteSegment, TypeOK, Goto
<1>2. /\ N \subseteq batch[p] /\ N \subseteq Commit /\ N # {} /\ IsFiniteSet(N)
      /\ N \subseteq objects
      /\ \A c \in N : /\ c.author = p /\ c.scope = s /\ c.counter \in Nat /\ c.counter > 0
                      /\ c.counter <= mem[p].counter
  BY <1>1, SegmentFacts
<1>3. /\ G.author = p /\ G.scope = s /\ G.events = N /\ G.last \in Nat
      /\ \E c \in N : c.counter = G.last
      /\ \A c \in N : c.counter <= G.last
      /\ G \in Segment
  BY <1>1, SegmentFacts
<1> HIDE DEF N, G
<1>4. excusedStreams' = excusedStreams
  BY <1>1 DEF excusedStreams, Trusted
<1>5. ASSUME NEW c \in N, NEW d \in published,
             c.author = d.author, c.scope = d.scope, <<c.author, c.scope>> \notin excusedStreams
      PROVE  d.counter < c.counter
  <2>1. p \notin rewound
    BY <1>2, <1>5 DEF excusedStreams, Trusted
  <2> QED BY <1>1, <1>2, <1>5, <2>1 DEF BatchInv, BatchOf
<1>6. ASSUME NEW K, NEW cursors \in Cursors, NEW t \in Scopes,
             Sound(published, excusedStreams, K, cursors, t)
      PROVE  Sound(published', excusedStreams', K, cursors, t)
  <2>1. published \in SUBSET Commit /\ N \in SUBSET Commit
    BY <1>2 DEF TypeOK
  <2> QED BY <1>1, <1>2, <1>4, <1>5, <1>6, <2>1, SoundGrow
<1>7. TypeOK'
  <2>1. todo' \in [Clients -> SUBSET Scopes]
    BY DEF WriteSegment, TypeOK
  <2> QED BY <1>1, <1>2, <1>3, <2>1 DEF TypeOK
<1>8. PublishedInv'
  <2>1. IsFiniteSet(published')
    BY <1>1, <1>2, FS_Union DEF PublishedInv
  <2>2. \E n \in Nat : \A c \in published' : c.counter <= n
    <3>1. PICK n \in Nat : \A c \in published : c.counter <= n
      BY DEF PublishedInv
    <3> DEFINE b == n + mem[p].counter
    <3>2. mem[p].counter \in Nat /\ b \in Nat
      BY DEF TypeOK, RuntimeState
    <3>3. ASSUME NEW c \in published' PROVE c.counter <= b
      <4>1. c.counter \in Nat
        BY <1>1, <1>2 DEF TypeOK, Commit
      <4>2. c.counter <= n \/ c.counter <= mem[p].counter
        BY <1>1, <1>2, <3>1
      <4> QED BY <3>2, <4>1, <4>2
    <3> QED BY <3>2, <3>3
  <2> QED BY <1>1, <1>2, <2>1, <2>2 DEF PublishedInv
<1>9. SegmentInv' /\ FloorInv'
  <2>1. SegmentInv'
    <3>1. ASSUME NEW g \in segments
          PROVE  /\ g.events \subseteq published'
                 /\ \A c \in g.events : c.author = g.author /\ c.scope = g.scope
                                        /\ c.counter <= g.last
                 /\ \E c \in g.events : c.counter = g.last
      BY <1>1 DEF SegmentInv
    <3>2. /\ G.events \subseteq published'
          /\ \A c \in G.events : c.author = G.author /\ c.scope = G.scope
                                 /\ c.counter <= G.last
          /\ \E c \in G.events : c.counter = G.last
      BY <1>1, <1>2, <1>3
    <3> QED BY <1>1, <3>1, <3>2 DEF SegmentInv
  <2>2. FloorInv'
    BY <1>1, <1>3 DEF FloorInv
  <2> QED BY <2>1, <2>2
<1>10. RemoteSound'
  <2>1. ASSUME NEW t \in Scopes
        PROVE  latest[t].cursors \in Cursors /\ floor[t] \in Cursors
    BY DEF TypeOK, Snapshot
  <2>2. ASSUME NEW t \in Scopes PROVE Sound(published', excusedStreams', published', floor[t], t)
    <3>1. Sound(published', excusedStreams', published, floor[t], t)
      BY <1>6, <2>1 DEF RemoteSound
    <3> QED BY <1>1, <3>1, SoundWeaken
  <2> QED BY <1>1, <1>6, <2>1, <2>2 DEF RemoteSound
<1>11. ClientsSound'
  <2>1. ASSUME NEW q \in Clients PROVE ClientSound(q)'
    <3>1. /\ \A t \in Scopes :
               /\ mem[q].cursors[t] \in Cursors /\ disk[q].cursors[t] \in Cursors
               /\ delta[q].cursors[t] \in Cursors /\ scan[q].view[t].cursors \in Cursors
          /\ snap[q].body.cursors \in Cursors /\ snap[q].scope \in Scopes
      BY DEF TypeOK, RuntimeState, Delta, Scan, Snapshot, SnapshotJob
    <3> QED BY <1>1, <1>6, <3>1 DEF ClientsSound, ClientSound, StateSound
  <2> QED BY <2>1 DEF ClientsSound
<1>12. BatchInv'
  <2>0. \A q \in Clients : pc'[q] = IF q = p THEN "publish" ELSE pc[q]
    BY <1>1 DEF TypeOK
  <2>1. ASSUME NEW q \in Clients, q # p PROVE BatchOf(q)'
    <3>1. \A d \in published' : d.author = q => d \in published
      BY <1>1, <1>2, <2>1
    <3>2. BatchOf(q)
      BY DEF BatchInv
    <3>3. todo'[q] = todo[q] /\ published \subseteq published' /\ pc'[q] = pc[q]
      BY <1>1, <2>0, <2>1
    <3> QED BY <1>1, <3>1, <3>2, <3>3 DEF BatchOf
  <2>2. BatchOf(p)'
    <3>1. BatchOf(p)
      BY DEF BatchInv
    <3>2. ASSUME NEW c \in batch[p]
          PROVE  /\ c.scope \notin todo'[p] => c \in published'
                 /\ p \notin rewound /\ c.scope \in todo'[p] =>
                      \A d \in published' : d.author = p /\ d.scope = c.scope
                                              => d.counter < c.counter
      <4>1. c.scope = s => c \in N
        BY DEF N, InScope
      <4> QED BY <1>1, <1>2, <3>1, <4>1 DEF BatchOf
    <3> QED BY <1>1, <2>0, <3>1, <3>2 DEF BatchOf
  <2> QED BY <2>1, <2>2 DEF BatchInv
<1> QED BY <1>7, <1>8, <1>9, <1>10, <1>11, <1>12

\* A deleted segment raises the floor to its last number, which is the number
\* of a published commit.
LEMMA DeleteSegmentStep ==
  ASSUME IndInv, NEW p \in Clients, NEW g \in segments, DeleteSegment(p, g)
  PROVE  IndInv'
<1> USE DEF IndInv
<1>0. /\ segments' = segments \ {g}
      /\ floor' = [floor EXCEPT ![g.scope][g.author] = Max({@, g.last})]
      /\ UNCHANGED <<objects, torn, latest, mem, disk, pc, scan, delta, batch, todo, snap, life,
                     faults, published, rewound, holed>>
  BY DEF DeleteSegment, jobVars
<1>1. /\ g.author \in Clients /\ g.scope \in Scopes /\ g.last \in Nat
      /\ floor[g.scope][g.author] \in Nat
  BY DEF TypeOK, Segment, Cursors
<1> DEFINE top == Max({floor[g.scope][g.author], g.last})
<1>2. /\ top \in Nat /\ top \in {floor[g.scope][g.author], g.last}
      /\ top >= floor[g.scope][g.author] /\ top >= g.last
  BY <1>1, MaxOfTwo
<1>3. floor' = [floor EXCEPT ![g.scope] = [floor[g.scope] EXCEPT ![g.author] = top]]
  BY <1>0
<1> HIDE DEF top
<1>4. /\ floor' \in [Scopes -> Cursors]
      /\ \A s \in Scopes, a \in Clients :
           floor'[s][a] = IF s = g.scope /\ a = g.author THEN top ELSE floor[s][a]
  <2>1. floor \in [Scopes -> Cursors] /\ floor[g.scope] \in Cursors
    BY <1>1 DEF TypeOK
  <2> DEFINE row == [floor[g.scope] EXCEPT ![g.author] = top]
  <2>2. /\ row \in Cursors
        /\ \A a \in Clients : row[a] = IF a = g.author THEN top ELSE floor[g.scope][a]
    BY ONLY <1>1, <1>2, <2>1 DEF Cursors
  <2> HIDE DEF row
  <2>3. floor' = [floor EXCEPT ![g.scope] = row]
    BY <1>3 DEF row
  <2> QED BY ONLY <1>1, <2>1, <2>2, <2>3
<1>5. TypeOK'
  BY <1>0, <1>4 DEF TypeOK
<1>6. PublishedInv' /\ SegmentInv'
  BY <1>0 DEF PublishedInv, SegmentInv
<1>7. FloorInv'
  <2>1. ASSUME NEW c \in published
        PROVE  (\E h \in segments' : c \in h.events) \/ c.counter <= floor'[c.scope][c.author]
    <3>0. /\ c.author \in Clients /\ c.scope \in Scopes /\ c.counter \in Nat
          /\ floor[c.scope][c.author] \in Nat
      BY DEF TypeOK, Commit, Cursors
    <3>1. CASE c \in g.events
      <4>1. c.author = g.author /\ c.scope = g.scope /\ c.counter <= g.last
        BY <3>1 DEF SegmentInv
      <4> QED BY <1>1, <1>2, <1>4, <3>0, <4>1
    <3>2. CASE c.counter <= floor[c.scope][c.author]
      BY <1>1, <1>2, <1>4, <3>0, <3>2
    <3>3. CASE \E h \in segments : c \in h.events /\ h # g
      BY <1>0, <3>3
    <3> QED BY <3>1, <3>2, <3>3 DEF FloorInv
  <2> QED BY <1>0, <2>1 DEF FloorInv
<1>8. excusedStreams' = excusedStreams
  BY <1>0 DEF excusedStreams, Trusted
<1>9. RemoteSound'
  <2>1. PICK e \in published : e.author = g.author /\ e.scope = g.scope /\ e.counter = g.last
    BY DEF SegmentInv
  <2>2. ASSUME NEW s \in Scopes
        PROVE  Sound(published, excusedStreams, published, floor'[s], s)
    <3>1. Sound(published, excusedStreams, published, floor[s], s)
      BY DEF RemoteSound
    <3>2. ASSUME NEW a \in Clients
          PROVE  \/ floor'[s][a] = 0
                 \/ \E c \in published : c.author = a /\ c.scope = s
                                         /\ c.counter = floor'[s][a]
      BY <1>2, <1>4, <2>1, <3>1 DEF Sound
    <3> QED BY <3>2 DEF Sound
  <2> QED BY <1>0, <1>8, <2>2 DEF RemoteSound
<1>10. ClientsSound'
  <2>1. ASSUME NEW q \in Clients PROVE ClientSound(q)'
    BY <1>0, <1>8, ClientFrame DEF ClientsSound
  <2> QED BY <2>1 DEF ClientsSound
<1>11. BatchInv'
  <2>1. ASSUME NEW q \in Clients PROVE BatchOf(q)'
    BY <1>0, BatchFrame DEF BatchInv
  <2> QED BY <2>1 DEF BatchInv
<1> QED BY <1>5, <1>6, <1>7, <1>9, <1>10, <1>11

\* What a scan returns is sound together with what the client has: a commit
\* that it passes over was below the cursor, in the snapshot or in a segment
\* read, or else its segment is gone and the scan has met a hole.
LEMMA ScanSound ==
  ASSUME IndInv, NEW p \in Clients, NEW s \in Scopes, NEW Y, excusedStreams \subseteq Y,
         MeetsHole(p, s) => \A a \in Clients : <<a, s>> \in Y
  PROVE  Sound(published, Y, mem[p].commits \cup ScannedEvents(p), NextCursors(p)[s], s)
<1> USE DEF IndInv
<1>0. /\ Sound(published, excusedStreams, mem[p].commits, mem[p].cursors[s], s)
      /\ Sound(published, excusedStreams, scan[p].view[s].events, scan[p].view[s].cursors, s)
      /\ s \notin scan[p].scopes => scan[p].view[s].cursors = NoCursors
  BY DEF ClientsSound, ClientSound, StateSound
<1>1. mem[p].commits \cup ScannedEvents(p) \subseteq published
  <2>1. SnapshotEvents(p) \subseteq published
    <3>1. ASSUME NEW t \in scan[p].scopes PROVE scan[p].view[t].events \subseteq published
      <4>1. t \in Scopes
        BY DEF TypeOK, Scan
      <4> QED BY <4>1 DEF ClientsSound, ClientSound, Sound
    <3> QED BY <3>1 DEF SnapshotEvents
  <2>2. SegmentEvents(p) \subseteq published
    BY DEF SegmentEvents, UnreadSegments, SegmentInv
  <2> QED BY <1>0, <2>1, <2>2 DEF ScannedEvents, Sound
<1>2. ASSUME NEW a \in Clients
      PROVE  \/ NextCursors(p)[s][a] = 0
             \/ \E c \in published : c.author = a /\ c.scope = s
                                     /\ c.counter = NextCursors(p)[s][a]
  <2>1. CASE NextCursors(p)[s][a] = Horizon(p, a, s)
    <3>1. Horizon(p, a, s) \in {mem[p].cursors[s][a], scan[p].view[s].cursors[a]}
      BY HorizonFacts DEF Cursor, Covered
    <3> QED BY <1>0, <2>1, <3>1 DEF Sound
  <2>2. CASE \E g \in UnreadSegments(p) :
               g.author = a /\ g.scope = s /\ g.last = NextCursors(p)[s][a]
    BY <2>2 DEF UnreadSegments, SegmentInv
  <2> QED BY <2>1, <2>2, NextCursorFacts
<1>3. ASSUME NEW c \in published, c.scope = s, <<c.author, s>> \notin Y,
             c.counter <= NextCursors(p)[s][c.author]
      PROVE  c \in mem[p].commits \cup ScannedEvents(p)
  <2> DEFINE a == c.author
  <2>0. a \in Clients /\ c.counter \in Nat /\ c.counter > 0 /\ <<a, s>> \notin excusedStreams
    BY <1>3 DEF TypeOK, Commit, PublishedInv
  <2>1. /\ Cursor(p, a, s) \in Nat /\ Covered(p, a, s) \in Nat /\ Horizon(p, a, s) \in Nat
        /\ Horizon(p, a, s) \in {Cursor(p, a, s), Covered(p, a, s)}
    BY <2>0, HorizonFacts
  <2>2. CASE c.counter <= Cursor(p, a, s)
    BY <1>0, <1>3, <2>0, <2>2 DEF Sound, Cursor
  <2>3. CASE ~(c.counter <= Cursor(p, a, s)) /\ c.counter <= Covered(p, a, s)
    <3>1. c \in scan[p].view[s].events
      BY <1>0, <1>3, <2>0, <2>3 DEF Sound, Covered
    <3>2. s \in scan[p].scopes
      BY <1>0, <2>0, <2>1, <2>3 DEF Covered, NoCursors
    <3>3. c.counter > Cursor(p, c.author, c.scope)
      BY <1>3, <2>0, <2>1, <2>3
    <3> QED BY <3>1, <3>2, <3>3 DEF ScannedEvents, SnapshotEvents
  <2>4. CASE ~(c.counter <= Cursor(p, a, s)) /\ ~(c.counter <= Covered(p, a, s))
    <3>1. c.counter > Horizon(p, a, s)
      BY <2>0, <2>1, <2>4
    <3>2. s \in scan[p].scopes
      <4>1. NextCursors(p)[s][a] \in Nat /\ NextCursors(p)[s][a] # Horizon(p, a, s)
        BY <1>3, <2>0, <2>1, <3>1, NextCursorFacts
      <4>2. PICK g \in UnreadSegments(p) : g.scope = s
        BY <2>0, <4>1, NextCursorFacts
      <4> QED BY <4>2 DEF UnreadSegments
    <3>3. ~(c.counter <= floor[s][a])
      <4>1. SUFFICES ASSUME c.counter <= floor[s][a] PROVE FALSE
        OBVIOUS
      <4>2. floor[s][a] \in Nat
        BY <2>0 DEF TypeOK, Cursors
      <4>3. floor[s][a] > Horizon(p, a, s)
        BY <2>0, <2>1, <3>1, <4>1, <4>2
      <4>4. MeetsHole(p, s)
        BY <2>0, <3>2, <4>3 DEF MeetsHole
      <4> QED BY <1>3, <2>0, <4>4
    <3>4. PICK g \in segments : c \in g.events
      BY <1>3, <3>3 DEF FloorInv
    <3>5. g.author = a /\ g.scope = s /\ g.last \in Nat /\ c.counter <= g.last
      BY <1>3, <3>4 DEF SegmentInv, TypeOK, Segment
    <3>6. g.last > Horizon(p, g.author, g.scope)
      BY <2>0, <2>1, <3>1, <3>5
    <3>7. g \in UnreadSegments(p)
      BY <3>2, <3>5, <3>6 DEF UnreadSegments
    <3> QED BY <1>3, <3>1, <3>4, <3>7 DEF ScannedEvents, SegmentEvents
  <2> QED BY <2>2, <2>3, <2>4
<1> QED BY <1>1, <1>2, <1>3 DEF Sound

\* Reading the segments.
LEMMA ReadSegmentsStep ==
  ASSUME IndInv, NEW p \in Clients, ReadSegments(p)
  PROVE  IndInv'
<1> USE DEF IndInv
<1> DEFINE D == [events |-> ScannedEvents(p), cursors |-> NextCursors(p)]
           since == [s \in Scopes |-> mem[p].since[s] + NewEvents(p, s)]
<1>1. /\ pc[p] = "segments" /\ pc' = [pc EXCEPT ![p] = "load"]
      /\ delta' = [delta EXCEPT ![p] = D]
      /\ mem' = [mem EXCEPT ![p].since = since]
      /\ scan' = [scan EXCEPT ![p] = NoScan]
      /\ holed' = holed \cup {s \in Scopes : MeetsHole(p, s)}
      /\ UNCHANGED <<objects, segments, torn, latest, disk, batch, todo, snap, life, faults,
                     published, floor, rewound>>
  BY DEF ReadSegments, Goto, remoteVars
<1>2. excusedStreams \subseteq excusedStreams'
  BY <1>1, ExcusesGrow
<1>3. ASSUME NEW s \in Scopes
      PROVE  Sound(published, excusedStreams', mem[p].commits \cup ScannedEvents(p),
                   NextCursors(p)[s], s)
  <2>1. ASSUME MeetsHole(p, s), NEW a \in Clients PROVE <<a, s>> \in excusedStreams'
    <3>1. s \in holed'
      BY <1>1, <2>1
    <3> QED BY <3>1 DEF excusedStreams, Trusted
  <2> QED BY <1>2, <2>1, ScanSound
<1>4. D \in Delta
  <2>1. ScannedEvents(p) \subseteq Commit
    BY <1>3, CatalogAssumption DEF Sound, TypeOK
  <2>2. NextCursors(p) \in [Scopes -> Cursors]
    <3>1. \A s \in Scopes, a \in Clients : NextCursors(p)[s][a] \in Nat
      BY NextCursorFacts
    <3> DEFINE next(s, a) == Max({Horizon(p, a, s)}
                 \cup {g.last : g \in {g \in UnreadSegments(p) : g.author = a /\ g.scope = s}})
    <3>2. NextCursors(p) = [s \in Scopes |-> [a \in Clients |-> next(s, a)]]
      BY DEF NextCursors
    <3> HIDE DEF next
    <3>3. \A s \in Scopes, a \in Clients : next(s, a) \in Nat
      BY <3>1, <3>2
    <3> QED BY <3>2, <3>3 DEF Cursors
  <2> QED BY <2>1, <2>2 DEF Delta
<1>5. since \in [Scopes -> Nat]
  <2>1. ASSUME NEW s \in Scopes PROVE NewEvents(p, s) \in Nat
    <3> DEFINE A == {c \in InScope(SnapshotEvents(p), s) : c.counter > Covered(p, c.author, s)}
               B == {c \in InScope(SegmentEvents(p), s) : c.counter > Covered(p, c.author, s)}
    <3>1. A \subseteq published /\ B \subseteq published
      BY <1>3 DEF Sound, ScannedEvents, InScope
    <3>2. Cardinality(A) \in Nat /\ Cardinality(B) \in Nat
      BY <3>1, FS_Subset, FS_CardinalityType DEF PublishedInv
    <3>3. NewEvents(p, s) = Cardinality(A) + Cardinality(B)
      BY DEF NewEvents
    <3> QED BY <3>2, <3>3
  <2>2. \A s \in Scopes : mem[p].since[s] \in Nat
    BY DEF TypeOK, RuntimeState
  <2> QED BY <2>1, <2>2
<1> HIDE DEF D, since
<1>6. /\ mem'[p] = [mem[p] EXCEPT !.since = since]
      /\ \A q \in Clients \ {p} : mem'[q] = mem[q] /\ delta'[q] = delta[q] /\ scan'[q] = scan[q]
      /\ delta'[p] = D /\ scan'[p] = NoScan
  BY <1>1 DEF TypeOK
<1>7. /\ mem'[p].counter = mem[p].counter
      /\ mem'[p].commits = mem[p].commits
      /\ mem'[p].cursors = mem[p].cursors
      /\ mem'[p] \in RuntimeState
  <2>0. mem[p] \in RuntimeState
    BY DEF TypeOK
  <2>1. ASSUME NEW m, m = [mem[p] EXCEPT !.since = since]
        PROVE  m.counter = mem[p].counter /\ m.commits = mem[p].commits
               /\ m.cursors = mem[p].cursors /\ m \in RuntimeState
    BY ONLY <1>5, <2>0, <2>1 DEF RuntimeState
  <2> QED BY ONLY <1>6, <2>1
<1>8. TypeOK'
  <2>1. mem' \in [Clients -> RuntimeState] /\ delta' \in [Clients -> Delta]
        /\ scan' \in [Clients -> Scan]
    BY <1>1, <1>4, <1>6, <1>7, Defaults DEF TypeOK
  <2> QED BY <1>1, <2>1 DEF TypeOK
<1>9. PublishedInv' /\ SegmentInv' /\ FloorInv'
  <2>1. \A q \in Clients : mem'[q].counter = mem[q].counter
    BY <1>6, <1>7
  <2> QED BY <1>1, <2>1 DEF PublishedInv, SegmentInv, FloorInv, TypeOK, Commit
<1>10. RemoteSound'
  BY <1>1, <1>2, RemoteFrame
<1>11. ClientsSound'
  <2>1. ASSUME NEW q \in Clients, q # p PROVE ClientSound(q)'
    BY <1>1, <1>2, <1>6, <2>1, ClientFrame DEF ClientsSound
  <2>2. ASSUME NEW K, NEW cursors, NEW s, Sound(published, excusedStreams, K, cursors, s)
        PROVE  Sound(published', excusedStreams', K, cursors, s)
    BY <1>1, <1>2, <2>2, SoundWeaken DEF Sound
  <2>3. StateSound(mem[p])' /\ StateSound(disk[p])'
    BY <1>1, <1>7, <2>2 DEF ClientsSound, ClientSound, StateSound
  <2>4. ASSUME NEW s \in Scopes
        PROVE  /\ Sound(published, excusedStreams, mem[p].commits \cup delta[p].events,
                        delta[p].cursors[s], s)'
               /\ Sound(published, excusedStreams, scan[p].view[s].events,
                        scan[p].view[s].cursors, s)'
               /\ scan'[p].view[s].cursors = NoCursors
    <3>1. D.events = ScannedEvents(p) /\ D.cursors = NextCursors(p)
      BY DEF D
    <3>2. Sound(published', excusedStreams', {}, NoCursors, s)
      BY <1>1, SoundZero DEF TypeOK, PublishedInv
    <3> QED BY <1>1, <1>3, <1>6, <1>7, <3>1, <3>2, Defaults
  <2>5. Sound(published, excusedStreams, snap[p].body.events, snap[p].body.cursors,
              snap[p].scope)'
    BY <1>1, <2>2 DEF ClientsSound, ClientSound
  <2>6. ClientSound(p)'
    BY <2>3, <2>4, <2>5 DEF ClientSound
  <2> QED BY <2>1, <2>6 DEF ClientsSound
<1>12. BatchInv'
  <2>1. ASSUME NEW q \in Clients PROVE BatchOf(q)'
    BY <1>1, <1>6, <1>7, BatchFrame DEF BatchInv, BatchOf, TypeOK
  <2> QED BY <2>1 DEF BatchInv
<1> QED BY <1>8, <1>9, <1>10, <1>11, <1>12

---------------------------------------------------------------------------
(* The theorems.                                                           *)

\* An empty remote folder and fresh clients satisfy the invariant.
LEMMA InitIndInv == Init => IndInv
<1> SUFFICES ASSUME Init PROVE IndInv
  OBVIOUS
<1> USE DEF Init
<1>1. TypeOK
  BY Defaults DEF TypeOK
<1>2. PublishedInv /\ SegmentInv /\ FloorInv
  BY FS_EmptySet DEF PublishedInv, SegmentInv, FloorInv
<1>3. ASSUME NEW s PROVE Sound(published, excusedStreams, {}, NoCursors, s)
  BY SoundZero DEF Commit
<1>4. RemoteSound
  BY <1>3, Defaults DEF RemoteSound
<1>5. ClientsSound
  BY <1>3, Defaults DEF ClientsSound, ClientSound, StateSound
<1>6. BatchInv
  BY FS_EmptySet DEF BatchInv, BatchOf
<1> QED BY <1>1, <1>2, <1>4, <1>5, <1>6 DEF IndInv

\* A step that changes nothing changes no truth.
LEMMA StutterIndInv == IndInv /\ UNCHANGED vars => IndInv'
<1> SUFFICES ASSUME IndInv, UNCHANGED vars PROVE IndInv'
  OBVIOUS
<1> USE DEF vars, remoteVars, jobVars, historyVars, IndInv
<1>1. TypeOK'
  BY DEF TypeOK
<1>2. PublishedInv' /\ SegmentInv' /\ FloorInv'
  BY DEF PublishedInv, SegmentInv, FloorInv
<1>3. excusedStreams' = excusedStreams
  BY DEF excusedStreams, Trusted
<1>4. RemoteSound' /\ ClientsSound'
  BY <1>3 DEF RemoteSound, ClientsSound, ClientSound, StateSound
<1>5. BatchInv'
  BY DEF BatchInv, BatchOf
<1> QED BY <1>1, <1>2, <1>4, <1>5

\* Every step preserves the invariant.
LEMMA NextIndInv == IndInv /\ [Next]_vars => IndInv'
<1> SUFFICES ASSUME IndInv, [Next]_vars PROVE IndInv'
  OBVIOUS
<1>1. CASE UNCHANGED vars
  BY <1>1, StutterIndInv
<1>2. ASSUME NEW p \in Clients, Call(p) \/ Step(p) \/ Fail(p) \/ Crash(p) PROVE IndInv'
  <2>1. CASE Call(p)
    BY <2>1, ReadSnapshotsStep, BeginPublishStep DEF Call
  <2>2. CASE Step(p)
    BY <2>2, ReadSegmentsStep, LoadCommitsStep, SaveStep, IntegrateStep, BeginSegmentStep,
       WriteSegmentStep, MeetTornStep, BeginSnapshotStep, RenameLatestStep, FinishSnapshotStep, DeleteSegmentStep DEF Step
  <2>3. CASE Fail(p)
    BY <2>3, FailStep
  <2>4. CASE Crash(p)
    BY <2>4, CrashStep
  <2> QED BY <1>2, <2>1, <2>2, <2>3, <2>4
<1> QED BY <1>1, <1>2 DEF Next

\* The inductive invariant holds of every behaviour of the catalog.
THEOREM Invariance == Spec => []IndInv
<1>1. Init => IndInv
  BY InitIndInv
<1>2. IndInv /\ [Next]_vars => IndInv'
  BY NextIndInv
<1> QED BY <1>1, <1>2, PTL DEF Spec

\* The catalog's state keeps its type; in particular the maxima and counts a
\* scan takes (scan_catalog, refresh_remote) always exist.
THEOREM TypeCorrect == Spec => []TypeOK
<1>1. IndInv => TypeOK
  BY DEF IndInv
<1> QED BY <1>1, Invariance, PTL

\* No cursor, in memory or saved, passes a visible commit its client does not
\* hold, for any number of clients, scopes, commits and faults, except in
\* streams whose author was rewound or in which a scan met a hole.
THEOREM CursorsNeverOverrun == Spec => []CursorSound
<1>1. IndInv => CursorSound
  <2> SUFFICES ASSUME IndInv PROVE CursorSound
    OBVIOUS
  <2>1. ASSUME NEW K, NEW cursors, NEW s \in Scopes,
               Sound(published, excusedStreams, K, cursors, s)
        PROVE  HoldsBelow(K, cursors, s)
    BY <2>1 DEF IndInv, TypeOK, Commit, Sound, HoldsBelow, excusedStreams, Trusted
  <2> QED BY <2>1 DEF IndInv, ClientsSound, ClientSound, StateSound, CursorSound
<1> QED BY <1>1, Invariance, PTL

\* The snapshot in force holds every commit its cursors cover, so deleting the
\* covered segments (compact_catalog) loses nothing, with the same exceptions.
THEOREM SnapshotsCoverWhatTheyClaim == Spec => []SnapshotSound
<1>1. IndInv => SnapshotSound
  BY DEF IndInv, TypeOK, Commit, RemoteSound, Sound, SnapshotSound, HoldsBelow,
         excusedStreams, Trusted
<1> QED BY <1>1, Invariance, PTL

\* commit_batch stores objects before segments: whatever a scan can see, or
\* has seen, can be loaded.
THEOREM VisibleIsLoadable == Spec => []VisibleLoadable
<1>1. IndInv => VisibleLoadable
  BY CatalogAssumption DEF IndInv, PublishedInv, SegmentInv, RemoteSound, ClientsSound,
     ClientSound, Sound, VisibleLoadable
<1> QED BY <1>1, Invariance, PTL

---------------------------------------------------------------------------
(* The refinement of CommitLog.  A client that holds a commit of another   *)
(* author has a cursor at least as far; by CursorSound it holds the        *)
(* earlier ones too.  This is not clear of snapshots: they hold commits of *)
(* their maker above its own cursor.  Either the segments of these are     *)
(* still there, and move the reader's cursor, or the reader meets a hole.  *)

\* With the streams in X excused, client p, holding K, has cursors that have
\* reached the commits of others.
Within(X, p, K, cursors) ==
  \A c \in K :
    c.author # p /\ <<c.author, c.scope>> \notin X => c.counter <= cursors[c.scope][c.author]

FrontierOf(p) ==
  /\ disk[p].commits \subseteq mem[p].commits
  /\ Within(excusedStreams, p, mem[p].commits, mem[p].cursors)
  /\ Within(excusedStreams, p, disk[p].commits, disk[p].cursors)
  /\ pc[p] = "load" =>
       Within(excusedStreams, p, mem[p].commits \cup delta[p].events, delta[p].cursors)
  /\ \A s \in Scopes : \A c \in scan[p].view[s].events : c.scope = s
  /\ \A c \in snap[p].body.events : c.scope = snap[p].scope

LatestInv == \A s \in Scopes : \A c \in latest[s].events : c.scope = s

FrontierInv == LatestInv /\ \A p \in Clients : FrontierOf(p)

\* A step of p as the readers of the log see it.
Moves(p) ==
  /\ published' = published /\ excusedStreams \subseteq excusedStreams'
  /\ \A q \in Clients \ {p} : mem'[q].commits = mem[q].commits
  /\ mem[p].commits \subseteq mem'[p].commits \/ mem'[p].commits \subseteq mem[p].commits

\* Sound cursors that have reached what a client holds leave no hole in it.
LEMMA HeldPrefix ==
  ASSUME NEW P \in SUBSET Commit, NEW X, NEW K, NEW p \in Clients,
         NEW cursors \in [Scopes -> Cursors],
         \A s \in Scopes : Sound(P, X, K, cursors[s], s), Within(X, p, K, cursors)
  PROVE  Log!Prefix(p, K, P, X)
<1> SUFFICES ASSUME NEW c \in K, NEW d \in P, c.author = d.author, c.scope = d.scope,
                    d.counter < c.counter, c.author # p, <<c.author, c.scope>> \notin X
             PROVE  d \in K
  BY DEF Log!Prefix, Log!SameStream
<1>1. d.author \in Clients /\ d.scope \in Scopes /\ d.counter \in Nat
  BY DEF Commit
<1>2. c \in P /\ c.counter \in Nat
  BY <1>1 DEF Sound, Commit
<1>3. cursors[d.scope][d.author] \in Nat
  BY <1>1 DEF Cursors
<1>4. c.counter <= cursors[d.scope][d.author]
  BY DEF Within
<1>5. d.counter <= cursors[d.scope][d.author]
  BY <1>1, <1>2, <1>3, <1>4
<1> QED BY <1>1, <1>5 DEF Sound

\* The invariant is about what a client holds and about jobs in progress.
LEMMA FrontierFrame ==
  ASSUME NEW q \in Clients, FrontierOf(q), excusedStreams \subseteq excusedStreams',
         mem'[q].commits = mem[q].commits, mem'[q].cursors = mem[q].cursors,
         disk'[q] = disk[q],
         pc'[q] # "load" \/ (pc'[q] = pc[q] /\ delta'[q] = delta[q]),
         scan'[q] \in {scan[q], NoScan}, snap'[q] \in {snap[q], NoSnap}
  PROVE  FrontierOf(q)'
<1>1. \A s \in Scopes : \A c \in scan'[q].view[s].events : c.scope = s
  BY Defaults DEF FrontierOf
<1>2. \A c \in snap'[q].body.events : c.scope = snap'[q].scope
  BY Defaults DEF FrontierOf
<1>3. pc'[q] = "load" =>
        Within(excusedStreams', q, mem'[q].commits \cup delta'[q].events, delta'[q].cursors)
  BY DEF FrontierOf, Within
<1>4. /\ Within(excusedStreams', q, mem'[q].commits, mem'[q].cursors)
      /\ Within(excusedStreams', q, disk'[q].commits, disk'[q].cursors)
  BY DEF FrontierOf, Within
<1> QED BY <1>1, <1>2, <1>3, <1>4 DEF FrontierOf

\* Steps that change no cursor and no set of commits.
LEMMA QuietSteps ==
  ASSUME IndInv, FrontierInv, NEW p \in Clients,
         \/ \E n \in 1..MaxBatch : \E assign \in [1..n -> Scopes] : BeginPublish(p, n, assign)
         \/ \E s \in Scopes : BeginSegment(p, s) \/ WriteSegment(p, s)
         \/ RenameLatest(p) \/ FinishSnapshot(p) \/ MeetTorn(p) \/ Fail(p)
         \/ \E g \in segments : DeleteSegment(p, g)
  PROVE  /\ FrontierInv' /\ excusedStreams' = excusedStreams
         /\ \A q \in Clients : mem'[q].commits = mem[q].commits
<1>1. excusedStreams' = excusedStreams
  BY DEF BeginPublish, BeginSegment, WriteSegment, MeetTorn, RenameLatest, FinishSnapshot, Fail, DeleteSegment,
     historyVars, excusedStreams, Trusted
<1>2. ASSUME NEW q \in Clients
      PROVE  mem'[q].commits = mem[q].commits /\ mem'[q].cursors = mem[q].cursors
  <2>1. mem[q] \in RuntimeState /\ mem \in [Clients -> RuntimeState]
    BY DEF IndInv, TypeOK
  <2>2. CASE mem' = mem
    BY <2>2
  <2>3. ASSUME NEW n, mem' = [mem EXCEPT ![p].counter = @ + n]
        PROVE  mem'[q].commits = mem[q].commits /\ mem'[q].cursors = mem[q].cursors
    BY <2>1, <2>3 DEF RuntimeState
  <2>4. CASE FinishSnapshot(p)
    BY <2>1, <2>4 DEF FinishSnapshot, RuntimeState
  <2> QED BY <2>2, <2>3, <2>4 DEF BeginPublish, BeginSegment, WriteSegment, MeetTorn, RenameLatest, Fail, DeleteSegment
<1>3. ASSUME NEW q \in Clients
      PROVE  /\ disk'[q] = disk[q]
             /\ pc'[q] # "load" \/ (pc'[q] = pc[q] /\ delta'[q] = delta[q])
             /\ scan'[q] \in {scan[q], NoScan} /\ snap'[q] \in {snap[q], NoSnap}
  BY DEF IndInv, TypeOK, BeginPublish, BeginSegment, WriteSegment, MeetTorn, RenameLatest, FinishSnapshot, Fail,
     AbandonJob, DeleteSegment, jobVars, Goto
<1>4. ASSUME NEW q \in Clients PROVE FrontierOf(q)'
  BY <1>1, <1>2, <1>3, FrontierFrame DEF FrontierInv
<1>5. LatestInv'
  <2>1. CASE latest' = latest
    BY <2>1 DEF FrontierInv, LatestInv
  <2>2. CASE latest' = [latest EXCEPT ![snap[p].scope] = snap[p].body]
    <3>1. \A c \in snap[p].body.events : c.scope = snap[p].scope
      BY DEF FrontierInv, FrontierOf
    <3>2. \A s \in Scopes : latest'[s] = IF s = snap[p].scope THEN snap[p].body ELSE latest[s]
      BY <2>2 DEF IndInv, TypeOK
    <3> QED BY <3>1, <3>2 DEF FrontierInv, LatestInv
  <2> QED BY <2>1, <2>2 DEF BeginPublish, BeginSegment, WriteSegment, MeetTorn, RenameLatest, FinishSnapshot, Fail,
       DeleteSegment, remoteVars
<1> QED BY <1>1, <1>2, <1>4, <1>5 DEF FrontierInv

\* Clients other than p are left alone by a step of p.
LEMMA OthersFrontier ==
  ASSUME IndInv, FrontierInv, NEW p \in Clients, NEW q \in Clients \ {p},
         excusedStreams \subseteq excusedStreams',
         mem'[q] = mem[q], disk'[q] = disk[q], pc'[q] = pc[q], delta'[q] = delta[q],
         scan'[q] = scan[q], snap'[q] = snap[q]
  PROVE  FrontierOf(q)'
BY FrontierFrame DEF FrontierInv

LEMMA ReadSnapshotsMoves ==
  ASSUME IndInv, FrontierInv, NEW p \in Clients, NEW S \in SUBSET Scopes, ReadSnapshots(p, S)
  PROVE  FrontierInv' /\ Moves(p)
<1>1. excusedStreams' = excusedStreams
  BY DEF ReadSnapshots, historyVars, excusedStreams, Trusted
<1>2. /\ UNCHANGED <<latest, mem, disk, delta, snap, published>>
      /\ pc'[p] = "segments" /\ \A q \in Clients \ {p} : pc'[q] = pc[q] /\ scan'[q] = scan[q]
      /\ \A s \in Scopes : scan'[p].view[s] \in {latest[s], NoSnapshot}
  BY DEF IndInv, TypeOK, ReadSnapshots, remoteVars, historyVars, Goto
<1>3. ASSUME NEW q \in Clients \ {p} PROVE FrontierOf(q)'
  BY <1>1, <1>2, OthersFrontier
<1>4. FrontierOf(p)'
  <2>1. \A s \in Scopes : \A c \in scan'[p].view[s].events : c.scope = s
    BY <1>2, Defaults DEF FrontierInv, LatestInv
  <2> QED BY <1>1, <1>2, <2>1 DEF FrontierInv, FrontierOf, Within
<1> QED BY <1>1, <1>2, <1>3, <1>4 DEF FrontierInv, LatestInv, Moves

\* A scan that meets no hole moves the cursors of its scopes past everything
\* published there.
LEMMA ScanReaches ==
  ASSUME IndInv, NEW p \in Clients, NEW c \in published, c.scope \in scan[p].scopes,
         ~MeetsHole(p, c.scope)
  PROVE  c.counter <= NextCursors(p)[c.scope][c.author]
<1> DEFINE a == c.author
           s == c.scope
<1>1. a \in Clients /\ s \in Scopes /\ c.counter \in Nat
  BY DEF IndInv, TypeOK, Commit
<1>2. /\ Horizon(p, a, s) \in Nat /\ NextCursors(p)[s][a] \in Nat
      /\ NextCursors(p)[s][a] >= Horizon(p, a, s)
      /\ \A g \in UnreadSegments(p) :
           g.author = a /\ g.scope = s => g.last <= NextCursors(p)[s][a]
  BY <1>1, HorizonFacts, NextCursorFacts DEF IndInv
<1>3. CASE c.counter <= floor[s][a]
  <2>1. floor[s][a] \in Nat
    BY <1>1 DEF IndInv, TypeOK, Cursors
  <2>2. ~(floor[s][a] > Horizon(p, a, s))
    BY <1>1 DEF MeetsHole
  <2> QED BY <1>1, <1>2, <1>3, <2>1, <2>2
<1>4. ASSUME NEW g \in segments, c \in g.events PROVE c.counter <= NextCursors(p)[s][a]
  <2>1. g.author = a /\ g.scope = s /\ g.last \in Nat /\ c.counter <= g.last
    BY <1>4 DEF IndInv, SegmentInv, TypeOK, Segment
  <2>2. CASE g.last > Horizon(p, a, s)
    <3>1. g \in UnreadSegments(p)
      BY <2>1, <2>2 DEF UnreadSegments
    <3> QED BY <1>1, <1>2, <2>1, <3>1
  <2>3. CASE ~(g.last > Horizon(p, a, s))
    BY <1>1, <1>2, <2>1, <2>3
  <2> QED BY <2>2, <2>3
<1> QED BY <1>3, <1>4 DEF IndInv, FloorInv

LEMMA ReadSegmentsMoves ==
  ASSUME IndInv, FrontierInv, NEW p \in Clients, ReadSegments(p)
  PROVE  FrontierInv' /\ Moves(p)
<1> DEFINE since == [s \in Scopes |-> mem[p].since[s] + NewEvents(p, s)]
<1>1. /\ holed' = holed \cup {s \in Scopes : MeetsHole(p, s)}
      /\ UNCHANGED <<latest, disk, snap, published, rewound>>
      /\ mem' = [mem EXCEPT ![p].since = since]
      /\ delta' = [delta EXCEPT ![p] = [events |-> ScannedEvents(p), cursors |-> NextCursors(p)]]
      /\ scan' = [scan EXCEPT ![p] = NoScan] /\ pc' = [pc EXCEPT ![p] = "load"]
  BY DEF ReadSegments, remoteVars, Goto
<1>2. excusedStreams \subseteq excusedStreams'
  BY <1>1, ExcusesGrow
<1>3. mem[p] \in RuntimeState /\ mem \in [Clients -> RuntimeState]
  BY DEF IndInv, TypeOK
<1> HIDE DEF since
<1>4. /\ mem'[p].commits = mem[p].commits /\ mem'[p].cursors = mem[p].cursors
      /\ \A q \in Clients \ {p} : mem'[q] = mem[q]
  BY <1>1, <1>3 DEF RuntimeState
<1>5. /\ delta'[p].events = ScannedEvents(p) /\ delta'[p].cursors = NextCursors(p)
      /\ scan'[p] = NoScan
      /\ \A q \in Clients \ {p} : /\ delta'[q] = delta[q] /\ scan'[q] = scan[q]
                                  /\ pc'[q] = pc[q]
  BY <1>1 DEF IndInv, TypeOK
<1>6. ASSUME NEW q \in Clients \ {p} PROVE FrontierOf(q)'
  BY <1>1, <1>2, <1>4, <1>5, OthersFrontier
<1>7. Within(excusedStreams', p, mem[p].commits \cup ScannedEvents(p), NextCursors(p))
  <2> SUFFICES ASSUME NEW c \in mem[p].commits \cup ScannedEvents(p), c.author # p,
                      <<c.author, c.scope>> \notin excusedStreams'
               PROVE  c.counter <= NextCursors(p)[c.scope][c.author]
    BY DEF Within
  <2>1. ASSUME NEW s \in Scopes PROVE mem[p].commits \cup ScannedEvents(p) \subseteq published
    <3>1. excusedStreams \subseteq Clients \X Scopes /\ \A a \in Clients : <<a, s>> \in Clients \X Scopes
      BY DEF excusedStreams
    <3>2. Sound(published, Clients \X Scopes, mem[p].commits \cup ScannedEvents(p),
                NextCursors(p)[s], s)
      BY <3>1, ScanSound
    <3> QED BY <3>2 DEF Sound
  <2>2. c \in published
    BY <2>1, CatalogAssumption
  <2>3. c.author \in Clients /\ c.scope \in Scopes /\ c.counter \in Nat
    BY <2>2 DEF IndInv, TypeOK, Commit
  <2>4. CASE c.scope \in scan[p].scopes
    <3>1. ~MeetsHole(p, c.scope)
      BY <1>1, <2>3 DEF excusedStreams, Trusted
    <3> QED BY <2>2, <2>4, <3>1, ScanReaches
  <2>5. CASE c.scope \notin scan[p].scopes
    <3>1. c \notin SnapshotEvents(p)
      <4>1. ASSUME NEW s \in scan[p].scopes, c \in scan[p].view[s].events PROVE c.scope = s
        BY <4>1 DEF FrontierInv, FrontierOf, IndInv, TypeOK, Scan
      <4> QED BY <2>5, <4>1 DEF SnapshotEvents
    <3>2. c \notin SegmentEvents(p)
      BY <2>5 DEF SegmentEvents, UnreadSegments, IndInv, SegmentInv
    <3>3. c \in mem[p].commits
      BY <3>1, <3>2 DEF ScannedEvents
    <3>4. c.counter <= Cursor(p, c.author, c.scope)
      BY <1>2, <3>3 DEF FrontierInv, FrontierOf, Within, Cursor
    <3>5. /\ Cursor(p, c.author, c.scope) \in Nat /\ Horizon(p, c.author, c.scope) \in Nat
          /\ Horizon(p, c.author, c.scope) >= Cursor(p, c.author, c.scope)
      BY <2>3, HorizonFacts DEF IndInv
    <3>6. /\ NextCursors(p)[c.scope][c.author] \in Nat
          /\ NextCursors(p)[c.scope][c.author] >= Horizon(p, c.author, c.scope)
      BY <2>3, NextCursorFacts DEF IndInv
    <3> QED BY <2>3, <3>4, <3>5, <3>6
  <2> QED BY <2>4, <2>5
<1>8. FrontierOf(p)'
  <2>1. /\ Within(excusedStreams', p, mem'[p].commits, mem'[p].cursors)
        /\ Within(excusedStreams', p, disk'[p].commits, disk'[p].cursors)
    BY <1>1, <1>2, <1>4 DEF FrontierInv, FrontierOf, Within
  <2>2. \A s \in Scopes : scan'[p].view[s].events = {}
    BY <1>5, Defaults
  <2> QED BY <1>1, <1>4, <1>5, <1>7, <2>1, <2>2 DEF FrontierInv, FrontierOf
<1> QED BY <1>1, <1>2, <1>4, <1>6, <1>8 DEF FrontierInv, LatestInv, Moves

LEMMA LoadCommitsMoves ==
  ASSUME IndInv, FrontierInv, NEW p \in Clients, LoadCommits(p)
  PROVE  FrontierInv' /\ Moves(p)
<1>1. excusedStreams' = excusedStreams
  BY DEF LoadCommits, historyVars, excusedStreams, Trusted
<1>2. mem[p] \in RuntimeState /\ mem \in [Clients -> RuntimeState]
  BY DEF IndInv, TypeOK
<1>3. /\ mem'[p].commits = mem[p].commits \cup delta[p].events
      /\ mem'[p].cursors = delta[p].cursors
      /\ \A q \in Clients \ {p} : mem'[q] = mem[q]
  BY <1>2 DEF LoadCommits, RuntimeState
<1>4. /\ UNCHANGED <<latest, disk, scan, snap, published>>
      /\ pc[p] = "load" /\ pc'[p] = "fresh"
      /\ \A q \in Clients \ {p} : pc'[q] = pc[q] /\ delta'[q] = delta[q]
  BY DEF IndInv, TypeOK, LoadCommits, remoteVars, historyVars, Goto
<1>5. ASSUME NEW q \in Clients \ {p} PROVE FrontierOf(q)'
  BY <1>1, <1>3, <1>4, OthersFrontier
<1>6. FrontierOf(p)'
  BY <1>1, <1>3, <1>4 DEF FrontierInv, FrontierOf, Within
<1> QED BY <1>1, <1>3, <1>4, <1>5, <1>6 DEF FrontierInv, LatestInv, Moves

\* Journal and Save copy what is in memory.
LEMMA SaveMoves ==
  ASSUME IndInv, FrontierInv, NEW p \in Clients, Journal(p) \/ Save(p)
  PROVE  FrontierInv' /\ Moves(p)
<1>1. excusedStreams' = excusedStreams
  BY DEF Journal, Save, historyVars, excusedStreams, Trusted
<1>2. /\ UNCHANGED <<latest, mem, delta, scan, snap, published>>
      /\ disk'[p] = mem[p] /\ pc'[p] = "idle"
      /\ \A q \in Clients \ {p} : pc'[q] = pc[q] /\ disk'[q] = disk[q]
  BY DEF IndInv, TypeOK, Journal, Save, remoteVars, jobVars, historyVars, Goto
<1>3. ASSUME NEW q \in Clients \ {p} PROVE FrontierOf(q)'
  BY <1>1, <1>2, OthersFrontier
<1>4. FrontierOf(p)'
  BY <1>1, <1>2 DEF FrontierInv, FrontierOf
<1> QED BY <1>1, <1>2, <1>3, <1>4 DEF FrontierInv, LatestInv, Moves

\* What a client integrates of a batch is its own.
LEMMA IntegrateMoves ==
  ASSUME IndInv, FrontierInv, NEW p \in Clients, Integrate(p)
  PROVE  FrontierInv' /\ Moves(p)
<1>1. excusedStreams' = excusedStreams
  BY DEF Integrate, historyVars, excusedStreams, Trusted
<1>2. mem[p] \in RuntimeState /\ mem \in [Clients -> RuntimeState]
  BY DEF IndInv, TypeOK
<1>3. /\ mem'[p].commits = mem[p].commits \cup batch[p] /\ mem'[p].cursors = mem[p].cursors
      /\ \A q \in Clients \ {p} : mem'[q] = mem[q]
  BY <1>2 DEF Integrate, RuntimeState
<1>4. /\ UNCHANGED <<latest, disk, delta, scan, snap, published>>
      /\ pc'[p] = "save" /\ \A q \in Clients \ {p} : pc'[q] = pc[q]
  BY DEF IndInv, TypeOK, Integrate, remoteVars, historyVars, Goto
<1>5. \A c \in batch[p] : c.author = p
  BY DEF IndInv, BatchInv, BatchOf
<1>6. ASSUME NEW q \in Clients \ {p} PROVE FrontierOf(q)'
  BY <1>1, <1>3, <1>4, OthersFrontier
<1>7. FrontierOf(p)'
  BY <1>1, <1>3, <1>4, <1>5 DEF FrontierInv, FrontierOf, Within
<1> QED BY <1>1, <1>3, <1>4, <1>6, <1>7 DEF FrontierInv, LatestInv, Moves

LEMMA BeginSnapshotMoves ==
  ASSUME IndInv, FrontierInv, NEW p \in Clients, NEW s \in Scopes, BeginSnapshot(p, s)
  PROVE  FrontierInv' /\ Moves(p)
<1>1. excusedStreams' = excusedStreams
  BY DEF BeginSnapshot, historyVars, excusedStreams, Trusted
<1>2. /\ UNCHANGED <<mem, disk, delta, scan, published>>
      /\ latest' = [latest EXCEPT ![s] = NoSnapshot]
      /\ snap'[p].scope = s /\ snap'[p].body.events = InScope(mem[p].commits, s)
      /\ pc'[p] = "rename"
      /\ \A q \in Clients \ {p} : pc'[q] = pc[q] /\ snap'[q] = snap[q]
  BY DEF IndInv, TypeOK, BeginSnapshot, historyVars, Goto
<1>3. ASSUME NEW q \in Clients \ {p} PROVE FrontierOf(q)'
  BY <1>1, <1>2, OthersFrontier
<1>4. FrontierOf(p)'
  BY <1>1, <1>2 DEF FrontierInv, FrontierOf, InScope
<1>5. LatestInv'
  BY <1>2, Defaults DEF FrontierInv, LatestInv, IndInv, TypeOK
<1> QED BY <1>1, <1>2, <1>3, <1>4, <1>5 DEF FrontierInv, Moves

\* A restarted client holds what it had saved, with the cursors saved.
LEMMA CrashMoves ==
  ASSUME IndInv, FrontierInv, NEW p \in Clients, Crash(p)
  PROVE  FrontierInv' /\ Moves(p)
<1>1. excusedStreams \subseteq excusedStreams'
  BY ExcusesGrow DEF Crash
<1>2. /\ UNCHANGED <<latest, disk, published>> /\ mem'[p] = disk[p] /\ pc'[p] = "idle"
      /\ scan'[p] = NoScan /\ snap'[p] = NoSnap
      /\ \A q \in Clients \ {p} : /\ mem'[q] = mem[q] /\ pc'[q] = pc[q] /\ delta'[q] = delta[q]
                                  /\ scan'[q] = scan[q] /\ snap'[q] = snap[q]
  BY DEF IndInv, TypeOK, Crash, AbandonJob, remoteVars, Goto
<1>3. ASSUME NEW q \in Clients \ {p} PROVE FrontierOf(q)'
  BY <1>1, <1>2, OthersFrontier
<1>4. Within(excusedStreams', p, disk[p].commits, disk[p].cursors)
  BY <1>1 DEF FrontierInv, FrontierOf, Within
<1>5. FrontierOf(p)'
  <2>1. \A s \in Scopes : scan'[p].view[s].events = {}
    BY <1>2, Defaults
  <2>2. snap'[p].body.events = {}
    BY <1>2, Defaults
  <2> QED BY <1>2, <1>4, <2>1, <2>2 DEF FrontierOf
<1>6. LatestInv'
  BY <1>2 DEF FrontierInv, LatestInv
<1>7. Moves(p)
  <2>1. disk[p].commits \subseteq mem[p].commits
    BY DEF FrontierInv, FrontierOf
  <2> QED BY <1>1, <1>2, <2>1 DEF Moves
<1> QED BY <1>3, <1>5, <1>6, <1>7 DEF FrontierInv

\* A new segment appends to the log: its commits are numbered above what the
\* author has published in the scope.
LEMMA WriteSegmentPublishes ==
  ASSUME IndInv, FrontierInv, NEW p \in Clients, NEW s \in Scopes, WriteSegment(p, s)
  PROVE  FrontierInv' /\ Log!Publish
<1>1. /\ FrontierInv' /\ excusedStreams' = excusedStreams
      /\ \A q \in Clients : mem'[q].commits = mem[q].commits
  BY QuietSteps
<1>2. published' = published \cup InScope(batch[p], s) /\ s \in todo[p]
  BY DEF WriteSegment
<1>3. ASSUME NEW c \in published' \ published, NEW d \in published, Log!SameStream(c, d),
             <<c.author, c.scope>> \notin excusedStreams
      PROVE  d.counter < c.counter
  <2>1. c \in batch[p] /\ c.scope = s /\ c.author = p
    BY <1>2 DEF InScope, IndInv, BatchInv, BatchOf
  <2>2. p \notin rewound
    BY <1>3, <2>1 DEF excusedStreams, Trusted
  <2> QED BY <1>2, <1>3, <2>1, <2>2 DEF Log!SameStream, IndInv, BatchInv, BatchOf
<1>4. [q \in Clients |-> mem[q].commits]' = [q \in Clients |-> mem[q].commits]
  BY <1>1
<1> QED BY <1>1, <1>2, <1>3, <1>4 DEF Log!Publish

\* Any other step is a client learning, or falling back to what it had saved.
LEMMA MovesRefine ==
  ASSUME IndInv', FrontierInv', NEW p \in Clients, Moves(p)
  PROVE  Log!LogNext
<1> DEFINE known == [q \in Clients |-> mem[q].commits]
<1>1. known'[p] = mem'[p].commits /\ known[p] = mem[p].commits
      /\ \A q \in Clients \ {p} : known'[q] = known[q]
  BY DEF Moves
<1>2. published' \in SUBSET Commit /\ mem'[p].cursors \in [Scopes -> Cursors]
  BY DEF IndInv, TypeOK, RuntimeState
<1>3. \A s \in Scopes :
        Sound(published', excusedStreams', mem'[p].commits, mem'[p].cursors[s], s)
  BY DEF IndInv, ClientsSound, ClientSound, StateSound
<1>4. Within(excusedStreams', p, mem'[p].commits, mem'[p].cursors)
  BY DEF FrontierInv, FrontierOf
<1>5. Log!Prefix(p, mem'[p].commits, published', excusedStreams')
  BY <1>2, <1>3, <1>4, HeldPrefix
<1>6. mem'[p].commits \subseteq published
  BY <1>3, CatalogAssumption DEF Sound, Moves
<1>7. Log!Holds(p)
  BY <1>1, <1>5, <1>6 DEF Log!Holds, Moves
<1>8. Log!Learn(p) \/ Log!Restart(p)
  BY <1>1, <1>7 DEF Log!Learn, Log!Restart, Moves
<1> QED BY <1>8 DEF Log!LogNext

LEMMA StepRefines ==
  ASSUME IndInv, FrontierInv, [Next]_vars, IndInv'
  PROVE  FrontierInv' /\ [Log!LogNext]_(Log!logVars)
<1>1. CASE UNCHANGED vars
  <2>1. excusedStreams' = excusedStreams
    BY <1>1 DEF vars, historyVars, excusedStreams, Trusted
  <2>2. UNCHANGED <<latest, mem, disk, pc, delta, scan, snap, published>>
    BY <1>1 DEF vars, remoteVars, jobVars, historyVars
  <2>3. FrontierInv'
    BY <2>1, <2>2 DEF FrontierInv, FrontierOf, LatestInv
  <2>4. UNCHANGED Log!logVars
    BY <2>1, <2>2 DEF Log!logVars
  <2> QED BY <2>3, <2>4
<1>2. ASSUME NEW p \in Clients, FrontierInv' /\ Moves(p)
      PROVE  FrontierInv' /\ [Log!LogNext]_(Log!logVars)
  BY <1>2, MovesRefine
<1>3. ASSUME NEW p \in Clients,
             \/ \E n \in 1..MaxBatch : \E assign \in [1..n -> Scopes] : BeginPublish(p, n, assign)
             \/ \E s \in Scopes : BeginSegment(p, s)
             \/ RenameLatest(p) \/ FinishSnapshot(p) \/ MeetTorn(p) \/ Fail(p)
             \/ \E g \in segments : DeleteSegment(p, g)
      PROVE  FrontierInv' /\ [Log!LogNext]_(Log!logVars)
  <2>1. /\ FrontierInv' /\ excusedStreams' = excusedStreams
        /\ \A q \in Clients : mem'[q].commits = mem[q].commits
    BY <1>3, QuietSteps
  <2>2. published' = published
    BY <1>3 DEF BeginPublish, BeginSegment, MeetTorn, RenameLatest, FinishSnapshot, Fail, DeleteSegment, historyVars
  <2> QED BY <1>2, <2>1, <2>2 DEF Moves
<1>4. ASSUME NEW p \in Clients, NEW s \in Scopes, WriteSegment(p, s)
      PROVE  FrontierInv' /\ [Log!LogNext]_(Log!logVars)
  BY <1>4, WriteSegmentPublishes DEF Log!LogNext
<1>5. ASSUME NEW p \in Clients, Call(p) \/ Step(p) \/ Fail(p) \/ Crash(p)
      PROVE  FrontierInv' /\ [Log!LogNext]_(Log!logVars)
  <2>1. CASE Call(p)
    BY <1>2, <1>3, <2>1, ReadSnapshotsMoves DEF Call
  <2>2. CASE ReadSegments(p) \/ LoadCommits(p) \/ Journal(p) \/ Integrate(p) \/ Save(p)
    BY <1>2, <2>2, ReadSegmentsMoves, LoadCommitsMoves, SaveMoves, IntegrateMoves
  <2>3. CASE \E s \in Scopes : BeginSegment(p, s) \/ WriteSegment(p, s) \/ BeginSnapshot(p, s)
    BY <1>2, <1>3, <1>4, <2>3, BeginSnapshotMoves
  <2>4. CASE \/ RenameLatest(p) \/ FinishSnapshot(p) \/ MeetTorn(p) \/ Fail(p)
             \/ \E g \in segments : DeleteSegment(p, g)
    BY <1>3, <2>4
  <2>5. CASE Crash(p)
    BY <1>2, <2>5, CrashMoves
  <2> QED BY <1>5, <2>1, <2>2, <2>3, <2>4, <2>5 DEF Step
<1> QED BY <1>1, <1>5 DEF Next

\* The catalog keeps the promise of CommitLog: a log that only grows, of which
\* each client holds, of every author and scope, a part without holes, through
\* half-written batches, concurrent snapshots, failed calls and crashes.
THEOREM CatalogImplementsLog == Spec => LogRefined
<1>1. Init => FrontierInv
  <2> SUFFICES ASSUME Init PROVE FrontierInv
    OBVIOUS
  <2>1. LatestInv
    BY Defaults DEF Init, LatestInv
  <2>2. ASSUME NEW p \in Clients PROVE FrontierOf(p)
    BY Defaults DEF Init, FrontierOf, Within
  <2> QED BY <2>1, <2>2 DEF FrontierInv
<1>2. Init => Log!LogInit
  BY Defaults DEF Init, Log!LogInit, excusedStreams, Trusted
<1>3. IndInv /\ FrontierInv /\ [Next]_vars /\ IndInv'
        => FrontierInv' /\ [Log!LogNext]_(Log!logVars)
  BY StepRefines
<1> QED BY <1>1, <1>2, <1>3, Invariance, PTL DEF Spec, LogRefined, Log!LogSpec

============================================================================
