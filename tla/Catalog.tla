------------------------------ MODULE Catalog ------------------------------
(***************************************************************************)
(* The immutable catalog of src/src/v2_remote.rs and the part of the       *)
(* runtime (src/src/runtime.rs) that publishes to it, reads it and         *)
(* compacts it, on behalf of several clients at once.                      *)
(*                                                                         *)
(* A client numbers its commits with one counter.  A batch of commits      *)
(* becomes visible one segment per scope.  Other clients read the latest   *)
(* snapshot of a scope, then the segments, and remember the highest number *)
(* seen of every author and scope in a cursor; a later scan ignores what   *)
(* is at or below the cursor.  A client that has read enough events        *)
(* replaces the segments by a snapshot.  Clients keep their state in       *)
(* memory and save it as one blob; nothing coordinates them.               *)
(*                                                                         *)
(* A commit is its author, number, scope and the author's life it was made *)
(* in: the digest in the commit id covers a time stamp, so two lives never *)
(* make the same id.  Contents, parents and packs are left to the modules  *)
(* that need them.                                                         *)
(***************************************************************************)
EXTENDS Naturals, FiniteSets, FiniteSetsExt

CONSTANTS
  Clients,
  Scopes,
  SnapshotThreshold,  \* events read before a scope is snapshotted (10_000)
  MaxCommits,         \* bound: commits made by all clients
  MaxBatch,           \* bound: commits in one batch
  MaxFaults           \* bound: failed calls and crashes in a run

ASSUME CatalogAssumption ==
  /\ Scopes # {}
  /\ SnapshotThreshold \in Nat \ {0}
  /\ MaxCommits \in Nat /\ MaxBatch \in Nat /\ MaxFaults \in Nat

VARIABLES
  (* the remote folder *)
  objects,    \* commit objects stored
  segments,   \* catalog segments
  torn,       \* segments of which only a part is in the folder, under a temporary
              \* name: being written, or left by a writer that did not finish
  latest,     \* latest[s]: the snapshot latest.json of scope s points to
  (* the clients *)
  mem,        \* mem[p]: RuntimeState behind the mutex
  disk,       \* disk[p]: the RuntimeState last saved
  pc,         \* pc[p]: where the call holding the mutex has got to
  scan,       \* scan[p]: scopes of the scan in progress and the snapshots read
  delta,      \* delta[p]: CatalogDelta of the scan in progress
  batch,      \* batch[p]: commits of the batch being written
  todo,       \* todo[p]: scopes whose segment of the batch is not written yet
  snap,       \* snap[p]: the snapshot being installed
  (* the environment and the history *)
  life,       \* life[p]: number of restarts of p
  faults,     \* faults so far
  published,  \* commits ever made visible
  floor,      \* floor[s][a]: highest number of a in a deleted segment of s
  rewound,    \* authors that restarted below a number they had published
  holed       \* scopes in which a scan met a hole

remoteVars  == <<objects, segments, torn, latest>>
jobVars     == <<scan, delta, batch, todo, snap>>
historyVars == <<published, floor, rewound, holed>>
vars == <<remoteVars, mem, disk, pc, jobVars, life, faults, historyVars>>

---------------------------------------------------------------------------
Commit == [author : Clients, counter : Nat, scope : Scopes, life : Nat]

Cursors == [Clients -> Nat]             \* of one scope, by author

\* CatalogSegment, without first_counter, which nothing reads.
Segment == [author : Clients, scope : Scopes, last : Nat, events : SUBSET Commit]

\* CatalogSnapshot; the generation only names its file.
Snapshot == [events : SUBSET Commit, cursors : Cursors]

\* Faulty: an author never heard of has no entry.
EmptyCursors == [a \in {} |-> 0]

NoCursors == [a \in Clients |-> 0]

\* A scope without a latest.json reads like one with an empty snapshot.
NoSnapshot == [events |-> {}, cursors |-> NoCursors]

\* The fields of RuntimeState that the catalog is about.
RuntimeState ==
  [counter : Nat, commits : SUBSET Commit, cursors : [Scopes -> Cursors],
   since : [Scopes -> Nat]]

Scan == [scopes : SUBSET Scopes, view : [Scopes -> Snapshot]]

\* CatalogDelta, as far as refresh_remote uses it after counting.
Delta == [events : SUBSET Commit, cursors : [Scopes -> Cursors]]

SnapshotJob == [scope : Scopes, body : Snapshot]

InScope(C, s) == {c \in C : c.scope = s}

TypeOK ==
  /\ objects \subseteq Commit
  /\ segments \subseteq Segment /\ torn \subseteq Segment
  /\ latest \in [Scopes -> Snapshot]
  /\ mem \in [Clients -> RuntimeState]
  /\ disk \in [Clients -> RuntimeState]
  /\ pc \in [Clients -> {"idle", "segments", "load", "fresh", "publish", "write", "save",
                         "rename", "delete"}]
  /\ scan \in [Clients -> Scan]
  /\ delta \in [Clients -> Delta]
  /\ batch \in [Clients -> SUBSET Commit]
  /\ todo \in [Clients -> SUBSET Scopes]
  /\ snap \in [Clients -> SnapshotJob]
  /\ life \in [Clients -> Nat]
  /\ faults \in Nat
  /\ published \subseteq Commit
  /\ floor \in [Scopes -> Cursors]
  /\ rewound \subseteq Clients
  /\ holed \subseteq Scopes

FreshState ==
  [counter |-> 0, commits |-> {}, cursors |-> [s \in Scopes |-> NoCursors],
   since |-> [s \in Scopes |-> 0]]

NoScan  == [scopes |-> {}, view |-> [s \in Scopes |-> NoSnapshot]]
NoDelta == [events |-> {}, cursors |-> [s \in Scopes |-> NoCursors]]
NoSnap  == [scope |-> CHOOSE s \in Scopes : TRUE, body |-> NoSnapshot]

Init ==
  /\ objects = {} /\ segments = {} /\ torn = {} /\ latest = [s \in Scopes |-> NoSnapshot]
  /\ mem = [p \in Clients |-> FreshState]
  /\ disk = [p \in Clients |-> FreshState]
  /\ pc = [p \in Clients |-> "idle"]
  /\ scan = [p \in Clients |-> NoScan]
  /\ delta = [p \in Clients |-> NoDelta]
  /\ batch = [p \in Clients |-> {}]
  /\ todo = [p \in Clients |-> {}]
  /\ snap = [p \in Clients |-> NoSnap]
  /\ life = [p \in Clients |-> 0]
  /\ faults = 0
  /\ published = {}
  /\ floor = [s \in Scopes |-> NoCursors]
  /\ rewound = {} /\ holed = {}

Goto(p, label) == pc' = [pc EXCEPT ![p] = label]

---------------------------------------------------------------------------
(* refresh_remote: scan_catalog reads the snapshots, then the segments;    *)
(* load_commits fetches what is new.                                       *)

ReadSnapshots(p, S) ==
  /\ pc[p] = "idle"
  /\ S # {}
  /\ scan' = [scan EXCEPT ![p] =
       [scopes |-> S,
        view   |-> [s \in Scopes |-> IF s \in S THEN latest[s] ELSE NoSnapshot]]]
  /\ Goto(p, "segments")
  /\ UNCHANGED <<remoteVars, mem, disk, delta, batch, todo, snap, life, faults, historyVars>>

\* What p's request cursor and the snapshot it read cover of author a in s.
Cursor(p, a, s)  == mem[p].cursors[s][a]
Covered(p, a, s) == scan[p].view[s].cursors[a]
Horizon(p, a, s) == Max({Cursor(p, a, s), Covered(p, a, s)})

\* Faulty: skips a segment of one commit that is next in line.
UnreadSegmentsLate(p) ==
  {g \in segments : g.scope \in scan[p].scopes /\ g.last > Horizon(p, g.author, g.scope) + 1}

\* The segments a scan does not skip, and the cursors and events it returns.
UnreadSegments(p) ==
  {g \in segments : g.scope \in scan[p].scopes /\ g.last > Horizon(p, g.author, g.scope)}

NextCursors(p) ==
  [s \in Scopes |-> [a \in Clients |->
     Max({Horizon(p, a, s)}
                \cup {g.last : g \in {g \in UnreadSegments(p) : g.author = a /\ g.scope = s}})]]

\* Faulty: takes the snapshot's coverage for what the client has read.
SnapshotEventsUncovered(p) ==
  {c \in UNION {scan[p].view[s].events : s \in scan[p].scopes} :
     c.counter > Covered(p, c.author, c.scope)}

SnapshotEvents(p) ==
  {c \in UNION {scan[p].view[s].events : s \in scan[p].scopes} :
     c.counter > Cursor(p, c.author, c.scope)}

SegmentEvents(p) ==
  {c \in UNION {g.events : g \in UnreadSegments(p)} :
     c.counter > Horizon(p, c.author, c.scope)}

ScannedEvents(p) == SnapshotEvents(p) \cup SegmentEvents(p)

\* What refresh_remote adds to the events counted towards the next snapshot
\* of a scope; an event listed twice counts twice.
NewEvents(p, s) ==
  LET uncovered(E) == {c \in InScope(E, s) : c.counter > Covered(p, c.author, s)}
  IN  Cardinality(uncovered(SnapshotEvents(p))) + Cardinality(uncovered(SegmentEvents(p)))

\* History: the snapshot p read misses segments of s deleted by now.
MeetsHole(p, s) ==
  s \in scan[p].scopes /\ \E a \in Clients : floor[s][a] > Horizon(p, a, s)

\* scan_catalog reads every file in the folder of the segments, whatever its
\* name, and fails at one that it cannot parse (see MeetTorn).
ReadSegments(p) ==
  /\ pc[p] = "segments"
  /\ torn = {}
  /\ delta' = [delta EXCEPT ![p] = [events |-> ScannedEvents(p), cursors |-> NextCursors(p)]]
  /\ mem' = [mem EXCEPT ![p].since =
       [s \in Scopes |-> mem[p].since[s] + NewEvents(p, s)]]
  /\ scan' = [scan EXCEPT ![p] = NoScan]
  /\ holed' = holed \cup {s \in Scopes : MeetsHole(p, s)}
  /\ Goto(p, "load")
  /\ UNCHANGED <<remoteVars, disk, batch, todo, snap, life, faults, published, floor, rewound>>

\* Every commit object must be there, or load_commits fails (see Fail).
LoadCommits(p) ==
  /\ pc[p] = "load"
  /\ delta[p].events \ mem[p].commits \subseteq objects
  /\ mem' = [mem EXCEPT ![p].commits = @ \cup delta[p].events,
                        ![p].cursors = delta[p].cursors]
  /\ delta' = [delta EXCEPT ![p] = NoDelta]
  /\ Goto(p, "fresh")
  /\ UNCHANGED <<remoteVars, disk, scan, batch, todo, snap, life, faults, historyVars>>

Due(p) == {s \in Scopes : mem[p].since[s] >= SnapshotThreshold}

\* execute journals the run and saves the whole state before it acts.
Journal(p) ==
  /\ pc[p] = "fresh"
  /\ Due(p) = {}
  /\ disk' = [disk EXCEPT ![p] = mem[p]]
  /\ Goto(p, "idle")
  /\ UNCHANGED <<remoteVars, mem, jobVars, life, faults, historyVars>>

---------------------------------------------------------------------------
(* Publishing: next_counter for every commit, then commit_batch, then the  *)
(* commits are integrated and the state saved.  A reconciliation gets here *)
(* from Journal; resolve and rollback publish without a refresh.           *)

\* Faulty: the objects are left for later.
PublishWithoutObjects(p, n, assign) ==
  LET commits == {[author |-> p, counter |-> mem[p].counter + i, scope |-> assign[i],
                   life |-> life[p]] : i \in 1..n}
  IN  /\ pc[p] = "idle"
      /\ Cardinality(published) + n <= MaxCommits
      /\ mem' = [mem EXCEPT ![p].counter = @ + n]
      /\ batch' = [batch EXCEPT ![p] = commits]
      /\ todo' = [todo EXCEPT ![p] = {assign[i] : i \in 1..n}]
      /\ Goto(p, "publish")
      /\ UNCHANGED <<remoteVars, disk, scan, delta, snap, life, faults, historyVars>>

\* Number the commits of the batch and store their objects, which nobody
\* looks for until a segment names them.
BeginPublish(p, n, assign) ==
  LET commits == {[author |-> p, counter |-> mem[p].counter + i, scope |-> assign[i],
                   life |-> life[p]] : i \in 1..n}
  IN  /\ pc[p] = "idle"
      /\ Cardinality(objects) + n <= MaxCommits
      /\ mem' = [mem EXCEPT ![p].counter = @ + n]
      /\ batch' = [batch EXCEPT ![p] = commits]
      /\ todo' = [todo EXCEPT ![p] = {assign[i] : i \in 1..n}]
      /\ objects' = objects \cup commits
      /\ Goto(p, "publish")
      /\ UNCHANGED <<segments, torn, latest, disk, scan, delta, snap, life, faults, historyVars>>

SegmentOf(p, s) ==
  LET events == InScope(batch[p], s)
  IN  [author |-> p, scope |-> s, last |-> Max({c.counter : c \in events}),
       events |-> events]

\* write_immutable has made the temporary file and not filled it yet.
BeginSegment(p, s) ==
  /\ pc[p] = "publish"
  /\ s \in todo[p]
  /\ torn' = torn \cup {SegmentOf(p, s)}
  /\ Goto(p, "write")
  /\ UNCHANGED <<objects, segments, latest, mem, disk, jobVars, life, faults, historyVars>>

\* The file is complete, which makes the commits of one scope visible: scans
\* read it under its temporary name as well as under the one it is renamed to.
WriteSegment(p, s) ==
  /\ pc[p] = "write"
  /\ s \in todo[p] /\ SegmentOf(p, s) \in torn
  /\ torn' = torn \ {SegmentOf(p, s)}
  /\ segments' = segments \cup {SegmentOf(p, s)}
  /\ published' = published \cup InScope(batch[p], s)
  /\ todo' = [todo EXCEPT ![p] = @ \ {s}]
  /\ Goto(p, "publish")
  /\ UNCHANGED <<objects, latest, mem, disk, scan, delta, batch, snap, life, faults,
                 floor, rewound, holed>>

\* Faulty: does not wait for commit_batch.
IntegrateEarly(p) ==
  /\ pc[p] = "publish"
  /\ mem' = [mem EXCEPT ![p].commits = @ \cup batch[p]]
  /\ batch' = [batch EXCEPT ![p] = {}]
  /\ todo' = [todo EXCEPT ![p] = {}]
  /\ Goto(p, "save")
  /\ UNCHANGED <<remoteVars, disk, scan, delta, snap, life, faults, historyVars>>

\* commit_batch has returned: the commits join the client's own state.
Integrate(p) ==
  /\ pc[p] = "publish"
  /\ todo[p] = {}
  /\ mem' = [mem EXCEPT ![p].commits = @ \cup batch[p]]
  /\ batch' = [batch EXCEPT ![p] = {}]
  /\ Goto(p, "save")
  /\ UNCHANGED <<remoteVars, disk, scan, delta, todo, snap, life, faults, historyVars>>

Save(p) ==
  /\ pc[p] = "save"
  /\ disk' = [disk EXCEPT ![p] = mem[p]]
  /\ Goto(p, "idle")
  /\ UNCHANGED <<remoteVars, mem, jobVars, life, faults, historyVars>>

---------------------------------------------------------------------------
(* snapshot_large_catalogs and compact_catalog.                            *)

\* Faulty: the events of the saved state with the cursors in memory.
BeginSnapshotSaved(p, s) ==
  /\ pc[p] = "fresh"
  /\ s \in Due(p)
  /\ snap' = [snap EXCEPT ![p] =
       [scope |-> s,
        body  |-> [events |-> InScope(disk[p].commits, s), cursors |-> mem[p].cursors[s]]]]
  /\ latest' = [latest EXCEPT ![s] = NoSnapshot]
  /\ Goto(p, "rename")
  /\ UNCHANGED <<objects, segments, torn, mem, disk, scan, delta, batch, todo, life, faults,
                 historyVars>>

\* The snapshot file is written, then latest.json is removed, and only in a
\* later step replaced.
BeginSnapshot(p, s) ==
  /\ pc[p] = "fresh"
  /\ s \in Due(p)
  /\ snap' = [snap EXCEPT ![p] =
       [scope |-> s,
        body  |-> [events |-> InScope(mem[p].commits, s), cursors |-> mem[p].cursors[s]]]]
  /\ latest' = [latest EXCEPT ![s] = NoSnapshot]
  /\ Goto(p, "rename")
  /\ UNCHANGED <<objects, segments, torn, mem, disk, scan, delta, batch, todo, life, faults,
                 historyVars>>

RenameLatest(p) ==
  /\ pc[p] = "rename"
  /\ latest' = [latest EXCEPT ![snap[p].scope] = snap[p].body]
  /\ Goto(p, "delete")
  /\ UNCHANGED <<objects, segments, torn, mem, disk, jobVars, life, faults, historyVars>>

CoveredSegments(p) ==
  {g \in segments : g.scope = snap[p].scope /\ g.last <= snap[p].body.cursors[g.author]}

DeleteSegment(p, g) ==
  /\ pc[p] = "delete"
  /\ g \in CoveredSegments(p)
  /\ segments' = segments \ {g}
  /\ floor' = [floor EXCEPT ![g.scope][g.author] = Max({@, g.last})]
  /\ UNCHANGED <<objects, torn, latest, mem, disk, pc, jobVars, life, faults,
                 published, rewound, holed>>

FinishSnapshot(p) ==
  /\ pc[p] = "delete"
  /\ CoveredSegments(p) = {} /\ torn = {}
  /\ mem' = [mem EXCEPT ![p].since[snap[p].scope] = 0]
  /\ snap' = [snap EXCEPT ![p] = NoSnap]
  /\ Goto(p, "fresh")
  /\ UNCHANGED <<remoteVars, disk, scan, delta, batch, todo, life, faults, historyVars>>

---------------------------------------------------------------------------
(* Faults.                                                                 *)

AbandonJob(p) ==
  /\ Goto(p, "idle")
  /\ scan' = [scan EXCEPT ![p] = NoScan]
  /\ delta' = [delta EXCEPT ![p] = NoDelta]
  /\ batch' = [batch EXCEPT ![p] = {}]
  /\ todo' = [todo EXCEPT ![p] = {}]
  /\ snap' = [snap EXCEPT ![p] = NoSnap]

\* A scan or a compaction comes to a file it cannot parse and returns an error;
\* a compaction may have deleted some segments before.
MeetTorn(p) ==
  /\ pc[p] \in {"segments", "delete"}
  /\ torn # {}
  /\ AbandonJob(p)
  /\ UNCHANGED <<remoteVars, mem, disk, life, faults, historyVars>>

\* A call to the remote, the host or the store returns an error: the
\* operation ends, the state in memory stays as it is, and so does a file that
\* is half written.
Fail(p) ==
  /\ faults < MaxFaults
  /\ pc[p] # "idle"
  /\ AbandonJob(p)
  /\ faults' = faults + 1
  /\ UNCHANGED <<remoteVars, mem, disk, life, historyVars>>

\* The process dies and starts again from the saved state.  Nothing raises
\* the counter above the saved one.
Crash(p) ==
  /\ faults < MaxFaults
  /\ pc[p] # "idle" \/ mem[p] # disk[p]
  /\ AbandonJob(p)
  /\ mem' = [mem EXCEPT ![p] = disk[p]]
  /\ life' = [life EXCEPT ![p] = @ + 1]
  /\ faults' = faults + 1
  /\ rewound' = rewound \cup
       {a \in {p} : \E c \in published : c.author = a /\ c.counter > disk[p].counter}
  /\ UNCHANGED <<remoteVars, disk, published, floor, holed>>

---------------------------------------------------------------------------
Step(p) ==
  \/ ReadSegments(p) \/ LoadCommits(p) \/ Journal(p)
  \/ Integrate(p) \/ Save(p)
  \/ \E s \in Scopes : BeginSegment(p, s) \/ WriteSegment(p, s) \/ BeginSnapshot(p, s)
  \/ RenameLatest(p) \/ FinishSnapshot(p)
  \/ \E g \in segments : DeleteSegment(p, g)
  \/ MeetTorn(p)

Call(p) ==
  \/ \E S \in SUBSET Scopes : ReadSnapshots(p, S)
  \/ \E n \in 1..MaxBatch : \E assign \in [1..n -> Scopes] : BeginPublish(p, n, assign)

Next == \E p \in Clients : Call(p) \/ Step(p) \/ Fail(p) \/ Crash(p)

Spec == Init /\ [][Next]_vars

\* The host keeps calling reconcile for all its scopes, and a call that was
\* made runs to its end unless it fails.
Fairness ==
  \A p \in Clients : WF_vars(Step(p)) /\ SF_vars(ReadSnapshots(p, Scopes))

FairSpec == Spec /\ Fairness

---------------------------------------------------------------------------
(* Properties.                                                             *)

\* The streams for which no author was rewound and no scan met a hole.
Trusted(a, s) == a \notin rewound /\ s \notin holed

\* K holds every published commit at or below the cursors of scope s.
HoldsBelow(K, cursors, s) ==
  \A c \in published :
    c.scope = s /\ Trusted(c.author, s) /\ c.counter <= cursors[c.author] => c \in K

\* A cursor never passes a commit its client does not have: what a scan skips
\* because of the cursor (v2_remote.rs:191) was integrated before, whatever
\* the interleaving of publishers, readers and compactors.  The only two ways
\* to lose a commit are an author rewound by a crash and a scan that met a
\* hole.
CursorSound ==
  \A p \in Clients, s \in Scopes :
    /\ HoldsBelow(mem[p].commits, mem[p].cursors[s], s)
    /\ HoldsBelow(disk[p].commits, disk[p].cursors[s], s)

\* The latest snapshot of a scope holds every commit that its cursors claim
\* to cover, so that deleting the covered segments deletes nothing.
SnapshotSound == \A s \in Scopes : HoldsBelow(latest[s].events, latest[s].cursors, s)

\* Whatever a scan can see, load_commits finds: commit objects are stored
\* before the segment that makes them visible.
VisibleLoadable ==
  /\ \A g \in segments : g.events \subseteq objects
  /\ \A s \in Scopes : latest[s].events \subseteq objects
  /\ \A p \in Clients : delta[p].events \subseteq objects

\* What the cursors are for, without the exceptions: a client whose cursor has
\* reached a visible commit has that commit.
NoCommitSkipped ==
  \A p \in Clients, c \in published :
    c.counter <= mem[p].cursors[c.scope][c.author] => c \in mem[p].commits

\* The catalog implements the log of module CommitLog.
excusedStreams == {x \in Clients \X Scopes : ~Trusted(x[1], x[2])}

Log == INSTANCE CommitLog WITH
  log <- published, known <- [p \in Clients |-> mem[p].commits], excused <- excusedStreams

LogRefined == Log!LogSpec

\* p has every visible commit whose author was not rewound and whose scope no
\* scan found a hole in.
HasAll(p) == \A c \in published : Trusted(c.author, c.scope) => c \in mem[p].commits

\* A visible commit reaches every client in the end, unless its author was
\* rewound, a scan of its scope met a hole, or a writer that died has left half
\* of a segment (v2_remote.rs:37), which fails every later scan of every client.
EveryCommitArrives == \A p \in Clients : <>[](torn = {} => HasAll(p))

\* The same without the last exception.
EveryCommitArrivesStill == \A p \in Clients : <>[]HasAll(p)

============================================================================
