---------------------------- MODULE Maintenance ----------------------------
(***************************************************************************)
(* SyncRuntime::maintain and retire_client (src/src/runtime.rs): bounding  *)
(* the history of binary resources while other clients go on reading and   *)
(* writing it.                                                             *)
(*                                                                         *)
(* A maintainer publishes a checkpoint, a copy of the only head, waits     *)
(* until the clients it takes for active have acknowledged it, and then    *)
(* replaces the catalog by a snapshot of what it retains and deletes the   *)
(* other commit objects.  Nobody is told: the others keep what they have.  *)
(*                                                                         *)
(* One scope.  A commit's id is its place in the order of publication,     *)
(* which agrees with its author's numbering; its time stamp is what its    *)
(* author's clock shows; each has a segment of its own.  A call holds the  *)
(* client's mutex, but other clients read, write and compact between any   *)
(* two of its steps.  A scan is one step here; its races are the subject   *)
(* of module Catalog, as are errors and crashes.  Packs are left to module *)
(* PackStore.                                                              *)
(***************************************************************************)
EXTENDS Naturals, FiniteSets, FiniteSetsExt

CONSTANTS
  Clients,
  Maintainers,   \* clients whose hosts call maintain
  Keys,
  Retention,     \* history_retention_versions; 0 would switch maintain off
  Ahead,         \* Ahead[p]: how far p's clock is ahead
  Snapshots,     \* whether catalogs grow large enough for snapshots
  MaxWrites,     \* bound: commits made by users
  MaxCommits     \* bound: commits in all

ASSUME MaintenanceAssumption ==
  /\ Maintainers \subseteq Clients
  /\ IsFiniteSet(Keys)
  /\ Retention \in Nat \ {0}
  /\ Ahead \in [Clients -> Nat]
  /\ Snapshots \in BOOLEAN
  /\ MaxWrites \in Nat /\ MaxCommits \in Nat

VARIABLES
  objects,     \* commit objects stored
  listed,      \* commits named by a segment
  snapshot,    \* the latest snapshot
  acks,        \* acks[p][k]: heads p acknowledged
  mem,         \* mem[p]: RuntimeState
  pc,          \* pc[p]: where p's call has got to
  compaction,  \* compaction[p]: the CatalogCompaction p is carrying out
  published,   \* history: all commits ever made
  seen         \* history: seen[p]: the commits p has had

vars == <<objects, listed, snapshot, acks, mem, pc, compaction, published, seen>>

---------------------------------------------------------------------------
\* `content' is the id of the commit that introduced the content.
Commit ==
  [id : Nat, author : Clients, key : Keys, parents : SUBSET Nat, content : Nat, time : Nat]

Cursors == [Clients -> Nat]

Snapshot == [events : SUBSET Commit, cursors : Cursors]

\* The snapshot to be installed, and the commits to be deleted afterwards.
CatalogCompaction == [snapshot : Snapshot, obsolete : SUBSET Commit]

\* checkpoints[k] is the id of the checkpoint of k, or 0.
RuntimeState ==
  [commits : SUBSET Commit, cursors : Cursors, checkpoints : [Keys -> Nat],
   retired : SUBSET Clients]

Label == {"idle", "fresh", "done", "survey", "remove", "rename", "delete"}

TypeOK ==
  /\ objects \subseteq Commit
  /\ listed \subseteq Commit
  /\ snapshot \in Snapshot
  /\ acks \in [Clients -> [Keys -> SUBSET Nat]]
  /\ mem \in [Clients -> RuntimeState]
  /\ pc \in [Clients -> Label]
  /\ compaction \in [Clients -> CatalogCompaction]
  /\ published \subseteq Commit
  /\ seen \in [Clients -> SUBSET Commit]

NoCursors == [a \in Clients |-> 0]

NoSnapshot == [events |-> {}, cursors |-> NoCursors]

NoCompaction == [snapshot |-> NoSnapshot, obsolete |-> {}]

\* Faulty: forgets the resource instead of its checkpoint.
Forgotten == [k \in {} |-> 0]

NoCheckpoints == [k \in Keys |-> 0]

Init ==
  /\ objects = {} /\ listed = {}
  /\ snapshot = NoSnapshot
  /\ acks = [p \in Clients |-> [k \in Keys |-> {}]]
  /\ mem = [p \in Clients |->
       [commits |-> {}, cursors |-> NoCursors, checkpoints |-> [k \in Keys |-> 0],
        retired |-> {}]]
  /\ pc = [p \in Clients |-> "idle"]
  /\ compaction = [p \in Clients |-> NoCompaction]
  /\ published = {}
  /\ seen = [p \in Clients |-> {}]

Goto(p, label) == pc' = [pc EXCEPT ![p] = label]

---------------------------------------------------------------------------
(* The commit graph.                                                       *)

ResourceCommits(C, k) == {c \in C : c.key = k}

HeadCommits(C, k) ==
  LET R == ResourceCommits(C, k)
  IN  {c \in R : \A d \in R : c.id \notin d.parents}

Heads(C, k) == {c.id : c \in HeadCommits(C, k)}

\* Heads that disagree are a conflict.
Forked(C, k) == Cardinality({c.content : c \in HeadCommits(C, k)}) > 1

\* is_descendant visits the candidate and, with every commit of C, its parents.
IsDescendant(C, candidate, ancestor) ==
  \A visited \in SUBSET ({candidate} \cup UNION {c.parents : c \in C}) :
    candidate \in visited /\ (\A c \in C : c.id \in visited => c.parents \subseteq visited)
      => ancestor \in visited

---------------------------------------------------------------------------
(* Reading the catalog.                                                    *)

\* What a scan from these cursors returns.
Scanned(cursors) ==
  {c \in snapshot.events : c.id > cursors[c.author]}
    \cup {c \in listed : c.id > cursors[c.author] /\ c.id > snapshot.cursors[c.author]}

\* load_commits fails if an object is missing, and the whole call with it.
Loadable(p) == Scanned(mem[p].cursors) \ mem[p].commits \subseteq objects

\* Faulty: a client does not move the cursor of its own commits.
RefreshedForeign(p) ==
  [mem[p] EXCEPT
     !.commits = @ \cup Scanned(mem[p].cursors),
     !.cursors = [a \in Clients |-> IF a = p THEN @[a] ELSE
        Max({@[a], snapshot.cursors[a]} \cup {c.id : c \in {c \in listed : c.author = a}})]]

Refreshed(p) ==
  [mem[p] EXCEPT
     !.commits = @ \cup Scanned(mem[p].cursors),
     !.cursors = [a \in Clients |->
        Max({@[a], snapshot.cursors[a]} \cup {c.id : c \in {c \in listed : c.author = a}})]]

\* refresh_remote.
Read(p) ==
  /\ pc[p] = "idle"
  /\ Loadable(p)
  /\ mem' = [mem EXCEPT ![p] = Refreshed(p)]
  /\ seen' = [seen EXCEPT ![p] = @ \cup Scanned(mem[p].cursors)]
  /\ UNCHANGED <<objects, listed, snapshot, acks, published>>

---------------------------------------------------------------------------
(* compact_catalog: the latest snapshot is replaced, the segments that the *)
(* new one covers are deleted, then the obsolete commit objects.           *)

\* Replace the catalog by what this state has, without the obsolete commits.
Compact(p, state, obsolete) ==
  /\ compaction' = [compaction EXCEPT ![p] =
       [snapshot |-> [events |-> state.commits \ obsolete, cursors |-> state.cursors],
        obsolete |-> obsolete]]
  /\ Goto(p, "remove")

\* Until the new one is renamed, there is no latest snapshot.
RemoveLatest(p) ==
  /\ pc[p] = "remove"
  /\ snapshot' = NoSnapshot
  /\ Goto(p, "rename")
  /\ UNCHANGED <<objects, listed, acks, mem, compaction, published, seen>>

RenameLatest(p) ==
  /\ pc[p] = "rename"
  /\ snapshot' = compaction[p].snapshot
  /\ Goto(p, "delete")
  /\ UNCHANGED <<objects, listed, acks, mem, compaction, published, seen>>

Covered(p) == {c \in listed : c.id <= compaction[p].snapshot.cursors[c.author]}

DeleteSegment(p, c) ==
  /\ pc[p] = "delete"
  /\ c \in Covered(p)
  /\ listed' = listed \ {c}
  /\ UNCHANGED <<objects, snapshot, acks, mem, pc, compaction, published, seen>>

DeleteObject(p, c) ==
  /\ pc[p] = "delete"
  /\ Covered(p) = {}
  /\ c \in objects \cap compaction[p].obsolete
  /\ objects' = objects \ {c}
  /\ UNCHANGED <<listed, snapshot, acks, mem, pc, compaction, published, seen>>

\* Back in maintain, which forgets what was deleted and, with it, the
\* checkpoints of the scope, or in a reconciliation, which deletes nothing.
FinishCompaction(p) ==
  LET obsolete == compaction[p].obsolete
  IN  /\ pc[p] = "delete"
      /\ Covered(p) = {} /\ objects \cap obsolete = {}
      /\ mem' = [mem EXCEPT
           ![p].commits = @ \ obsolete,
           ![p].checkpoints = IF obsolete = {} THEN @ ELSE NoCheckpoints]
      /\ compaction' = [compaction EXCEPT ![p] = NoCompaction]
      /\ Goto(p, IF obsolete = {} THEN "fresh" ELSE "idle")
      /\ UNCHANGED <<objects, listed, snapshot, acks, published, seen>>

\* The clients that replace the catalog by a snapshot.
Compactors == IF Snapshots THEN Clients ELSE Maintainers

\* A file that this call is about to read or remove was removed by another
\* client that compacts: the call returns an error.
Collide(p) ==
  /\ pc[p] \in {"remove", "delete"}
  /\ \E q \in Compactors : q # p
  /\ compaction' = [compaction EXCEPT ![p] = NoCompaction]
  /\ Goto(p, "idle")
  /\ UNCHANGED <<objects, listed, snapshot, acks, mem, published, seen>>

---------------------------------------------------------------------------
(* A reconciliation, as far as it matters to maintenance.                  *)

\* The scan, and the snapshot of a catalog that has grown large.
Refresh(p) ==
  /\ Read(p)
  /\ \/ Goto(p, "fresh") /\ UNCHANGED compaction
     \/ Snapshots /\ Compact(p, Refreshed(p), {})

NextId == Cardinality(published) + 1

\* Two ticks from one commit to the next.  Clients that are an odd number of
\* ticks apart never write the same time.
Clock(p, id) == 2 * id + Ahead[p]

\* publish_bytes, publish_delete and the uploads of execute.
Store(C) ==
  /\ published' = published \cup C
  /\ objects' = objects \cup C

\* The user has changed a resource, or resolves its conflict: one commit over
\* the known heads.
Write(p, k) ==
  LET c == [id |-> NextId, author |-> p, key |-> k, parents |-> Heads(mem[p].commits, k),
            content |-> NextId, time |-> Clock(p, NextId)]
  IN  /\ pc[p] = "fresh"
      /\ Cardinality({d \in published : d.content = d.id}) < MaxWrites
      /\ NextId <= MaxCommits
      /\ Store({c})
      /\ listed' = listed \cup {c}
      /\ mem' = [mem EXCEPT ![p].commits = @ \cup {c}]
      /\ seen' = [seen EXCEPT ![p] = @ \cup {c}]
      /\ Goto(p, "done")
      /\ UNCHANGED <<snapshot, acks, compaction>>

\* The end of execute.  Not acknowledged are the resources whose operation was
\* a conflict: the forked ones and, in `conflicting', those whose replica has
\* diverged.
Acknowledge(p, conflicting) ==
  /\ pc[p] \in {"fresh", "done"}
  /\ acks' = [acks EXCEPT ![p] = [k \in Keys |->
       IF k \in conflicting \/ Forked(mem[p].commits, k) THEN @[k]
       ELSE Heads(mem[p].commits, k)]]
  /\ Goto(p, "idle")
  /\ UNCHANGED <<objects, listed, snapshot, mem, compaction, published, seen>>

---------------------------------------------------------------------------
(* maintain.                                                               *)

\* The clients that have to acknowledge a checkpoint: the authors of commits
\* that are left, and the maintainer.
ActiveClients(p, state, k) ==
  ({c.author : c \in ResourceCommits(state.commits, k)} \ state.retired) \cup {p}

\* Faulty: takes one acknowledgement for all.
AnyAcknowledged(p, state, k) ==
  \E q \in ActiveClients(p, state, k) : \E h \in acks[q][k] :
    IsDescendant(state.commits, h, state.checkpoints[k])

\* Faulty: waits for exactly the checkpoint to be acknowledged.
CheckpointAcknowledged(p, state, k) ==
  \A q \in ActiveClients(p, state, k) : acks[q][k] = {state.checkpoints[k]}

AllAcknowledged(p, state, k) ==
  \A q \in ActiveClients(p, state, k) : \E h \in acks[q][k] :
    IsDescendant(state.commits, h, state.checkpoints[k])

\* Faulty: sorts the versions in the wrong direction.
RetainedOldest(state, k) ==
  LET R == ResourceCommits(state.commits, k)
  IN  {c \in R : \/ Cardinality({d \in R : d.time < c.time}) < Retention
                 \/ c.id = state.checkpoints[k]}

\* The newest versions and the checkpoint.  (Nothing ever pins a commit.)
Retained(state, k) ==
  LET R == ResourceCommits(state.commits, k)
  IN  {c \in R : \/ Cardinality({d \in R : d.time > c.time}) < Retention
                 \/ c.id = state.checkpoints[k]}

\* A copy of the only head.
Checkpoint(p, state, k, id) ==
  LET head == CHOOSE c \in HeadCommits(state.commits, k) : TRUE
  IN  [id |-> id, author |-> p, key |-> k, parents |-> {head.id}, content |-> head.content,
       time |-> Clock(p, id)]

Long(state) == {k \in Keys : Cardinality(ResourceCommits(state.commits, k)) > Retention}

\* Faulty: works on forked histories too.
ReadyForked(state, deferred) == Long(state) \ deferred

\* The resources whose history may be worked on; those in `deferred' have a
\* conflict with the replica or an unfinished run.
Ready(state, deferred) ==
  {k \in Long(state) \ deferred : Cardinality(Heads(state.commits, k)) = 1}

\* maintain refreshes first.
BeginMaintain(p) ==
  /\ p \in Maintainers
  /\ Read(p)
  /\ Goto(p, "survey")
  /\ UNCHANGED compaction

\* The checkpoints after the survey: those of short histories, and of those in
\* which nothing is obsolete, are dropped.
Surveyed(state, new, done) ==
  [k \in Keys |->
     IF \E c \in new : c.key = k THEN (CHOOSE c \in new : c.key = k).id
     ELSE IF k \in Long(state) \ done THEN state.checkpoints[k] ELSE 0]

\* The acknowledgements are listed; where a history is long, a checkpoint is
\* published and acknowledged or, if there is one which everybody acknowledged,
\* the history is to be truncated.
Survey(p, deferred) ==
  LET state    == mem[p]
      ready    == Ready(state, deferred)
      starting == {k \in ready : state.checkpoints[k] = 0}
      finished == {k \in ready \ starting : AllAcknowledged(p, state, k)}
      obsolete(k) == ResourceCommits(state.commits, k) \ Retained(state, k)
      done     == {k \in finished : obsolete(k) = {}}
      old      == UNION {obsolete(k) : k \in finished}
  IN  /\ pc[p] = "survey"
      /\ NextId + Cardinality(starting) <= MaxCommits + 1
      /\ \E order \in [starting -> 1..Cardinality(starting)] :
           LET new == {Checkpoint(p, state, k, Cardinality(published) + order[k]) : k \in starting}
               left == [state EXCEPT !.commits = @ \cup new,
                                     !.checkpoints = Surveyed(state, new, done)]
           IN  /\ \A j, k \in starting : order[j] = order[k] => j = k
               /\ Store(new)
               /\ listed' = listed \cup new
               /\ mem' = [mem EXCEPT ![p] = left]
               /\ seen' = [seen EXCEPT ![p] = @ \cup new]
               /\ acks' = [acks EXCEPT ![p] = [k \in Keys |->
                    IF k \in starting THEN {c.id : c \in {c \in new : c.key = k}} ELSE @[k]]]
               /\ IF old = {} THEN Goto(p, "idle") /\ UNCHANGED compaction
                  ELSE Compact(p, left, old)
      /\ UNCHANGED snapshot

\* retire_client: the maintainer's user declares a client gone.
Retire(p, q) ==
  /\ pc[p] = "idle"
  /\ p \in Maintainers
  /\ mem' = [mem EXCEPT ![p].retired = @ \cup {q}]
  /\ UNCHANGED <<objects, listed, snapshot, acks, pc, compaction, published, seen>>

---------------------------------------------------------------------------
CompactionStep(p) ==
  \/ RemoveLatest(p) \/ RenameLatest(p) \/ FinishCompaction(p)
  \/ \E c \in published : DeleteSegment(p, c) \/ DeleteObject(p, c)

Next ==
  \E p \in Clients :
    \/ Refresh(p)
    \/ \E conflicting \in SUBSET Keys : Acknowledge(p, conflicting)
    \/ \E k \in Keys : Write(p, k)
    \/ BeginMaintain(p)
    \/ \E deferred \in SUBSET Keys : Survey(p, deferred)
    \/ CompactionStep(p) \/ Collide(p)
    \/ \E q \in Clients \ {p} : Retire(p, q)

Spec == Init /\ [][Next]_vars

\* Hosts keep reconciling and maintaining, calls go on, and users resolve their
\* conflicts.
Fairness ==
  /\ \A p \in Clients :
       SF_vars(Refresh(p)) /\ SF_vars(Acknowledge(p, {})) /\ WF_vars(CompactionStep(p))
  /\ \A p \in Maintainers : SF_vars(BeginMaintain(p)) /\ SF_vars(Survey(p, {}))

FairSpec == Spec /\ Fairness

---------------------------------------------------------------------------
(* Properties.                                                             *)

\* What a client that has never read the catalog finds in it.
Discoverable == Scanned(NoCursors)

\* Only one client replaces the catalog by a snapshot.
OneCompacts == \A p, q \in Compactors : p = q

\* An earlier version has a later time stamp.
Outdated(c) == \E d \in ResourceCommits(published, c.key) : d.id < c.id /\ d.time > c.time

\* The current versions of a resource survive all maintenance: no step of
\* clients that truncate, take snapshots and write between each other's steps
\* deletes a commit that nothing was written over, unless an earlier version has
\* a later time stamp; and if only one client compacts, it can always be found
\* in the catalog, except while that client replaces the snapshot.
HeadsSurvive ==
  \A k \in Keys : \A c \in HeadCommits(published, k) : ~Outdated(c) =>
    /\ c \in objects
    /\ OneCompacts /\ (\A p \in Clients : pc[p] # "rename") => c \in Discoverable

\* The current versions of a resource can be found when nobody compacts, however
\* many clients did.
HeadsFound ==
  (\A p \in Clients : pc[p] \notin {"remove", "rename", "delete"}) =>
    \A k \in Keys : HeadCommits(published, k) \subseteq Discoverable

\* What the catalog lists can be loaded, so that the first reconciliation of a
\* new client, or the next one of a client whose commits were deleted between
\* its scan and its load, does not fail, unless a client that still knows
\* commits which another deleted takes a snapshot of them.
NewcomersLoad == OneCompacts => Discoverable \subseteq objects

\* History is truncated only when every client that wrote a version which is
\* left, and was not retired, has had a version that builds on the checkpoint,
\* whatever happened since the maintainer saw their acknowledgements.
CheckpointReached ==
  [][ \A p \in Clients, c \in objects : DeleteObject(p, c) =>
        \A q \in ActiveClients(p, mem[p], c.key) :
          \E d \in seen[q] : IsDescendant(published, d.id, mem[p].checkpoints[c.key]) ]_vars

\* maintenance_waits_for_checkpoint_ack_then_compacts_once: afterwards a client
\* sees the current version and no older one beside it.  No head a client sees
\* is superseded by another commit it has.
NoResurrection ==
  \A p \in Clients, k \in Keys : \A c \in HeadCommits(mem[p].commits, k) :
    \A d \in ResourceCommits(mem[p].commits, k) \ {c} : ~IsDescendant(published, d.id, c.id)

\* When the users rest, the stored history of a resource is bounded, unless it
\* has several heads.
HistoryBounded ==
  <>[](\A k \in Keys :
         \/ Cardinality(Heads(published, k)) # 1
         \/ Cardinality(ResourceCommits(objects, k)) <= Retention + 1)

============================================================================
