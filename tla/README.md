# rollforward: a verification development in TLA+

rollforward synchronises the resources of several clients through a remote that
only stores files. No server arbitrates: every client reads and writes an
append-only catalog of commits and decides locally. This directory models the
version 2 runtime (`src/src/runtime.rs` and what it uses), checks it with TLC on
small instances, and proves its safety properties with TLAPS for all instances.
Version 1 (`engine.rs`, `store.rs`, `remote.rs`, `oplog.rs`) is not linked into
the library (`src/src/lib.rs:41`) and is left aside.

## The system

| component | state | operations | who it talks to |
|---|---|---|---|
| planner, `core.rs` | none | `plan_resource`, `plan_inventory` | called by the runtime with what the host lists, the baseline and the remote state |
| immutable catalog, `v2_remote.rs` | commit objects, segments per author and scope, a snapshot per scope with `latest.json`, packs and indexes, acknowledgements | `scan_catalog`, `load_commits`, `commit_batch`, `compact_catalog`, `lookup_chunks`, `read_ranges`, `write_acknowledgements`, `delete_pack_objects` | a shared folder, written by all clients without locks |
| runtime, `runtime.rs` | `RuntimeState`: counter, commits, cursors, baselines, conflicts, journal, checkpoints, events since the last snapshot | `reconcile`, `resolve`, `rollback`, `maintain`, `retire_client`; `preview`, `history`, `list_conflicts` change nothing | calls the host, the remote and the store, all under one mutex |
| state store, `v2_store.rs` | one blob | `load`, `save` in one redb transaction | called by the runtime |
| host, `adapter.rs` (external) | the user's resources with version tokens | `list_resources`, `read_resources`, `apply_mutations` under a precondition | its user edits it at any time |
| text, `text.rs` | a yrs document | `set_text`, `apply_delta`, `full_update` | runtime |
| chunks and packs, `binary.rs` | none | `chunk_data`, `build_packs`, `reassemble` | runtime |

What makes each part correct:

* the planner must be a three-way merge: it may replace or remove only what is
  known elsewhere;
* a cursor must never pass a commit its client does not have, and a snapshot must
  hold what it claims to cover, because both make later scans skip things for good;
* the runtime must lose neither a local edit made during a run nor a commit of
  another client, must record as baseline only what both sides have had, and must
  converge;
* a text must keep what every client typed and nobody removed, show it once, and
  come to be the same everywhere;
* maintenance must bound the stored history and lose no current version, whoever
  writes at the same time; a commit that is visible must find its chunks stored;
* a crash between any two steps must leave a state from which the next run
  recovers.

What is hard to test: the interleaving of scans, publications and compactions of
several clients (no locks, several files per operation), user edits between
listing, reading and writing, a crash between publishing and saving, runs on a
graph that others extend, and texts worked out on a document that is older than
the graph. PROJECT.json lists each hazard at its line.

## Modules

| module | contents |
|---|---|
| `Planner` | the decision table of `plan_resource`, and what carrying out a decision leaves behind; no state |
| `PlanLoop` | one replica, an editing user and foreign changes, with atomic reconciliations; the three-way merge written independently |
| `Planner_proofs`, `PlanLoop_proofs` | lemmas about the states and decisions of `Planner`, theorems about `PlanLoop` |
| `Catalog` | the catalog protocol among several clients: scans, publication, snapshots, failures, crashes |
| `CommitLog` | what the catalog promises: a growing log of which every client holds a prefix per author and scope |
| `Catalog_proofs` | theorems about `Catalog`, among them that it implements `CommitLog` |
| `Reconcile` | the runtime step by step: several clients, users and faults; uses `Planner` |
| `Reconcile_proofs` | theorems about `Reconcile` |
| `Maintenance` | `maintain` and `retire_client`: checkpoints, acknowledgements, truncation of history, beside clients that read and write |
| `Maintenance_proofs` | theorems about `Maintenance` |
| `PackStore` | chunks, packs and their indexes: upload, download, collection |
| `PackStore_proofs` | theorems about `PackStore` |
| `Subsequences` | parts of sequences, taken by positions and without recursion |
| `NaturalSets` | lemmas about least and greatest elements and about the positions that `Subsequences` takes, used by the proofs |
| `TextDiff` | `set_text` and `diff_middle` on texts of code units; no state |
| `TextSync` | the text branches of the runtime: several clients, users and faults, one text resource; uses `Planner` and `TextDiff` |
| `TextSync_proofs` | theorems about `TextSync` |
| `MCCatalog`, `MCReconcile`, `MCMaintenance`, `MCPackStore`, `MCTextSync` | instances for TLC |

Definitions whose comment begins with *Faulty* are plausible bugs. They are used
to see that each property notices the bug it is meant for, by putting them in
the place of the definition that follows them, and are in no specification.

### Planner and PlanLoop

A state is `Present(v)`, `Missing`, `Deleted` or `Forked`, as in `v2_types.rs`;
`v` stands for a content id. `PlanResource` is the match of `plan_resource`,
grouped by the remote state. `LocalAfter`, `RemoteAfter` and `BaselineAfter` say
what `execute` does with a decision when all goes well. In `PlanLoop`, `Edit` is
the user, `Foreign` a refresh that finds something new, and `Sync` a whole
reconciliation. `ThreeWay` is the reference: it knows only which side has
departed from the baseline.

### Catalog

A commit is its author, number, scope and the author's incarnation (`life`, which
stands for the time stamp in the digest). The variables are the remote folder
(`objects`, `segments`, `latest`), each client's `RuntimeState` in memory and on
disk, and the progress of the call that holds the client's mutex.

| actions | code |
|---|---|
| `ReadSnapshots`, `ReadSegments` | the two halves of `scan_catalog`; between them other clients go on |
| `LoadCommits` | the rest of `refresh_remote` |
| `Journal` | the save with which `execute` begins |
| `BeginPublish`, `BeginSegment`, `WriteSegment`, `Integrate`, `Save` | `next_counter`, `commit_batch` (objects, then a segment per scope, first as a temporary file that is not complete), the commits joining the state, `save` |
| `MeetTorn` | a scan or a compaction comes to a file that is not complete, and fails |
| `BeginSnapshot`, `RenameLatest`, `DeleteSegment`, `FinishSnapshot` | `snapshot_large_catalogs` and `compact_catalog`: the snapshot file and the removal of `latest.json`; the rename; the deletion of covered segments one by one; the counter reset |
| `Fail` | any call returns an error: the operation ends, memory stays |
| `Crash` | the process dies and loads the saved state |

A snapshot file that is no longer `latest` is never read again, so only the one
in force is kept. A scope without `latest.json` reads like one with an empty
snapshot, which is also what a scan sees between the removal and the rename.
Reading several files of one kind is one step: a file that vanishes while the
folder is read makes the call fail, which is `Fail`, and that the directories of
the authors are listed one after another is `Reconcile`'s subject.

`write_immutable` puts its temporary file into the directory of the segments, and
`scan_catalog` and `compact_catalog` parse every file there, whatever its name.
`torn` holds the segments of which only a part has been written. While there is
one, every scan fails; a writer that dies or fails there leaves it for good. A complete
temporary file is read like the segment it is renamed to, so that `WriteSegment`
stands for both; the renaming needs no step of its own. Acknowledgements are
written in place; a partial one makes `maintain` fail in the same way and is not
modelled. (Of the snapshots only `latest.json` and what it names are read.)

History variables record which authors were `rewound` (restarted below a number
they had published) and in which scopes a scan was `holed` (read a snapshot that
does not cover a segment that has since been deleted). A stream is *trusted*
while neither has happened. `CursorSound`, `SnapshotSound` and `LogRefined` speak
of trusted streams, and `EveryCommitArrives` of behaviours in which no torn file
stays. All three exceptions are reachable: the run `catalog_rewind` shows the first,
`MCCatalog_hole.cfg` and `MCCatalog_torn.cfg` show the others.

### Reconcile

Several clients with binary resources of one scope. Each action is a stretch of
a call that ends where it next touches the host, the remote or the store.

| actions | code |
|---|---|
| `ScanAuthor`, `Refresh`, `List`, `PlanRun` | `reconcile` up to the journal save of `execute`: the scan lists the directory of one author after another, in any order, then what it found joins the state. A host outside `Hashing` lists no content ids: they are taken from a baseline with the same token or hashed from what the resource contains by then |
| `ReadUploads`, `Publish`, `Integrate`, `Save` | the upload half of `execute`; uploads with another version token than listed are dropped, deletions are not checked |
| `Mutate`, `Record`, `Refuse`, `OperationFails` | the last loop: a mutation under its precondition, a baseline only, a mutation the host refuses, one that fails; a save after each |
| `Acknowledge` | the acknowledgements and the last save |
| `Resolve`, `DropConflict`, `Rollback`, then `UserCopy`, then `UserKeep`, `UserMutate` or `UserConfirmDelete` | `resolve` and `rollback`: checks; the copy a version is preserved in; then the change of the replica and the numbering of a commit over the known heads. Both end by calling `reconcile` with the mutex released, which begins with a scan |
| `GiveUp`, `Fail`, `Crash` | the replica no longer has what the call needs; a failing call; a crash |
| `Edit` | the user of the host |

Abstractions: content stands for its id, and fetching it is a step that may fail;
the directory of one author is listed at an instant, and there are neither
snapshots nor torn files (that is `Catalog`'s subject); the
order of the resources in a run is arbitrary; `resolve` and `rollback` list and
read the replica in one step; `resolve` preserves at most one copy, under a key
of the same scope; a save that immediately follows the change in memory that it saves is one step with
it. A host never gives the same version token twice: this is what the
preconditions rely on, and an assumption about code outside the repository.

Because others publish during the walk, a scan may find a commit and not the one
it was made over, whose author's directory it has listed before. `NoParentPassed`
says that this heals: no cursor passes a parent that was not read, so the next
scan reads it. Until then the client may see two heads where the history has one,
and record a conflict that nobody caused (`GenuineForks`, `MCReconcile_fork.cfg`).

### Maintenance

The commits of binary resources of one scope as a graph. A call holds its client's
mutex; other clients read, write and compact between any two of its steps.

| actions | code |
|---|---|
| `Refresh` | the scan at the beginning of a reconciliation and, if `Snapshots`, the decision to take a snapshot of a large catalog |
| `Write`, `Acknowledge` | the one commit a reconciliation may publish; its end |
| `BeginMaintain`, `Survey` | `maintain`: the refresh; then the acknowledgements are listed, every long history that has no checkpoint gets one, and those whose checkpoint all active clients have acknowledged are to be truncated |
| `RemoveLatest`, `RenameLatest`, `DeleteSegment`, `DeleteObject`, `FinishCompaction` | `compact_catalog` for both: `latest.json` removed; the new one renamed into place; the covered segments deleted one by one, then the obsolete commit objects; back in the caller, which forgets what it deleted |
| `Collide` | a file that the call is about to remove was removed by another compaction: it returns an error |
| `Retire` | `retire_client` |

The arguments `deferred` and `conflicting`
stand for conflicts between a replica and its remote, whose replicas are in
`Reconcile`, and for an unfinished run. A commit's id is its place in the order of
publication; its time stamp, by which `maintain` orders versions, comes from the
author's clock, which is ahead of the others by the constant `Ahead`. A scan is one
step, because its races are in `Catalog` and `Reconcile`; the checkpoints of one
call are published in one step; there are no crashes.

What several compactors do to each other bounds what can be said. Nothing orders
their renames: the slower one may install the snapshot of an older state after the
segments that only the newer one covered are gone, and then current versions are
in the catalog no more (`HeadsFound`, `MCMaintenance_older.cfg`). `HeadsSurvive` therefore claims that
a current version is *listed* only where a single client compacts (`OneCompacts`)
and not between the removal of its old snapshot and the renaming of the new one.
That the *object* of a current version is never deleted it claims of any number
of compactors at once.

With clocks apart, a version by a client whose clock is behind can be the current
one and yet the oldest by time, and a truncation then deletes it. `HeadsSurvive`
therefore speaks of the versions that no older one outdates by its time stamp;
without this exception the run `maintenance_live`, whose maintainer is ahead by
more than the time between two commits, violates it with three writes.

`IsDescendant` says what the search of `is_descendant` finds: the ancestor is in
every set that contains the candidate and, with a commit, its parents. (The least
such set is what the search visits; written so, the definition needs no recursion
and proofs can use it.)

A refresh that would have to load a deleted commit fails, which is to say it is
disabled here. That happens: nobody is told of a truncation, and a client that
still has the deleted commits lists them in its next snapshot, whether it takes
that as a large catalog's or as a second maintainer, after which clients without
them cannot refresh until a snapshot without those commits follows. Where only
one client takes snapshots, `NewcomersLoad` says that whatever the catalog lists
can be loaded, also by a client that is new or whose last refresh failed. For
the same reason a client that only reads, which no maintainer waits for, may see
its old version as a head beside the checkpoint.

`CheckpointReached` is about every deletion of an object, which comes several steps
after the acknowledgements were listed. It says that the clients waited for have
*had* a version that builds on the checkpoint (the history variable `seen`), not
that they still have it: with clocks apart, another maintainer's truncation may
have taken it from them again. Nor does it say that their replica has the content.

### PackStore

A content is its manifest, a sequence of equally long chunks; a pack is its
sequence of chunks, because its id is a hash of it; of the commits only their
contents matter, and which of them a truncation drops is left open (any of them).

| actions | code |
|---|---|
| `Lookup`, `WritePack`, `WriteIndex`, `Publish` | `lookup_chunks` and `build_packs` in `publish_bytes` and `execute`, then `commit_batch`: packs of at most `PackSize` chunks, indexes, segment |
| `StrayIndex` | the process dies between the writing of an index and its renaming: `lookup_chunks` reads the temporary file too |
| `Locate`, `ReadRanges` | `content_for_remote`: the lookup, then the reading of the packs found |
| `Survey`, `ListPacks`, `DeletePack`, `DeleteIndex`, `Finish` | the end of `maintain`: the packs of live chunks, the list of all packs, the deletion of the rest one by one, the save |
| `Fail` | any of these calls fails, or its process dies: then the commits that `maintain` had dropped from memory and not saved are known again |

Nothing keeps `maintain` from running beside uploads, downloads or another
`maintain`, and any call may end at any point. Two things then go wrong, and the
properties are stated up to exactly these:

* an upload relies on chunks that it has looked up, or on packs that it has
  written, while a collection that does not know its commit deletes them. The
  contents that were uploaded while a collection ran, and those there when two
  collections ran at once, are `exposed` until they are uploaded again;
* a collection that ends between the removal of a pack and that of its index, or
  an upload whose pack is deleted before it writes the index, leaves an index
  without a pack. So does the collection of a pack that has an index under a
  temporary name (`strays`), which no collection removes. Later uploads rely on
  it: it is an *orphan*.

An index that is only partly written makes every `lookup_chunks` fail, as a torn
segment does in `Catalog`; it is not modelled here.

`raced` marks a call that overlapped another, one of the two a collection.

### TextDiff and TextSync

`TextDiff` translates `set_text` and `diff_middle` for any assignment `Code` of one
or two UTF-16 code units to characters: `Encoded` is `encode_utf16`, the common
prefix and suffix are counted in units, and the insertion is the part of the new
text between the two, taken at character boundaries. In `TextSync` the characters
in `Wide` have two units, and no two characters share one: for these texts
`SetTextExact` is checked and proved, and `MCTextSync` has TLC evaluate
`SetTextReplaces`, the same of `TextDiff` alone, on all pairs of texts of up to
three characters. Real surrogate pairs do share halves, those of two emoji of one
block for example. Then the prefix or the suffix ends inside a pair: half of the
old character is removed and the new one is not inserted, or half of the old one
stays (`SharedHalfIsLost` in `MCTextSync`). The comment at
`src/src/text.rs:134` says that both ends fall on character boundaries. The code
does not set the unit in which yrs counts positions; the model takes it to be the
UTF-16 code unit, as the comment at `src/src/text.rs:106` does.

`TextSync` is one text resource. The CRDT is external and modelled by what it
promises: `line` is the one order of all characters ever inserted; a document,
like an update, is a set of inserted and a set of deleted characters; its text is
what is inserted and not deleted, in that order; where concurrent insertions at
one place come to stand is open. A character is the number of the user's act that
typed it, so that a text shows what became of every act. A text may come to show a
character twice, when it was published twice; the properties count copies where
that matters. The answer of a merge policy, which belongs to the host, is the
remote text with the local edits since the base.

| actions | code |
|---|---|
| `Create`, `Type`, `Cut`, `Remove` | the user of the host |
| `Begin` | `reconcile` up to the journal save: refresh, inventory, plan. Two changed sides become an upload, which is left to the CRDT |
| `ReadUpload`, `ReadMerged`, `ReadConflict`, `ReadDelete`, `ReadChanged` | the reading of the upload, and the three answers of a `TextMergePolicy` |
| `PublishText`, `PublishDelete` | `set_text` on the recorded document (or, after a merge, on the document of the graph) and `commit_batch` |
| `IntegrateText`, `IntegrateRefused`, `IntegrateDelete`, `IntegrateUser` | the commit joins the state, the merged text is written to the host, baseline and document are recorded, or not if the host refuses; `resolve` and `rollback` record a baseline and no document, and `resolve` settles the conflict, which `rollback` leaves to the next run |
| `Download`, `ApplyDelete`, `EstablishBaseline`, `EstablishDeletedBaseline`, `Skip`, `Save` | the last loop of `execute` |
| `Resolve`, `Rollback` | `resolve` and `rollback`; the change is worked out on the document of the whole graph |
| `Fail`, `Crash` | a failing call; a crash |

Steps are coarser than in `Reconcile`: a run refreshes, lists and plans in one
step, over a graph that is complete, and `resolve` and `rollback` change the
replica in the step that checks it, so that their refusals when it has changed in
between (`src/src/runtime.rs:1701`, `1809`) are only in `Reconcile`.
Cursors and numbering are `Catalog`'s subject. History variables say of which
characters a user has `cut` a copy (it only grows), which clients were given the
text of one of several heads (`split`), and which have published or restored a
text without recording its document since (`unrecorded`: the host refused the
merge, the call failed, the process died, or the user resolved or rolled back).
The properties are stated up to what these clients do:

* `EditsKept` is about behaviours in which no client is `split`; the others are the
  subject of `text_lost`;
* a client that is `unrecorded` works out its next upload on an older document than
  its text came from, and inserts the difference again; a client that is `split`
  has recorded more than it shows, and may get the rest from a restored version.
  `PublishedOnce` is about all other clients;
* a deletion deletes no characters: a deleted text stays out of the next one
  because that is worked out on a document that still has it, and so removes it.
  Text that others added before the deletion and that a client never recorded is
  not in its document, and comes back. `NoReturn` is about clients that recorded
  all of the text they know, and about requests of the user, which are worked out
  on the whole graph.

## Runs

| run | instance | what it shows |
|---|---|---|
| `planner` | 3 contents, unbounded steps | `PlanIsThreeWayMerge`, `BaselineWasShared`, `NoUnpublishedOverwrite`, `NoUnseenSupersede`, `SyncSettles` |
| `catalog` | 2 clients, 2 scopes, snapshot after 2 events, 3 commits in batches of up to 2, no fault | `CursorSound`, `SnapshotSound`, `VisibleLoadable`, `LogRefined` |
| `catalog_faults` | 1 scope, snapshot after 1 event, 2 commits, 1 fault, fair | `LogRefined`, `EveryCommitArrives`; the invariants and `LogRefined` are proved for all instances, faults included |
| `catalog_rewind` | no snapshots, 2 commits, 1 fault | violates `NoCommitSkipped` |
| `reconcile` | 2 clients, 2 resources, 2 contents, 3 user actions, no fault | `BaselinesShared`, `NoUnpublishedOverwrite`, `NoUnseenSupersede`, `RequestSettles`, `LocalPreserved` |
| `reconcile_faults` | 1 resource, 2 user actions, 1 fault, fair | `BaselinesShared`, `NoUnpublishedOverwrite`, `NoUnseenSupersede`, `Converges` |
| `maintenance` | 2 clients that both maintain and take snapshots, 1 resource, retention 1, 2 writes, 3 commits | `HeadsSurvive`, `CheckpointReached` |
| `maintenance_live` | 1 maintainer, whose clock is ahead, 3 writes, 8 commits, no snapshots, fair | `HeadsSurvive`, `NewcomersLoad`, `CheckpointReached`, `HistoryBounded` |
| `maintenance_above` | 1 client, 4 writes | violates `NoResurrection` |
| `packs` | 2 clients, 2 contents that share a chunk, packs of 2, 2 uploads, 2 faults, `maintain` at any time | `ChunksStored`, `DownloadReadable`, `GarbageCollected` |
| `text` | 2 clients, one that hashes and one with a merge policy, 3 acts or faults of which 1 fault, the second act types a character of two units, fair | `EditsKept`, `SetTextExact`, `PublishedOnce`, `NoReturn`, `Converges` |
| `text_lost` | 2 clients that hash, 2 acts, no fault | violates `NoEditLost` |

Five more configurations are kept for the cases the runs leave out. They are not
runs of PROJECT.json:

| configuration | instance | result |
|---|---|---|
| `MCReconcile_scan.cfg` | 3 clients, 1 resource, 1 content, 2 user actions | `NoParentPassed` holds, which is proved for any number of clients |
| `MCReconcile_fork.cfg` | 3 clients, 1 resource, 3 user actions, at most two calls at a time | violates `GenuineForks` |
| `MCCatalog_hole.cfg` | snapshot after 1 event, 2 commits, no fault | violates `NoCommitSkipped` |
| `MCCatalog_torn.cfg` | no snapshots, 2 commits, 1 fault, fair | violates `EveryCommitArrivesStill` |
| `MCMaintenance_older.cfg` | 2 clients that take snapshots, 2 writes | violates `HeadsFound` |

In the `reconcile` runs one client hashes and keeps tombstones and the other does
neither, so that both kinds of host meet.

Why the bounds are enough. Every race in the catalog is between one reader or
compactor and one other client, so two clients suffice; the third commit lets a
stream have something before, inside and after a snapshot. A commit that is read
without its parent takes two authors and a reader, which the runs of
`Reconcile`, with two clients, do not reach and `MCReconcile_scan.cfg` does. A conflict between
replicas takes two user actions, and resolving or rolling back a third. With two
contents the three states of a resource can differ pairwise because absence is a
third value; the `planner` run has three. One fault is enough to separate memory
from disk at every step; two faults only repeat that. With retention 1 two
versions make a long history, and the third is written on the checkpoint or beside
it (`maintenance_live`, where 8 commits are all that three writes can cause). Two
writes and a checkpoint, compacted by two clients file by file, are enough for an
older snapshot, an older truncation and a newer one to meet (`maintenance`). With packs of two chunks the contents of `packs` need one pack or two and
are stored in packs that differ by the order of the uploads, also twice; two
uploads let the second rely on the first, before, during or after a collection,
and downloads and collections are not bounded. Two resources with long histories,
of which one is truncated, are not reached in `maintenance`. A text needs two acts
to have two heads or two edits of one base, and the third edits, deletes, resolves
or rolls back what came of them; deleting a text, writing a new one and merging it
takes three. What three acts do not reach: an edit between the copy that `resolve`
preserves and the overwriting (the conflict takes two acts and the resolution the
third), and a third text written over a restored one.

Deadlock is checked in every run: the host can always call `reconcile` again.

Fairness. `catalog_faults` and `reconcile_faults` assume that a call, once begun,
goes on (weak fairness of its steps: it runs on a thread that holds the mutex and
waits for nobody), and that the host keeps calling `reconcile` for all its scopes
(the library schedules nothing itself). So does `text`, in the form that every
client keeps moving, which is the same because it can always begin a call or go on
with one and is cheaper to check. In `Catalog` that call competes with
publications of the same client for the mutex, hence strong fairness there.
`maintenance_live` assumes in addition that the maintainer's host keeps calling
`maintain` and that conflicts of a replica are resolved in the end; each of these
calls competes with the others, hence strong fairness. Faults and user actions
are bounded and not fair.

### What the violations say

* `catalog_rewind`: `execute` publishes and only then saves the counter. After a
  crash in between, the client numbers its next commit like the last one, and
  everybody whose cursor has reached that number skips it for good. (Weakest
  repair: save the counter before `commit_batch`.)
* `maintenance_above`: versions written on the checkpoint before it is used push
  each other out of the retained ones; the checkpoint stays, loses its child and
  becomes a head, so that the resource is forked between its current version and
  an old one. One client and four writes suffice.
* `text_lost`: `execute` downloads a text with two heads by writing the text of
  the first head and recording the document and content id of both. On the next
  run the replica differs from its baseline by exactly the other head's text,
  which is published as a deletion. Two clients that create the same resource
  suffice. (Weakest repair: write `text_doc` instead of `text_doc_at`.)

What the other configurations show, and what TLC evaluates of `set_text`:

* `MCCatalog_hole`: a scan reads snapshots, then segments. In the moment in which
  `latest.json` does not exist, or when a compaction falls between the two
  readings, commits are in neither, while a later segment of the same author
  moves the cursor past them. No fault is needed. (Weakest repair: rename over
  `latest.json` without removing it, and read the snapshots again after the
  segments.)
* `MCCatalog_torn`: a crash in the middle of `fs::write` leaves a temporary file
  among the segments which no scan can parse, and nobody can refresh any more.
  (Weakest repair: read `.json` files only.)
* `MCReconcile_fork`: the directory of one author is listed, then he publishes and
  another client publishes over that, then the other's directory is listed. The
  superseded version is a head beside the new one until the next refresh.
* `MCMaintenance_older`: two clients compact one scope at a time; the older snapshot
  is installed last, after the segments that only the newer one covered are gone.
* `SharedHalfIsLost`: one character replaced by another whose surrogate pair begins or
  ends alike. (Weakest repair: compare characters, not code units.)

Defects that passing runs reach, and that their properties name as exceptions:

* `rewound`, `holed` and torn files: what `catalog_rewind`, `MCCatalog_hole` and
  `MCCatalog_torn` show. `CursorSound` and `SnapshotSound` are proved for every
  stream that the first two did not befall, whether files are torn or not. In
  particular no interleaving of compactions alone can make a cursor or a snapshot
  of a trusted stream claim more than it has;
* `exposed` and orphaned chunks: collection beside uploads or cut short, see
  `PackStore`;
* current versions outdated by their time stamps, and snapshots that list deleted
  commits again, see `Maintenance`;
* texts published twice by clients that are `unrecorded` or `split`, and text that
  comes back after a deletion because a client had not recorded it, see `TextSync`.

## Theorems

All theorems hold for every value of the constants that satisfies the modules'
assumptions: bounds, thresholds and sizes are numbers, a retention or a pack size
is not 0, and the resources a run works on are finitely many (`IsFiniteSet(Keys)`
in `Reconcile` and `Maintenance`, because a call numbers the commits of its batch
one by one). The number of clients, contents, faults and user actions is not
restricted. Each invariant was checked by TLC on the instances of the runs before
it was proved.

| module | theorem | what it states |
|---|---|---|
| `PlanLoop_proofs` | `PlannerIsThreeWayMerge`, `PlanCorrect` | `PlanIsThreeWayMerge` |
| | `TypeCorrect`, `Invariance` | `TypeOK`, `BaselineWasShared` |
| | `NothingUnpublishedLost`, `NothingUnseenSuperseded`, `Settling` | `NoUnpublishedOverwrite`, `NoUnseenSupersede`, `SyncSettles` |
| `Catalog_proofs` | `TypeCorrect`, `CursorsNeverOverrun`, `SnapshotsCoverWhatTheyClaim`, `VisibleIsLoadable` | `TypeOK`, `CursorSound`, `SnapshotSound`, `VisibleLoadable` |
| | `CatalogImplementsLog` | `LogRefined`: `Catalog` implements `CommitLog` |
| `Reconcile_proofs` | `TypeCorrect`, `BaselinesAreShared`, `ParentsArrive` | `TypeOK`, `BaselinesShared`, `NoParentPassed` |
| | `OverwritesPublished`, `SupersedesSeen`, `PreservesLocal`, `RequestsSettle` | `NoUnpublishedOverwrite`, `NoUnseenSupersede`, `LocalPreserved`, `RequestSettles` |
| `Maintenance_proofs` | `TypeCorrect`, `CurrentVersionsSurvive`, `CatalogLoads`, `TruncationWaits` | `TypeOK`, `HeadsSurvive`, `NewcomersLoad`, `CheckpointReached` |
| `PackStore_proofs` | `TypeCorrect`, `VisibleStaysStored`, `DownloadsRead`, `CollectionIsComplete` | `TypeOK`, `ChunksStored`, `DownloadReadable`, `GarbageCollected` |
| `TextSync_proofs` | `TypeCorrect`, `SetTextIsExact`, `EditsAreKept` | `TypeOK`, `SetTextExact`, `EditsKept` |
| | `TextIsPublishedOnce`, `NoTextReturns` | `PublishedOnce`, `NoReturn` |

Each module proves one inductive invariant, `Invariance: Spec => []IndInv`, with
one lemma per action, and derives the rest from it. The definition of `IndInv` is
at the head of each module. `TextSync_proofs` has three, each of which contains the
one before: `BaseInv`, `OnceInv` and `EditInv`. Why they are needed and what they say:

* `PlanLoop`: `TypeOK /\ BaselineWasShared` is inductive as it stands; the planner
  is compared with the three-way merge by cases on the three states.

* `Catalog`: `CursorSound` is not inductive. Its cursors come from a scan, the scan
  from a snapshot it read earlier and from segments that may have been deleted
  since, and a snapshot from some client's memory at some time. `IndInv` therefore
  says of *every* place where a cursor is kept (memory, disk, the latest snapshot,
  the snapshots a scan has read, the result of a scan, a snapshot being installed)
  that the commits kept next to it include all trusted ones at or below the cursor,
  and that the number in the cursor is that of a published commit; that a segment
  holds published commits up to its last number; that every published commit is in
  a segment or at or below the floor of deleted numbers; and that an author that
  was not rewound has numbered everything it published, and numbers a batch above
  what it has published in the scopes still to be written. For the refinement,
  `FrontierInv` adds the converse: a cursor has reached every trusted foreign
  commit that is held next to it, what is saved is also in memory, and a snapshot
  holds commits of its scope only. Cursors that are sound and have reached what
  is held leave no hole, so a client holds a prefix of each stream
  (`HeldPrefix`), and each action is shown to extend the log, to extend or restore
  one client's part of it, or to leave both alone.

* `Reconcile`: a call acts on what it listed, read and planned some steps ago. A
  record of a resource is true of the resource as long as its version token is
  the resource's (`Sighted`, asked of listings, baselines and what a batch was
  read from); a plan that is still to be carried out is the planner's decision for
  what was listed and for what the client knows (`CallInv`); a batch is made over
  the heads its client knows, with numbers nobody has used (`BatchInv`); and a
  state in memory or on disk has baselines the replica has shared, and the commits
  its cursors are past, but for rewound authors (`SoundState`). Of a scan under way
  `ScanInv` says that what it found of an author are his commits from the cursor up to
  some number, whatever he published since. The action properties then follow from the planner's lemmas.
  `LocalPreserved` is about files: where the replica has nothing, `resolve` has
  nothing to copy or to lose.

* `Maintenance`: that an object is stored says nothing of what a compaction that
  was prepared earlier will delete, and that a version can be found nothing of what
  the next snapshot will hold. `VitalInv` says that current versions are stored and
  in no compaction's list of obsolete commits, `CallInv` that only a compaction
  under way has such a list. What makes a truncation spare a current version is
  `GraphInv`: parents have smaller ids, hence the newest commit is a head, a
  history with one head has no other current version, and a truncation, which
  happens only there, retains it; what is written later is newer, and never in a
  list that exists already (`ViewsInv`: nobody knows a commit or a number that was
  not published). `AckInv` says that whoever holds or acknowledges a commit has had
  it, and that for every commit about to be deleted the active clients have had a
  version that builds on the checkpoint, which stays so until the deletion, because
  the maintainer changes neither its checkpoints nor its commits before.
  `SoleInv` is for one compactor: it has what its cursors are past, and so has the
  snapshot it is installing; the commits above the cursors are in segments; and it
  knows no deleted commit but those it is just deleting.

* `PackStore`: an upload leaves out the chunks that an index listed when it began,
  and a collection deletes what it found no use for some time ago. `IndexInv`: an
  index without a pack is orphaned or about to be deleted; `RaceInv`: two calls, of
  which one is a collection, know of each other; `CallsInv`: what an upload did not
  send is stored, what a download was told to read is stored, and what is visible
  is in packs that a collection has found live. `PickFacts` and its followers say
  that the packs built of the missing chunks hold exactly those.

* `TextSync`: a call works out a text on a document it chose some steps ago, while
  the line grows under it. `BaseInv` says that the line names every character once,
  that documents and updates name characters of the line only, that commits are
  numbered and have their parents among them, that what a client knows is closed
  under parents, and that a call works on a document of the graph. With
  `DiffSplices` (what `diff_middle` returns makes the new text of the old one, for
  texts of any length; its lemmas say that units differ where characters do, so
  that the common prefix and suffix of the units are those of the characters) and the fact that an insertion between two places of the
  line changes no other document's text, `SetTextExact` follows: whatever others
  insert in between, the document shows the text it was given.

  `PublishedOnce` says nothing of what the replica's text came from. `OnceInv` adds
  that a version token which a client remembers tells the text it was seen with
  (`Sighted`), so that what was read is what was listed; that a client which is
  neither `unrecorded` nor `split` has no more copies of published characters in
  its replica than its recorded document shows; and that a character which is not
  published yet is with one client only. An upload then inserts what is new, and
  the answer of a policy, worked out on the whole graph, what is not shown there.

  `EditsKept` says nothing of what the next merge, download or deletion drops.
  `EditInv` adds, as long as no client is `split` and for all that no user removed:
  a larger part of the graph shows no fewer copies of a character than a smaller
  one (`NoLoss`), what was ever published is shown (`Alive`), a deletion rests on a
  part of the graph of which users removed everything (`Deletions`), and a replica
  has all that its client's recorded document shows and its baseline says
  (`StateKept`), hence what a call is about to publish or write has it too
  (`CallKept`). Copies are counted, not only found: one update may remove one copy
  of a character and insert another, so that no single copy stays for good.

Only model-checked:

* liveness (`EveryCommitArrives`, both `Converges`, `HistoryBounded`): fairness is
  outside the prover's reach;
* `SetTextReplaces`, which TLC evaluates on all short texts; `SetTextExact` is what is
  proved of it.

## Not modelled

* Content-defined chunking, hashing and the offsets inside a pack, which are
  computation over bytes; `merge_manifests` and `classify_pack` in `binary.rs`,
  which the version 2 runtime does not call.
* Crashes inside the truncation half of `maintain`, and a scan that is overtaken by
  the deletion of commits it has listed: the refresh fails, and `NewcomersLoad` is
  about the one that follows.
* Acknowledgements and pack indexes that are only partly written. A directory
  listing is taken to be an instant of the directory of one author.
* The walk from author to author in `TextSync`, whose refreshes find a complete
  graph: with a parent missing, a text would show a part of the graph until the
  next refresh.
* The CRDT library yrs, beyond what it promises; truncation of texts, which
  `maintain` skips (but for a text that it takes for binary because it has no entry
  for its kind and the last commit is a deletion).
* More than one preserved copy per resolution, the event listener, reports.
* Version 1, which is not linked, and the generated C# bindings.

## Plan

All parts of the version 2 runtime are modelled, and the safety properties of all
runs are proved. What is left:

1. A composition of `TextSync` with truncation, for texts that `maintain` takes for
   binary.
2. Crashes between the steps of a compaction in `Maintenance`, and a walk from author
   to author in `TextSync`.
