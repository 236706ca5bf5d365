----------------------------- MODULE Reconcile -----------------------------
(***************************************************************************)
(* SyncRuntime (src/src/runtime.rs): several clients that reconcile their  *)
(* replicas of the binary resources of one scope through the shared        *)
(* commit graph, and let their users resolve conflicts and roll back.      *)
(*                                                                         *)
(* A call holds the client's mutex from beginning to end, so nothing       *)
(* interleaves with it inside the client.  What interleaves with it is     *)
(* the world: users edit the replica between listing, reading and writing  *)
(* it; other clients publish between refresh and commit; a call fails or   *)
(* the process dies at any point.  Each action below is a stretch of a     *)
(* call that ends where it next looks at, or changes, something shared     *)
(* with them: the host's files, the remote graph or the saved state.       *)
(*                                                                         *)
(* The graph is what module Catalog delivers: commits numbered per author, *)
(* read above a cursor per author.  A scan walks the directories of the    *)
(* authors one after another while others publish; there are no snapshots. *)
(* Content is a value that stands for its content id; moving it through    *)
(* chunks and packs is left to another module.                             *)
(***************************************************************************)
EXTENDS Naturals, FiniteSets, FiniteSetsExt, Planner

CONSTANTS
  Clients,
  Keys,         \* the resources of the scope
  Contents,     \* what a resource can contain
  Hashing,      \* clients whose host lists content ids; the others list none
  Tombstones,   \* clients whose host lists a removed resource as Deleted
  MaxActs,      \* bound: edits, resolutions and rollbacks by all users
  MaxFaults     \* bound: failed calls and crashes

ASSUME ReconcileAssumption ==
  /\ IsFiniteSet(Keys)
  /\ Hashing \subseteq Clients /\ Tombstones \subseteq Clients
  /\ MaxActs \in Nat /\ MaxFaults \in Nat

VARIABLES
  file,       \* file[p][k]: the host's resource and its version token
  published,  \* the commits in the remote graph
  acks,       \* acks[p][k]: heads p acknowledged
  mem,        \* mem[p]: RuntimeState behind the mutex
  disk,       \* disk[p]: the RuntimeState last saved
  pc,         \* pc[p]: where the call holding the mutex has got to
  scan,       \* scan[p]: the authors still to be listed, what was found
  listing,    \* listing[p][k]: the inventory of the call
  plan,       \* plan[p][k]: the operation still to be carried out
  batch,      \* batch[p]: the commits being published, with version tokens
  job,        \* job[p]: what the user asked for, in resolve and rollback
  held,       \* history: held[p][k]: the states p's replica has had
  life,       \* life[p]: number of restarts of p
  acts,       \* user actions so far
  faults,     \* faults so far
  rewound     \* history: authors that restarted below a published number

callVars == <<scan, listing, plan, batch, job>>
boundVars == <<life, acts, faults, rewound>>
vars == <<file, published, acks, mem, disk, pc, callVars, held, boundVars>>

---------------------------------------------------------------------------
Id == [author : Clients, counter : Nat, life : Nat]

Change == PresentStates(Contents) \cup {Deleted}

\* The digest in a commit id covers a time stamp; `life' stands for it.
Commit == [id : Id, key : Keys, parents : SUBSET Id, change : Change]

\* A resource with its version token.  A host never gives a token twice.
Resource == [state : ReplicaState(Contents), version : Nat]

Baseline == [state : BaselineState(Contents) \cup {NoBaseline}, version : Nat]

NoConflict == [kind |-> "-"]

ConflictRecord == [kind : ConflictKind, local : Resource, heads : SUBSET Id]

\* The fields of RuntimeState that binary resources of one scope use; at most
\* one conflict per resource, since execute drops those of the scope first.
RuntimeState ==
  [counter : Nat, commits : SUBSET Commit, cursors : [Clients -> Nat],
   baselines : [Keys -> Baseline], conflicts : [Keys -> ConflictRecord \cup {NoConflict}]]

Scan == [left : SUBSET Clients, found : SUBSET Commit]

NoJob == [call |-> "-"]

\* Publish the replica's own content, or make this change and publish it.
KeepLocal == [state |-> "Local"]

\* `copy' is the version to preserve under another key, at most one here, and
\* `copied' what has been.
NoCopy == [state |-> "-"]
Job == [call : {"resolve", "rollback"}, want : Change \cup {KeepLocal}, key : Keys,
        current : Resource, copy : PresentStates(Contents) \cup {KeepLocal, NoCopy},
        target : Keys, copied : PresentStates(Contents) \cup {NoCopy}]

Label == {"idle", "scan", "list", "inventory", "read", "publish", "integrate", "save",
          "apply", "user"}

TypeOK ==
  /\ file \in [Clients -> [Keys -> Resource]]
  /\ published \subseteq Commit
  /\ acks \in [Clients -> [Keys -> SUBSET Id]]
  /\ mem \in [Clients -> RuntimeState]
  /\ disk \in [Clients -> RuntimeState]
  /\ pc \in [Clients -> Label]
  /\ scan \in [Clients -> Scan]
  /\ listing \in [Clients -> [Keys -> Resource]]
  /\ plan \in [Clients -> [Keys -> PlanOperation]]
  /\ batch \in [Clients -> SUBSET [commit : Commit, version : Nat]]
  /\ job \in [Clients -> Job \cup {NoJob}]
  /\ held \in [Clients -> [Keys -> SUBSET ReplicaState(Contents)]]
  /\ life \in [Clients -> Nat] /\ acts \in Nat /\ faults \in Nat
  /\ rewound \subseteq Clients

NoScan(p)  == [left |-> Clients \ {p}, found |-> {}]
Nothing    == [state |-> Missing, version |-> 0]
NoListing  == [k \in Keys |-> Nothing]
NoPlan     == [k \in Keys |-> Op("Noop")]

FreshState ==
  [counter |-> 0, commits |-> {}, cursors |-> [p \in Clients |-> 0],
   baselines |-> [k \in Keys |-> [state |-> NoBaseline, version |-> 0]],
   conflicts |-> [k \in Keys |-> NoConflict]]

Init ==
  /\ file = [p \in Clients |-> NoListing]
  /\ published = {}
  /\ acks = [p \in Clients |-> [k \in Keys |-> {}]]
  /\ mem = [p \in Clients |-> FreshState]
  /\ disk = [p \in Clients |-> FreshState]
  /\ pc = [p \in Clients |-> "idle"]
  /\ scan = [p \in Clients |-> NoScan(p)]
  /\ listing = [p \in Clients |-> NoListing]
  /\ plan = [p \in Clients |-> NoPlan]
  /\ batch = [p \in Clients |-> {}]
  /\ job = [p \in Clients |-> NoJob]
  /\ held = [p \in Clients |-> [k \in Keys |-> {Missing}]]
  /\ life = [p \in Clients |-> 0]
  /\ acts = 0 /\ faults = 0 /\ rewound = {}

Goto(p, label) == pc' = [pc EXCEPT ![p] = label]

---------------------------------------------------------------------------
(* The host (external): its user edits, the runtime mutates with a         *)
(* precondition, and every change gives the resource a new version token.  *)

Absent(p) == IF p \in Tombstones THEN Deleted ELSE Missing

\* A resource that is not there, for whatever reason, has one value.
Value(s) == IF IsPresent(s) THEN s ELSE Missing

SetFile(p, k, s) ==
  /\ file' = [file EXCEPT ![p][k] = [state |-> s, version |-> @.version + 1]]
  /\ held' = [held EXCEPT ![p][k] = @ \cup {Value(s)}]

Edit(p, k, s) ==
  /\ acts < MaxActs
  /\ acts' = acts + 1
  /\ IsPresent(s) \/ (s = Absent(p) /\ IsPresent(file[p][k].state))
  /\ SetFile(p, k, s)
  /\ UNCHANGED <<published, acks, mem, disk, pc, callVars, life, faults, rewound>>

\* Faulty: mutates unconditionally.
Unconditional(p, k, listed) == TRUE

\* MutationPrecondition of a listed state: its version token, or that the
\* resource is missing.
Precondition(p, k, listed) ==
  IF listed.state = Missing THEN file[p][k].state = Missing
  ELSE file[p][k].state # Missing /\ file[p][k].version = listed.version

---------------------------------------------------------------------------
(* The commit graph as a client knows it.                                  *)

ResourceCommits(C, k) == {c \in C : c.key = k}

HeadCommits(C, k) ==
  LET R == ResourceCommits(C, k)
  IN  {c \in R : \A d \in R : c.id \notin d.parents}

Heads(C, k) == {c.id : c \in HeadCommits(C, k)}

\* remote_state: heads that agree are one state, whatever their number.
RemoteState(C, k) ==
  LET changes == {c.change : c \in HeadCommits(C, k)}
  IN  IF changes = {} THEN Missing
      ELSE IF \A x, y \in changes : x = y THEN CHOOSE x \in changes : TRUE ELSE Forked

\* Faulty: a commit over one head only.
OneParent(p, k, counter, change) ==
  [id |-> [author |-> p, counter |-> counter, life |-> life[p]], key |-> k,
   parents |-> LET H == Heads(mem[p].commits, k) IN {h \in H : h = CHOOSE x \in H : TRUE},
   change |-> change]

NewCommit(p, k, counter, change) ==
  [id |-> [author |-> p, counter |-> counter, life |-> life[p]], key |-> k,
   parents |-> Heads(mem[p].commits, k), change |-> change]

---------------------------------------------------------------------------
(* reconcile, up to the plan.                                              *)

\* Faulty: skips the commit that is next in line.
UnreadLate(p, a) ==
  {c \in published : c.id.author = a /\ c.id.counter > mem[p].cursors[a] + 1}

\* What a scan finds in the directory of an author, above the cursor.
Unread(p, a) == {c \in published : c.id.author = a /\ c.id.counter > mem[p].cursors[a]}

\* scan_catalog lists the directories of the authors one after another, in any
\* order.
ScanAuthor(p, a) ==
  /\ pc[p] \in {"idle", "scan"}
  /\ a \in scan[p].left
  /\ scan' = [scan EXCEPT ![p] = [left |-> @.left \ {a}, found |-> @.found \cup Unread(p, a)]]
  /\ Goto(p, "scan")
  /\ UNCHANGED <<file, published, acks, mem, disk, listing, plan, batch, job, held, boundVars>>

\* The client's own directory does not change while the call holds the mutex, so
\* it does not matter when it is listed.
Found(p) == scan[p].found \cup Unread(p, p)

\* refresh_remote: what the scan found joins the client's state.
Refresh(p) ==
  /\ pc[p] \in {"idle", "scan"}
  /\ scan[p].left = {}
  /\ mem' = [mem EXCEPT
       ![p].commits = @ \cup Found(p),
       ![p].cursors = [a \in Clients |->
          Max({@[a]} \cup {c.id.counter : c \in {c \in Found(p) : c.id.author = a}})]]
  /\ scan' = [scan EXCEPT ![p] = NoScan(p)]
  /\ Goto(p, "list")
  /\ UNCHANGED <<file, published, acks, disk, listing, plan, batch, job, held, boundVars>>

\* list_resources; a resource that is not listed has no version token.
Listed(p) ==
  [k \in Keys |-> IF file[p][k].state = Missing THEN Nothing ELSE file[p][k]]

List(p) ==
  /\ pc[p] = "list"
  /\ listing' = [listing EXCEPT ![p] = Listed(p)]
  /\ Goto(p, "inventory")
  /\ UNCHANGED <<file, published, acks, mem, disk, scan, plan, batch, job, held, boundVars>>

\* local_inventory: a content id the host did not list is that of the
\* baseline if the version token is the baseline's, and is otherwise computed
\* from what the resource contains by now, under the token listed before.
Cached(p, k, listed) ==
  LET b == mem[p].baselines[k]
  IN  IsPresent(b.state) /\ b.version = listed.version

WithoutId(p, L) == {k \in Keys : p \notin Hashing /\ IsPresent(L[k].state)}

Unhashed(p, L) == {k \in WithoutId(p, L) : ~Cached(p, k, L[k])}

\* read_resources returns what is there; a resource that is gone is an error.
Readable(p, L) == \A k \in Unhashed(p, L) : IsPresent(file[p][k].state)

Inventory(p, L) ==
  [k \in Keys |->
     CASE k \in Unhashed(p, L) -> [L[k] EXCEPT !.state = file[p][k].state]
       [] k \in WithoutId(p, L) \ Unhashed(p, L) -> [L[k] EXCEPT !.state = mem[p].baselines[k].state]
       [] OTHER -> L[k]]

\* Faulty: lets the local side win, as build_plan does for mergeable text.
PlannedAsText(p, k, local) ==
  LET op == PlanResource(local.state, mem[p].baselines[k].state,
                         RemoteState(mem[p].commits, k))
  IN  IF op.kind \in {"ContentVsContent", "InitialDivergence"} THEN Op("Upload") ELSE op

\* build_plan for one resource.
Planned(p, k, local) ==
  PlanResource(local.state, mem[p].baselines[k].state, RemoteState(mem[p].commits, k))

\* The rest of the inventory, the plan, and the beginning of execute: the
\* conflicts of the scope are replaced, the run is journalled, all is saved.
PlanRun(p) ==
  LET L == Inventory(p, listing[p])
      ops == [k \in Keys |-> Planned(p, k, L[k])]
      state == [mem[p] EXCEPT !.conflicts = [k \in Keys |->
                  IF ops[k].op = "Conflict"
                  THEN [kind |-> ops[k].kind, local |-> L[k],
                        heads |-> Heads(mem[p].commits, k)]
                  ELSE NoConflict]]
  IN  /\ pc[p] = "inventory"
      /\ Readable(p, listing[p])
      /\ listing' = [listing EXCEPT ![p] = L]
      /\ plan' = [plan EXCEPT ![p] = ops]
      /\ mem' = [mem EXCEPT ![p] = state]
      /\ disk' = [disk EXCEPT ![p] = state]
      /\ Goto(p, "read")
      /\ UNCHANGED <<file, published, acks, scan, batch, job, held, boundVars>>

---------------------------------------------------------------------------
(* execute.                                                                *)

\* The uploads whose content, as it is read now, still has the version token
\* it was listed with; the others have failed.  Deletions are not checked.
ToPublish(p) ==
  {k \in Keys :
     \/ plan[p][k] = Op("PublishDelete")
     \/ /\ plan[p][k] = Op("Upload")
        /\ IsPresent(file[p][k].state)
        /\ file[p][k].version = listing[p][k].version}

\* Read the uploads and number their commits, in any order of the resources.
ReadUploads(p) ==
  LET K == ToPublish(p)
      change(k) == IF plan[p][k] = Op("Upload") THEN file[p][k].state ELSE Deleted
  IN  /\ pc[p] = "read"
      /\ \E order \in [K -> 1..Cardinality(K)] :
           /\ \A j, k \in K : order[j] = order[k] => j = k
           /\ batch' = [batch EXCEPT ![p] =
                {[commit  |-> NewCommit(p, k, mem[p].counter + order[k], change(k)),
                  version |-> listing[p][k].version] : k \in K}]
      /\ mem' = [mem EXCEPT ![p].counter = @ + Cardinality(K)]
      /\ Goto(p, IF K = {} THEN "apply" ELSE "publish")
      /\ UNCHANGED <<file, published, acks, disk, scan, listing, plan, job, held, boundVars>>

\* commit_batch: the segment makes the whole batch visible.
Publish(p) ==
  /\ pc[p] = "publish"
  /\ published' = published \cup {b.commit : b \in batch[p]}
  /\ Goto(p, "integrate")
  /\ UNCHANGED <<file, acks, mem, disk, callVars, held, boundVars>>

\* What a change leaves as the baseline.
BaselineOf(b) ==
  [state   |-> b.commit.change,
   version |-> IF IsPresent(b.commit.change) THEN b.version ELSE 0]

\* The commits join the client's state and become its baselines; resolve also
\* drops the conflict it was about.
Integrate(p) ==
  /\ pc[p] = "integrate"
  /\ mem' = [mem EXCEPT
       ![p].commits = @ \cup {b.commit : b \in batch[p]},
       ![p].baselines = [k \in Keys |->
          IF \E b \in batch[p] : b.commit.key = k
          THEN BaselineOf(CHOOSE b \in batch[p] : b.commit.key = k) ELSE @[k]],
       ![p].conflicts = [k \in Keys |->
          IF job[p].call = "resolve" /\ job[p].key = k THEN NoConflict ELSE @[k]]]
  /\ batch' = [batch EXCEPT ![p] = {}]
  /\ Goto(p, "save")
  /\ UNCHANGED <<file, published, acks, disk, scan, listing, plan, job, held, boundVars>>

\* Save, and go on with the run.  A user's request releases the mutex here and
\* then calls reconcile: that is a scan again, and other calls may come first.
Save(p) ==
  /\ pc[p] = "save"
  /\ disk' = [disk EXCEPT ![p] = mem[p]]
  /\ job' = [job EXCEPT ![p] = NoJob]
  /\ Goto(p, IF job[p] = NoJob THEN "apply" ELSE "idle")
  /\ UNCHANGED <<file, published, acks, mem, scan, listing, plan, batch, held, boundVars>>

\* The operations of the last loop of execute: those that change the replica,
\* and those that only record a baseline.
Mutations == {Op("Download"), Op("ApplyDelete")}
Records   == {Op("EstablishBaseline"), Op("EstablishDeletedBaseline")}

Pending(p) == {k \in Keys : plan[p][k] \in Mutations \cup Records}

Done(p, k) == plan' = [plan EXCEPT ![p][k] = Op("Noop")]

RecordBaseline(p, k, version) ==
  LET s == BaselineAfter(plan[p][k], listing[p][k].state, mem[p].baselines[k].state,
                         RemoteState(mem[p].commits, k))
  IN  mem' = [mem EXCEPT ![p].baselines[k] =
                [state |-> s, version |-> IF IsPresent(s) THEN version ELSE 0]]

\* A download or a deletion, carried out under its precondition.
Mutate(p, k) ==
  LET remote == RemoteState(mem[p].commits, k)
      s == LocalAfter(plan[p][k], listing[p][k].state, remote)
  IN  /\ pc[p] = "apply"
      /\ plan[p][k] \in Mutations
      /\ Precondition(p, k, listing[p][k])
      /\ SetFile(p, k, IF IsPresent(s) THEN s ELSE Absent(p))
      /\ RecordBaseline(p, k, file[p][k].version + 1)
      /\ Done(p, k)
      /\ Goto(p, "save")
      /\ UNCHANGED <<published, acks, disk, scan, listing, batch, job, boundVars>>

Record(p, k) ==
  /\ pc[p] = "apply"
  /\ plan[p][k] \in Records
  /\ RecordBaseline(p, k, listing[p][k].version)
  /\ Done(p, k)
  /\ Goto(p, "save")
  /\ UNCHANGED <<file, published, acks, disk, scan, listing, batch, job, held, boundVars>>

\* Faulty: does not look at the status the host returns.
RefusalIgnored(p, k) ==
  /\ pc[p] = "apply"
  /\ plan[p][k] \in Mutations
  /\ ~Precondition(p, k, listing[p][k])
  /\ RecordBaseline(p, k, listing[p][k].version)
  /\ Done(p, k)
  /\ Goto(p, "save")
  /\ UNCHANGED <<file, published, acks, disk, scan, listing, batch, job, held, boundVars>>

\* The host refuses the mutation: a failure of the resource, not of the run.
Refuse(p, k) ==
  /\ pc[p] = "apply"
  /\ plan[p][k] \in Mutations
  /\ ~Precondition(p, k, listing[p][k])
  /\ Done(p, k)
  /\ Goto(p, "save")
  /\ UNCHANGED <<file, published, acks, mem, disk, scan, listing, batch, job, held, boundVars>>

\* Fetching the content, or the host, fails: again only the resource fails.
OperationFails(p, k) ==
  /\ faults < MaxFaults
  /\ pc[p] = "apply"
  /\ plan[p][k] \in Mutations
  /\ Done(p, k)
  /\ faults' = faults + 1
  /\ Goto(p, "save")
  /\ UNCHANGED <<file, published, acks, mem, disk, scan, listing, batch, job, held, life, acts,
                 rewound>>

\* Every resource without a conflict is acknowledged, whatever became of its
\* operation; the journal is closed and the state saved.
Acknowledge(p) ==
  /\ pc[p] = "apply"
  /\ Pending(p) = {}
  /\ acks' = [acks EXCEPT ![p] = [k \in Keys |->
       IF mem[p].conflicts[k] = NoConflict THEN Heads(mem[p].commits, k) ELSE @[k]]]
  /\ disk' = [disk EXCEPT ![p] = mem[p]]
  /\ listing' = [listing EXCEPT ![p] = NoListing]
  /\ plan' = [plan EXCEPT ![p] = NoPlan]
  /\ Goto(p, "idle")
  /\ UNCHANGED <<file, published, mem, scan, batch, job, held, boundVars>>

---------------------------------------------------------------------------
(* resolve and rollback: the replica is changed first, then a commit over  *)
(* the heads the client knows is published.  Neither refreshes before.     *)

\* The resource as the client lists it now.
Current(p, k) == Inventory(p, Listed(p))[k]

\* The versions a user can choose in a conflict: the local one, a remote head,
\* deletion.
VersionChoices(p, k) ==
  {KeepLocal, Deleted} \cup {c.change : c \in HeadCommits(mem[p].commits, k)}

Request(p, call, k, want, copy, target) ==
  /\ pc[p] = "idle"
  /\ acts < MaxActs
  /\ acts' = acts + 1
  /\ job' = [job EXCEPT ![p] =
       [call |-> call, want |-> want, key |-> k, current |-> Current(p, k),
        copy |-> copy, target |-> target, copied |-> NoCopy]]
  /\ Goto(p, "user")
  /\ UNCHANGED <<file, published, acks, mem, disk, scan, listing, plan, batch, held, life, faults,
                 rewound>>

\* The conflict is still the one the user saw.
Fresh(p, k) ==
  /\ mem[p].conflicts[k].heads = Heads(mem[p].commits, k)
  /\ mem[p].conflicts[k].local = Current(p, k)

Resolve(p, k) ==
  /\ pc[p] = "idle"
  /\ mem[p].conflicts[k] # NoConflict
  /\ Fresh(p, k)
  /\ \E want \in VersionChoices(p, k) :
       \/ Request(p, "resolve", k, want, NoCopy, k)
       \/ \E copy \in VersionChoices(p, k) \ {Deleted}, target \in Keys \ {k} :
            Request(p, "resolve", k, want, copy, target)

\* An outdated conflict is dropped and the user asked again.
DropConflict(p, k) ==
  LET state == [mem[p] EXCEPT !.conflicts[k] = NoConflict]
  IN  /\ pc[p] = "idle"
      /\ mem[p].conflicts[k] # NoConflict
      /\ ~Fresh(p, k)
      /\ mem' = [mem EXCEPT ![p] = state]
      /\ disk' = [disk EXCEPT ![p] = state]
      /\ UNCHANGED <<file, published, acks, pc, callVars, held, boundVars>>

Rollback(p, k, c) ==
  /\ c \in ResourceCommits(mem[p].commits, k)
  /\ Request(p, "rollback", k, c.change, NoCopy, k)

\* Number the one commit of the request.
UserCommit(p, change, version) ==
  /\ batch' = [batch EXCEPT ![p] =
       {[commit |-> NewCommit(p, job[p].key, mem[p].counter + 1, change), version |-> version]}]
  /\ mem' = [mem EXCEPT ![p].counter = @ + 1]
  /\ Goto(p, "publish")
  /\ UNCHANGED <<published, acks, disk, scan, listing, plan, job, boundVars>>

\* Faulty: takes the version that was chosen for the resource itself.
CopyChosen(p) ==
  IF job[p].want \in {KeepLocal, Deleted} THEN Value(file[p][job[p].key].state) ELSE job[p].want

\* What is to be preserved, as it is by now.
CopyData(p) ==
  IF job[p].copy = KeepLocal THEN Value(file[p][job[p].key].state) ELSE job[p].copy

\* CreateCopy: the target must not exist.
UserCopy(p) ==
  /\ pc[p] = "user"
  /\ job[p].copy # NoCopy /\ job[p].copied = NoCopy
  /\ IsPresent(CopyData(p)) /\ ~IsPresent(file[p][job[p].target].state)
  /\ SetFile(p, job[p].target, CopyData(p))
  /\ job' = [job EXCEPT ![p].copied = CopyData(p)]
  /\ UNCHANGED <<published, acks, mem, disk, pc, scan, listing, plan, batch, boundVars>>

\* The copies come first.
Copied(p) == pc[p] = "user" /\ (job[p].copy = NoCopy \/ job[p].copied # NoCopy)

\* Keep the local version, as it is by now.
UserKeep(p) ==
  LET f == file[p][job[p].key]
  IN  /\ Copied(p)
      /\ job[p].want = KeepLocal
      /\ IsPresent(f.state)
      /\ UserCommit(p, f.state, f.version)
      /\ UNCHANGED <<file, held>>

\* Write a version, or delete what is there, provided nobody interfered.
UserMutate(p) ==
  LET k == job[p].key
      want == job[p].want
      current == job[p].current
  IN  /\ Copied(p)
      /\ want # KeepLocal
      /\ want # Deleted \/ IsPresent(current.state)
      /\ Precondition(p, k, current)
      /\ SetFile(p, k, IF want = Deleted THEN Absent(p) ELSE want)
      /\ UserCommit(p, want, file[p][k].version + 1)

\* Delete what is not there.
UserConfirmDelete(p) ==
  /\ Copied(p)
  /\ job[p].want = Deleted
  /\ ~IsPresent(job[p].current.state)
  /\ UserCommit(p, Deleted, 0)
  /\ UNCHANGED <<file, held>>

---------------------------------------------------------------------------
(* Errors and crashes.                                                     *)

Abandon(p) ==
  /\ Goto(p, "idle")
  /\ scan' = [scan EXCEPT ![p] = NoScan(p)]
  /\ listing' = [listing EXCEPT ![p] = NoListing]
  /\ plan' = [plan EXCEPT ![p] = NoPlan]
  /\ batch' = [batch EXCEPT ![p] = {}]
  /\ job' = [job EXCEPT ![p] = NoJob]

\* The replica no longer has what the call needs: the call returns an error.
GiveUp(p) ==
  /\ \/ pc[p] = "inventory" /\ ~Readable(p, listing[p])
     \/ /\ pc[p] = "user" /\ ~Copied(p)
        /\ ~IsPresent(CopyData(p)) \/ IsPresent(file[p][job[p].target].state)
     \/ /\ Copied(p) /\ job[p].want = KeepLocal
        /\ ~IsPresent(file[p][job[p].key].state)
     \/ /\ Copied(p) /\ job[p].want # KeepLocal
        /\ job[p].want # Deleted \/ IsPresent(job[p].current.state)
        /\ ~Precondition(p, job[p].key, job[p].current)
  /\ Abandon(p)
  /\ UNCHANGED <<file, published, acks, mem, disk, held, boundVars>>

\* Any other call to the host, the remote or the store fails: the call returns
\* an error and what it changed in memory stays.  (An answer of commit_batch that
\* is lost is a failure before Integrate.)
Fail(p) ==
  /\ faults < MaxFaults
  /\ pc[p] # "idle"
  /\ pc[p] = "apply" => Pending(p) = {}
  /\ Abandon(p)
  /\ faults' = faults + 1
  /\ UNCHANGED <<file, published, acks, mem, disk, held, life, acts, rewound>>

\* The process dies and starts again from the saved state.
Crash(p) ==
  /\ faults < MaxFaults
  /\ pc[p] # "idle" \/ mem[p] # disk[p]
  /\ Abandon(p)
  /\ mem' = [mem EXCEPT ![p] = disk[p]]
  /\ life' = [life EXCEPT ![p] = @ + 1]
  /\ faults' = faults + 1
  /\ rewound' = rewound \cup
       {a \in {p} : \E c \in published : c.id.author = a /\ c.id.counter > disk[p].counter}
  /\ UNCHANGED <<file, published, acks, disk, held, acts>>

---------------------------------------------------------------------------
Step(p) ==
  \/ List(p) \/ PlanRun(p) \/ ReadUploads(p) \/ Publish(p) \/ Integrate(p) \/ Save(p)
  \/ \E k \in Keys : Mutate(p, k) \/ Record(p, k) \/ Refuse(p, k)
  \/ Acknowledge(p)
  \/ UserCopy(p) \/ UserKeep(p) \/ UserMutate(p) \/ UserConfirmDelete(p)
  \/ GiveUp(p)

User(p) ==
  \E k \in Keys :
    \/ \E s \in ReplicaState(Contents) : Edit(p, k, s)
    \/ Resolve(p, k)
    \/ DropConflict(p, k)
    \/ \E c \in mem[p].commits : Rollback(p, k, c)

Fault(p) == Fail(p) \/ Crash(p) \/ \E k \in Keys : OperationFails(p, k)

Scanning(p) == Refresh(p) \/ \E a \in Clients : ScanAuthor(p, a)

Next == \E p \in Clients : Scanning(p) \/ Step(p) \/ User(p) \/ Fault(p)

Spec == Init /\ [][Next]_vars

\* The host keeps calling reconcile, and a call runs to its end unless it
\* fails.
Fairness == \A p \in Clients : WF_vars(Step(p)) /\ WF_vars(Scanning(p))

FairSpec == Spec /\ Fairness

---------------------------------------------------------------------------
(* Properties.                                                             *)

ContentsIn(C, k) == {c.change : c \in ResourceCommits(C, k)}

\* A baseline is a state that both sides have had: the replica of the client,
\* and a commit the client knows.
SharedBaselines(p, state) ==
  \A k \in Keys :
    LET b == state.baselines[k].state
    IN  b # NoBaseline => Value(b) \in held[p][k] /\ b \in ContentsIn(state.commits, k)

\* It holds in memory and on disk, whatever was interrupted.
BaselinesShared ==
  \A p \in Clients : SharedBaselines(p, mem[p]) /\ SharedBaselines(p, disk[p])

\* A reconciliation never overwrites or removes content that is not in the
\* commits the client knows, whenever the user edits: the version tokens of
\* execute catch every edit after the listing.
NoUnpublishedOverwrite ==
  [][ \A p \in Clients, k \in Keys :
        Mutate(p, k) /\ IsPresent(file[p][k].state)
          => file[p][k].state \in ContentsIn(mem[p].commits, k) ]_vars

\* A reconciliation never publishes a commit over a head whose state the
\* replica has not had: what other clients wrote is superseded only by
\* someone who has seen it.
NoUnseenSupersede ==
  [][ \A p \in Clients : ReadUploads(p) =>
        \A b \in batch'[p], c \in mem[p].commits :
          c.id \in b.commit.parents => Value(c.change) \in held[p][c.key] ]_vars

\* A request of the user settles the resource: if nobody touched the replica
\* since it was served, the next plan has nothing to do.
RequestSettles ==
  [][ \A p \in Clients :
        Integrate(p) /\ job[p] # NoJob =>
          LET k == job[p].key
              b == mem'[p].baselines[k]
          IN  (IsPresent(b.state) => file[p][k].version = b.version)
              /\ (~IsPresent(b.state) => ~IsPresent(file[p][k].state))
              => PlanResource(file[p][k].state, b.state, RemoteState(mem'[p].commits, k))
                   \in Records ]_vars

\* A user who resolves a conflict and has the local version preserved does not
\* lose it: if resolve overwrites or deletes something, it is what it copied.
LocalPreserved ==
  [][ \A p \in Clients :
        UserMutate(p) /\ job[p].copy = KeepLocal /\ IsPresent(file[p][job[p].key].state)
          => file[p][job[p].key].state = job[p].copied ]_vars

\* A scan may find a commit and not the commit it was made over, published in
\* the meantime in a directory already listed.  A client that misses it has not
\* passed it, in memory or on disk: the next scan reads it, unless its author was
\* rewound.
NoParentPassed ==
  \A p \in Clients : \A state \in {mem[p], disk[p]} :
    \A c \in state.commits : \A i \in c.parents :
      \/ i.author \in rewound
      \/ i.counter > state.cursors[i.author]
      \/ \E d \in state.commits : d.id = i

\* A conflict over forked heads is a genuine divergence: no head was replaced
\* by a commit that another head builds on.
GenuineForks ==
  \A p \in Clients, k \in Keys : mem[p].conflicts[k] # NoConflict =>
    LET H == mem[p].conflicts[k].heads
    IN  ~ \E c, d, e \in published :
          c.id \in H /\ e.id \in H /\ c.id \in d.parents /\ d.id \in e.parents

\* When the users rest, all replicas end up with the same contents, except
\* for resources in which a conflict waits for a user, unless an author was
\* rewound.
Agree(k) ==
  \A p, q \in Clients :
    \/ Value(file[p][k].state) = Value(file[q][k].state)
    \/ \E r \in {p, q} : mem[r].conflicts[k] # NoConflict

Converges == <>[](rewound = {} => \A k \in Keys : Agree(k))

============================================================================
