------------------------------ MODULE TextSync ------------------------------
(***************************************************************************)
(* The text branches of SyncRuntime (src/src/runtime.rs): clients that     *)
(* reconcile their replicas of one text resource.  A text commit carries   *)
(* an update of a CRDT document; the text of a resource is what all its    *)
(* updates make together.                                                  *)
(*                                                                         *)
(* The CRDT (yrs) is external.  It is modelled by what a list CRDT         *)
(* promises: characters get unique ids, all documents agree on one order   *)
(* of all characters ever inserted, an update is a set of insertions and a *)
(* set of deletions, and a document is the union of its updates.           *)
(*                                                                         *)
(* A character stands for itself: it is the number of the act that typed   *)
(* it, so a text shows what became of every act.  It has one UTF-16 code   *)
(* unit or, if it is in Wide, two, and no two characters share a unit: for *)
(* surrogate pairs that do, see MCTextDiff.  Steps are those of            *)
(* module Reconcile, coarser: a run refreshes, lists and plans in one      *)
(* step, since nothing it does in between is visible to anyone.  Cursors   *)
(* and commit numbers are the subject of Catalog and left out.             *)
(***************************************************************************)
EXTENDS Naturals, Sequences, FiniteSets, Functions, Planner, Subsequences

CONSTANTS
  Clients,     \* numbers, in the order of the clients' names
  Hashing,     \* clients whose host lists content ids; the others list none
  Policy,      \* clients whose host has a TextMergePolicy
  Wide,        \* the acts that type a character of two code units
  MaxEvents,   \* bound: acts of users (edits, resolutions, rollbacks) and faults
  MaxFaults    \* bound: failed calls and crashes among them

ASSUME TextSyncAssumption ==
  /\ Clients \subseteq Nat /\ Hashing \subseteq Clients /\ Policy \subseteq Clients
  /\ MaxEvents \in Nat /\ MaxFaults \in Nat

VARIABLES
  line,       \* all characters ever inserted, in document order
  file,       \* file[p]: the host's resource and its version token
  published,  \* the commits in the remote graph
  mem,        \* mem[p]: RuntimeState behind the mutex
  disk,       \* disk[p]: the RuntimeState last saved
  pc,         \* pc[p]: where the call holding the mutex has got to
  listing,    \* listing[p]: the resource as the run listed it
  plan,       \* plan[p]: the operation of the run
  batch,      \* batch[p]: what is about to be committed
  acts,       \* user actions so far
  faults,     \* faults so far
  cut,        \* history: characters of which a user removed a copy
  split,      \* history: clients that were given the text of one of several heads
  unrecorded  \* history: clients that published or restored a text and have not
              \* recorded its document since

runVars == <<listing, plan, batch>>
boundVars == <<acts, faults>>
historyVars == <<cut, split, unrecorded>>
vars == <<line, file, published, mem, disk, pc, runVars, boundVars, historyVars>>

---------------------------------------------------------------------------
(* Documents.                                                              *)

Code(c) == IF c \in Wide THEN <<2 * c, 2 * c + 1>> ELSE <<2 * c>>

T == INSTANCE TextDiff

Text == Seq(Nat)
Item == [id : Nat, char : Nat]

\* A document, and also an update: what it inserts and what it deletes.
Doc == [ins : SUBSET Nat, del : SUBSET Nat]

NewDoc == [ins |-> {}, del |-> {}]

\* apply_delta.
Merge(D) == [ins |-> UNION {d.ins : d \in D}, del |-> UNION {d.del : d \in D}]

\* The characters of a document that are not deleted.
Shown(doc) == Pick(line, {i \in 1..Len(line) : line[i].id \in doc.ins \ doc.del})

Content(doc) == LET s == Shown(doc) IN [i \in 1..Len(s) |-> s[i].char]

Chars(text) == {text[i] : i \in 1..Len(text)}

Copies(text, c) == Cardinality({i \in 1..Len(text) : text[i] = c})

\* The characters of which `after' has fewer copies than `before'.
Dropped(before, after) == {c \in Chars(before) : Copies(after, c) < Copies(before, c)}

Place(id) == IF id = 0 THEN 0 ELSE CHOOSE i \in 1..Len(line) : line[i].id = id

\* Faulty: removes one character too few.
RemovedShort(doc, d) == {Shown(doc)[i].id : i \in d.start+2 .. d.start+d.remove}

Removed(doc, d) == {Shown(doc)[i].id : i \in d.start+1 .. d.start+d.remove}

\* What diff_middle finds, in characters: the document removes the characters that
\* the code units belong to (external).
Diff(old, new) ==
  LET d == T!DiffMiddle(T!Encoded(old), new)
      first == T!CharBoundary(old, d.start)
  IN  [start  |-> first,
       remove |-> T!CharBoundary(old, d.start + d.remove) - first,
       insert |-> d.insert]

\* set_text: the update, and where in the line its insertions may go.
Update(doc, new) ==
  LET old == Content(doc)
      d == Diff(old, new)
      right == d.start + d.remove + 1
      id(i) == Shown(doc)[i].id
  IN  [ins   |-> {Len(line) + i : i \in 1..Len(d.insert)},
       del   |-> Removed(doc, d),
       items |-> [i \in 1..Len(d.insert) |-> [id |-> Len(line) + i, char |-> d.insert[i]]],
       spots |-> (IF d.start = 0 THEN 0 ELSE Place(id(d.start)))
                  .. (IF right > Len(old) THEN Len(line) ELSE Place(id(right)) - 1)]

InsertAt(spot, items) == SubSeq(line, 1, spot) \o items \o SubSeq(line, spot + 1, Len(line))

---------------------------------------------------------------------------
PresentText == [state : {"Present"}, content : Text]

\* The digest in a commit id makes it unique; its number here does.
Commit == [id : Nat, author : Clients, parents : SUBSET Nat, change : Doc \cup {Deleted}]

Resource == [state : PresentText \cup {Missing}, version : Nat]
Nothing == [state |-> Missing, version |-> 0]

Baseline == [state : PresentText \cup {Deleted, NoBaseline}, version : Nat,
             heads : SUBSET Nat]

NoConflict == [heads |-> {}, local |-> Nothing]
NoText == [none |-> TRUE]

RuntimeState ==
  [commits : SUBSET Commit, baseline : Baseline, text : Doc \cup {NoText},
   conflict : [heads : SUBSET Nat, local : Resource]]

FreshState ==
  [commits |-> {}, baseline |-> [state |-> NoBaseline, version |-> 0, heads |-> {}],
   text |-> NoText, conflict |-> NoConflict]

\* What to commit, on which document the change is worked out, whether a user asks
\* for it, and whether that settles a conflict.
Batch == [state : PresentText \cup {Deleted}, doc : Doc, version : Nat, user : BOOLEAN,
          settles : BOOLEAN]
NoBatch == [state |-> Missing]

TypeOK ==
  /\ line \in Seq(Item)
  /\ file \in [Clients -> Resource]
  /\ published \subseteq Commit
  /\ mem \in [Clients -> RuntimeState]
  /\ disk \in [Clients -> RuntimeState]
  /\ pc \in [Clients -> {"idle", "read", "publish", "integrate", "apply", "save"}]
  /\ listing \in [Clients -> Resource]
  /\ plan \in [Clients -> PlanOperation]
  /\ batch \in [Clients -> Batch \cup {NoBatch}]
  /\ acts \in Nat /\ faults \in Nat
  /\ cut \subseteq Nat /\ split \subseteq Clients /\ unrecorded \subseteq Clients

Init ==
  /\ line = <<>>
  /\ file = [p \in Clients |-> Nothing]
  /\ published = {}
  /\ mem = [p \in Clients |-> FreshState]
  /\ disk = [p \in Clients |-> FreshState]
  /\ pc = [p \in Clients |-> "idle"]
  /\ listing = [p \in Clients |-> Nothing]
  /\ plan = [p \in Clients |-> Op("Noop")]
  /\ batch = [p \in Clients |-> NoBatch]
  /\ acts = 0 /\ faults = 0 /\ cut = {} /\ split = {} /\ unrecorded = {}

Goto(p, label) == pc' = [pc EXCEPT ![p] = label]

---------------------------------------------------------------------------
(* The host (external) and its user.                                       *)

TextOf(state) == IF IsPresent(state) THEN state.content ELSE <<>>

CharsOf(state) == Chars(TextOf(state))

Written(p, s) == [file EXCEPT ![p] = [state |-> s, version |-> @.version + 1]]

Precondition(p, listed) ==
  IF listed.state = Missing THEN file[p].state = Missing
  ELSE file[p].state # Missing /\ file[p].version = listed.version

\* A user replaces the texts `before' by state s.
Act(before, s) ==
  /\ acts + faults < MaxEvents
  /\ acts' = acts + 1
  /\ cut' = cut \cup ({acts'} \ CharsOf(s)) \cup UNION {Dropped(t, TextOf(s)) : t \in before}

Edit(p, s) ==
  /\ Act({TextOf(file[p].state)}, s)
  /\ file' = Written(p, s)
  /\ UNCHANGED <<line, published, mem, disk, pc, runVars, faults, split, unrecorded>>

Create(p) == file[p].state = Missing /\ Edit(p, Present(<<acts + 1>>))

Type(p, i) ==
  /\ IsPresent(file[p].state)
  /\ LET t == file[p].state.content
     IN  /\ i \in 0..Len(t)
         /\ Edit(p, Present(SubSeq(t, 1, i) \o <<acts + 1>> \o SubSeq(t, i + 1, Len(t))))

Cut(p, i) ==
  /\ IsPresent(file[p].state)
  /\ LET t == file[p].state.content
     IN  /\ i \in 1..Len(t)
         /\ Edit(p, Present(SubSeq(t, 1, i - 1) \o SubSeq(t, i + 1, Len(t))))

Remove(p) == IsPresent(file[p].state) /\ Edit(p, Missing)

---------------------------------------------------------------------------
(* The commit graph as a client knows it.                                  *)

HeadCommits(C) == {c \in C : \A d \in C : c.id \notin d.parents}
Heads(C) == {c.id : c \in HeadCommits(C)}

Updates(C) == {c.change : c \in {c \in C : c.change # Deleted}}

TextDoc(C) == Merge(Updates(C))

\* text_doc_at: the commits reachable from one head.
Ancestors(C, head) ==
  LET parents(i) == UNION {c.parents : c \in {c \in C : c.id = i}}
      up[i \in 0..head] == {i} \cup UNION {up[j] : j \in parents(i) \cap (0..head)}
  IN  up[head]

TextDocAt(C, head) == TextDoc({c \in C : c.id \in Ancestors(C, head)})

\* remote_state: text heads are one state, whatever their number.
RemoteState(C) ==
  LET changes == {c.change : c \in HeadCommits(C)}
  IN  IF changes = {} THEN Missing
      ELSE CASE changes = {Deleted}     -> Deleted
             [] Deleted \notin changes  -> Present(Content(TextDoc(C)))
             [] OTHER                   -> Forked

\* content_for_remote of the first head: ids begin with the author's name and
\* number.
FirstHead(C) ==
  CHOOSE c \in HeadCommits(C) : \A d \in HeadCommits(C) :
    c.author < d.author \/ (c.author = d.author /\ c.id <= d.id)

---------------------------------------------------------------------------
(* reconcile up to the plan.                                               *)

\* list_resources and local_inventory.
Listed(p) ==
  LET f == file[p]
      b == mem[p].baseline
  IN  IF f.state = Missing THEN Nothing
      ELSE IF p \notin Hashing /\ IsPresent(b.state) /\ b.version = f.version
           THEN [f EXCEPT !.state = b.state] ELSE f

\* build_plan: texts that both sides changed are left to the CRDT.
Planned(local, baseline, remote) ==
  LET op == PlanResource(local, baseline, remote)
  IN  IF op = Conflict("ContentVsContent") THEN Op("Upload") ELSE op

Begin(p) ==
  LET L == Listed(p)
      op == Planned(L.state, mem[p].baseline.state, RemoteState(published))
      state == [mem[p] EXCEPT
        !.commits = published,
        !.conflict = IF op.op = "Conflict" THEN [heads |-> Heads(published), local |-> L]
                     ELSE NoConflict]
  IN  /\ pc[p] = "idle"
      /\ listing' = [listing EXCEPT ![p] = L]
      /\ plan' = [plan EXCEPT ![p] = op]
      /\ mem' = [mem EXCEPT ![p] = state]
      /\ disk' = [disk EXCEPT ![p] = state]
      /\ Goto(p, IF op \in {Op("Upload"), Op("PublishDelete")} THEN "read" ELSE "apply")
      /\ UNCHANGED <<line, file, published, batch, boundVars, historyVars>>

---------------------------------------------------------------------------
(* The upload half of execute.                                             *)

\* Faulty: also takes the absence of a document for a document.
StoredUnchecked(p) == mem[p].text

\* Faulty: works on what the graph has become instead of what the replica was
\* last reconciled with.
StoredLatest(p) == TextDoc(mem[p].commits)

\* Faulty: begins anew after a deletion.
StoredIfPresent(p) ==
  IF IsPresent(mem[p].baseline.state) /\ mem[p].text # NoText THEN mem[p].text ELSE NewDoc

\* The document the client last reconciled with, if it has a baseline.
StoredDoc(p) ==
  IF mem[p].baseline.state # NoBaseline /\ mem[p].text # NoText THEN mem[p].text ELSE NewDoc

\* The upload is read with the version token it was listed with.
ReadNow(p) == IsPresent(file[p].state) /\ file[p].version = listing[p].version

\* Whether the merge policy is asked.
Asked(p) ==
  /\ p \in Policy
  /\ IsPresent(mem[p].baseline.state)
  /\ mem[p].baseline.heads # Heads(mem[p].commits)
  /\ mem[p].text # NoText

\* A policy's answer, if it has one: the remote text with the local edits since
\* the base (external).
MergeText(base, local, remote) ==
  LET kept  == {i \in 1..Len(remote) : remote[i] \in Chars(local) \/ remote[i] \notin Chars(base)}
      added == {i \in 1..Len(local) : local[i] \notin Chars(base) \cup Chars(remote)}
  IN  Pick(remote, kept) \o Pick(local, added)

\* Go on to publish s, worked out on a document.
Prepare(p, s, doc) ==
  /\ batch' = [batch EXCEPT ![p] =
       [state |-> s, doc |-> doc, version |-> listing[p].version, user |-> FALSE,
        settles |-> FALSE]]
  /\ Goto(p, "publish")
  /\ UNCHANGED <<line, file, published, mem, disk, listing, plan, boundVars, historyVars>>

\* Without a policy, or if it does not handle the resource.
ReadUpload(p) ==
  /\ pc[p] = "read" /\ plan[p] = Op("Upload") /\ ReadNow(p)
  /\ Prepare(p, file[p].state, StoredDoc(p))

ReadMerged(p) ==
  LET remote == TextDoc(mem[p].commits)
  IN  /\ pc[p] = "read" /\ plan[p] = Op("Upload") /\ ReadNow(p) /\ Asked(p)
      /\ Prepare(p, Present(MergeText(Content(mem[p].text), file[p].state.content,
                                      Content(remote))), remote)

\* The policy declares a conflict.
ReadConflict(p) ==
  /\ pc[p] = "read" /\ plan[p] = Op("Upload") /\ ReadNow(p) /\ Asked(p)
  /\ mem' = [mem EXCEPT ![p].conflict =
       [heads |-> Heads(mem[p].commits), local |-> listing[p]]]
  /\ Goto(p, "save")
  /\ UNCHANGED <<line, file, published, disk, runVars, boundVars, historyVars>>

ReadDelete(p) ==
  /\ pc[p] = "read" /\ plan[p] = Op("PublishDelete")
  /\ Prepare(p, Deleted, NewDoc)

\* The resource has changed since it was listed: the upload has failed.
ReadChanged(p) ==
  /\ pc[p] = "read" /\ plan[p] = Op("Upload") /\ ~ReadNow(p)
  /\ Goto(p, "save")
  /\ UNCHANGED <<line, file, published, mem, disk, runVars, boundVars, historyVars>>

NewCommit(p, change) ==
  [id |-> Cardinality(published) + 1, author |-> p, parents |-> Heads(mem[p].commits),
   change |-> change]

PublishDelete(p) ==
  /\ pc[p] = "publish" /\ batch[p].state = Deleted
  /\ published' = published \cup {NewCommit(p, Deleted)}
  /\ Goto(p, "integrate")
  /\ UNCHANGED <<line, file, mem, disk, runVars, boundVars, historyVars>>

\* set_text and commit_batch.
PublishText(p) ==
  LET u == Update(batch[p].doc, batch[p].state.content)
  IN  /\ pc[p] = "publish" /\ IsPresent(batch[p].state)
      /\ \E spot \in u.spots : line' = InsertAt(spot, u.items)
      /\ published' = published \cup {NewCommit(p, [ins |-> u.ins, del |-> u.del])}
      /\ Goto(p, "integrate")
      /\ UNCHANGED <<file, mem, disk, runVars, boundVars, historyVars>>

\* The commit just published.
Own(p) ==
  CHOOSE c \in published :
    c.author = p /\ \A d \in published : d.author = p => d.id <= c.id

Integrated(p) == mem[p].commits \cup {Own(p)}

\* set_present_baseline and set_deleted_baseline.
Baselined(p, C, s, version) ==
  [mem[p] EXCEPT !.commits = C,
                 !.baseline = [state |-> s, heads |-> Heads(C),
                               version |-> IF s = Deleted THEN 0 ELSE version]]

\* A baseline together with the document of the graph.
Reconciled(p, C, s, version) ==
  [Baselined(p, C, s, version) EXCEPT !.text = TextDoc(C)]

\* Record a document: the client is up to date with what it published.
Record(p, C, s, version) ==
  /\ mem' = [mem EXCEPT ![p] = Reconciled(p, C, s, version)]
  /\ unrecorded' = unrecorded \ {p}

\* A deletion is recorded.
IntegrateDelete(p) ==
  /\ pc[p] = "integrate" /\ ~batch[p].user /\ batch[p].state = Deleted
  /\ mem' = [mem EXCEPT ![p] = Baselined(p, Integrated(p), Deleted, 0)]
  /\ Goto(p, "save")
  /\ UNCHANGED <<line, file, published, disk, runVars, boundVars, historyVars>>

\* A request of the user is recorded without its document; a resolution settles the
\* conflict.
IntegrateUser(p) ==
  LET state == Baselined(p, Integrated(p), batch[p].state, batch[p].version)
  IN  /\ pc[p] = "integrate" /\ batch[p].user
      /\ mem' = [mem EXCEPT ![p] =
           [state EXCEPT !.conflict = IF batch[p].settles THEN NoConflict ELSE @]]
      /\ unrecorded' = unrecorded \cup {p}
      /\ Goto(p, "save")
      /\ UNCHANGED <<line, file, published, disk, runVars, boundVars, cut, split>>

\* Faulty: records the merged text and leaves the replica as it is.
IntegrateUnwritten(p) ==
  LET s == Present(Content(TextDoc(Integrated(p))))
  IN  /\ pc[p] = "integrate" /\ ~batch[p].user /\ IsPresent(batch[p].state)
      /\ Precondition(p, listing[p])
      /\ Record(p, Integrated(p), s, file[p].version)
      /\ Goto(p, "save")
      /\ UNCHANGED <<line, file, published, disk, runVars, boundVars, cut, split>>

\* Faulty: does not record the document.
IntegrateUndocumented(p) ==
  LET s == Present(Content(TextDoc(Integrated(p))))
  IN  /\ pc[p] = "integrate" /\ ~batch[p].user /\ IsPresent(batch[p].state)
      /\ Precondition(p, listing[p])
      /\ file' = Written(p, s)
      /\ mem' = [mem EXCEPT ![p] = Baselined(p, Integrated(p), s, file[p].version + 1)]
      /\ unrecorded' = unrecorded \ {p}
      /\ Goto(p, "save")
      /\ UNCHANGED <<line, published, disk, runVars, boundVars, cut, split>>

\* The merged text is written to the replica and recorded with its document.
IntegrateText(p) ==
  LET s == Present(Content(TextDoc(Integrated(p))))
  IN  /\ pc[p] = "integrate" /\ ~batch[p].user /\ IsPresent(batch[p].state)
      /\ Precondition(p, listing[p])
      /\ file' = Written(p, s)
      /\ Record(p, Integrated(p), s, file[p].version + 1)
      /\ Goto(p, "save")
      /\ UNCHANGED <<line, published, disk, runVars, boundVars, cut, split>>

\* The host refuses: the text is published and nothing is recorded.
IntegrateRefused(p) ==
  /\ pc[p] = "integrate" /\ ~batch[p].user /\ IsPresent(batch[p].state)
  /\ ~Precondition(p, listing[p])
  /\ mem' = [mem EXCEPT ![p].commits = Integrated(p)]
  /\ unrecorded' = unrecorded \cup {p}
  /\ Goto(p, "save")
  /\ UNCHANGED <<line, file, published, disk, runVars, boundVars, cut, split>>

---------------------------------------------------------------------------
(* The last loop of execute.                                               *)

\* The text at the first head is written; that of all heads is recorded.
Download(p) ==
  LET C == mem[p].commits
      s == Present(Content(TextDocAt(C, FirstHead(C).id)))
  IN  /\ pc[p] = "apply" /\ plan[p] = Op("Download")
      /\ Precondition(p, listing[p])
      /\ file' = Written(p, s)
      /\ Record(p, C, RemoteState(C), file[p].version + 1)
      /\ split' = IF s = RemoteState(C) THEN split ELSE split \cup {p}
      /\ Goto(p, "save")
      /\ UNCHANGED <<line, published, disk, runVars, boundVars, cut>>

ApplyDelete(p) ==
  /\ pc[p] = "apply" /\ plan[p] = Op("ApplyDelete")
  /\ Precondition(p, listing[p])
  /\ file' = Written(p, Missing)
  /\ mem' = [mem EXCEPT ![p] = Baselined(p, mem[p].commits, Deleted, 0)]
  /\ Goto(p, "save")
  /\ UNCHANGED <<line, published, disk, runVars, boundVars, historyVars>>

EstablishBaseline(p) ==
  /\ pc[p] = "apply" /\ plan[p] = Op("EstablishBaseline")
  /\ Record(p, mem[p].commits, listing[p].state, listing[p].version)
  /\ Goto(p, "save")
  /\ UNCHANGED <<line, file, published, disk, runVars, boundVars, cut, split>>

EstablishDeletedBaseline(p) ==
  /\ pc[p] = "apply" /\ plan[p] = Op("EstablishDeletedBaseline")
  /\ mem' = [mem EXCEPT ![p] = Baselined(p, mem[p].commits, Deleted, 0)]
  /\ Goto(p, "save")
  /\ UNCHANGED <<line, file, published, disk, runVars, boundVars, historyVars>>

\* Nothing to do, or the host refuses the mutation: the run goes on.
Skip(p) ==
  /\ pc[p] = "apply"
  /\ \/ plan[p] = Op("Noop") \/ plan[p].op = "Conflict"
     \/ plan[p] \in {Op("Download"), Op("ApplyDelete")} /\ ~Precondition(p, listing[p])
  /\ Goto(p, "save")
  /\ UNCHANGED <<line, file, published, mem, disk, runVars, boundVars, historyVars>>

Forget(p) ==
  /\ Goto(p, "idle")
  /\ listing' = [listing EXCEPT ![p] = Nothing]
  /\ plan' = [plan EXCEPT ![p] = Op("Noop")]
  /\ batch' = [batch EXCEPT ![p] = NoBatch]

\* The save that ends every call.
Save(p) ==
  /\ pc[p] = "save"
  /\ disk' = [disk EXCEPT ![p] = mem[p]]
  /\ Forget(p)
  /\ UNCHANGED <<line, file, published, mem, boundVars, historyVars>>

---------------------------------------------------------------------------
(* resolve and rollback.                                                   *)

\* The version of a commit.
VersionAt(C, c) ==
  IF c.change = Deleted THEN Deleted ELSE Present(Content(TextDocAt(C, c.id)))

\* publish_bytes and publish_delete: the change is worked out on the document
\* of the whole graph.
UserCommit(p, s, version, settles) ==
  LET doc == TextDoc(mem[p].commits)
  IN  /\ pc[p] = "idle"
      /\ Act({TextOf(file[p].state), Content(doc)}, s)
      /\ batch' = [batch EXCEPT ![p] =
           [state |-> s, doc |-> doc, version |-> version, user |-> TRUE,
            settles |-> settles]]
      /\ Goto(p, "publish")
      /\ UNCHANGED <<line, published, mem, disk, listing, plan, faults, split, unrecorded>>

\* The replica is made to have the version first.
UserRestore(p, s, settles) ==
  /\ UserCommit(p, s, file[p].version + 1, settles)
  /\ file' = IF s # Deleted THEN Written(p, s)
             ELSE IF IsPresent(file[p].state) THEN Written(p, Missing) ELSE file

Rollback(p, c) == UserRestore(p, VersionAt(mem[p].commits, c), FALSE)

\* The conflict is still the one the user saw.
Fresh(p) ==
  /\ mem[p].conflict # NoConflict
  /\ mem[p].conflict.heads = Heads(mem[p].commits)
  /\ mem[p].conflict.local = Listed(p)

\* The user takes a remote head, deletion, or the local version.
Resolve(p) ==
  /\ Fresh(p)
  /\ \/ \E c \in HeadCommits(mem[p].commits) :
          UserRestore(p, VersionAt(mem[p].commits, c), TRUE)
     \/ UserRestore(p, Deleted, TRUE)
     \/ /\ IsPresent(file[p].state)
        /\ UserCommit(p, file[p].state, file[p].version, TRUE)
        /\ UNCHANGED file

---------------------------------------------------------------------------
(* Errors and crashes.                                                     *)

Fault ==
  /\ faults < MaxFaults /\ acts + faults < MaxEvents
  /\ faults' = faults + 1

\* The call has published a text, or a request of the user has written it, and
\* its document is still to be recorded.
Recording(p) ==
  \/ pc[p] = "integrate" /\ IsPresent(batch[p].state)
  \/ pc[p] = "publish" /\ batch[p].user

\* A call to the host, the remote or the store fails; memory stays.
Fail(p) ==
  /\ Fault
  /\ pc[p] # "idle"
  /\ unrecorded' = unrecorded \cup {q \in {p} : Recording(q)}
  /\ Forget(p)
  /\ UNCHANGED <<line, file, published, mem, disk, acts, cut, split>>

\* The process dies and starts again from the saved state.
Crash(p) ==
  /\ Fault
  /\ pc[p] # "idle" \/ mem[p] # disk[p]
  /\ mem' = [mem EXCEPT ![p] = disk[p]]
  /\ unrecorded' = unrecorded \cup {q \in {p} : Recording(q) \/ mem[q].text # disk[q].text}
  /\ Forget(p)
  /\ UNCHANGED <<line, file, published, disk, acts, cut, split>>

---------------------------------------------------------------------------
Step(p) ==
  \/ ReadUpload(p) \/ ReadMerged(p) \/ ReadConflict(p) \/ ReadDelete(p) \/ ReadChanged(p)
  \/ PublishDelete(p) \/ PublishText(p)
  \/ IntegrateDelete(p) \/ IntegrateUser(p) \/ IntegrateText(p) \/ IntegrateRefused(p)
  \/ Download(p) \/ ApplyDelete(p) \/ EstablishBaseline(p) \/ EstablishDeletedBaseline(p)
  \/ Skip(p) \/ Save(p)

User(p) ==
  \/ Create(p) \/ Remove(p)
  \/ \E i \in 0..MaxEvents : Type(p, i) \/ Cut(p, i)
  \/ \E c \in mem[p].commits : Rollback(p, c)
  \/ Resolve(p)

Next == \E p \in Clients : Begin(p) \/ Step(p) \/ User(p) \/ Fail(p) \/ Crash(p)

Spec == Init /\ [][Next]_vars

\* The host keeps calling reconcile, and a call runs to its end unless it
\* fails.  A client can always begin a call or go on with the one it is in, so
\* this is weak fairness of Begin(p) \/ Step(p) without the ENABLED that TLC
\* would evaluate in every state; the other steps that move pc[p] are bounded.
Fairness == \A p \in Clients : []<><<pc'[p] # pc[p]>>_vars

FairSpec == Spec /\ Fairness

---------------------------------------------------------------------------
(* Properties.                                                             *)

\* What a user typed and no user removed is in a replica or in the text of the
\* graph.
NoEditLost ==
  (1..acts) \ cut \subseteq Chars(Content(TextDoc(published)))
                              \cup UNION {CharsOf(file[p].state) : p \in Clients}

\* It is, unless a client was given the text of one of several heads.
EditsKept == split = {} => NoEditLost

\* A run does not publish text a second time: what it inserts is not shown by
\* the graph the client knows, unless it replaces it, or the client has a text
\* whose document it has not recorded.
PublishedOnce ==
  [][ \A p \in Clients : PublishText(p) /\ ~batch[p].user /\ p \notin unrecorded \cup split =>
        LET u == Update(batch[p].doc, batch[p].state.content)
            replaced == {x.char : x \in {x \in Range(line) : x.id \in u.del}}
        IN  {u.items[i].char : i \in DOMAIN u.items} \cap Chars(Content(TextDoc(mem[p].commits)))
              \subseteq replaced ]_vars

\* What the remote shows.
Visible ==
  IF RemoteState(published) \in {Missing, Deleted} THEN {} ELSE Chars(Content(TextDoc(published)))

\* The characters in the document the client last recorded.
Recorded(p) == IF mem[p].text = NoText THEN {} ELSE mem[p].text.ins

\* A text that was deleted with its resource does not come back with the next
\* text, unless the client has never recorded all of it.
NoReturn ==
  [][ \A p \in Clients :
        PublishText(p) /\ (batch[p].user \/ TextDoc(mem[p].commits).ins \subseteq Recorded(p)) =>
          CharsOf(RemoteState(published))' \subseteq Visible \cup CharsOf(batch[p].state) ]_vars

\* set_text leaves the document with the text it was given, characters of one and of
\* two code units alike, as long as no two characters share a code unit.
SetTextExact ==
  \A p \in Clients : pc[p] = "integrate" /\ IsPresent(batch[p].state) =>
    Content(Merge({batch[p].doc, Own(p).change})) = batch[p].state.content

\* When the users rest, all replicas come to have the same text for good,
\* unless a conflict waits for a user, or the text of one of several heads was
\* given to a host that does not list content ids.
Converges ==
  \/ \E p \in Clients : []<>(mem[p].conflict # NoConflict)
  \/ <>[](split \subseteq Hashing => \A p, q \in Clients : file[p].state = file[q].state)

============================================================================
