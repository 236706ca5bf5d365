------------------------------ MODULE PlanLoop -----------------------------
(***************************************************************************)
(* One replica reconciling again and again, with the planner's decisions   *)
(* carried out atomically, while the host's user edits the resource and    *)
(* other clients move the remote graph.  It states what the planner is     *)
(* for: a three-way merge that destroys nothing anybody has not seen.      *)
(* (Module Reconcile takes the atomicity away.)                            *)
(***************************************************************************)
EXTENDS Planner

CONSTANT Contents        \* the contents a resource can have

VARIABLES
  local,        \* what the host lists for the resource
  baseline,     \* RuntimeState.baselines of the resource
  remote,       \* what the heads known to the client materialise to
  published,    \* history: contents the remote graph has ever had as its state
  held          \* history: contents the local replica has ever had

vars == <<local, baseline, remote, published, held>>

ContentsOf(s) == IF IsPresent(s) THEN {s.content} ELSE {}

TypeOK ==
  /\ local \in ReplicaState(Contents)
  /\ baseline \in BaselineState(Contents) \cup {NoBaseline}
  /\ remote \in RemoteResourceState(Contents)
  /\ published \in SUBSET Contents
  /\ held \in SUBSET Contents

Init ==
  /\ local \in PresentStates(Contents) \cup {Missing}
  /\ baseline = NoBaseline
  /\ remote \in RemoteResourceState(Contents)
  /\ published = ContentsOf(remote)
  /\ held = ContentsOf(local)

\* The user creates, changes or removes the resource; a host that keeps
\* tombstones lists the removed resource as Deleted.
Edit(s) ==
  /\ local' = s
  /\ held' = held \cup ContentsOf(s)
  /\ UNCHANGED <<baseline, remote, published>>

\* A refresh finds what other clients published.  Commits are never taken
\* out of the graph, so a resource does not become Missing again.
Foreign(s) ==
  /\ s # Missing
  /\ remote' = s
  /\ published' = published \cup ContentsOf(s)
  /\ UNCHANGED <<local, baseline, held>>

Plan == PlanResource(local, baseline, remote)

\* One reconciliation of the resource.
Sync ==
  /\ local' = LocalAfter(Plan, local, remote)
  /\ remote' = RemoteAfter(Plan, local, remote)
  /\ baseline' = BaselineAfter(Plan, local, baseline, remote)
  /\ published' = published \cup ContentsOf(remote')
  /\ held' = held \cup ContentsOf(local')

Next ==
  \/ \E s \in ReplicaState(Contents) : Edit(s)
  \/ \E s \in RemoteResourceState(Contents) : Foreign(s)
  \/ Sync

Spec == Init /\ [][Next]_vars

---------------------------------------------------------------------------
(* A three-way merge, written without the planner's case analysis.         *)

\* A resource that is not there, for whatever reason, has one value.
Value(s) == IF IsPresent(s) THEN s ELSE Missing

\* Which side a merge keeps: "same" (they agree), "local", "remote" or
\* "conflict".  Without a baseline nothing is known to be unchanged, so only
\* a side that never existed gives way.
ThreeWay(l, b, r) ==
  LET localGivesWay  == IF b = NoBaseline THEN Value(l) = Missing
                                          ELSE Value(l) = Value(b)
      remoteGivesWay == r = Missing \/ (b # NoBaseline /\ Value(r) = Value(b))
  IN  IF r = Forked THEN "conflict"
      ELSE IF Value(l) = Value(r) THEN "same"
      ELSE IF remoteGivesWay THEN "local"
      ELSE IF localGivesWay THEN "remote" ELSE "conflict"

Side(op) ==
  CASE op.op \in {"Noop", "EstablishBaseline", "EstablishDeletedBaseline"} -> "same"
    [] op.op \in {"Upload", "PublishDelete"}                              -> "local"
    [] op.op \in {"Download", "ApplyDelete"}                              -> "remote"
    [] op.op = "Conflict"                                                 -> "conflict"

\* plan_resource decides as the three-way merge does: the order of its match
\* arms hides no case and gives none the wrong side.
PlanIsThreeWayMerge == Side(Plan) = ThreeWay(local, baseline, remote)

\* A recorded present baseline is a content both sides have had: execute only
\* records a baseline once the replica and the graph have agreed on it.
BaselineWasShared ==
  IsPresent(baseline) => baseline.content \in published \cap held

\* A reconciliation never replaces or removes a local content that is not in
\* the remote history: no user edit exists only in the overwritten file.
NoUnpublishedOverwrite ==
  [][ Sync /\ IsPresent(local) /\ local' # local
        => local.content \in published ]_vars

\* A reconciliation never supersedes a remote content this replica has not
\* held: nobody else's edit is overwritten unseen.
NoUnseenSupersede ==
  [][ Sync /\ IsPresent(remote) /\ remote' # remote
        => remote.content \in held ]_vars

\* A reconciliation that does not end in a conflict leaves the two sides in
\* agreement, and repeating it changes neither of them.
SyncSettles ==
  [][ Sync /\ Plan.op # "Conflict"
        => /\ Value(local') = Value(remote')
           /\ Side(PlanResource(local', baseline', remote')) = "same" ]_vars

============================================================================
