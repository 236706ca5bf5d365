------------------------------ MODULE Planner ------------------------------
(***************************************************************************)
(* The pure planner of src/src/core.rs: what one reconciliation does with  *)
(* one resource, given what the host lists, the last state this client     *)
(* acknowledged, and what the heads of the commit graph materialise to.    *)
(*                                                                         *)
(* A state is the record Present(v), where v stands for a content id, or   *)
(* one of the constants below.  Sizes and version tokens do not take part  *)
(* in the decision and are left out; the commit heads an operation carries *)
(* are those of the state it was planned from (module Reconcile).          *)
(***************************************************************************)

Present(v) == [state |-> "Present", content |-> v]

Missing    == [state |-> "Missing"]
Deleted    == [state |-> "Deleted"]
Forked     == [state |-> "Forked"]

\* No baseline was ever recorded: Option::None.
NoBaseline == [state |-> "None"]

PresentStates(V) == {Present(v) : v \in V}

ReplicaState(V)        == PresentStates(V) \cup {Missing, Deleted}
BaselineState(V)       == PresentStates(V) \cup {Deleted}
RemoteResourceState(V) == PresentStates(V) \cup {Missing, Deleted, Forked}

IsPresent(s) == s.state = "Present"

Op(name)       == [op |-> name, kind |-> "-"]
Conflict(kind) == [op |-> "Conflict", kind |-> kind]

ConflictKind == {"InitialDivergence", "ContentVsContent", "DeleteVsModify",
                 "ModifyVsDelete", "RemoteFork"}

PlanOperation ==
  {Op(n) : n \in {"Noop", "EstablishBaseline", "EstablishDeletedBaseline",
                  "Upload", "Download", "PublishDelete", "ApplyDelete"}}
    \cup {Conflict(k) : k \in ConflictKind}

---------------------------------------------------------------------------
(* The match of plan_resource, grouped by what the remote is.              *)

\* The remote graph has content.
PlanAgainstPresent(local, baseline, remote) ==
  IF local = remote THEN Op("EstablishBaseline")
  ELSE IF IsPresent(local)
       THEN CASE baseline = NoBaseline -> Conflict("InitialDivergence")
              [] baseline = local      -> Op("Download")
              [] baseline = remote     -> Op("Upload")
              [] OTHER                 -> Conflict("ContentVsContent")
       ELSE CASE ~IsPresent(baseline)  -> Op("Download")
              [] baseline = remote     -> Op("PublishDelete")
              [] OTHER                 -> Conflict("DeleteVsModify")

\* Faulty: deletes a local resource that has changed since the baseline.
DeleteUnguarded(local, baseline) ==
  IF ~IsPresent(local) THEN Op("EstablishDeletedBaseline")
  ELSE IF baseline = Deleted THEN Op("Upload") ELSE Op("ApplyDelete")

\* Every head of the remote graph is a deletion.
PlanAgainstDeleted(local, baseline) ==
  IF ~IsPresent(local) THEN Op("EstablishDeletedBaseline")
  ELSE CASE baseline = local   -> Op("ApplyDelete")
         [] baseline = Deleted -> Op("Upload")
         [] OTHER              -> Conflict("ModifyVsDelete")

PlanResource(local, baseline, remote) ==
  CASE remote = Forked    -> Conflict("RemoteFork")
    [] remote = Missing   -> Op(IF IsPresent(local) THEN "Upload" ELSE "Noop")
    [] remote = Deleted   -> PlanAgainstDeleted(local, baseline)
    [] IsPresent(remote)  -> PlanAgainstPresent(local, baseline, remote)

---------------------------------------------------------------------------
(* What carrying out a planned operation leaves behind when every call it  *)
(* makes succeeds and nobody interferes (SyncRuntime::execute).            *)

\* Faulty: carries out a conflict as a download.
ConflictDownloads(op, local, remote) ==
  CASE op \in {Op("Download"), Conflict("ContentVsContent")} -> remote
    [] op = Op("ApplyDelete")                               -> Missing
    [] OTHER                                                -> local

\* Faulty: forgets to delete the local resource.
DeleteForgotten(op, local, remote) == IF op = Op("Download") THEN remote ELSE local

LocalAfter(op, local, remote) ==
  CASE op = Op("Download")    -> remote
    [] op = Op("ApplyDelete") -> Missing
    [] OTHER                  -> local

\* Faulty: carries out a conflict as an upload.
ConflictUploads(op, local, remote) ==
  CASE op \in {Op("Upload"), Conflict("ContentVsContent")} -> local
    [] op = Op("PublishDelete")                           -> Deleted
    [] OTHER                                              -> remote

RemoteAfter(op, local, remote) ==
  CASE op = Op("Upload")        -> local
    [] op = Op("PublishDelete") -> Deleted
    [] OTHER                    -> remote

\* Faulty: records what was listed where there is nothing to list.
BaselineListed(op, local, baseline, remote) ==
  CASE op = Op("Download")                      -> remote
    [] op.op = "Noop" \/ op.op = "Conflict"     -> baseline
    [] op \in {Op("PublishDelete"), Op("ApplyDelete")} -> Deleted
    [] OTHER                                    -> local

\* Faulty: takes a conflict as acknowledged.
BaselineOfConflict(op, local, baseline, remote) ==
  CASE op = Conflict("InitialDivergence")                             -> local
    [] op \in {Op("EstablishBaseline"), Op("Upload")}                 -> local
    [] op = Op("Download")                                            -> remote
    [] op \in {Op("EstablishDeletedBaseline"), Op("PublishDelete"),
               Op("ApplyDelete")}                                     -> Deleted
    [] OTHER                                                          -> baseline

BaselineAfter(op, local, baseline, remote) ==
  CASE op \in {Op("EstablishBaseline"), Op("Upload")}                 -> local
    [] op = Op("Download")                                            -> remote
    [] op \in {Op("EstablishDeletedBaseline"), Op("PublishDelete"),
               Op("ApplyDelete")}                                     -> Deleted
    [] OTHER                                                          -> baseline

============================================================================
