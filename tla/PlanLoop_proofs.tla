-------------------------- MODULE PlanLoop_proofs --------------------------
(* Proofs of the properties of PlanLoop, for any set of contents.          *)
EXTENDS PlanLoop, Planner_proofs, TLAPS

---------------------------------------------------------------------------
(* The decision.                                                           *)

\* Which side each operation keeps.
LEMMA Sides ==
  /\ \A n \in {"Noop", "EstablishBaseline", "EstablishDeletedBaseline"} :
       Side(Op(n)) = "same"
  /\ \A n \in {"Upload", "PublishDelete"} : Side(Op(n)) = "local"
  /\ \A n \in {"Download", "ApplyDelete"} : Side(Op(n)) = "remote"
  /\ \A k : Side(Conflict(k)) = "conflict"
<1>1. \A n : Op(n).op = n /\ Conflict(n).op = "Conflict"
  BY OpNames
<1> QED BY <1>1 DEF Side

---------------------------------------------------------------------------
\* The planner agrees with the three-way merge on every input, whether or
\* not a run of the system produces it.
THEOREM PlannerIsThreeWayMerge ==
  ASSUME NEW V,
         NEW l \in ReplicaState(V),
         NEW b \in BaselineState(V) \cup {NoBaseline},
         NEW r \in RemoteResourceState(V)
  PROVE  Side(PlanResource(l, b, r)) = ThreeWay(l, b, r)
<1> USE Presence, Distinct, Sides
<1>1. CASE r = Forked
  BY <1>1 DEF PlanResource, ThreeWay
<1>2. CASE r = Missing
  BY <1>2 DEF PlanResource, ThreeWay, Value
<1>3. CASE r = Deleted
  <2>1. CASE IsPresent(l)
    BY <1>3, <2>1 DEF PlanResource, PlanAgainstDeleted, ThreeWay, Value
  <2>2. CASE ~IsPresent(l)
    BY <1>3, <2>2 DEF PlanResource, PlanAgainstDeleted, ThreeWay, Value
  <2> QED BY <2>1, <2>2
<1>4. CASE IsPresent(r)
  <2>1. CASE IsPresent(l)
    BY <1>4, <2>1 DEF PlanResource, PlanAgainstPresent, ThreeWay, Value
  <2>2. CASE ~IsPresent(l)
    BY <1>4, <2>2 DEF PlanResource, PlanAgainstPresent, ThreeWay, Value
  <2> QED BY <2>1, <2>2
<1> QED BY <1>1, <1>2, <1>3, <1>4

---------------------------------------------------------------------------
(* The invariants.  BaselineWasShared is inductive only together with the  *)
(* facts that the histories include the present, since Download, Upload    *)
(* and EstablishBaseline record the present content.                       *)

IndInv ==
  /\ TypeOK
  /\ BaselineWasShared
  /\ IsPresent(remote) => remote.content \in published
  /\ IsPresent(local) => local.content \in held

\* What a reconciliation can leave on either side and in the baseline.
LEMMA SyncOutcome ==
  ASSUME TypeOK, Sync
  PROVE  /\ local' \in {local, Missing} \/ (local' = remote /\ IsPresent(remote))
         /\ remote' \in {remote, Deleted} \/ (remote' = local /\ IsPresent(local))
         /\ \/ baseline' \in {baseline, Deleted}
            \/ IsPresent(local') /\ baseline' = local' /\ local' = remote'
<1> USE Presence, Distinct DEF TypeOK, Sync, Plan, LocalAfter, RemoteAfter, BaselineAfter
<1> USE DEF Op, Conflict
<1>1. CASE remote = Forked
  BY <1>1 DEF PlanResource
<1>2. CASE remote = Missing
  BY <1>2 DEF PlanResource
<1>3. CASE remote = Deleted
  BY <1>3 DEF PlanResource, PlanAgainstDeleted
<1>4. CASE IsPresent(remote)
  BY <1>4 DEF PlanResource, PlanAgainstPresent
<1> QED BY <1>1, <1>2, <1>3, <1>4

LEMMA InitIndInv == Init => IndInv
BY Presence DEF Init, IndInv, TypeOK, BaselineWasShared, ContentsOf,
   ReplicaState, BaselineState, RemoteResourceState

LEMMA StepIndInv == IndInv /\ [Next]_vars => IndInv'
<1> SUFFICES ASSUME IndInv, [Next]_vars PROVE IndInv'
  OBVIOUS
<1> USE Presence DEF IndInv, TypeOK, BaselineWasShared, ContentsOf,
        ReplicaState, BaselineState, RemoteResourceState
<1>1. ASSUME NEW s \in ReplicaState(Contents), Edit(s) PROVE IndInv'
  BY <1>1 DEF Edit
<1>2. ASSUME NEW s \in RemoteResourceState(Contents), Foreign(s) PROVE IndInv'
  BY <1>2 DEF Foreign
<1>3. CASE Sync
  <2>1. published' = published \cup ContentsOf(remote') /\ held' = held \cup ContentsOf(local')
    BY <1>3 DEF Sync
  <2> QED BY <1>3, <2>1, SyncOutcome
<1>4. CASE UNCHANGED vars
  BY <1>4 DEF vars
<1> QED BY <1>1, <1>2, <1>3, <1>4 DEF Next

\* Type correctness and the shared baseline hold in every run.
THEOREM Invariance == Spec => [](TypeOK /\ BaselineWasShared)
<1>1. IndInv => TypeOK /\ BaselineWasShared
  BY DEF IndInv
<1> QED BY InitIndInv, StepIndInv, <1>1, PTL DEF Spec

\* Type correctness by itself.
THEOREM TypeCorrect == Spec => []TypeOK
BY Invariance, PTL

\* In every state the planner's decision is that of the three-way merge.
THEOREM PlanCorrect == Spec => []PlanIsThreeWayMerge
<1>1. IndInv => PlanIsThreeWayMerge
  BY PlannerIsThreeWayMerge DEF IndInv, TypeOK, PlanIsThreeWayMerge, Plan
<1> QED BY InitIndInv, StepIndInv, <1>1, PTL DEF Spec

---------------------------------------------------------------------------
(* The action properties.                                                  *)

\* No reconciliation destroys a local content that was never published.
THEOREM NothingUnpublishedLost == Spec => NoUnpublishedOverwrite
<1>1. ASSUME IndInv, Sync, IsPresent(local), local' # local
      PROVE  local.content \in published
  <2> USE Presence, Distinct DEF IndInv, TypeOK, BaselineWasShared, Sync, Plan, LocalAfter
  <2> USE DEF Op, Conflict
  <2>1. CASE remote = Forked \/ remote = Missing
    BY <1>1, <2>1 DEF PlanResource
  <2>2. CASE remote = Deleted
    BY <1>1, <2>2 DEF PlanResource, PlanAgainstDeleted
  <2>3. CASE IsPresent(remote)
    BY <1>1, <2>3 DEF PlanResource, PlanAgainstPresent
  <2> QED BY <1>1, <2>1, <2>2, <2>3
<1>2. IndInv /\ [Next]_vars =>
        [Sync /\ IsPresent(local) /\ local' # local => local.content \in published]_vars
  BY <1>1
<1> QED BY InitIndInv, StepIndInv, <1>2, PTL DEF Spec, NoUnpublishedOverwrite

\* No reconciliation supersedes a remote content this replica never held.
THEOREM NothingUnseenSuperseded == Spec => NoUnseenSupersede
<1>1. ASSUME IndInv, Sync, IsPresent(remote), remote' # remote
      PROVE  remote.content \in held
  BY <1>1, Presence, Distinct DEF IndInv, TypeOK, BaselineWasShared, Sync, Plan, RemoteAfter,
     Op, Conflict, PlanResource, PlanAgainstPresent
<1>2. IndInv /\ [Next]_vars =>
        [Sync /\ IsPresent(remote) /\ remote' # remote => remote.content \in held]_vars
  BY <1>1
<1> QED BY InitIndInv, StepIndInv, <1>2, PTL DEF Spec, NoUnseenSupersede

\* A reconciliation without a conflict makes the sides agree, for good.
THEOREM Settling == Spec => SyncSettles
<1>1. ASSUME IndInv, IndInv', Sync, Plan.op # "Conflict"
      PROVE  /\ Value(local') = Value(remote')
             /\ Side(PlanResource(local', baseline', remote')) = "same"
  <2>1. Value(local') = Value(remote') /\ remote' # Forked
    <3> USE Presence, Distinct DEF IndInv, TypeOK, Sync, LocalAfter, RemoteAfter, Value
    <3> USE DEF Op, Conflict
    <3>1. CASE remote = Forked \/ remote = Missing
      BY <1>1, <3>1 DEF Plan, PlanResource
    <3>2. CASE remote = Deleted
      BY <1>1, <3>2 DEF Plan, PlanResource, PlanAgainstDeleted
    <3>3. CASE IsPresent(remote)
      BY <1>1, <3>3 DEF Plan, PlanResource, PlanAgainstPresent
    <3> QED BY <1>1, <3>1, <3>2, <3>3
  <2>2. ThreeWay(local', baseline', remote') = "same"
    BY <2>1 DEF ThreeWay
  <2>3. Side(PlanResource(local', baseline', remote')) = ThreeWay(local', baseline', remote')
    BY <1>1, PlannerIsThreeWayMerge DEF IndInv, TypeOK
  <2> QED BY <2>1, <2>2, <2>3
<1>2. IndInv /\ IndInv' /\ [Next]_vars =>
        [Sync /\ Plan.op # "Conflict"
           => /\ Value(local') = Value(remote')
              /\ Side(PlanResource(local', baseline', remote')) = "same"]_vars
  BY <1>1
<1> QED BY InitIndInv, StepIndInv, <1>2, PTL DEF Spec, SyncSettles

============================================================================
