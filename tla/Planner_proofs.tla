--------------------------- MODULE Planner_proofs --------------------------
(* What the provers need to know of the states and operations of Planner.  *)
EXTENDS Planner, TLAPS

\* The state tag tells the states apart.
LEMMA StateTags ==
  /\ Missing.state = "Missing" /\ Deleted.state = "Deleted"
  /\ Forked.state = "Forked"   /\ NoBaseline.state = "None"
  /\ \A v : Present(v).state = "Present" /\ Present(v).content = v
BY DEF Missing, Deleted, Forked, NoBaseline, Present

\* Which states are present.
LEMMA Presence ==
  ASSUME NEW V
  PROVE  /\ ~IsPresent(Missing) /\ ~IsPresent(Deleted)
         /\ ~IsPresent(Forked)  /\ ~IsPresent(NoBaseline)
         /\ \A s \in PresentStates(V) : IsPresent(s) /\ s.content \in V
         /\ \A s \in ReplicaState(V) : ~IsPresent(s) => s \in {Missing, Deleted}
         /\ \A s \in BaselineState(V) \cup {NoBaseline} :
              ~IsPresent(s) => s \in {Deleted, NoBaseline}
         /\ \A s \in RemoteResourceState(V) :
              ~IsPresent(s) => s \in {Missing, Deleted, Forked}
BY StateTags DEF IsPresent, PresentStates, ReplicaState, BaselineState, RemoteResourceState

\* The four states that are not present differ from each other.
LEMMA Distinct ==
  /\ Missing # Deleted /\ Missing # Forked /\ Missing # NoBaseline
  /\ Deleted # Forked  /\ Deleted # NoBaseline /\ Forked # NoBaseline
BY StateTags

\* The name of an operation.
LEMMA OpNames ==
  ASSUME NEW n PROVE Op(n).op = n /\ Conflict(n).op = "Conflict"
BY DEF Op, Conflict

\* Operations of different names differ, and none is a conflict.
LEMMA OpsDiffer ==
  /\ \A m, n : Op(m) = Op(n) => m = n
  /\ \A n, k : n # "Conflict" => Op(n) # Conflict(k)
BY OpNames

\* What the planner decides, and when.
LEMMA PlanFacts ==
  ASSUME NEW V,
         NEW l \in ReplicaState(V),
         NEW b \in BaselineState(V) \cup {NoBaseline},
         NEW r \in RemoteResourceState(V)
  PROVE  LET op == PlanResource(l, b, r)
         IN  /\ op \in PlanOperation
             /\ op.op = "Conflict" => op.kind \in ConflictKind
             /\ op = Op("Upload") => r \in {Missing, Deleted} \/ (IsPresent(r) /\ b = r)
             /\ op = Op("PublishDelete") => IsPresent(r) /\ b = r
             /\ op = Op("Download") => IsPresent(r) /\ (IsPresent(l) => b = l)
             /\ op = Op("ApplyDelete") => r = Deleted /\ IsPresent(l) /\ b = l
             /\ op = Op("EstablishBaseline") => IsPresent(r) /\ l = r
             /\ op = Op("EstablishDeletedBaseline") => r = Deleted
<1> USE Presence, Distinct
<1> USE DEF Op, Conflict, PlanOperation, ConflictKind
<1>1. CASE r = Forked
  BY <1>1 DEF PlanResource
<1>2. CASE r = Missing
  BY <1>2 DEF PlanResource
<1>3. CASE r = Deleted
  BY <1>3 DEF PlanResource, PlanAgainstDeleted
<1>4. CASE IsPresent(r)
  BY <1>4 DEF PlanResource, PlanAgainstPresent
<1> QED BY <1>1, <1>2, <1>3, <1>4

\* The baseline after an operation that changes the replica or records what
\* both sides have.
LEMMA BaselineFacts ==
  ASSUME NEW l, NEW b, NEW r
  PROVE  /\ BaselineAfter(Op("Download"), l, b, r) = r
         /\ BaselineAfter(Op("ApplyDelete"), l, b, r) = Deleted
         /\ BaselineAfter(Op("EstablishBaseline"), l, b, r) = l
         /\ BaselineAfter(Op("EstablishDeletedBaseline"), l, b, r) = Deleted
         /\ LocalAfter(Op("Download"), l, r) = r
         /\ LocalAfter(Op("ApplyDelete"), l, r) = Missing
BY OpsDiffer DEF BaselineAfter, LocalAfter

============================================================================
