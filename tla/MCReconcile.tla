---------------------------- MODULE MCReconcile ----------------------------
(* Reconcile on small instances.                                           *)
EXTENDS Reconcile, TLC

Symmetry == Permutations(Contents) \cup Permutations(Keys)

\* Sound where all clients have the same kind of host.
ClientSymmetry == Permutations(Contents) \cup Permutations(Clients)

\* Bounds the search for a counterexample: no more than two calls at a time.
TwoCalls == Cardinality({p \in Clients : pc[p] # "idle"}) <= 2

============================================================================
