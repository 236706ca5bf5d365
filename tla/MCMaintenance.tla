--------------------------- MODULE MCMaintenance ---------------------------
(* Maintenance on small instances, with clients that are interchangeable    *)
(* where all of them maintain.                                              *)
EXTENDS Maintenance, TLC

\* Clocks in step.
InStep == [p \in Clients |-> 0]

\* The maintainers' clocks are ahead by more than the time between two commits.
MaintainersAhead == [p \in Clients |-> IF p \in Maintainers THEN 3 ELSE 0]

Symmetry == Permutations(Clients)

============================================================================
