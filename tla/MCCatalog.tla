----------------------------- MODULE MCCatalog -----------------------------
(* Catalog on small instances, with interchangeable clients.                *)
EXTENDS Catalog, TLC

Symmetry == Permutations(Clients)

============================================================================
