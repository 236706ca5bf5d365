---------------------------- MODULE MCPackStore ----------------------------
(* PackStore on small instances: contents that share a chunk, and one that  *)
(* repeats a chunk.                                                         *)
EXTENDS PackStore, TLC

CONSTANTS a, b, c, d

FourChunks == {a, b, c, d}

Overlapping == {<<a, b>>, <<b, c, b, d>>}

Symmetry == Permutations(Clients)

============================================================================
