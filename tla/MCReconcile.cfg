SPECIFICATION Spec
CONSTANTS
  Clients = {p1, p2}
  Keys = {k1, k2}
  Contents = {v1, v2}
  Hashing = {p1}
  Tombstones = {p1}
  MaxActs = 3
  MaxFaults = 0
SYMMETRY Symmetry
INVARIANTS TypeOK BaselinesShared
PROPERTIES NoUnpublishedOverwrite NoUnseenSupersede RequestSettles LocalPreserved
