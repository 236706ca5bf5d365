SPECIFICATION Spec
CONSTANTS
  Clients = {p1, p2, p3}
  Keys = {k1}
  Contents = {v1}
  Hashing = {p1, p2, p3}
  Tombstones = {}
  MaxActs = 2
  MaxFaults = 0
SYMMETRY ClientSymmetry
INVARIANT NoParentPassed
