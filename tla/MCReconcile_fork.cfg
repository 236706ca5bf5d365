SPECIFICATION Spec
CONSTANTS
  Clients = {p1, p2, p3}
  Keys = {k1}
  Contents = {v1, v2}
  Hashing = {p1, p2, p3}
  Tombstones = {}
  MaxActs = 3
  MaxFaults = 0
SYMMETRY ClientSymmetry
CONSTRAINT TwoCalls
INVARIANT GenuineForks
