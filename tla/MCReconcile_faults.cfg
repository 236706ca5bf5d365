SPECIFICATION FairSpec
CONSTANTS
  Clients = {p1, p2}
  Keys = {k1}
  Contents = {v1, v2}
  Hashing = {p1}
  Tombstones = {p1}
  MaxActs = 2
  MaxFaults = 1
INVARIANT BaselinesShared
PROPERTIES NoUnpublishedOverwrite NoUnseenSupersede Converges
