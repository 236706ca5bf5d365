SPECIFICATION Spec
CONSTANTS
  Clients = {c1, c2}
  Scopes = {s1}
  SnapshotThreshold = 9
  MaxCommits = 2
  MaxBatch = 1
  MaxFaults = 1
INVARIANT NoCommitSkipped
