SPECIFICATION Spec
CONSTANTS
  Clients = {c1, c2}
  Scopes = {s1}
  SnapshotThreshold = 1
  MaxCommits = 2
  MaxBatch = 1
  MaxFaults = 0
INVARIANT NoCommitSkipped
