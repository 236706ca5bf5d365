SPECIFICATION FairSpec
CONSTANTS
  Clients = {c1, c2}
  Scopes = {s1}
  SnapshotThreshold = 1
  MaxCommits = 2
  MaxBatch = 2
  MaxFaults = 1
PROPERTIES LogRefined EveryCommitArrives
