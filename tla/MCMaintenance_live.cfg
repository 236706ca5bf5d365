SPECIFICATION FairSpec
CONSTANTS
  Clients = {p1, p2}
  Maintainers = {p1}
  Keys = {k1}
  Retention = 1
  Ahead <- MaintainersAhead
  Snapshots = FALSE
  MaxWrites = 3
  MaxCommits = 8
INVARIANTS HeadsSurvive NewcomersLoad
PROPERTIES CheckpointReached HistoryBounded
