SPECIFICATION Spec
CONSTANTS
  Clients = {p1, p2}
  Maintainers = {p1, p2}
  Keys = {k1}
  Retention = 1
  Ahead <- InStep
  Snapshots = TRUE
  MaxWrites = 2
  MaxCommits = 3
SYMMETRY Symmetry
INVARIANTS TypeOK HeadsSurvive
PROPERTY CheckpointReached
