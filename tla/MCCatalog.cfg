SPECIFICATION Spec
CONSTANTS
  Clients = {c1, c2}
  Scopes = {s1, s2}
  SnapshotThreshold = 2
  MaxCommits = 3
  MaxBatch = 2
  MaxFaults = 0
SYMMETRY Symmetry
INVARIANTS TypeOK CursorSound SnapshotSound VisibleLoadable
PROPERTY LogRefined
