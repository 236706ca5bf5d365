SPECIFICATION Spec
CONSTANTS
  Clients = {p1}
  Maintainers = {p1}
  Keys = {k1}
  Retention = 1
  Ahead <- InStep
  Snapshots = FALSE
  MaxWrites = 4
  MaxCommits = 5
INVARIANT NoResurrection
