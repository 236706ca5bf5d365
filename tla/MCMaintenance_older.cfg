SPECIFICATION Spec
CONSTANTS
  Clients = {p1, p2}
  Maintainers = {}
  Keys = {k1}
  Retention = 1
  Ahead <- InStep
  Snapshots = TRUE
  MaxWrites = 2
  MaxCommits = 2
INVARIANT HeadsFound
SYMMETRY Symmetry
