SPECIFICATION Spec
CONSTANTS
  Scopes = {s, b}
  Ids = {i1, i2, i3}
  Keys = {k}
  MaxWrites = 4
  MaxBatch = 2
SYMMETRY Interchangeable
INVARIANTS
  Rebuildable
  BranchesReadWhole
  PagesFollowOn
CHECK_DEADLOCK FALSE
