SPECIFICATION PoolSpec
CONSTANTS
  Calls = {c1, c2, c3, c4, c5}
  MaxCreated = 6
  MinSize = 1
  MaxSize = 2
  MaxPending = 2
  Ageing = TRUE
  Targets = {0, 2}
SYMMETRY Symmetry
CHECK_DEADLOCK FALSE
INVARIANTS
  ExclusiveAgent PoolBooks IdleTimed NothingLeft
