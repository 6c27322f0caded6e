SPECIFICATION SessionSpec
CONSTANTS
  N = 4
  Holders = {h1, h2}
  NoSession = NoSession
  MaxSessions = 1
  MaxPending = 2
  Nested = 1
SYMMETRY Symmetry
INVARIANTS LruAgrees SizeBound
PROPERTIES LockedStays
CHECK_DEADLOCK FALSE
