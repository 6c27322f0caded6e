SPECIFICATION Spec
CONSTANTS
  Calls = {c1, c2, c3, c4}
  Keys = {k1, k2}
  None = None
SYMMETRY Symmetry
INVARIANTS IndexTrue KeyKnown NoLostUpdate
CHECK_DEADLOCK FALSE
