SPECIFICATION Spec
CONSTANTS
  Writes = {"w"}
  Updates = {"u1", "u2"}
  Deletes = {}
  Swaps = {}
  Sets = {}
  Sweeps = {}
  Ids = {"w"}
  Target <- MCTarget
  Keys = {"k"}
  KeyOf <- MCKeyOf
  Conns = {"a"}
  Conn <- OneConn
  PartialOk = FALSE
  MaxCalls = 3
  MaxRetries = 3
CHECK_DEADLOCK FALSE
INVARIANTS
  UpdateProtected
