SPECIFICATION FairSpec
CONSTANTS
  Writes = {"w"}
  Updates = {"u1", "u2"}
  Deletes = {"d"}
  Swaps = {"s1", "s2"}
  Sets = {"t"}
  Sweeps = {"m"}
  Ids = {"w", "s1", "s2", "t"}
  Target <- MCTarget
  Keys = {"k"}
  KeyOf <- MCKeyOf
  Conns = {"a", "b"}
  Conn <- TwoConns
  PartialOk = FALSE
  MaxCalls = 3
  MaxRetries = 2
CHECK_DEADLOCK FALSE
INVARIANTS
  NoLostUpdate OnePerVersion IndexComplete
PROPERTIES CallsEnd RepairSpares
