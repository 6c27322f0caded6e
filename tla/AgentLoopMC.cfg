SPECIFICATION Spec
CONSTANTS
  Runs = {r1, r2}
  NoRun = NoRun
  MaxIterations = 2
  MaxRetries = 1
  MaxTokens = 0
  MaxChunks = 1
  Streaming = TRUE
  MaxCost = 1
  MaxTools = 2
  Overlap = TRUE
CHECK_DEADLOCK FALSE
INVARIANTS
  OneWorking IterationLedger AbortBounds SoundCall
PROPERTIES
  DisposedUntilReopened Streams RunsEnd
