SPECIFICATION BreakerSpec
CONSTANTS
  c1 = c1  c2 = c2  c3 = c3  c4 = c4
  Calls = {c1, c2, c3, c4}
  FailureThreshold = 2
  External = TRUE
  MaxFailures = 4
  NoCall = NoCall
INVARIANTS TripsExactly SlotIsLive OneProbePerPeriod
