SPECIFICATION FairSpec
CONSTANTS
  r1 = r1  r2 = r2  r3 = r3  r4 = r4
  Requests <- MCRequests
  Abortable <- MCAbortable
INVARIANTS ListenersAreWaiters
PROPERTIES WaitersSettle Refinement
