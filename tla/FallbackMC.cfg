SPECIFICATION FallbackFairSpec
CONSTANTS ChatCalls = {c1, c2, c3}
          Adapters = 3
          MaxFailures = 2
          Streamless = {2}
INVARIANTS SwitchPaid
PROPERTIES CallsSettle
CHECK_DEADLOCK FALSE
