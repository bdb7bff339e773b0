SPECIFICATION FairBreakerSpec
CONSTANTS
  Threshold = 2
  HalfOpenMaxCalls = 2
  Timeout = 1
  Calls = {c1, c2, c3}
  MaxFailures = 5
INVARIANT
  BreakerInv
PROPERTIES
  ReportsInARow
  Recovers
