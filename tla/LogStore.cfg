SPECIFICATION FairSpec
CONSTANTS
  Records = {q1, q2, q3, q4}
  BufSize = 2
  BatchSize = 2
  MaxClears = 1
INVARIANT
  LogInv
PROPERTIES
  ImplementsSink
  EventuallySettled
  CloseEnds
CHECK_DEADLOCK FALSE
