SPECIFICATION FairManagerSpec
CONSTANTS
  h = h
  n1 = n1
  n2 = n2
  a1 = a1
  VIP = {}
  High = {h}
  Normal = {n1}
  Low = {}
  Unset = {n2}
  Workers = {w1, w2}
  MaxQueueLength = 2
  MaxConcurrency = 1
  None = None
  Accounts = {a1}
  AccountOf <- MCAccountOf
  Capacity = 1
  UserRPM = 2
  AccountRPM = 1
  QueueThreshold = 0
  Threshold = 1
  HalfOpenMaxCalls = 1
  Timeout = 0
INVARIANTS
  SchedInv
  RateInv
PROPERTIES
  OvertakenOnlyInHand
  StoppedStartsNothing
  StopEnds
  EveryRequestProcessed
CHECK_DEADLOCK FALSE
