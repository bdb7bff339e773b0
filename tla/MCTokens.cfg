SPECIFICATION FairSpec
CONSTANTS
  a1 = a1
  a2 = a2
  t1 = t1
  t2 = t2
  t3 = t3
  Accounts = {a1, a2}
  Callers = {c1}
  TokensOf <- MCTokensOf
  MaxStores = 3
  MaxFaults = 1
  None = None
INVARIANTS
  StorageInv
  RefreshedOnce
PROPERTIES
  SaveIsSnapshot
  LoopHasEnd
CHECK_DEADLOCK FALSE
