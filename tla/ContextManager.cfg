SPECIFICATION ContextSpec
CONSTANTS
  AgentOwners = {a1, a2}
  TaskOwners = {t1}
  Names = {n1}
  PriorityLow = 1
  PriorityNormal = 2
  PriorityCritical = 4
  MaxSize = 3
  Readers = {r1}
  MaxAccess = 1
  Nobody = Nobody
INVARIANT
  ContextInv
PROPERTY
  EvictsLeast
