SPECIFICATION FairSpec
CONSTANTS
  t1 = t1
  t2 = t2
  a1 = a1
  Tasks = {t1, t2}
  Priority <- MCPriority
  TypeOf <- MCTypeOf
  AgentKinds <- MCAgentKinds
  Workers = {w1, w2}
  QueueCap = 1
  MaxStarts = 2
  MaxWakeups = 1
  MaxSends = 2
  None = None
INVARIANT
  WorkflowInv
PROPERTIES
  HighestPriorityFirst
  StopEnds
  PendingIsTaken
CHECK_DEADLOCK FALSE
