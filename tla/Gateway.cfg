SPECIFICATION FairWatchSpec
CONSTANTS
  Threshold = 2
  HalfOpenMaxCalls = 1
  Timeout = 0
  N = 2
  Refreshable = {0}
  Reloadable = {0}
  Perishable = {0}
  Requests = {c1, c2}
  Chats = {c1}
  MaxTokens = 2
  None = None
INVARIANTS
  GatewayInv
  QuietCallFindsAccount
PROPERTIES
  NeverReusesRejected
  NeverExpired
  EveryRequestEnds
