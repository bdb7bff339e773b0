SPECIFICATION WatchSpec
CONSTANTS
  Threshold = 1
  HalfOpenMaxCalls = 1
  Timeout = 0
  N = 2
  Refreshable = {}
  Reloadable = {}
  Perishable = {}
  Requests = {f1, f2}
  Chats = {}
  MaxTokens = 1
  None = None
INVARIANT
  HealthyAccountIsFound
