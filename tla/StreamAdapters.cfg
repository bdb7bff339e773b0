SPECIFICATION Spec
CONSTANTS
  Tools = {0, 1}
  Malformed = {1}
  Reasons = {"stop", "length", "tool_calls"}
  MaxEvents = 4
INVARIANTS
  Framed
  NothingLost
  EndingReported
  SameReplyEitherWay
CHECK_DEADLOCK FALSE
