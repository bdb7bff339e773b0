SPECIFICATION FairSpec
CONSTANTS
  Bytes <- MCBytes
  Marker <- MCMarker
  Note <- MCNote
  LongText = 4
  Shrinks <- MCShrinks
  Framing = 1
  Requests = {r1, r2, r3}
  MaxConcurrent = 2
  MinWait = 2
INVARIANT
  LimiterInv
PROPERTIES
  StartsSpaced
  CancelledReturns
  KeepsServing
