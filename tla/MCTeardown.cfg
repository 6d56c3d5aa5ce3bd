SPECIFICATION FairSpec
CHECK_DEADLOCK FALSE
CONSTANTS
  Requests = {r1, r2}
  Workers = {w1, w2}
  MqMaxMsg = 1
  Patient = TRUE
  None = None
INVARIANTS  SegmentUnused
PROPERTIES ExitReturns ThreadsEnd
