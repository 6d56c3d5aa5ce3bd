SPECIFICATION Spec
CONSTANTS
  t1 = t1
  t2 = t2
  t3 = t3
  r1 = r1
  r2 = r2
  r3 = r3
  r4 = r4
  None = None
  Threads = {t1, t2, t3}
  Requests = {r1, r2}
  Workers = {w1}
  Program <- AppProgram
  Collect <- AppCollect
  SyncThreads = {}
  Priority <- OnePriority
  Outcome <- AllOk
  EntrySize = 352
  ShmSize = 704
  ShmMaxSize = 1408
  MqMaxMsg = 1
  FdLimit = 9
INVARIANT NoStalePointer
CHECK_DEADLOCK FALSE
