SPECIFICATION FairSpec
CONSTANTS
  t1 = t1
  t2 = t2
  t3 = t3
  r1 = r1
  r2 = r2
  r3 = r3
  r4 = r4
  None = None
  Threads = {t1, t2, t3}
  Requests = {r1, r2, r3}
  Workers = {w1, w2}
  Program <- MixedProgram
  Collect <- MixedCollect
  SyncThreads = {t3}
  Priority <- MixedPriorities
  Outcome <- MixedOutcomes
  EntrySize = 352
  ShmSize = 352
  ShmMaxSize = 352
  MqMaxMsg = 1
  FdLimit = 0
PROPERTIES AsyncReturns AllReturn ImplementsFairService
