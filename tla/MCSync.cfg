SPECIFICATION Spec
CONSTANTS
  t1 = t1
  t2 = t2
  t3 = t3
  r1 = r1
  r2 = r2
  r3 = r3
  r4 = r4
  None = None
  Threads = {t1, t2, t3}
  Requests = {r1, r2, r3, r4}
  Workers = {w1, w2}
  Program <- SyncProgram
  Collect <- SyncProgram
  SyncThreads = {t1, t2, t3}
  Priority <- MixedPriorities
  Outcome <- MixedOutcomes
  EntrySize = 352
  ShmSize = 704
  ShmMaxSize = 704
  MqMaxMsg = 1
  FdLimit = 0
SYMMETRY WorkerSymmetry
INVARIANTS EntryExclusive OwnResult Conserved 
