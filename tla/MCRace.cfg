SPECIFICATION Spec
CONSTANTS
  t1 = t1
  t2 = t2
  t3 = t3
  r1 = r1
  r2 = r2
  r3 = r3
  r4 = r4
  None = None
  Threads = {t1, t2}
  Requests = {r1, r2, r3, r4}
  Workers = {w1}
  Program <- RaceProgram
  Collect <- RaceProgram
  SyncThreads = {}
  Priority <- MixedPriorities
  Outcome <- AllOk
  EntrySize = 352
  ShmSize = 704
  ShmMaxSize = 2112
  MqMaxMsg = 2
  FdLimit = 1
INVARIANTS Conserved CopyHarmless
PROPERTIES LostOnlyByCopy OnlyDeliveryFrees ImplementsService
CHECK_DEADLOCK FALSE
