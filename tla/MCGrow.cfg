SPECIFICATION FairSpec
CONSTANTS
  t1 = t1
  t2 = t2
  t3 = t3
  r1 = r1
  r2 = r2
  r3 = r3
  r4 = r4
  None = None
  Threads = {t1}
  Requests = {r1, r2, r3, r4}
  Workers = {w1, w2}
  Program <- BatchProgram
  Collect <- BatchProgram
  SyncThreads = {}
  Priority <- OnePriority
  Outcome <- AllOk
  EntrySize = 352
  ShmSize = 704
  ShmMaxSize = 2112
  MqMaxMsg = 1
  FdLimit = 9
INVARIANTS TypeOK ServedWithinMapping  ProgramOrder
PROPERTIES AllReturn SharedIfRegisteredFirst
