SPECIFICATION FairSpec
CONSTANTS
  a = a
  b = b
  c = c
  n1 = n1
  n2 = n2
  n3 = n3
  n4 = n4
  NULL = NULL
  Clients = {a, b}
  Nodes = {n1, n2}
  MqMaxMsg = 1
  Visits = 1
  Starts = 2
  MayQuit = TRUE
  MayDie = {}
  Patient = TRUE
PROPERTIES WaitingIsServed ExitEnds
CHECK_DEADLOCK FALSE
