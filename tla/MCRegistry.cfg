SPECIFICATION Spec
CONSTANTS
  a = a
  b = b
  c = c
  n1 = n1
  n2 = n2
  n3 = n3
  n4 = n4
  NULL = NULL
  Clients = {a, b}
  Nodes = {n1, n2, n3, n4}
  MqMaxMsg = 2
  Visits = 2
  Starts = 1
  MayQuit = FALSE
  MayDie = {a}
  Patient = TRUE
SYMMETRY MCSymmetry
INVARIANTS TypeOK FoundUnlessReused QuitsOnlyOnQ
CHECK_DEADLOCK FALSE
