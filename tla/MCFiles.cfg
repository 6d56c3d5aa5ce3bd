SPECIFICATION FairSpec
CONSTANTS
  w1 = w1
  w2 = w2
  p = p
  NoFile = NoFile
  Stale <- MCStale
  BUFSIZ = 3
  Workers = {w1, w2}
  Requests = {1, 2, 3}
  PathOf <- Thrice
  Contents <- TwoContents
  Editable = {p}
  Unreadable = {2}
  FdLimit = 2
INVARIANTS  ContractUnedited
PROPERTIES EveryRequestAnswered
