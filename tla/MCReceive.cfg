SPECIFICATION FairSpec
CONSTANTS
  PER_SEC = 4
  TIMEOUT = 1
  INT_MIN <- MCIntMin
  MqMaxMsg = 2
  Requests = 7
  Resizes = 1
INVARIANTS TakenAsSent
PROPERTIES AllReceived
