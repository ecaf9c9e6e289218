CONSTANTS
  NumAttempts = 3
  MaxTries = 3
  MaxReconnects = 1
  MaxOutages = 2
  MaxMessages = 0
  Commands = {"CONFIGURE", "CONNECT", "START", "STOPROIB", "STOP", "ENABLE_VMM"}
  Outcomes = {0, 1, 2, 3}
  SlowReconnect = FALSE
SPECIFICATION FairSpec
INVARIANTS
  TypeOK
  NoUnrepairedSuccess
PROPERTY RefinesRetriedOperation
