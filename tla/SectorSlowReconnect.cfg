CONSTANTS
  NumAttempts = 2
  MaxTries = 2
  MaxReconnects = 1
  MaxOutages = 1
  MaxMessages = 0
  Commands = {"CONFIGURE", "CONNECT", "START", "STOPROIB", "STOP", "ENABLE_VMM"}
  Outcomes = {0, 1, 2, 3}
  SlowReconnect = TRUE
SPECIFICATION FairSpec
INVARIANT NoUnrepairedSuccess
