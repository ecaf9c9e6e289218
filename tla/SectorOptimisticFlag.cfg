CONSTANTS
  NumAttempts = 1
  MaxTries = 1
  MaxReconnects = 1
  MaxOutages = 1
  MaxMessages = 1
  Commands = {"CONFIGURE", "CONNECT", "START", "STOPROIB", "STOP", "ENABLE_VMM"}
  Outcomes = {0, 1, 2, 3}
  SlowReconnect = FALSE
SPECIFICATION FairSpec
INVARIANT RecoverTellsTruth
