CONSTANTS
  NumAttempts = 1
  MaxTries = 1
  MaxReconnects = 1
  MaxOutages = 2
  MaxMessages = 2
  Commands = {"CONFIGURE", "CONNECT", "START", "STOPROIB", "STOP"}
  Outcomes = {0}
  SlowReconnect = TRUE
SPECIFICATION FairSpec
INVARIANT MonitoringOnlyInRun
PROPERTY RecoveryEnds
