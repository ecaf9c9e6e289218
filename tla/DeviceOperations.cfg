CONSTANTS
  Sectors <- MCSectors
  Settings <- MCSettings
  Options <- MCOptions
  Modes = {TRUE, FALSE}
  MaxFaults = 1
SPECIFICATION FairSpec
INVARIANTS
  TypeOK
  SuccessMeansAchieved
PROPERTIES
  HeldWhileWritten
  CountsEachDeviceOnce
  OperationEnds
