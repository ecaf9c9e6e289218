CONSTANTS
  Conf <- MCConf
  MAX_ATTEMPTS = 2
  MaxThreads = 2
  Spots <- MCSpots
  MaxFaults = 3
SPECIFICATION FairSpec
INVARIANTS
  TypeOK
  DoneMeansConfigured
  PoolKeepsItsLimit
  FailuresHaveCauses
  SettingsSurviveTraining
PROPERTIES
  ConfigurationEnds
