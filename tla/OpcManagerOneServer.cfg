CONSTANTS
  p1 = p1
  p2 = p2
  n1 = n1
  n2 = n2
  Port = {p1}
  Name = {n1, n2}
  User = {u1}
  NoHandle = NoHandle
  NoPort = NoPort
  EarlyStart = TRUE
  DeviceAt <- OneServer
SPECIFICATION FairSpec
INVARIANTS
  TypeOK
  BadDevicesHaveClients
PROPERTIES
  ClearReturns
  OutageRecorded
  ReconnectEnds
