SPECIFICATION FairSpec
CONSTANTS
  Patterns <- MCOnePattern
  KeepAlive = 1
  SocketTimeout = 1
  Demanded <- MCDemandedSent
  MaxStream = 2
INVARIANTS
  TypeOK
  ConnectedAccepted
  PingOwn
  ConfirmedGranted
PROPERTIES
  DeadBrokerNoticed
  CallEnds
