SPECIFICATION Spec
CONSTANTS
  Patterns <- MCOnePattern
  KeepAlive = 1
  SocketTimeout = 1
  Demanded <- MCDemandedSent
  MaxStream = 1
PROPERTY
  PongGivenTime
