SPECIFICATION FairSpec
CONSTANT Devices = {d1, d2}
INVARIANTS
  TypeOK
  OfflineUnlessReset
  UsersFirst
PROPERTIES
  ShutdownEnds
CHECK_DEADLOCK FALSE
