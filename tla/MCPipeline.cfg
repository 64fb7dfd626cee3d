SPECIFICATION FairSpec
CHECK_DEADLOCK FALSE
CONSTANTS
  DeviceIds = {"d1"}
  EmptyId = ""
  Extends <- MCExtends
  SpellsResponse <- MCSpells
  TopicNames <- MCTopicNames
  NoOffset = NoOffset
  FaultKinds <- AllFaults
  Stamps <- MCStamps
  Ttl = 2
  Window = 1
  Limit = 2
  SendUntil = 5
  MaxMessages = 2
  MaxFaults = 2
INVARIANTS
  TypeOK
  LossBounded
  CopiesBounded
  LatestNewest
  VisibleAnHour
PROPERTIES
  ReadingsStored
  Retained
