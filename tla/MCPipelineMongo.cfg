SPECIFICATION Spec
CONSTANTS
  DeviceIds = {"d1"}
  EmptyId = ""
  Extends <- MCExtends
  SpellsResponse <- MCSpells
  TopicNames <- MCTopicNames
  NoOffset = NoOffset
  FaultKinds = {"mongo"}
  Stamps <- MCStamps
  Ttl = 2
  Window = 1
  Limit = 2
  SendUntil = 5
  MaxMessages = 2
  MaxFaults = 1
INVARIANT
  CommittedStored
