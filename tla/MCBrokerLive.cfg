CONSTANTS
  DeviceIds = {"", "d1"}
  EmptyId = ""
  Extends <- MCExtends
  SpellsResponse <- MCSpells
  Conns = {c1, c2}
  NoConn = NoConn
  NoDevice = NoDevice
  TopicNames <- RebootOnly
  CommandTopics <- RebootOnly
  TopicPatterns <- Commands1
  MaxFrames = 2
  KafkaReliable = FALSE
SPECIFICATION FairSpec
INVARIANTS TypeOK RegistryLive NoOrphanSubscription
PROPERTIES ImplementsSubscriptions Released HandshakeEnds
