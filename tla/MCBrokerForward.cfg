CONSTANTS
  DeviceIds = {"d", "d1", "d10"}
  EmptyId = ""
  Extends <- MCExtends
  SpellsResponse <- MCSpells
  Conns = {c1, c2, c3}
  NoConn = NoConn
  NoDevice = NoDevice
  TopicNames <- Telemetries
  CommandTopics = {}
  TopicPatterns <- Devices10OrAll
  MaxFrames = 1
  KafkaReliable = TRUE
SPECIFICATION Spec
INVARIANTS ForwardRelated NoStaleOnline
PROPERTY NoWriteAfterEnd
SYMMETRY Symmetry
