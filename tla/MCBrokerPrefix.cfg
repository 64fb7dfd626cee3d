CONSTANTS
  DeviceIds = {"d1", "d10"}
  EmptyId = ""
  Extends <- MCExtends
  SpellsResponse <- MCSpells
  Conns = {c1, c2}
  NoConn = NoConn
  NoDevice = NoDevice
  TopicNames <- TelemetryOnly
  CommandTopics = {}
  TopicPatterns <- Devices10
  MaxFrames = 1
  KafkaReliable = TRUE
SPECIFICATION Spec
INVARIANT OwnTopicsOnly
SYMMETRY Symmetry
