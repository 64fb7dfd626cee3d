CONSTANTS
  DeviceIds = {"d1"}
  EmptyId = ""
  Extends <- MCExtends
  SpellsResponse <- MCSpells
  Conns = {c1, c2}
  NoConn = NoConn
  NoDevice = NoDevice
  TopicNames <- RebootOnly
  CommandTopics = {}
  TopicPatterns <- Commands1
  MaxFrames = 1
  KafkaReliable = TRUE
SPECIFICATION Spec
INVARIANT ActiveRegistered
SYMMETRY Symmetry
