CONSTANTS
  DeviceIds = {"d1", "d10", "d2"}
  EmptyId = ""
  Extends <- MCExtends
  SpellsResponse <- MCSpells
  TopicNames <- MCTopics
  TopicPatterns <- MCTopicPatterns
SPECIFICATION Spec
INVARIANTS TypeOK IndexAgree NoEmptyPattern SubscribersHoldPattern
PROPERTY ImplementsRelation
