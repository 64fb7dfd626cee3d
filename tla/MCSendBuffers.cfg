SPECIFICATION FairSpec
CONSTANTS
  c1 = c1
  c2 = c2
  c3 = c3
  Conns = {c1, c2, c3}
  Commands = Commands
  NoConn = NoConn
  Subscribers <- MCSubscribers
  Senders = {c1, c2}
  Readers = {c1, c2}
  High = 2
  Low = 1
  Capacity = 1
INVARIANTS
  TypeOK
  BufferBounded
PROPERTIES
  PublisherSurvives
  WritersContinue
