SPECIFICATION FairSpec
CONSTANTS
  Base = 5
  Lengths = {6, 7, 25, 28}
  BufferSize = 15
  MaxFrames = 3
  MaxBytes = 8
INVARIANTS
  TypeOK
  HandledSent
  NothingSkipped
  ReportedHandled
PROPERTIES
  CutEnds
CHECK_DEADLOCK FALSE
