SPECIFICATION FairSpec
CONSTANTS
  MaxSharings = 2
  MaxLeaves = 1
  MaxEvents = 2
  Cases = {}
INVARIANTS
  NoFrameAfterEnd
  NoDeletedBuffer
PROPERTIES
  QuietStopEnds
CHECK_DEADLOCK FALSE
