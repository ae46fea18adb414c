SPECIFICATION FairSpec
CONSTANTS
  MaxSharings = 2
  MaxLeaves = 1
  MaxEvents = 2
  Cases = {}
PROPERTIES
  StopEnds
CHECK_DEADLOCK FALSE
