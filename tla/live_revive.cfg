SPECIFICATION FairSpec
CONSTANTS
  Ids = {1}
  MaxQueue = 3
  Cases = {}
PROPERTY QuietEnds
CHECK_DEADLOCK FALSE
