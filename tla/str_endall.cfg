SPECIFICATION FairSpec
CONSTANTS
  MaxBytes = 8
  MaxPiece = 3
  Cases = {"endall"}
PROPERTIES
  StopEnds
CHECK_DEADLOCK FALSE
