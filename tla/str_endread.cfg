SPECIFICATION Spec
CONSTANTS
  MaxBytes = 8
  MaxPiece = 3
  Cases = {"endread"}
PROPERTIES
  KeepsOrder
CHECK_DEADLOCK FALSE
