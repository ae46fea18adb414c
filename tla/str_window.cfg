SPECIFICATION Spec
CONSTANTS
  MaxBytes = 8
  MaxPiece = 3
  Cases = {}
INVARIANTS
  NoReaderForgotten
CHECK_DEADLOCK FALSE
