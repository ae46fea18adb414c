SPECIFICATION FairSpec
CONSTANTS
  MaxBytes = 8
  MaxPiece = 3
  Cases = {"fails"}
PROPERTIES
  PacketTaken
CHECK_DEADLOCK FALSE
