SPECIFICATION FairSpec
CONSTANTS
  MaxBytes = 8
  MaxPiece = 3
  Cases = {}
INVARIANTS
  ReaderOnRecord
PROPERTIES
  KeepsOrder
  ShortReadMeansStop
  SleeperWakes
  PacketTaken
  StopEnds
CHECK_DEADLOCK FALSE
