SPECIFICATION LiveSpec
CONSTANTS
  Streams = {{"audio"}, {"video"}}
  MaxInput = 2
  MaxFrames = 1
  Cases = {}
INVARIANTS
  NothingLeft
  HeldBack
PROPERTIES
  StopEnds
  KeepsPlaying
CHECK_DEADLOCK FALSE
