SPECIFICATION LiveSpec
CONSTANTS
  Streams = {{"video"}}
  MaxInput = 2
  MaxFrames = 1
  Cases = {"burst"}
PROPERTY StopEnds
CHECK_DEADLOCK FALSE
