SPECIFICATION LiveSpec
CONSTANTS
  Streams = {{"video"}}
  MaxInput = 2
  MaxFrames = 1
  Cases = {"fails"}
PROPERTY StopEnds
CHECK_DEADLOCK FALSE
