SPECIFICATION LiveSpec
CONSTANTS
  Streams = {{"video"}}
  MaxInput = 2
  MaxFrames = 1
  Cases = {"pulse"}
PROPERTY KeepsPlaying
CHECK_DEADLOCK FALSE
