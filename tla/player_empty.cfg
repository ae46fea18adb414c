SPECIFICATION LiveSpec
CONSTANTS
  Streams = {{"video"}}
  MaxInput = 2
  MaxFrames = 1
  Cases = {"empty"}
INVARIANT NoWildRead
CHECK_DEADLOCK FALSE
