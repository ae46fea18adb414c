SPECIFICATION FairSpec
CONSTANTS
  MaxPkts = 2
  MaxReqs = 3
  ReqPhases = {"settled"}
  ApiCalls = TRUE
  Overlap = FALSE
  AtomicReset = TRUE
INVARIANTS
  ClockMeansIdle
  Accounted
PROPERTIES
  EndWhenServed
  RequestServed
  SendEnds
CHECK_DEADLOCK FALSE
