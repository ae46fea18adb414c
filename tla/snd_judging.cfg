SPECIFICATION Spec
CONSTANTS
  MaxPkts = 3
  MaxReqs = 2
  ReqPhases = {"settled", "judging"}
  ApiCalls = FALSE
  Overlap = FALSE
  AtomicReset = TRUE
PROPERTIES
  EndWhenServed
CHECK_DEADLOCK FALSE
