SPECIFICATION Spec
CONSTANTS
  MaxPkts = 3
  MaxReqs = 2
  ReqPhases = {"settled"}
  ApiCalls = FALSE
  Overlap = TRUE
  AtomicReset = TRUE
INVARIANTS
  EnabledHasSocket
CHECK_DEADLOCK FALSE
