SPECIFICATION Spec
CONSTANTS
  MaxPkts = 3
  MaxReqs = 2
  ReqPhases = {"settled"}
  ApiCalls = FALSE
  Overlap = TRUE
  AtomicReset = TRUE
INVARIANTS
  NoThreadLeftBehind
CHECK_DEADLOCK FALSE
