SPECIFICATION Spec
CONSTANTS
  MaxPkts = 3
  PtPModes = {FALSE}
  Udp = TRUE
  EofPhases = {"settled"}
  Stray = TRUE
  AtomicReset = TRUE
INVARIANTS
  SuccessMeansComplete
CHECK_DEADLOCK FALSE
