SPECIFICATION Spec
CONSTANTS
  MaxPkts = 3
  PtPModes = {FALSE}
  Udp = TRUE
  EofPhases = {"settled", "before"}
  Stray = FALSE
  AtomicReset = TRUE
INVARIANTS
  SuccessMeansComplete
CHECK_DEADLOCK FALSE
