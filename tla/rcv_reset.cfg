SPECIFICATION Spec
CONSTANTS
  MaxPkts = 3
  PtPModes = {FALSE}
  Udp = TRUE
  EofPhases = {"settled"}
  Stray = FALSE
  AtomicReset = FALSE
INVARIANTS
  ResetAlone
CHECK_DEADLOCK FALSE
