SPECIFICATION Spec
CONSTANTS
  MaxPkts = 3
  PtPModes = {FALSE}
  Udp = TRUE
  EofPhases = {"settled"}
  Stray = FALSE
  AtomicReset = TRUE
INVARIANTS
  NoThreadLeftBehind
CHECK_DEADLOCK FALSE
