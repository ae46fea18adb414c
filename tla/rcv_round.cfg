SPECIFICATION Spec
CONSTANTS
  MaxPkts = 5
  PtPModes = {FALSE}
  Udp = TRUE
  EofPhases = {"settled"}
  Stray = FALSE
  AtomicReset = TRUE
PROPERTIES
  RoundAsksAll
CHECK_DEADLOCK FALSE
