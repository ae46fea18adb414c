SPECIFICATION FairSpec
CONSTANTS
  MaxPkts = 3
  PtPModes = {TRUE, FALSE}
  Udp = FALSE
  EofPhases = {"settled"}
  Stray = FALSE
  AtomicReset = TRUE
INVARIANTS
  SuccessMeansComplete
  NoPacketForgotten
  CountsExactly
  DiskHoldsWholeFiles
PROPERTIES
  ResetEnds
  KeepsPromise
CHECK_DEADLOCK FALSE
