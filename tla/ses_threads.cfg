SPECIFICATION Spec
CONSTANTS
  Channels = {"a", "b"}
  MaxStarts = 2
  MaxOffers = 2
  EarlyCancel = FALSE
  Interleave = TRUE
INVARIANTS
  CancelledReceptionStops
CHECK_DEADLOCK FALSE
