SPECIFICATION Spec
CONSTANTS
  Channels = {"a", "b"}
  MaxStarts = 2
  MaxOffers = 2
  EarlyCancel = TRUE
  Interleave = FALSE
INVARIANTS
  NoOrphanMedium
CHECK_DEADLOCK FALSE
