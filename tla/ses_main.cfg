SPECIFICATION FairSpec
CONSTANTS
  Channels = {"a", "b"}
  MaxStarts = 2
  MaxOffers = 2
  EarlyCancel = FALSE
  Interleave = FALSE
INVARIANTS
  EngineServesSession
  NoOrphanMedium
  SessionHasMedium
PROPERTIES
  EndedIsLeft
CHECK_DEADLOCK FALSE
