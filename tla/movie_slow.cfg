SPECIFICATION Spec
CONSTANTS
  Files = {"a", "b"}
  Items = 2
  MaxPackets = 2
  MaxRounds = 2
  MaxOffers = 1
  MaxQueue = 2
  Cases = {"slow"}
INVARIANT StopIsHeard
CHECK_DEADLOCK FALSE
