SPECIFICATION Spec
CONSTANTS
  Files = {"a", "b"}
  Items = 2
  MaxPackets = 2
  MaxRounds = 2
  MaxOffers = 1
  MaxQueue = 2
  Cases = {"same"}
INVARIANT WholeFile
CHECK_DEADLOCK FALSE
