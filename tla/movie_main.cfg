SPECIFICATION FairSpec
CONSTANTS
  Files = {"a", "b"}
  Items = 2
  MaxPackets = 2
  MaxRounds = 2
  MaxOffers = 1
  MaxQueue = 2
  Cases = {}
INVARIANTS SenderServes WholeFile NobodyCutOff
PROPERTY GoesOn
CHECK_DEADLOCK FALSE
