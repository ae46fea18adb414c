SPECIFICATION FairSpec
CONSTANTS
  Ids = {1}
  MaxQueue = 3
  Cases = {}
INVARIANTS NoneDangling
PROPERTIES AliveIsShown FirstQuietEnds
