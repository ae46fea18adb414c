SPECIFICATION Spec
CONSTANTS
  Ids = {1}
  MaxQueue = 3
  Cases = {"late"}
INVARIANT NoneDangling
