SPECIFICATION NetFairSpec
CONSTANTS
  MaxPkts = 3
  MaxReqs = 3
  Errors = TRUE
INVARIANTS
  EndMeansDelivered
  SuccessIsTheFile
PROPERTIES
  KeepsAsking
CHECK_DEADLOCK FALSE
