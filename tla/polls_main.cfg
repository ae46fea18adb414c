SPECIFICATION PollSpec
CONSTANTS
  Users = {a, b, c}
  MaxPolls = 2
  MaxStats = 1
  PollCases = {}
SYMMETRY Symmetry
INVARIANTS
  VotesAddUp
  ShownAsSent
CHECK_DEADLOCK FALSE
