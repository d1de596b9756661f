CONSTANTS
  Total = 2
  Arrivals = {0, 1, 2}
  MaxItems = 3
  LayerErrors = {"Layer", "Output"}
  c1 = c1
  c2 = c2
  Callers <- TwoCallers
  CallerCap = 1
SPECIFICATION FairSpecAll
INVARIANTS
  NothingLost
  VerdictFitsCalls
  NothingDropped
  ProgressIsTrue
PROPERTIES
  CallsReturn
  AllEnd
CHECK_DEADLOCK FALSE
