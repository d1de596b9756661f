CONSTANTS
  Total = 3
  Arrivals = {0, 1, 2, 3}
  MaxItems = 5
  LayerErrors = {"Layer", "Output"}
SPECIFICATION FairSpec
INVARIANTS
  Conserved
  SuccessIsComplete
PROPERTIES
  MergeEnds
  InOrderSpec
CHECK_DEADLOCK FALSE
