CONSTANTS
  Total = 3
  LayerErrors = {"Layer", "Output"}
  w1 = w1
  w2 = w2
  Workers <- TwoWorkers
  Main = main
SPECIFICATION FairSpec
INVARIANTS
  FailureIsTold
PROPERTIES
  PullEnds
  KeepsProtocol
CHECK_DEADLOCK FALSE
