CONSTANTS
  Total = 1
  Arrivals = {0, 1, 2}
  MaxItems = 3
  LayerErrors = {}
  c1 = c1
  c2 = c2
  Callers <- TwoCallers
SPECIFICATION Spec
INVARIANT NotifiedErrorFails
CHECK_DEADLOCK FALSE
