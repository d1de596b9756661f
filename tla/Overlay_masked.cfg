CONSTANTS
  a = a
  b = b
  c = c
  Names = {a, b, c}
  Paths <- TreePaths
  Entries <- TreeEntries
  MaxLayers = 3
  MaxEntries = 4
  Faults = {}
SPECIFICATION Spec
INVARIANT SuppressionComplete
CHECK_DEADLOCK FALSE
