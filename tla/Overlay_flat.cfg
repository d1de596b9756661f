CONSTANTS
  a = a
  b = b
  c = c
  Names = {a, b, c}
  Paths <- FlatPaths
  Entries <- FlatEntries
  MaxLayers = 4
  MaxEntries = 5
  Faults = {"read", "interrupted", "sink", "entry"}
SYMMETRY Names3
SPECIFICATION Spec
INVARIANTS
  WriteErrorIsBlamed
  MergedIsOverlay
CHECK_DEADLOCK FALSE
