CONSTANTS
  a = a
  b = b
  c = c
  Names = {a, b, c}
  Paths <- TreePaths
  Entries <- TreeEntries
  MaxLayers = 3
  MaxEntries = 5
  Faults = {"read", "interrupted", "sink", "entry"}
SPECIFICATION Spec
INVARIANTS
  WriteErrorIsBlamed
  SuppressionSound
  OlderLayersHidden
  LinksFollowTargets
  MergedIsOverlay
  PromotionKeepsItsFile
CHECK_DEADLOCK FALSE
