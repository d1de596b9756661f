CONSTANTS
  Images <- SomeImages
  BlobOf <- Blobs
  Me = "me"
  Held <- SomeHeld
  Changes = {"removed", "added", "type", "mode", "owner", "content", "target", "device", "rest"}
SPECIFICATION OfflineFairSpec
INVARIANTS
  ConvertIsTrue
  VerdictIsRight
PROPERTY EndsUnmounted
CHECK_DEADLOCK FALSE
