CONSTANTS
  Images <- MembersOnly
  BlobOf <- Blobs
  Me = "me"
  Held <- SomeHeld
  Changes = {"removed", "added", "type", "mode", "owner", "content", "target", "device", "rest"}
SPECIFICATION OfflineSpec
INVARIANT SuccessIsWhole
CHECK_DEADLOCK FALSE
