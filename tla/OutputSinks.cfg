CONSTANTS
  Chunks = 6
  PipeCap = 2
  ErrCap = 2
  Messages = 2
  MaxRetries = 5
  Faults = {"unremovable", "spawn", "busy", "input", "encode", "process", "wait",
            "create", "full", "unlink", "setup", "unpack"}
SPECIFICATION FairSpec
INVARIANTS
  WholeOrNothing
  BlameIsRight
  NothingRunsOn
PROPERTY Returns
CHECK_DEADLOCK FALSE
