CONSTANTS
  Chunks = 6
  InCap = 2
  ErrCap = 2
  Messages = 3
  MaxRetries = 1
  Faults = {}
SPECIFICATION FairSpec
PROPERTY ConsumesAsItArrives
CHECK_DEADLOCK FALSE
