CONSTANTS
  p = p
  q = q
  c = c
  w1 = w1
  w2 = w2
  NoBlob = NoBlob
  Main = Main
  Blobs <- ThreeBlobs
  Answers <- TwiceAnswers
  Wanted = "wanted"
  Parts = 2
  Workers <- TwoWorkers
  MaxRuns = 2
  Faults = {}
SPECIFICATION FairSpec
INVARIANTS
  CleanDownloadsSucceed
CHECK_DEADLOCK FALSE
