CONSTANTS
  p = p
  q = q
  c = c
  w1 = w1
  w2 = w2
  NoBlob = NoBlob
  Main = Main
  Blobs <- ThreeBlobs
  Answers <- SomeAnswers
  Wanted = "wanted"
  Parts = 2
  Workers <- TwoWorkers
  MaxRuns = 2
  Faults = {"request", "corrupt", "crash"}
SPECIFICATION FairSpec
INVARIANTS
  OkMeansComplete
  OneWriter
PROPERTIES
  WholeStays
  RunEnds
CHECK_DEADLOCK FALSE
