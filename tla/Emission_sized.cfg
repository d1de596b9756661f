CONSTANTS
  Offsets = {2}
  Lengths = {5}
  MaxChunks = 1
  RealSizes = {7}
  DataSizes = {5}
  Leads = {0}
  Block = 2
  Word = 8
  BufSizes = {1, 2, 4}
  Width <- MCWidth
  NameField = 4
  PrefixField = 6
  RecordsSurvive = TRUE
  Forms = {"0.0"}
  Roots <- MCRoots
  Names <- MCNames
  SparseNames <- MCSparseNames
  GroupNames <- MCNames
  SizeField = 4
  SparseData = 5
SPECIFICATION EmissionSpec
INVARIANTS
  InStep
CHECK_DEADLOCK FALSE
