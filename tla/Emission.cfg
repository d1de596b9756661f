CONSTANTS
  Offsets = {0, 1, 4, 7}
  Lengths = {0, 2, 5}
  MaxChunks = 2
  RealSizes = {0, 3, 5}
  DataSizes = {0, 2, 4, 5}
  Leads = {0, 1, 2}
  Block = 2
  Word = 8
  BufSizes = {1, 2, 4}
  Width <- MCWidth
  NameField = 4
  PrefixField = 6
  RecordsSurvive = TRUE
  Forms = {"ustar", "gnu", "old sparse", "pax", "0.0", "0.1", "1.0"}
  Roots <- MCRoots
  Names <- MCNames
  SparseNames <- MCSparseNames
  GroupNames <- MCNames
  SizeField = 4
  SparseData = 4
SPECIFICATION EmissionSpec
INVARIANTS
  ReadsBack
  InStep
  Faithful
  AcceptsWellFormed
CHECK_DEADLOCK FALSE
