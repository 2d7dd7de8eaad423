\* All layouts; the program ends, so a state without a successor is no error.
CONSTANTS
  Segs <- MCSegs
  FileSize <- MCFileSize
  Int3Run = 4
  RelHalf <- MCRelHalf
  Images <- MCImages
SPECIFICATION FairSpec
INVARIANTS TypeOK StubsApart CallsLand WholeInsns AllHandled
PROPERTIES WriteOnce ImplementsRewrite Finishes
CHECK_DEADLOCK FALSE
