\* MOVBE instructions with and without REX.
CONSTANTS
  Segs <- MCSegs
  FileSize <- MCFileSize
  Int3Run = 4
  RelHalf <- MCRelHalf
  Images <- MovbeImages
SPECIFICATION Spec
INVARIANT MovbeIsOneCall
CHECK_DEADLOCK FALSE
