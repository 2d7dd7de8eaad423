\* 4-byte MOVBE instructions.
CONSTANTS
  Segs <- MCSegs
  FileSize <- MCFileSize
  Int3Run = 4
  RelHalf <- MCRelHalf
  Images <- ShortImages
SPECIFICATION Spec
INVARIANT CarriedByteIsInsn
CHECK_DEADLOCK FALSE
