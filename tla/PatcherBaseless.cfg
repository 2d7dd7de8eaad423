\* VEX instructions with and without a base in their operand.
CONSTANTS
  Segs <- MCSegs
  FileSize <- MCFileSize
  Int3Run = 4
  RelHalf <- MCRelHalf
  Images <- BaselessImages
SPECIFICATION Spec
INVARIANT VexIsOneCall
CHECK_DEADLOCK FALSE
