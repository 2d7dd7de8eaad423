\* MULX of whole registers.
CONSTANTS
  WordBits = 4
  ByteBits = 3
  Infos <- MulxInfos
  RegInits <- MCRegInits
  Heap <- MCHeap
  Above <- MCAbove
  Below <- MCBelow
  Frame <- MCFrame
  RetAddr <- MCRetAddr
  Junk <- MCJunk
SPECIFICATION Spec
INVARIANT MulxKeepsRdx
CHECK_DEADLOCK FALSE
