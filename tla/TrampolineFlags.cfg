\* RORX of registers.
CONSTANTS
  WordBits = 4
  ByteBits = 3
  Infos <- FlagInfos
  RegInits <- MCRegInits
  Heap <- MCHeap
  Above <- MCAbove
  Below <- MCBelow
  Frame <- MCFrame
  RetAddr <- MCRetAddr
  Junk <- MCJunk
SPECIFICATION Spec
INVARIANT NoFlags
CHECK_DEADLOCK FALSE
