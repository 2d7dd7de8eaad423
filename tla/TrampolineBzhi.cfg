\* BZHI of whole registers.
CONSTANTS
  WordBits = 4
  ByteBits = 3
  Infos <- BzhiInfos
  RegInits <- MCRegInits
  Heap <- MCHeap
  Above <- MCAbove
  Below <- MCBelow
  Frame <- MCFrame
  RetAddr <- MCRetAddr
  Junk <- MCJunk
SPECIFICATION Spec
INVARIANT BzhiMeaning
CHECK_DEADLOCK FALSE
