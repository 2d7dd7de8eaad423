\* Every decoded instruction; a stub that has returned does nothing more.
CONSTANTS
  WordBits = 4
  ByteBits = 3
  Infos <- MCInfos
  RegInits <- MCRegInits
  Heap <- MCHeap
  Above <- MCAbove
  Below <- MCBelow
  Frame <- MCFrame
  RetAddr <- MCRetAddr
  Junk <- MCJunk
SPECIFICATION Spec
INVARIANTS TypeOK ReturnsHome KeepsRegs Computes
CHECK_DEADLOCK FALSE
