\* The program may end without a successor: a failed run is over.
CONSTANTS
  AreaSize <- MCAreaSize
  Files <- MCFiles
SPECIFICATION FairSpec
INVARIANTS TypeOK OncePerSite
PROPERTIES UsedBytesKept ImplementsList SavesWhenRoomy
CHECK_DEADLOCK FALSE
