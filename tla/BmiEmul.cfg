\* All scenarios; a context that has run its code or was stopped does nothing more.
CONSTANTS
  WordBits = 4
  ByteBits = 3
  c1 = c1
  c2 = c2
  Contexts <- MCContexts
  Mem <- MCMem
  Scenarios <- MCScenarios
  MaxLoads = 2
SPECIFICATION Spec
INVARIANTS TypeOK HandlerResident CountExact
PROPERTIES OnlyUnknownOops ImplementsNative
CHECK_DEADLOCK FALSE
