\* Register operands, the module loaded.
CONSTANTS
  WordBits = 4
  ByteBits = 3
  c1 = c1
  c2 = c2
  Contexts <- MCContexts
  Mem <- MCMem
  Scenarios <- DirectScenarios
  MaxLoads = 2
SPECIFICATION Spec
INVARIANT HandlesListed
CHECK_DEADLOCK FALSE
