SPECIFICATION Spec
CONSTANTS
  p1 = p1
  p2 = p2
  cwe = cwe
  Methods <- MCMethods
  Upper <- MCUpper
  Paths <- MCPaths
  Cwes <- MCCwes
  MaxLen = 3
INVARIANTS
  Inv
PROPERTY
  IsMatching
CHECK_DEADLOCK FALSE
