SPECIFICATION Spec
CONSTANTS
  a = a
  b = b
  Calls = {a, b}
  MaxDepth = 2
  MaxCalls = 4
  MaxForeign = 1
  MaxEvents = 6
SYMMETRY Symmetric
CHECK_DEADLOCK FALSE
INVARIANTS TypeOK RelayFaithful LeafIsFree
