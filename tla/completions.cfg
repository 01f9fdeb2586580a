SPECIFICATION Spec
CONSTANTS
  c1 = c1
  c2 = c2
  Host = Host
  Turn = Turn
  Calls = {c1, c2}
  Detachable = {c2}
  StarterOf <- SecondByFirst
  MaxRetries = 1
  MaxModelCalls = 1
  MaxRequests = 1
  MaxRollouts = 2
CHECK_DEADLOCK FALSE
INVARIANTS
  TypeOK
  LatchedIsClosed
  TextShownOnce
PROPERTIES
  CancelledForAReason
  AloneTheBrokerEnds
