SPECIFICATION Spec
CONSTANTS
  Root = Root
  Child = Child
  MaxCalls = 2
  MaxEvents = 6
  MaxBreaks = 1
CHECK_DEADLOCK FALSE
INVARIANTS
  TypeOK
  LiveIsReplay
  
  CallsAnswered
