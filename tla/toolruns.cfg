SPECIFICATION Spec
CONSTANTS
  r1 = r1
  r2 = r2
  r3 = r3
  ancestor = ancestor
  Runs = {r1, r2, r3}
  Callers = {ancestor}
  Sees <- AncestorSeesTwo
  NoRun = NoRun
  MaxActive = 2
  MaxRetained = 1
  MaxOutputs <- FirstOutputs
  MostOutputs = 1
CHECK_DEADLOCK FALSE
INVARIANTS TypeOK WorkersBounded HandlesAccounted CloseJoinsAll
PROPERTIES StopsTakeEffect KeepsLifecycle
