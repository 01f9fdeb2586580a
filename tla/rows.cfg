SPECIFICATION SpecRows
CONSTANTS
  r1 = r1
  r2 = r2
  ancestor = ancestor
  Runs = {r1, r2}
  Callers = {ancestor}
  Sees <- SeesFirst
  NoRun = NoRun
  MaxActive = 2
  MaxRetained = 2
  MaxOutputs <- FirstOutputs
  MostOutputs = 1
  MaxResets = 1
CHECK_DEADLOCK FALSE
INVARIANTS RowsTypeOK OneRowPerRun
PROPERTIES HiddenStaysHidden RowsSettle
