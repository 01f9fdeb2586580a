SPECIFICATION Spec
CONSTANTS
  tab = tab
  kid1 = kid1
  kid2 = kid2
  kid3 = kid3
  c1 = c1
  c2 = c2
  c3 = c3
  NoHandle = NoHandle
  Tabs = {tab}
  Kids = {kid1, kid2, kid3}
  Calls = {c1, c2, c3}
  Detached = {c3}
  SessionOf <- WideSessions
  HostOf <- WideHosts
  PromptOf <- WidePrompts
  MaxForeground = 2
  MaxLaunches = 2
  MaxRounds = 1
CHECK_DEADLOCK FALSE
INVARIANTS
  TypeOK
  SessionsSerial
  ForcedHasNoWorker
  LatchFresh
  AgentsBounded
  StoppedTreeClosed
