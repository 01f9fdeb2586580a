SPECIFICATION Spec
CONSTANTS
  tab = tab
  kid1 = kid1
  kid2 = kid2
  kid3 = kid3
  c1 = c1
  c2 = c2
  c3 = c3
  NoHandle = NoHandle
  Tabs = {tab}
  Kids = {kid1, kid2}
  Calls = {c1, c2}
  Detached = {}
  SessionOf <- DeepSessions
  HostOf <- DeepHosts
  PromptOf <- DeepPrompts
  MaxForeground = 2
  MaxLaunches = 2
  MaxRounds = 2
CHECK_DEADLOCK FALSE
PROPERTIES
  StoppedAgentsLeave
