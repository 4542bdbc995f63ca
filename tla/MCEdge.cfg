SPECIFICATION EdgeSpec
CONSTANTS
  Cmd = {1, 2}
  Content = {11, 12}
  Setting = {21, 22}
  MaxCodes = 2
  AgentOps = 2
  AgentFaults = 1
  CoreConf = {1, 2}
  BusClient = {"a", "b"}
  TunnelOps = 2
  SelfConf = {1, 2, 3}
  BadConf = {3}
  SelfOps = 2
  SelfFaults = 3
CHECK_DEADLOCK FALSE
INVARIANT TunnelOwned
PROPERTIES CodeGivesOneToken DeviceCatchesUp 
