SPECIFICATION Spec
CONSTANTS
  Conn = {"c1", "c2"}
  Agent = {"a"}
  Src = {"sa"}
  Dst = {"da"}
  Group = {"none", "g1"}
  Module = {"main", "m"}
  NoGroup = "none"
  None = "nil"
  Main = "main"
  AgentOf <- MCAgentOf
  SrcOf <- MCSrcOf
  DstOf <- MCDstOf
  ModGid <- MCModGid
  VXAgents = {"c1", "c2"}
  UpgradeOnly = {}
  StartMods = {"main"}
  Stoppable = {"m"}
  QueueSize = 2
  MaxAsync = 0
CHECK_DEADLOCK FALSE
INVARIANT ModuleInformed
