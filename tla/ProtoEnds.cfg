SPECIFICATION EndsSpec
CONSTANTS
  Conn = {"c1", "c2"}
  Agent = {"a"}
  Src = {"sa"}
  Dst = {"da", "dx"}
  Group = {"none", "g1"}
  Module = {"main", "m"}
  NoGroup = "none"
  None = "nil"
  Main = "main"
  AgentOf <- MCAgentOf
  SrcOf <- MCSrcOf
  DstOf <- MCDstOf
  ModGid <- MCModGid
  VXAgents = {"c1", "c2"}
  UpgradeOnly = {"c2"}
  StartMods = {"main"}
  Stoppable = {"m"}
  QueueSize = 2
  MaxAsync = 1
  MaxSockets = 3
  MaxSends = 2
  MaxPackets = 1
CHECK_DEADLOCK FALSE
INVARIANTS TypeOK RoutesLive MainInformed MainAlternates LinkSound
PROPERTY QueueDrains
