SPECIFICATION Spec
CHECK_DEADLOCK FALSE
CONSTANTS
  NTasks = 2
  None = "none"
  Agent = {"a"}
  Id = {"id"}
  Version = {"v1", "v2"}
  HashOf <- MCSameAgent
  IdOf <- MCIdOf
  VersionOf <- MCVersionOf
  FirstVersion = "v1"
  ServerVersion = "v2"
  Viewed = {}
  Limit = 1
  BatchSize = 1
  MaxConn <- MCOnce
  MaxFails = 0
  MaxCrashes = 0
INVARIANTS OneUpgrade
