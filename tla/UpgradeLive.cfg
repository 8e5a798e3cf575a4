SPECIFICATION FairSpec
CHECK_DEADLOCK FALSE
CONSTANTS
  NTasks = 2
  None = "none"
  Agent = {"a", "b"}
  Id = {"id"}
  Version = {"v1", "v2"}
  HashOf <- MCHashOf
  IdOf <- MCIdOf
  VersionOf <- MCVersionOf
  FirstVersion = "v1"
  ServerVersion = "v2"
  Viewed = {"b"}
  Limit = 1
  BatchSize = 1
  MaxConn <- MCOnce
  MaxFails = 0
  MaxCrashes = 1
PROPERTIES TaskSettled TaskPicked
