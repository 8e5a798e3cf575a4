SPECIFICATION PartsSpec
CHECK_DEADLOCK FALSE
CONSTANTS
  Link = {a1, a2}
  Agent = {"a"}
  None = "none"
  AgentOf <- MCAgentOf
  Revocable = {"a"}
  QueueSize = 2
  LostRounds = 1
  MaxExch = 1
  MaxUpdates = 1
  MaxFails = 0
  StaleRows = TRUE
  Order <- MCOrder
  Group = {"g"}
  Shared = "shared"
  GroupOf <- MCGroupOf
  SocketOf <- MCSocketOf
  FirstRows = {"a", "b", "s"}
  FirstGroups = {"g"}
  MaxChanges = 2
  MaxModuleFails = 1
SYMMETRY LinkSymmetry
INVARIANTS TypeOK ListTruth NoGhost ModulesSound SyncedIsRun NobodyWaits
