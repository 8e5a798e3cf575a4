SPECIFICATION FairSpec
CHECK_DEADLOCK FALSE
CONSTANTS
  Link = {"a1"}
  Agent = {"a"}
  None = "none"
  AgentOf <- MCAgentOf
  Revocable = {}
  QueueSize = 5
  LostRounds = 3
  MaxExch = 1
  MaxUpdates = 0
  MaxFails = 2
  StaleRows = TRUE
PROPERTIES RowHeals Finalized StopEnds
