CONSTANTS
  Src <- MCSrc
  PType <- MCPType
  Stream <- MCStream
  SrcOf <- MCSrcOf
  TypeOf <- MCTypeOf
  Imc <- MCImc
  Filters <- MCFilters
  Modes <- TimedOnly
  Notice = {}
  Receiver = {r1}
  QueueSize = 4
  HasConsumer = FALSE
  MayClose = FALSE
  MaxCalls = 1
  MaxUnlocks = 0
SPECIFICATION FairSpec
PROPERTY TimedRecvReturns
CHECK_DEADLOCK FALSE
