CONSTANTS
  Src <- MCSrc
  PType <- MCPType
  Stream <- MCStream
  SrcOf <- MCSrcOf
  TypeOf <- MCTypeOf
  Imc <- MCImc
  Filters <- MCFilters
  Modes <- TimedOnly
  Notice = {"n"}
  Receiver = {r1, r2}
  QueueSize = 2
  HasConsumer = TRUE
  MayClose = TRUE
  MaxCalls = 1
  MaxUnlocks = 1
SPECIFICATION Spec
INVARIANTS TypeOK ExactlyOnce NoStrandedPacket InOrder
CHECK_DEADLOCK FALSE
SYMMETRY Symmetry
