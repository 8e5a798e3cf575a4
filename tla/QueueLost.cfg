SPECIFICATION Spec
CONSTANTS
  Packet = {p1, p2, p3}
  Nil = nil
  MaxSizePacketQueue = 3
CHECK_DEADLOCK FALSE
INVARIANT NotLost
