SPECIFICATION Spec
CONSTANTS
  MaxTime = 5
  PacketSize = 3
  Packets <- Traffic
  ActiveTimeout = 2
  InactiveTimeout = 1
  MaxPackets = 4
INVARIANT NoPacketBeforeItsFlow
CHECK_DEADLOCK FALSE
