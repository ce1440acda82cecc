CONSTANTS
  Radix = 3
  Mtu = 3
  MaxPackets = 2
SPECIFICATION Spec
INVARIANT InOrder
CHECK_DEADLOCK FALSE
