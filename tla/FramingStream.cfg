CONSTANTS
  Radix = 3
  Mtu = 3
  MaxPackets = 2
SPECIFICATION FairSpec
INVARIANTS InOrderUnlessSplit NoPanic
PROPERTIES AllDelivered HandlerReturns
CHECK_DEADLOCK FALSE
