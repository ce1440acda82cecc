CONSTANTS
  p1 = p1
  p2 = p2
  p3 = p3
  p4 = p4
  a = a
  b = b
  NoPeer = NoPeer
  NoStream = NoStream
  NoPacket = NoPacket
  Garbage = Garbage
  Packets = {p1, p2, p3}
  Peers = {a}
  Dst <- OneFlow
SPECIFICATION WarmSpec
PROPERTIES EveryPacketSettles FramesAreDelivered
CHECK_DEADLOCK FALSE
