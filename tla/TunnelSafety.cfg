CONSTANTS
  p1 = p1
  p2 = p2
  p3 = p3
  p4 = p4
  a = a
  b = b
  NoPeer = NoPeer
  NoStream = NoStream
  NoPacket = NoPacket
  Garbage = Garbage
  Packets = {p1, p2, p3, p4}
  Peers = {a, b}
  Dst <- TwoFlows
SPECIFICATION Spec
SYMMETRY Alike
INVARIANTS NoGarbage AtMostTwice NoDeadEntry
PROPERTY DatagramService
CHECK_DEADLOCK FALSE
