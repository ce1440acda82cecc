SPECIFICATION FairSpec
CONSTANTS
  Events = {c1, w1}
  Closing = {w1}
  Streams = {s1}
  Loop = loop
  Svc = svc
INVARIANTS SessionOutlivesUse ZeroIsClean
PROPERTIES StopEnds
CHECK_DEADLOCK FALSE
