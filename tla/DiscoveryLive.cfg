CONSTANTS
  Candidates = {p, q}
  Configured = {p}
  Callers = {c, d}
SPECIFICATION FairDiscovery
PROPERTIES RestsAfterPass CallersReturn PeersAreConnected RequestTriggersPass
CHECK_DEADLOCK FALSE
