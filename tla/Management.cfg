SPECIFICATION FairSpec
CONSTANTS
  x = x  y = y  z = z  nx = nx  ny = ny  NY = NY
  c1 = c1  c2 = c2
  Clients = {c1, c2}
  Peers = {x, y, z}
  Names = {nx, ny, NY}
  Lower <- MCLower
  Self = self
  Hostname = nx
  ConfigPeers <- MCConfigPeers
  Ops <- MCOps
  None = None
  MaxTries <- MCTries
  MaxStarts = 2
  MaxPasses = 1
INVARIANTS DoneIsDone RetryAddsOnce
PROPERTIES CommandsEnd
CHECK_DEADLOCK FALSE
