CONSTANTS
  x = x
  y = y
  z = z
  nx = nx
  ny = ny
  nz = nz
  NY = NY
  x4 = x4
  x6 = x6
  y4 = y4
  y6 = y6
  z4 = z4
  z6 = z6
  lan = lan
  wide = wide
  me = me
  ms = ms
  xs = xs
  ys = ys
  zs = zs
  r1 = r1
  r2 = r2
  r3 = r3
  None = None
  NoName = NoName
  Peers <- MCPeers
  Names <- MCNames
  Nets <- MCNets
  Addrs <- MCAddrs
  Lower <- MCLower
  Host4 <- MCHost4
  Host6 <- MCHost6
  Covers <- MCCovers
  Self = me
  Service <- MCService
  ConfigPeers <- MCConfigPeers
  ConfigRoutes <- MCConfigRoutes
  Requests = {r1, r2}
  Ops <- OverlapOps
SPECIFICATION Spec
INVARIANT Survives
CHECK_DEADLOCK FALSE
