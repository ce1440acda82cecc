----------------------------- MODULE MCRegistry -----------------------------
(* Bounded instances of Registry: a node configured with one peer, two     *)
(* more peers to add, two further networks of which one overlaps a host.   *)
EXTENDS Registry, TLC

CONSTANTS x, y, z,              \* peers
          nx, ny, nz, NY,       \* names; NY is ny in capitals
          x4, x6, y4, y6, z4, z6, lan, wide,  \* networks, named for addresses
          me, ms, xs, ys, zs,   \* the node; the service networks of it and of the peers
          r1, r2, r3            \* requests

MCPeers == {x, y, z}
MCNames == {nx, ny, nz, NY, NoName}
MCNets == {x4, x6, y4, y6, z4, z6, lan, wide, ms, xs, ys, zs}
MCAddrs == {x4, x6, y4, y6, z4, z6, lan}
MCHost4 == x :> x4 @@ y :> y4 @@ z :> z4
MCHost6 == x :> x6 @@ y :> y6 @@ z :> z6
MCLower == [n \in MCNames |-> IF n = NY THEN ny ELSE n]
MCService == x :> xs @@ y :> ys @@ z :> zs @@ me :> ms
MCCovers == [net \in MCNets |-> IF net = wide THEN {lan, x4} ELSE {net} \cap MCAddrs]
MCConfigPeers == <<Entry(x, nx)>>
MCConfigRoutes == [net \in MCNets |-> IF net = lan THEN x ELSE None]

Add(id, name) == [kind |-> "addPeer", id |-> id, name |-> name]
RouteAdd(net, ref) == [kind |-> "routeAdd", net |-> net, ref |-> ref]
RouteDel(net) == [kind |-> "routeDel", net |-> net]
Called(name) == [by |-> "name", name |-> name]
Prefix(ids) == [by |-> "prefix", ids |-> ids]

Adds == {Add(y, ny), Add(z, nz), Add(y, nz), Add(x, ny), Add(z, NY), Add(z, NoName)}
Routes == {RouteAdd(lan, Called(nz)), RouteAdd(lan, Prefix({x, y})),
           RouteAdd(y4, Prefix({x})), RouteDel(lan), RouteDel(x6), RouteDel(y4)}

RacingOps == {Add(y, ny), Add(z, nz), RouteAdd(wide, Called(nz)),
              RouteAdd(lan, Prefix({x})), RouteDel(lan)}

MCOps == TRUE :> (Adds \cup Routes) @@ FALSE :> RacingOps
OverlapOps == [waiting \in BOOLEAN |-> {RouteAdd(wide, Called(nx))}]

\* Requests that do not wait for each other are explored once the interface is
\* set up; those that do, while it is set up and after.
Explored == serial \/ SetUp \/ Quiet

Alike == Permutations({r1, r2, r3})
=============================================================================
