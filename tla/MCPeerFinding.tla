--------------------------- MODULE MCPeerFinding ---------------------------
(* Instances of PeerFinding for TLC.                                       *)
EXTENDS PeerFinding, TLC

CONSTANTS a, b, c

Public(p) == [peer |-> p, kind |-> "public"]
Tunnel4(p) == [peer |-> p, kind |-> "tunnel4"]

MCConfig == <<a, b>>
\* a knows b by two addresses, one of them inside the tunnel; b, which the
\* list asks only if it is the first, knows c.
MCBook == a :> {Public(b), Tunnel4(b)} @@ b :> {} @@ c :> {}
MCAdvertised == {Public(b), Tunnel4(c)}
=============================================================================
