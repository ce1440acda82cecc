---------------------------- MODULE MCManagement ----------------------------
(* Instances of Management for TLC.                                        *)
EXTENDS Management, TLC

CONSTANTS x, y, z, nx, ny, NY, c1, c2

MCConfigPeers == <<[id |-> x, name |-> nx]>>
Add(id, name, v) == [kind |-> "addPeer", id |-> id, name |-> name, via |-> v]
Plain(what, v) == [kind |-> what, via |-> v]
\* One adds a peer and may try again; the other wants the same name, but for its
\* case, for another peer, or reads, or changes a route.
MCOps == (c1 :> {Add(y, ny, "json")})
           @@ (c2 :> {Add(z, NY, "gob"), Plain("status", "gob"), Plain("peers", "gob"),
                      Plain("peers", "json"), Plain("route", "gob"), Plain("nodeIp", "json")})
\* NY is ny in capital letters.
MCLower == (nx :> nx) @@ (ny :> ny) @@ (NY :> ny)
MCTries == (c1 :> 2) @@ (c2 :> 1)
=============================================================================
