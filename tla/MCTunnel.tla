------------------------------ MODULE MCTunnel ------------------------------
(* Bounded instances of Tunnel: three or four packets, one or two peers.   *)
EXTENDS Tunnel, TLC

CONSTANTS p1, p2, p3, p4, a, b

\* Three packets of one flow: the streams to one peer are contended.
OneFlow == [p \in {p1, p2, p3} |-> a]

\* Two packets to one peer, one to another, so that a stream or a table
\* entry of the wrong peer would show; a fourth has no route.
TwoFlows == p1 :> a @@ p2 :> a @@ p3 :> b @@ p4 :> NoPeer

\* The state after p3 was sent alone and its handler gave up, the stream still
\* in the map: a state Tunnel reaches, from which p1 and p2 contend for one
\* stream without a third goroutine to open it.
Warm ==
  /\ up = TRUE
  /\ pc = [g \in Packets |-> IF g = p3 THEN "sent" ELSE "idle"]
  /\ ms = [g \in Packets |-> NoStream]
  /\ activeStreams = [q \in Peers |-> p3]
  /\ lock = [s \in Streams |-> NoPacket]
  /\ conn = [s \in Streams |-> IF s = p3 THEN "open" ELSE "unused"]
  /\ wire = [s \in Streams |-> <<>>]
  /\ rx = [s \in Streams |-> IF s = p3 THEN "failed" ELSE "none"]
  /\ admits = Peers
  /\ inbox = [q \in Peers |-> [f \in Frames |-> 0]]

WarmSpec == Warm /\ [][Next]_vars /\ Fairness

Alike == Permutations({p1, p2})
=============================================================================
