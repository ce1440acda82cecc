--------------------------- MODULE MCServicePipe ---------------------------
(* Instances of ServicePipe for TLC.                                       *)
EXTENDS ServicePipe

\* The hops take as little as a handshake needs; an application writes as much
\* in a direction as a loop, the stream and a pump can hold.
MCTotal == [d \in Directions |-> 4]
MCWindow == [h \in Hops |-> IF h = 2 THEN 2 ELSE 1]

\* What is explored: any traffic of connections that stay; ends while there is
\* little of it, or when the loops block each other.
Explored == \/ \A h \in Hops : ended[h] = {}
            \/ sent["up"] <= 2 /\ sent["down"] <= 1
            \/ CrossBlocked
=============================================================================
