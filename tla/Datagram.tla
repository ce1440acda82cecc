------------------------------ MODULE Datagram ------------------------------
(***************************************************************************)
(* What the tunnel promises to the IP stacks on its two ends: a best       *)
(* effort datagram service.  A packet the local kernel hands over may be   *)
(* delivered, possibly more than once, or never; nothing else is ever      *)
(* delivered, and nothing is delivered to a peer other than the packet's.  *)
(***************************************************************************)
EXTENDS Naturals

CONSTANTS Packets,    \* the packets the kernel may hand to the tunnel
          Peers,      \* the remote nodes
          Garbage,    \* bytes that are not the bytes of one packet
          Dst         \* the peer each packet is routed to

VARIABLES offered,    \* the packets handed over so far
          inbox       \* inbox[q][f]: how many times q's interface was given f

vars == <<offered, inbox>>

Frames == Packets \cup {Garbage}

Init == /\ offered = {}
        /\ inbox = [q \in Peers |-> [f \in Frames |-> 0]]

Offer(p) == /\ p \notin offered
            /\ offered' = offered \cup {p}
            /\ UNCHANGED inbox

Deliver(p) == /\ p \in offered
              /\ Dst[p] \in Peers
              /\ inbox' = [inbox EXCEPT ![Dst[p]][p] = @ + 1]
              /\ UNCHANGED offered

Next == \E p \in Packets : Offer(p) \/ Deliver(p)

Spec == Init /\ [][Next]_vars
=============================================================================
