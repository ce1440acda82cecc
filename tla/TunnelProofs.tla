---------------------------- MODULE TunnelProofs ----------------------------
(***************************************************************************)
(* Proofs about Tunnel, for every set of packets and peers and every       *)
(* routing: types, the framing on the wire (NoGarbage), the hygiene of     *)
(* activeStreams (NoDeadEntry), the mutex of a stream, the copies of a     *)
(* packet (AtMostTwice) and the refinement of Datagram.                    *)
(***************************************************************************)
EXTENDS Tunnel, SequenceTheorems, TLAPS

USE DEF Streams, Frames, Locked, Private, Settled

-----------------------------------------------------------------------------
(* The inductive invariant.                                                *)

\* A goroutine past UpRun's route lookup has a destination.
Routed == \A g \in Packets : pc[g] \notin {"idle", "noRoute"} => Dst[g] \in Peers

\* A stream is published by its opener, once it is done, under its peer.
Entries == \A q \in Peers :
             activeStreams[q] # NoStream =>
               /\ Dst[activeStreams[q]] = q
               /\ pc[activeStreams[q]] = "sent"

\* What a goroutine copied out of the map was such a stream, and a
\* goroutine inside the locked section holds the mutex of its stream.
Copies == \A g \in Packets :
            /\ pc[g] \in Locked \cup {"lock"} =>
                 /\ ms[g] # NoStream
                 /\ Dst[ms[g]] = Dst[g]
                 /\ pc[ms[g]] = "sent"
            /\ pc[g] \in Locked => lock[ms[g]] = g

\* Before its opener calls NewStream a stream carries nothing; until the
\* opener is done nobody has closed it.
Opening == \A s \in Streams :
             /\ pc[s] \in {"idle", "noRoute", "lookup", "lock", "open"} \cup Locked
                  => conn[s] = "unused" /\ wire[s] = <<>> /\ rx[s] = "none"
             /\ pc[s] \in Private => conn[s] # "closed"

\* A wire alternates lengths and bodies of packets for the stream's peer.
Framed == \A s \in Streams : \A i \in 1..Len(wire[s]) :
            /\ wire[s][i].part = IF i % 2 = 1 THEN "len" ELSE "body"
            /\ i % 2 = 0 => wire[s][i].pkt = wire[s][i - 1].pkt

\* Only packets that were read from the interface, for the stream's peer.
Addressed == \A s \in Streams : \A i \in 1..Len(wire[s]) :
               /\ pc[wire[s][i].pkt] \notin {"idle", "noRoute"}
               /\ Dst[wire[s][i].pkt] = Dst[s]

\* Where a goroutine is between its two writes, its length is the last
\* thing on the wire.
HalfWritten(g, s) == /\ Len(wire[s]) % 2 = 1
                     /\ wire[s][Len(wire[s])].pkt = g

Writing == \A g \in Packets :
             /\ pc[g] = "writeBody" => HalfWritten(g, ms[g])
             /\ pc[g] = "firstBody" => HalfWritten(g, g)

\* A working stream with half a frame on it is still in that goroutine's
\* hands: it will write the body or close the stream.
InHand(s) == \/ pc[s] = "firstBody"
             \/ \E g \in Packets : pc[g] \in {"writeBody", "close"} /\ ms[g] = s

Whole == \A s \in Streams :
           conn[s] = "open" /\ ~InHand(s) => Len(wire[s]) % 2 = 0

IInv == /\ TypeOK /\ Routed /\ Entries /\ Copies /\ Opening
        /\ Framed /\ Addressed /\ Writing /\ Whole
        /\ NoDeadEntry /\ NoGarbage

-----------------------------------------------------------------------------
(* What a write and a complete read do to the wires.                       *)

\* A successful write appends one part to its stream, and only there.
LEMMA WriteAppends ==
  ASSUME TypeOK, NEW g \in Packets, NEW s \in Streams,
         NEW part \in {"len", "body"}, Write(g, s, part)
  PROVE  /\ wire' \in [Streams -> Seq(Parts)]
         /\ Len(wire'[s]) = Len(wire[s]) + 1
         /\ \A i \in 1..Len(wire[s]) : wire'[s][i] = wire[s][i]
         /\ wire'[s][Len(wire[s]) + 1] = Part(g, part)
         /\ \A t \in Streams \ {s} : wire'[t] = wire[t]
<1> DEFINE q == wire[s]
           e == Part(g, part)
           longer == Append(q, e)
<1>1. wire \in [Streams -> Seq(Parts)] /\ q \in Seq(Parts)
  BY DEF TypeOK
<1>2. e \in Parts
  BY DEF Part, Parts
<1>3. wire' = [wire EXCEPT ![s] = longer]
  BY DEF Write
<1>4. /\ longer \in Seq(Parts)
      /\ Len(longer) = Len(q) + 1
      /\ \A i \in 1..Len(q) : longer[i] = q[i]
      /\ longer[Len(q) + 1] = e
  <2> HIDE DEF q, e
  <2> QED BY <1>1, <1>2, AppendProperties
<1> HIDE DEF longer
<1> QED
  BY <1>1, <1>3, <1>4, Zenon

\* Consuming a frame drops the first two parts of its stream's wire.
LEMMA ConsumeDrops ==
  ASSUME TypeOK, NEW s \in Streams, Len(wire[s]) >= 2, Consume(s)
  PROVE  /\ wire' \in [Streams -> Seq(Parts)]
         /\ Len(wire'[s]) = Len(wire[s]) - 2
         /\ \A i \in 1..Len(wire'[s]) : wire'[s][i] = wire[s][i + 2]
         /\ \A t \in Streams \ {s} : wire'[t] = wire[t]
<1> DEFINE q == wire[s]
           rest == SubSeq(q, 3, Len(q))
<1>1. wire \in [Streams -> Seq(Parts)] /\ q \in Seq(Parts)
  BY DEF TypeOK
<1>2. wire' = [wire EXCEPT ![s] = rest]
  BY DEF Consume
<1>3. Len(q) \in Nat /\ Len(q) >= 2 /\ \A i \in 3..Len(q) : q[i] \in Parts
  BY <1>1, LenProperties, ElementOfSeq
<1>4. /\ rest \in Seq(Parts)
      /\ Len(rest) = IF 3 <= Len(q) THEN Len(q) - 3 + 1 ELSE 0
      /\ \A i \in 1..(Len(q) - 3 + 1) : rest[i] = q[3 + i - 1]
  <2> HIDE DEF q
  <2> QED BY <1>3, SubSeqProperties
<1>5. Len(rest) = Len(q) - 2
  <2> DEFINE n == Len(q)
             r == Len(rest)
  <2>1. n \in Nat /\ n >= 2 /\ r = IF 3 <= n THEN n - 3 + 1 ELSE 0
    BY <1>3, <1>4, Zenon
  <2> HIDE DEF n, r
  <2>2. r = n - 2
    BY <2>1
  <2> QED BY <2>2 DEF n, r
<1>6. \A i \in 1..Len(rest) : rest[i] = q[i + 2]
  <2>1. \A i \in 1..(Len(q) - 3 + 1) : rest[i] = q[3 + i - 1]
    BY <1>4
  <2> HIDE DEF q, rest
  <2>2. ASSUME NEW i \in 1..Len(rest) PROVE rest[i] = q[i + 2]
    <3>1. i \in 1..(Len(q) - 3 + 1) /\ 3 + i - 1 = i + 2
      BY <1>3, <1>5
    <3> QED BY <3>1, <2>1
  <2> QED BY <2>2
<1> HIDE DEF rest
<1> QED
  BY <1>1, <1>2, <1>4, <1>5, <1>6, Zenon

-----------------------------------------------------------------------------
\* TypeOK is inductive together with the facts about copies and peers.
LEMMA TypeStep == IInv /\ [Next]_vars => TypeOK'
<1> SUFFICES ASSUME IInv, [Next]_vars PROVE TypeOK'
  OBVIOUS
<1> USE DstAssumption DEF IInv, TypeOK
<1>1. ASSUME NEW g \in Packets, Arrive(g) PROVE TypeOK'
  BY <1>1 DEF Arrive, Step, remoteVars
<1>2. ASSUME NEW g \in Packets, Lookup(g) PROVE TypeOK'
  BY <1>2 DEF Lookup, Step, remoteVars, Routed
<1>3. ASSUME NEW g \in Packets, Acquire(g) PROVE TypeOK'
  BY <1>3 DEF Acquire, Step, remoteVars, Copies
<1>4. ASSUME NEW g \in Packets, WriteLen(g) PROVE TypeOK'
  <2>1. wire' \in [Streams -> Seq(Parts)]
    <3>1. ms[g] \in Streams
      BY <1>4 DEF WriteLen, Step, Copies
    <3> QED BY <1>4, <3>1, WriteAppends DEF WriteLen
  <2> QED BY <1>4, <2>1 DEF WriteLen, Write, Step, remoteVars
<1>5. ASSUME NEW g \in Packets, WriteBody(g) PROVE TypeOK'
  <2>1. wire' \in [Streams -> Seq(Parts)]
    <3>1. ms[g] \in Streams
      BY <1>5 DEF WriteBody, Step, Copies
    <3> QED BY <1>5, <3>1, WriteAppends DEF WriteBody
  <2> QED BY <1>5, <2>1 DEF WriteBody, Write, Step, remoteVars
<1>6. ASSUME NEW g \in Packets, Reused(g) PROVE TypeOK'
  BY <1>6 DEF Reused, Unlock, Step, remoteVars, Copies
<1>7. ASSUME NEW g \in Packets, ReuseFails(g) PROVE TypeOK'
  BY <1>7 DEF ReuseFails, Step, remoteVars
<1>8. ASSUME NEW g \in Packets, CloseStream(g) PROVE TypeOK'
  BY <1>8 DEF CloseStream, CloseConn, Step, remoteVars, Copies
<1>9. ASSUME NEW g \in Packets, Delete(g) PROVE TypeOK'
  BY <1>9 DEF Delete, Unlock, Step, remoteVars, Copies, Routed
<1>10. ASSUME NEW g \in Packets, OpenStream(g) PROVE TypeOK'
  BY <1>10 DEF OpenStream, Step
<1>11. ASSUME NEW g \in Packets, OpenFails(g) PROVE TypeOK'
  BY <1>11 DEF OpenFails, Step, remoteVars
<1>12. ASSUME NEW g \in Packets, FirstDeadline(g) PROVE TypeOK'
  BY <1>12 DEF FirstDeadline, Step, remoteVars
<1>13. ASSUME NEW g \in Packets, FirstLen(g) PROVE TypeOK'
  <2>1. wire' \in [Streams -> Seq(Parts)]
    BY <1>13, WriteAppends DEF FirstLen, Step
  <2> QED BY <1>13, <2>1 DEF FirstLen, Write, Step, remoteVars
<1>14. ASSUME NEW g \in Packets, FirstBody(g) PROVE TypeOK'
  <2>1. wire' \in [Streams -> Seq(Parts)]
    BY <1>14, WriteAppends DEF FirstBody, Step
  <2> QED BY <1>14, <2>1 DEF FirstBody, Write, Step, remoteVars
<1>15. ASSUME NEW g \in Packets, FirstFails(g) PROVE TypeOK'
  BY <1>15 DEF FirstFails, CloseConn, Step, remoteVars
<1>16. ASSUME NEW g \in Packets, Publish(g) PROVE TypeOK'
  BY <1>16 DEF Publish, Step, remoteVars, Routed
<1>17. CASE MapFatal
  BY <1>17 DEF MapFatal, remoteVars
<1>18. ASSUME NEW s \in Streams, NetworkReset(s) PROVE TypeOK'
  BY <1>18 DEF NetworkReset, localVars, remoteVars
<1>19. ASSUME NEW s \in Streams, Accept(s) PROVE TypeOK'
  BY <1>19 DEF Accept, localVars
<1>20. ASSUME NEW s \in Streams, ReadLen(s) PROVE TypeOK'
  BY <1>20 DEF ReadLen, localVars
<1>21. ASSUME NEW s \in Streams, ReadBody(s) PROVE TypeOK'
  <2>1. wire' \in [Streams -> Seq(Parts)]
    BY <1>21, ConsumeDrops DEF ReadBody
  <2>2. wire[s][1] \in Parts
    BY <1>21, ElementOfSeq, LenProperties DEF ReadBody
  <2>3. Decode(wire[s][1], wire[s][2]) \in Frames
    BY <2>2 DEF Decode, Parts
  <2>4. inbox' \in [Peers -> [Frames -> Nat]]
    <3> DEFINE f == Decode(wire[s][1], wire[s][2])
    <3>1. inbox' = [inbox EXCEPT ![Dst[s]][f] = @ + 1]
      BY <1>21 DEF ReadBody
    <3>2. f \in Frames
      BY <2>3
    <3> HIDE DEF f
    <3>3. CASE Dst[s] \in Peers
      <4>1. inbox[Dst[s]] \in [Frames -> Nat]
        BY <3>3
      <4>2. [inbox[Dst[s]] EXCEPT ![f] = @ + 1] \in [Frames -> Nat]
        BY <3>2, <4>1
      <4> QED BY <3>1, <3>3, <4>2
    <3>4. CASE Dst[s] \notin Peers
      BY <3>1, <3>4
    <3> QED BY <3>3, <3>4
  <2> QED BY <1>21, <2>1, <2>4 DEF ReadBody, localVars
<1>22. ASSUME NEW s \in Streams, HandlerFails(s) PROVE TypeOK'
  <2>1. wire' \in [Streams -> Seq(Parts)]
    BY <1>22, ConsumeDrops DEF HandlerFails
  <2> QED BY <1>22, <2>1 DEF HandlerFails, localVars
<1>23. ASSUME NEW s \in Streams, ReadFails(s) PROVE TypeOK'
  BY <1>23 DEF ReadFails, localVars
<1>24. ASSUME NEW q \in Peers, Admit(q) PROVE TypeOK'
  BY <1>24 DEF Admit, localVars
<1>25. CASE UNCHANGED vars
  BY <1>25 DEF vars
<1> QED
  BY <1>1, <1>2, <1>3, <1>4, <1>5, <1>6, <1>7, <1>8, <1>9, <1>10, <1>11,
     <1>12, <1>13, <1>14, <1>15, <1>16, <1>17, <1>18, <1>19, <1>20, <1>21,
     <1>22, <1>23, <1>24, <1>25 DEF Next, Send, Handle
-----------------------------------------------------------------------------
(* The control part of the invariant.                                      *)

\* The network, the peers and their operators do not touch the sender.
Remote == \/ \E s \in Streams : NetworkReset(s) \/ Handle(s) \/ HandlerFails(s)
          \/ \E q \in Peers : Admit(q)

\* The network and the remote handlers do not touch this node's variables.
LEMMA RemoteKeepsLocal == Remote => UNCHANGED localVars
BY DEF Remote, NetworkReset, Handle, Accept, ReadLen, ReadBody, ReadFails,
       HandlerFails, Admit, localVars

\* Only packets with a route leave UpRun's loop.
LEMMA RoutedStep == IInv /\ [Next]_vars => Routed'
<1> SUFFICES ASSUME IInv, [Next]_vars PROVE Routed'
  OBVIOUS
<1> USE DstAssumption, DistinctAssumption DEF IInv, TypeOK, Routed
<1>1. ASSUME NEW g \in Packets, Arrive(g) PROVE Routed'
  BY <1>1 DEF Arrive, Step, remoteVars
<1>2. ASSUME NEW g \in Packets, Lookup(g) PROVE Routed'
  BY <1>2 DEF Lookup, Step, remoteVars
<1>3. ASSUME NEW g \in Packets, Acquire(g) PROVE Routed'
  BY <1>3 DEF Acquire, Step, remoteVars
<1>4. ASSUME NEW g \in Packets, WriteLen(g) PROVE Routed'
  BY <1>4 DEF WriteLen, Write, Step, remoteVars
<1>5. ASSUME NEW g \in Packets, WriteBody(g) PROVE Routed'
  BY <1>5 DEF WriteBody, Write, Step, remoteVars
<1>6. ASSUME NEW g \in Packets, Reused(g) PROVE Routed'
  BY <1>6 DEF Reused, Unlock, Step, remoteVars
<1>7. ASSUME NEW g \in Packets, ReuseFails(g) PROVE Routed'
  BY <1>7 DEF ReuseFails, Step, remoteVars
<1>8. ASSUME NEW g \in Packets, CloseStream(g) PROVE Routed'
  BY <1>8 DEF CloseStream, CloseConn, Step, remoteVars
<1>9. ASSUME NEW g \in Packets, Delete(g) PROVE Routed'
  BY <1>9 DEF Delete, Unlock, Step, remoteVars
<1>10. ASSUME NEW g \in Packets, OpenStream(g) PROVE Routed'
  BY <1>10 DEF OpenStream, Step
<1>11. ASSUME NEW g \in Packets, OpenFails(g) PROVE Routed'
  BY <1>11 DEF OpenFails, Step, remoteVars
<1>12. ASSUME NEW g \in Packets, FirstDeadline(g) PROVE Routed'
  BY <1>12 DEF FirstDeadline, Step, remoteVars
<1>13. ASSUME NEW g \in Packets, FirstLen(g) PROVE Routed'
  BY <1>13 DEF FirstLen, Write, Step, remoteVars
<1>14. ASSUME NEW g \in Packets, FirstBody(g) PROVE Routed'
  BY <1>14 DEF FirstBody, Write, Step, remoteVars
<1>15. ASSUME NEW g \in Packets, FirstFails(g) PROVE Routed'
  BY <1>15 DEF FirstFails, CloseConn, Step, remoteVars
<1>16. ASSUME NEW g \in Packets, Publish(g) PROVE Routed'
  BY <1>16 DEF Publish, Step, remoteVars
<1>17. CASE MapFatal
  BY <1>17 DEF MapFatal, remoteVars
<1>18. CASE Remote
  BY <1>18, RemoteKeepsLocal DEF localVars
<1>19. CASE UNCHANGED vars
  BY <1>19 DEF vars
<1> QED
  BY <1>1, <1>2, <1>3, <1>4, <1>5, <1>6, <1>7, <1>8, <1>9, <1>10, <1>11,
     <1>12, <1>13, <1>14, <1>15, <1>16, <1>17, <1>18, <1>19 DEF Next, Send, Remote

\* Entries are made by Publish and otherwise only removed.
LEMMA EntriesStep == IInv /\ [Next]_vars => Entries'
<1> SUFFICES ASSUME IInv, [Next]_vars PROVE Entries'
  OBVIOUS
<1> USE DstAssumption, DistinctAssumption DEF IInv, TypeOK, Routed, Entries, Copies, Opening
<1>1. ASSUME NEW g \in Packets, Arrive(g) PROVE Entries'
  BY <1>1 DEF Arrive, Step, remoteVars
<1>2. ASSUME NEW g \in Packets, Lookup(g) PROVE Entries'
  BY <1>2 DEF Lookup, Step, remoteVars
<1>3. ASSUME NEW g \in Packets, Acquire(g) PROVE Entries'
  BY <1>3 DEF Acquire, Step, remoteVars
<1>4. ASSUME NEW g \in Packets, WriteLen(g) PROVE Entries'
  BY <1>4 DEF WriteLen, Write, Step, remoteVars
<1>5. ASSUME NEW g \in Packets, WriteBody(g) PROVE Entries'
  BY <1>5 DEF WriteBody, Write, Step, remoteVars
<1>6. ASSUME NEW g \in Packets, Reused(g) PROVE Entries'
  BY <1>6 DEF Reused, Unlock, Step, remoteVars
<1>7. ASSUME NEW g \in Packets, ReuseFails(g) PROVE Entries'
  BY <1>7 DEF ReuseFails, Step, remoteVars
<1>8. ASSUME NEW g \in Packets, CloseStream(g) PROVE Entries'
  BY <1>8 DEF CloseStream, CloseConn, Step, remoteVars
<1>9. ASSUME NEW g \in Packets, Delete(g) PROVE Entries'
  BY <1>9 DEF Delete, Unlock, Step, remoteVars
<1>10. ASSUME NEW g \in Packets, OpenStream(g) PROVE Entries'
  BY <1>10 DEF OpenStream, Step
<1>11. ASSUME NEW g \in Packets, OpenFails(g) PROVE Entries'
  BY <1>11 DEF OpenFails, Step, remoteVars
<1>12. ASSUME NEW g \in Packets, FirstDeadline(g) PROVE Entries'
  BY <1>12 DEF FirstDeadline, Step, remoteVars
<1>13. ASSUME NEW g \in Packets, FirstLen(g) PROVE Entries'
  BY <1>13 DEF FirstLen, Write, Step, remoteVars
<1>14. ASSUME NEW g \in Packets, FirstBody(g) PROVE Entries'
  BY <1>14 DEF FirstBody, Write, Step, remoteVars
<1>15. ASSUME NEW g \in Packets, FirstFails(g) PROVE Entries'
  BY <1>15 DEF FirstFails, CloseConn, Step, remoteVars
<1>16. ASSUME NEW g \in Packets, Publish(g) PROVE Entries'
  BY <1>16 DEF Publish, Step, remoteVars
<1>17. CASE MapFatal
  BY <1>17 DEF MapFatal, remoteVars
<1>18. CASE Remote
  BY <1>18, RemoteKeepsLocal DEF localVars
<1>19. CASE UNCHANGED vars
  BY <1>19 DEF vars
<1> QED
  BY <1>1, <1>2, <1>3, <1>4, <1>5, <1>6, <1>7, <1>8, <1>9, <1>10, <1>11,
     <1>12, <1>13, <1>14, <1>15, <1>16, <1>17, <1>18, <1>19 DEF Next, Send, Remote

\* Between two looks at the map nothing makes a copy point elsewhere, and
\* the mutex excludes the other copies of the same stream.
LEMMA CopiesStep == IInv /\ [Next]_vars => Copies'
<1> SUFFICES ASSUME IInv, [Next]_vars PROVE Copies'
  OBVIOUS
<1> USE DstAssumption, DistinctAssumption DEF IInv, TypeOK, Routed, Entries, Copies
<1>1. ASSUME NEW g \in Packets, Arrive(g) PROVE Copies'
  BY <1>1 DEF Arrive, Step, remoteVars
<1>2. ASSUME NEW g \in Packets, Lookup(g) PROVE Copies'
  <2>1. /\ pc[g] = "lookup" /\ Dst[g] \in Peers
        /\ ms' = [ms EXCEPT ![g] = activeStreams[Dst[g]]]
        /\ UNCHANGED lock
    BY <1>2 DEF Lookup, Step
  <2>2. CASE activeStreams[Dst[g]] = NoStream
    BY <1>2, <2>1, <2>2 DEF Lookup, Step
  <2>3. CASE activeStreams[Dst[g]] # NoStream
    BY <1>2, <2>1, <2>3 DEF Lookup, Step
  <2> QED BY <2>2, <2>3
<1>3. ASSUME NEW g \in Packets, Acquire(g) PROVE Copies'
  BY <1>3 DEF Acquire, Step, remoteVars
<1>4. ASSUME NEW g \in Packets, WriteLen(g) PROVE Copies'
  BY <1>4 DEF WriteLen, Write, Step, remoteVars
<1>5. ASSUME NEW g \in Packets, WriteBody(g) PROVE Copies'
  BY <1>5 DEF WriteBody, Write, Step, remoteVars
<1>6. ASSUME NEW g \in Packets, Reused(g) PROVE Copies'
  BY <1>6 DEF Reused, Unlock, Step, remoteVars
<1>7. ASSUME NEW g \in Packets, ReuseFails(g) PROVE Copies'
  BY <1>7 DEF ReuseFails, Step, remoteVars
<1>8. ASSUME NEW g \in Packets, CloseStream(g) PROVE Copies'
  BY <1>8 DEF CloseStream, CloseConn, Step, remoteVars
<1>9. ASSUME NEW g \in Packets, Delete(g) PROVE Copies'
  BY <1>9 DEF Delete, Unlock, Step, remoteVars
<1>10. ASSUME NEW g \in Packets, OpenStream(g) PROVE Copies'
  BY <1>10 DEF OpenStream, Step
<1>11. ASSUME NEW g \in Packets, OpenFails(g) PROVE Copies'
  BY <1>11 DEF OpenFails, Step, remoteVars
<1>12. ASSUME NEW g \in Packets, FirstDeadline(g) PROVE Copies'
  BY <1>12 DEF FirstDeadline, Step, remoteVars
<1>13. ASSUME NEW g \in Packets, FirstLen(g) PROVE Copies'
  BY <1>13 DEF FirstLen, Write, Step, remoteVars
<1>14. ASSUME NEW g \in Packets, FirstBody(g) PROVE Copies'
  BY <1>14 DEF FirstBody, Write, Step, remoteVars
<1>15. ASSUME NEW g \in Packets, FirstFails(g) PROVE Copies'
  BY <1>15 DEF FirstFails, CloseConn, Step, remoteVars
<1>16. ASSUME NEW g \in Packets, Publish(g) PROVE Copies'
  BY <1>16 DEF Publish, Step, remoteVars
<1>17. CASE MapFatal
  BY <1>17 DEF MapFatal, remoteVars
<1>18. CASE Remote
  BY <1>18, RemoteKeepsLocal DEF localVars
<1>19. CASE UNCHANGED vars
  BY <1>19 DEF vars
<1> QED
  BY <1>1, <1>2, <1>3, <1>4, <1>5, <1>6, <1>7, <1>8, <1>9, <1>10, <1>11,
     <1>12, <1>13, <1>14, <1>15, <1>16, <1>17, <1>18, <1>19 DEF Next, Send, Remote

\* A stream is touched by its opener alone until it is published.
LEMMA OpeningStep == IInv /\ [Next]_vars => Opening'
<1> SUFFICES ASSUME IInv, [Next]_vars PROVE Opening'
  OBVIOUS
<1> USE DstAssumption, DistinctAssumption DEF IInv, TypeOK, Entries, Copies, Opening
<1>1. ASSUME NEW g \in Packets, Arrive(g) PROVE Opening'
  BY <1>1 DEF Arrive, Step, remoteVars
<1>2. ASSUME NEW g \in Packets, Lookup(g) PROVE Opening'
  BY <1>2 DEF Lookup, Step, remoteVars
<1>3. ASSUME NEW g \in Packets, Acquire(g) PROVE Opening'
  BY <1>3 DEF Acquire, Step, remoteVars
<1>4. ASSUME NEW g \in Packets, WriteLen(g) PROVE Opening'
  BY <1>4 DEF WriteLen, Write, Step, remoteVars
<1>5. ASSUME NEW g \in Packets, WriteBody(g) PROVE Opening'
  BY <1>5 DEF WriteBody, Write, Step, remoteVars
<1>6. ASSUME NEW g \in Packets, Reused(g) PROVE Opening'
  BY <1>6 DEF Reused, Unlock, Step, remoteVars
<1>7. ASSUME NEW g \in Packets, ReuseFails(g) PROVE Opening'
  BY <1>7 DEF ReuseFails, Step, remoteVars
<1>8. ASSUME NEW g \in Packets, CloseStream(g) PROVE Opening'
  BY <1>8 DEF CloseStream, CloseConn, Step, remoteVars
<1>9. ASSUME NEW g \in Packets, Delete(g) PROVE Opening'
  BY <1>9 DEF Delete, Unlock, Step, remoteVars
<1>10. ASSUME NEW g \in Packets, OpenStream(g) PROVE Opening'
  BY <1>10 DEF OpenStream, Step
<1>11. ASSUME NEW g \in Packets, OpenFails(g) PROVE Opening'
  BY <1>11 DEF OpenFails, Step, remoteVars
<1>12. ASSUME NEW g \in Packets, FirstDeadline(g) PROVE Opening'
  BY <1>12 DEF FirstDeadline, Step, remoteVars
<1>13. ASSUME NEW g \in Packets, FirstLen(g) PROVE Opening'
  BY <1>13 DEF FirstLen, Write, Step, remoteVars
<1>14. ASSUME NEW g \in Packets, FirstBody(g) PROVE Opening'
  BY <1>14 DEF FirstBody, Write, Step, remoteVars
<1>15. ASSUME NEW g \in Packets, FirstFails(g) PROVE Opening'
  BY <1>15 DEF FirstFails, CloseConn, Step, remoteVars
<1>16. ASSUME NEW g \in Packets, Publish(g) PROVE Opening'
  BY <1>16 DEF Publish, Step, remoteVars
<1>17. CASE MapFatal
  BY <1>17 DEF MapFatal, remoteVars
<1>18. ASSUME NEW s \in Streams, NetworkReset(s) PROVE Opening'
  BY <1>18 DEF NetworkReset, localVars, remoteVars
<1>19. ASSUME NEW s \in Streams, Accept(s) PROVE Opening'
  BY <1>19 DEF Accept, localVars
<1>20. ASSUME NEW s \in Streams, ReadLen(s) PROVE Opening'
  BY <1>20 DEF ReadLen, localVars
<1>21. ASSUME NEW s \in Streams, ReadBody(s) PROVE Opening'
  <2>1. \A t \in Streams : rx[t] = "none" => wire'[t] = wire[t] /\ rx'[t] = "none"
    <3>1. /\ Len(wire[s]) >= 2 /\ Consume(s) /\ rx[s] = "body"
          /\ rx' = [rx EXCEPT ![s] = "len"]
      BY <1>21 DEF ReadBody
    <3>2. \A t \in Streams \ {s} : wire'[t] = wire[t]
      BY <3>1, ConsumeDrops
    <3> QED BY <3>1, <3>2
  <2> QED BY <1>21, <2>1 DEF ReadBody, localVars
<1>22. ASSUME NEW s \in Streams, HandlerFails(s) PROVE Opening'
  <2>1. \A t \in Streams : rx[t] = "none" => wire'[t] = wire[t] /\ rx'[t] = "none"
    <3>1. /\ Len(wire[s]) >= 2 /\ Consume(s) /\ rx[s] = "body"
          /\ rx' = [rx EXCEPT ![s] = "failed"]
      BY <1>22 DEF HandlerFails
    <3>2. \A t \in Streams \ {s} : wire'[t] = wire[t]
      BY <3>1, ConsumeDrops
    <3> QED BY <3>1, <3>2
  <2> QED BY <1>22, <2>1 DEF HandlerFails, localVars
<1>23. ASSUME NEW s \in Streams, ReadFails(s) PROVE Opening'
  BY <1>23 DEF ReadFails, localVars
<1>24. ASSUME NEW q \in Peers, Admit(q) PROVE Opening'
  BY <1>24 DEF Admit, localVars
<1>25. CASE UNCHANGED vars
  BY <1>25 DEF vars
<1> QED
  BY <1>1, <1>2, <1>3, <1>4, <1>5, <1>6, <1>7, <1>8, <1>9, <1>10, <1>11,
     <1>12, <1>13, <1>14, <1>15, <1>16, <1>17, <1>18, <1>19, <1>20, <1>21, <1>22,
     <1>23, <1>24, <1>25 DEF Next, Send, Handle

\* The goroutine that closes a stream still has the deletion ahead of it.
LEMMA NoDeadEntryStep == IInv /\ [Next]_vars => NoDeadEntry'
<1> SUFFICES ASSUME IInv, [Next]_vars PROVE NoDeadEntry'
  OBVIOUS
<1> USE DstAssumption, DistinctAssumption DEF IInv, TypeOK, Entries, Copies, Opening, NoDeadEntry
<1>1. ASSUME NEW g \in Packets, Arrive(g) PROVE NoDeadEntry'
  BY <1>1 DEF Arrive, Step, remoteVars
<1>2. ASSUME NEW g \in Packets, Lookup(g) PROVE NoDeadEntry'
  BY <1>2 DEF Lookup, Step, remoteVars
<1>3. ASSUME NEW g \in Packets, Acquire(g) PROVE NoDeadEntry'
  BY <1>3 DEF Acquire, Step, remoteVars
<1>4. ASSUME NEW g \in Packets, WriteLen(g) PROVE NoDeadEntry'
  BY <1>4 DEF WriteLen, Write, Step, remoteVars
<1>5. ASSUME NEW g \in Packets, WriteBody(g) PROVE NoDeadEntry'
  BY <1>5 DEF WriteBody, Write, Step, remoteVars
<1>6. ASSUME NEW g \in Packets, Reused(g) PROVE NoDeadEntry'
  BY <1>6 DEF Reused, Unlock, Step, remoteVars
<1>7. ASSUME NEW g \in Packets, ReuseFails(g) PROVE NoDeadEntry'
  BY <1>7 DEF ReuseFails, Step, remoteVars
<1>8. ASSUME NEW g \in Packets, CloseStream(g) PROVE NoDeadEntry'
  BY <1>8 DEF CloseStream, CloseConn, Step, remoteVars
<1>9. ASSUME NEW g \in Packets, Delete(g) PROVE NoDeadEntry'
  BY <1>9 DEF Delete, Unlock, Step, remoteVars
<1>10. ASSUME NEW g \in Packets, OpenStream(g) PROVE NoDeadEntry'
  BY <1>10 DEF OpenStream, Step
<1>11. ASSUME NEW g \in Packets, OpenFails(g) PROVE NoDeadEntry'
  BY <1>11 DEF OpenFails, Step, remoteVars
<1>12. ASSUME NEW g \in Packets, FirstDeadline(g) PROVE NoDeadEntry'
  BY <1>12 DEF FirstDeadline, Step, remoteVars
<1>13. ASSUME NEW g \in Packets, FirstLen(g) PROVE NoDeadEntry'
  BY <1>13 DEF FirstLen, Write, Step, remoteVars
<1>14. ASSUME NEW g \in Packets, FirstBody(g) PROVE NoDeadEntry'
  BY <1>14 DEF FirstBody, Write, Step, remoteVars
<1>15. ASSUME NEW g \in Packets, FirstFails(g) PROVE NoDeadEntry'
  BY <1>15 DEF FirstFails, CloseConn, Step, remoteVars
<1>16. ASSUME NEW g \in Packets, Publish(g) PROVE NoDeadEntry'
  BY <1>16 DEF Publish, Step, remoteVars
<1>17. CASE MapFatal
  BY <1>17 DEF MapFatal, remoteVars
<1>18. ASSUME NEW s \in Streams, NetworkReset(s) PROVE NoDeadEntry'
  BY <1>18 DEF NetworkReset, localVars, remoteVars
<1>19. ASSUME NEW s \in Streams, Accept(s) PROVE NoDeadEntry'
  BY <1>19 DEF Accept, localVars
<1>20. ASSUME NEW s \in Streams, ReadLen(s) PROVE NoDeadEntry'
  BY <1>20 DEF ReadLen, localVars
<1>21. ASSUME NEW s \in Streams, ReadBody(s) PROVE NoDeadEntry'
  BY <1>21 DEF ReadBody, localVars
<1>22. ASSUME NEW s \in Streams, HandlerFails(s) PROVE NoDeadEntry'
  BY <1>22 DEF HandlerFails, localVars
<1>23. ASSUME NEW s \in Streams, ReadFails(s) PROVE NoDeadEntry'
  BY <1>23 DEF ReadFails, localVars
<1>24. ASSUME NEW q \in Peers, Admit(q) PROVE NoDeadEntry'
  BY <1>24 DEF Admit, localVars
<1>25. CASE UNCHANGED vars
  BY <1>25 DEF vars
<1> QED
  BY <1>1, <1>2, <1>3, <1>4, <1>5, <1>6, <1>7, <1>8, <1>9, <1>10, <1>11,
     <1>12, <1>13, <1>14, <1>15, <1>16, <1>17, <1>18, <1>19, <1>20, <1>21, <1>22,
     <1>23, <1>24, <1>25 DEF Next, Send, Handle

-----------------------------------------------------------------------------
(* The wire part of the invariant.                                         *)

\* Odd positions hold lengths, even ones bodies.
LEMMA Parity ==
  \A n \in Nat : /\ n % 2 \in {0, 1}
                 /\ n % 2 = 0 => (n + 1) % 2 = 1
                 /\ n % 2 = 1 => (n + 1) % 2 = 0 /\ n >= 1
                 /\ (n + 2) % 2 = n % 2
                 /\ n >= 2 => (n - 2) % 2 = n % 2
                 /\ n % 2 = 0 /\ n >= 1 => n >= 2
OBVIOUS

\* A goroutine that was given a route keeps being past the lookup.
LEMMA NoReturn ==
  ASSUME IInv, [Next]_vars, NEW p \in Packets, pc[p] \notin {"idle", "noRoute"}
  PROVE  pc'[p] \notin {"idle", "noRoute"}
<1> USE DstAssumption DEF IInv, TypeOK, Routed
<1>1. CASE \E g \in Packets : Arrive(g) \/ Send(g)
  BY <1>1 DEF Arrive, Send, Lookup, Acquire, WriteLen, WriteBody, Reused,
     ReuseFails, CloseStream, Delete, OpenStream, OpenFails, FirstDeadline,
     FirstLen, FirstBody, FirstFails, Publish, Step
<1>2. CASE MapFatal
  BY <1>2 DEF MapFatal
<1>3. CASE Remote
  BY <1>3, RemoteKeepsLocal DEF localVars
<1>4. CASE UNCHANGED vars
  BY <1>4 DEF vars
<1> QED
  BY <1>1, <1>2, <1>3, <1>4 DEF Next, Remote

\* Who may write to a stream, and what the wire ends with at that moment:
\* the mutex keeps every other goroutine from the stream.
LEMMA WriterAlone ==
  ASSUME IInv, NEW g \in Packets
  PROVE  /\ pc[g] = "writeLen" /\ conn[ms[g]] = "open"
              => ms[g] \in Streams /\ Len(wire[ms[g]]) % 2 = 0
         /\ pc[g] = "writeBody" => ms[g] \in Streams /\ HalfWritten(g, ms[g])
         /\ pc[g] = "firstLen" /\ conn[g] = "open" => Len(wire[g]) % 2 = 0
         /\ pc[g] = "firstBody" => HalfWritten(g, g)
<1> USE DEF IInv, TypeOK
<1>1. pc[g] = "writeLen" => ms[g] \in Streams /\ ~InHand(ms[g])
  BY DEF Copies, InHand
<1>2. pc[g] = "firstLen" => ~InHand(g)
  BY DEF Copies, InHand
<1>3. \A s \in Streams : conn[s] = "open" /\ ~InHand(s) => Len(wire[s]) % 2 = 0
  BY DEF Whole
<1>4. pc[g] = "writeBody" => ms[g] \in Streams /\ HalfWritten(g, ms[g])
  BY DEF Writing, Copies
<1>5. pc[g] = "firstBody" => HalfWritten(g, g)
  BY DEF Writing
<1> QED
  BY <1>1, <1>2, <1>3, <1>4, <1>5, Zenon

\* Each of the four writes appends the part that is due.
Due(g, s, part) ==
  /\ Write(g, s, part)
  /\ s = IF pc[g] \in {"firstLen", "firstBody"} THEN g ELSE ms[g]
  /\ Dst[s] = Dst[g]
  /\ IF part = "len"
     THEN /\ Len(wire[s]) % 2 = 0
          /\ pc[g] \in {"writeLen", "firstLen"}
          /\ pc'[g] \in {"writeBody", "firstBody"}
     ELSE /\ HalfWritten(g, s)
          /\ pc[g] \in {"writeBody", "firstBody"}
          /\ pc'[g] \in {"deadline", "publish"}

\* Every write of sendPacket is one of the writes that Due describes.
LEMMA EachWrite ==
  ASSUME IInv, NEW g \in Packets,
         WriteLen(g) \/ WriteBody(g) \/ FirstLen(g) \/ FirstBody(g)
  PROVE  \E s \in Streams, part \in {"len", "body"} : Due(g, s, part)
<1> USE DEF IInv, TypeOK
<1>1. CASE WriteLen(g)
  <2>1. /\ pc[g] = "writeLen" /\ conn[ms[g]] = "open" /\ Write(g, ms[g], "len")
        /\ pc'[g] = "writeBody"
    BY <1>1 DEF WriteLen, Step, Write
  <2> QED BY <2>1, WriterAlone DEF Copies, Due
<1>2. CASE WriteBody(g)
  <2>1. /\ pc[g] = "writeBody" /\ conn[ms[g]] = "open" /\ Write(g, ms[g], "body")
        /\ pc'[g] = "deadline"
    BY <1>2 DEF WriteBody, Step, Write
  <2> QED BY <2>1, WriterAlone DEF Copies, Due
<1>3. CASE FirstLen(g)
  <2>1. /\ pc[g] = "firstLen" /\ conn[g] = "open" /\ Write(g, g, "len")
        /\ pc'[g] = "firstBody"
    BY <1>3 DEF FirstLen, Step, Write
  <2> QED BY <2>1, WriterAlone DEF Due
<1>4. CASE FirstBody(g)
  <2>1. /\ pc[g] = "firstBody" /\ conn[g] = "open" /\ Write(g, g, "body")
        /\ pc'[g] = "publish"
    BY <1>4 DEF FirstBody, Step, Write
  <2> QED BY <2>1, WriterAlone DEF Due
<1> QED
  BY <1>1, <1>2, <1>3, <1>4

\* All other steps either leave the wires alone or consume one frame.
LEMMA WireChanges ==
  ASSUME [Next]_vars
  PROVE  \/ \E g \in Packets :
              WriteLen(g) \/ WriteBody(g) \/ FirstLen(g) \/ FirstBody(g)
         \/ \E s \in Streams : /\ Len(wire[s]) >= 2 /\ Consume(s)
                              /\ UNCHANGED <<localVars, conn>>
         \/ UNCHANGED wire
BY DEF Next, vars, Arrive, Send, Lookup, Acquire, Reused, ReuseFails,
   CloseStream, Delete, OpenStream, OpenFails, FirstDeadline, FirstFails,
   Publish, MapFatal, NetworkReset, Handle, Accept, ReadLen, ReadBody,
   ReadFails, HandlerFails, Admit, localVars, remoteVars

\* Appending the part that is due and dropping a frame keep the alternation.
LEMMA FramedStep == IInv /\ [Next]_vars => Framed'
<1> SUFFICES ASSUME IInv, [Next]_vars PROVE Framed'
  OBVIOUS
<1> USE DEF IInv
<1>0. wire \in [Streams -> Seq(Parts)] /\ \A s \in Streams : Len(wire[s]) \in Nat
  BY LenProperties DEF TypeOK
<1>1. ASSUME NEW g \in Packets,
             WriteLen(g) \/ WriteBody(g) \/ FirstLen(g) \/ FirstBody(g)
      PROVE  Framed'
  <2>1. PICK s \in Streams, part \in {"len", "body"} : Due(g, s, part)
    BY <1>1, EachWrite
  <2>2. /\ Len(wire'[s]) = Len(wire[s]) + 1
        /\ \A i \in 1..Len(wire[s]) : wire'[s][i] = wire[s][i]
        /\ wire'[s][Len(wire[s]) + 1] = Part(g, part)
        /\ \A t \in Streams \ {s} : wire'[t] = wire[t]
    BY <2>1, WriteAppends DEF Due
  <2>3. ASSUME NEW t \in Streams, NEW i \in 1..Len(wire'[t])
        PROVE  /\ wire'[t][i].part = IF i % 2 = 1 THEN "len" ELSE "body"
               /\ i % 2 = 0 => wire'[t][i].pkt = wire'[t][i - 1].pkt
    <3>1. CASE t # s
      BY <2>2, <2>3, <3>1 DEF Framed
    <3>2. CASE t = s /\ i <= Len(wire[s])
      <4>1. i \in 1..Len(wire[s]) /\ wire'[s][i] = wire[s][i]
        BY <1>0, <2>2, <2>3, <3>2
      <4>2. i % 2 = 0 => wire'[s][i - 1] = wire[s][i - 1]
        <5>1. i % 2 = 0 => i - 1 \in 1..Len(wire[s])
          BY <1>0, <4>1, Parity
        <5> QED BY <2>2, <5>1
      <4> QED BY <3>2, <4>1, <4>2 DEF Framed
    <3>3. CASE t = s /\ i = Len(wire[s]) + 1
      <4>0. Len(wire[s]) \in Nat /\ i \in Nat /\ i - 1 = Len(wire[s])
        BY <1>0, <3>3
      <4>1. wire'[s][i].part = part /\ wire'[s][i].pkt = g
        BY <2>2, <3>3 DEF Part
      <4>2. CASE part = "len"
        <5>1. i % 2 = 1
          BY <2>1, <3>3, <4>0, <4>2, Parity DEF Due
        <5>2. i % 2 # 0
          BY <5>1
        <5> QED BY <3>3, <4>1, <4>2, <5>1, <5>2, Zenon
      <4>3. CASE part = "body"
        <5>1. Len(wire[s]) % 2 = 1 /\ wire[s][Len(wire[s])].pkt = g
          BY <2>1, <4>3 DEF HalfWritten, Due
        <5>2. (Len(wire[s]) + 1) % 2 = 0 /\ Len(wire[s]) \in 1..Len(wire[s])
          <6> DEFINE n == Len(wire[s])
          <6>1. n \in Nat /\ n % 2 = 1
            BY <4>0, <5>1
          <6> HIDE DEF n
          <6>2. (n + 1) % 2 = 0 /\ n \in 1..n
            BY <6>1, Parity
          <6> QED BY <6>2 DEF n
        <5>3. wire'[s][i - 1].pkt = g
          BY <2>2, <4>0, <5>1, <5>2
        <5>4. i % 2 = 0
          <6>1. i = Len(wire[s]) + 1 /\ (Len(wire[s]) + 1) % 2 = 0
            BY <3>3, <5>2
          <6> QED BY ONLY <6>1, Zenon
        <5>5. i % 2 # 1
          BY ONLY <5>4
        <5> QED BY <3>3, <4>1, <4>3, <5>3, <5>5, Zenon
      <4> QED BY <4>2, <4>3
    <3> QED BY <1>0, <2>2, <2>3, <3>1, <3>2, <3>3
  <2> QED BY <2>3 DEF Framed
<1>2. ASSUME NEW s \in Streams, Len(wire[s]) >= 2, Consume(s)
      PROVE  Framed'
  <2>1. /\ Len(wire'[s]) = Len(wire[s]) - 2
        /\ \A i \in 1..Len(wire'[s]) : wire'[s][i] = wire[s][i + 2]
        /\ \A t \in Streams \ {s} : wire'[t] = wire[t]
    BY <1>2, ConsumeDrops
  <2>2. ASSUME NEW t \in Streams, NEW i \in 1..Len(wire'[t])
        PROVE  /\ wire'[t][i].part = IF i % 2 = 1 THEN "len" ELSE "body"
               /\ i % 2 = 0 => wire'[t][i].pkt = wire'[t][i - 1].pkt
    <3>1. CASE t # s
      BY <2>1, <2>2, <3>1 DEF Framed
    <3>2. CASE t = s
      <4>1. /\ i + 2 \in 1..Len(wire[s]) /\ (i + 2) % 2 = i % 2
            /\ wire'[s][i] = wire[s][i + 2]
        BY <1>0, <1>2, <2>1, <3>2
      <4>2. i % 2 = 0 => /\ i - 1 \in 1..Len(wire'[s])
                         /\ (i - 1) + 2 = (i + 2) - 1
        <5>1. i \in Nat /\ i >= 1 /\ i <= Len(wire'[s])
          BY <1>0, <1>2, <2>1, <3>2
        <5> QED BY <1>0, <1>2, <2>1, <5>1, Parity
      <4>3. i % 2 = 0 => wire'[s][i - 1] = wire[s][(i + 2) - 1]
        BY <2>1, <4>2
      <4> QED BY <3>2, <4>1, <4>3 DEF Framed
    <3> QED BY <3>1, <3>2
  <2> QED BY <2>2 DEF Framed
<1>3. CASE UNCHANGED wire
  BY <1>3 DEF Framed
<1> QED
  BY <1>1, <1>2, <1>3, WireChanges

\* What is written is the writer's own packet, to the stream's peer.
LEMMA AddressedStep == IInv /\ [Next]_vars => Addressed'
<1> SUFFICES ASSUME IInv, [Next]_vars PROVE Addressed'
  OBVIOUS
<1> USE DEF IInv
<1>0. wire \in [Streams -> Seq(Parts)] /\ \A s \in Streams : Len(wire[s]) \in Nat
  BY LenProperties DEF TypeOK
<1>1. \A s \in Streams : \A i \in 1..Len(wire[s]) : wire[s][i].pkt \in Packets
  <2> TAKE s \in Streams
  <2> TAKE i \in 1..Len(wire[s])
  <2>1. wire[s][i] \in Parts
    BY <1>0, ElementOfSeq
  <2> QED BY <2>1 DEF Parts
<1>2. \A s \in Streams : \A i \in 1..Len(wire[s]) :
        /\ pc'[wire[s][i].pkt] \notin {"idle", "noRoute"}
        /\ Dst[wire[s][i].pkt] = Dst[s]
  BY <1>1, NoReturn DEF Addressed
<1>3. ASSUME NEW g \in Packets,
             WriteLen(g) \/ WriteBody(g) \/ FirstLen(g) \/ FirstBody(g)
      PROVE  Addressed'
  <2>1. PICK s \in Streams, part \in {"len", "body"} : Due(g, s, part)
    BY <1>3, EachWrite
  <2>2. /\ Len(wire'[s]) = Len(wire[s]) + 1
        /\ \A i \in 1..Len(wire[s]) : wire'[s][i] = wire[s][i]
        /\ wire'[s][Len(wire[s]) + 1].pkt = g
        /\ \A t \in Streams \ {s} : wire'[t] = wire[t]
    <3>1. Part(g, part).pkt = g
      BY DEF Part
    <3> QED BY <2>1, <3>1, WriteAppends DEF Due
  <2>3. pc'[g] \notin {"idle", "noRoute"} /\ Dst[s] = Dst[g]
    BY <2>1 DEF Due
  <2>4. ASSUME NEW t \in Streams, NEW i \in 1..Len(wire'[t])
        PROVE  /\ pc'[wire'[t][i].pkt] \notin {"idle", "noRoute"}
               /\ Dst[wire'[t][i].pkt] = Dst[t]
    <3>1. CASE t # s
      BY <1>2, <2>2, <3>1
    <3>2. CASE t = s /\ i \in 1..Len(wire[s])
      BY <1>2, <2>2, <3>2
    <3>3. CASE t = s /\ i = Len(wire[s]) + 1
      BY <2>2, <2>3, <3>3
    <3> QED BY <1>0, <2>2, <3>1, <3>2, <3>3
  <2> QED BY <2>4 DEF Addressed
<1>4. ASSUME NEW s \in Streams, Len(wire[s]) >= 2, Consume(s)
      PROVE  Addressed'
  <2>1. /\ Len(wire'[s]) = Len(wire[s]) - 2
        /\ \A i \in 1..Len(wire'[s]) : wire'[s][i] = wire[s][i + 2]
        /\ \A t \in Streams \ {s} : wire'[t] = wire[t]
    BY <1>4, ConsumeDrops
  <2>2. \A i \in 1..Len(wire'[s]) : i + 2 \in 1..Len(wire[s])
    BY <1>0, <1>4, <2>1
  <2>3. ASSUME NEW t \in Streams, NEW i \in 1..Len(wire'[t])
        PROVE  /\ pc'[wire'[t][i].pkt] \notin {"idle", "noRoute"}
               /\ Dst[wire'[t][i].pkt] = Dst[t]
    <3>1. CASE t # s
      BY <1>2, <2>1, <3>1
    <3>2. CASE t = s
      BY <1>2, <2>1, <2>2, <3>2
    <3> QED BY <3>1, <3>2
  <2> QED BY <2>3 DEF Addressed
<1>5. CASE UNCHANGED wire
  BY <1>2, <1>5 DEF Addressed
<1> QED
  BY <1>3, <1>4, <1>5, WireChanges

\* Nobody else writes to the stream of a goroutine between its two writes,
\* and the handler never takes the length before the body is there.
LEMMA WritingStep == IInv /\ [Next]_vars => Writing'
<1> SUFFICES ASSUME IInv, [Next]_vars PROVE Writing'
  OBVIOUS
<1> USE DEF IInv
<1>0. wire \in [Streams -> Seq(Parts)] /\ \A s \in Streams : Len(wire[s]) \in Nat
  BY LenProperties DEF TypeOK
<1>1. ASSUME NEW g \in Packets,
             WriteLen(g) \/ WriteBody(g) \/ FirstLen(g) \/ FirstBody(g)
      PROVE  Writing'
  <2>1. PICK s \in Streams, part \in {"len", "body"} : Due(g, s, part)
    BY <1>1, EachWrite
  <2>2. /\ Len(wire'[s]) = Len(wire[s]) + 1
        /\ wire'[s][Len(wire[s]) + 1].pkt = g
        /\ \A t \in Streams \ {s} : wire'[t] = wire[t]
    <3>1. Part(g, part).pkt = g
      BY DEF Part
    <3> QED BY <2>1, <3>1, WriteAppends DEF Due
  <2>3. UNCHANGED ms /\ \A h \in Packets \ {g} : pc'[h] = pc[h]
    BY <1>1 DEF WriteLen, WriteBody, FirstLen, FirstBody, Step, Write, TypeOK
  <2>4. pc'[g] \in {"writeBody", "firstBody"} => HalfWritten(g, s)'
    <3> SUFFICES ASSUME part = "len" PROVE HalfWritten(g, s)'
      BY <2>1 DEF Due
    <3> DEFINE n == Len(wire[s])
    <3>1. n \in Nat /\ n % 2 = 0
      BY <1>0, <2>1 DEF Due
    <3> HIDE DEF n
    <3>2. (n + 1) % 2 = 1
      BY <3>1, Parity
    <3> QED BY <2>2, <3>2 DEF n, HalfWritten
  <2>5. s = IF pc'[g] \in {"firstBody", "publish"} THEN g ELSE ms[g]
    BY <1>1, <2>1 DEF Due, WriteLen, WriteBody, FirstLen, FirstBody, Step, TypeOK
  <2>6. ASSUME NEW h \in Packets \ {g}
        PROVE  /\ pc[h] = "writeBody" => ms[h] # s
               /\ pc[h] = "firstBody" => h # s
    <3>1. CASE pc[g] \in {"writeLen", "writeBody"}
      BY <2>1, <3>1 DEF Copies, Due
    <3>2. CASE pc[g] \in {"firstLen", "firstBody"}
      BY <2>1, <3>2 DEF Copies, Due
    <3> QED BY <2>1, <3>1, <3>2 DEF Due
  <2>7. ASSUME NEW h \in Packets
        PROVE  /\ pc'[h] = "writeBody" => HalfWritten(h, ms[h])'
               /\ pc'[h] = "firstBody" => HalfWritten(h, h)'
    <3>1. CASE h = g
      BY <2>3, <2>4, <2>5, <3>1 DEF HalfWritten
    <3>2. CASE h # g
      <4>1. pc'[h] = pc[h] /\ ms' = ms
        BY <2>3, <3>2
      <4>2. pc[h] = "writeBody" => /\ ms[h] \in Streams \ {s}
                                   /\ HalfWritten(h, ms[h])
        BY <2>6, <3>2, WriterAlone
      <4>3. pc[h] = "firstBody" => h # s /\ HalfWritten(h, h)
        BY <2>6, <3>2, WriterAlone
      <4> QED BY <2>2, <4>1, <4>2, <4>3 DEF HalfWritten
    <3> QED BY <3>1, <3>2
  <2> QED BY <2>7 DEF Writing
<1>2. ASSUME NEW s \in Streams, Len(wire[s]) >= 2, Consume(s),
             UNCHANGED localVars
      PROVE  Writing'
  <2>1. /\ Len(wire'[s]) = Len(wire[s]) - 2
        /\ \A i \in 1..Len(wire'[s]) : wire'[s][i] = wire[s][i + 2]
        /\ \A t \in Streams \ {s} : wire'[t] = wire[t]
    BY <1>2, ConsumeDrops
  <2>2. ASSUME NEW g \in Packets, HalfWritten(g, s) PROVE HalfWritten(g, s)'
    <3> DEFINE n == Len(wire[s])
               m == Len(wire'[s])
    <3>1. n \in Nat /\ n >= 2 /\ n % 2 = 1 /\ m = n - 2
      BY <1>0, <1>2, <2>1, <2>2 DEF HalfWritten
    <3>2. m \in Nat /\ m % 2 = 1 /\ m >= 1 /\ m + 2 = n
      <4> HIDE DEF n, m
      <4>1. m \in Nat /\ m + 2 = n
        BY <3>1
      <4> QED BY <3>1, <4>1, Parity
    <3>3. wire'[s][m] = wire[s][n]
      <4>1. m \in 1..m
        BY <3>2
      <4> QED BY <2>1, <3>2, <4>1
    <3> QED BY <2>2, <3>2, <3>3 DEF HalfWritten
  <2>3. \A g \in Packets : \A t \in Streams :
          HalfWritten(g, t) => HalfWritten(g, t)'
    BY <2>1, <2>2 DEF HalfWritten
  <2> QED BY <1>2, <2>3, WriterAlone DEF Writing, localVars
<1>3. CASE UNCHANGED wire /\ ~\E g \in Packets : WriteLen(g) \/ FirstLen(g)
  <2>1. \A g \in Packets : /\ pc'[g] = "writeBody" => pc[g] = "writeBody"
                                                   /\ ms'[g] = ms[g]
                           /\ pc'[g] = "firstBody" => pc[g] = "firstBody"
    <3>1. CASE \E g \in Packets : Lookup(g)
      BY <3>1 DEF Lookup, Step, TypeOK
    <3>2. CASE \E g \in Packets : Arrive(g) \/ Acquire(g) \/ Reused(g) \/ Delete(g)
      BY <3>2 DEF Arrive, Acquire, Reused, Delete, Step, TypeOK
    <3>3. CASE \E g \in Packets : WriteBody(g) \/ ReuseFails(g) \/ CloseStream(g)
      BY <3>3 DEF WriteBody, Write, ReuseFails, CloseStream, Step, TypeOK
    <3>4. CASE \E g \in Packets : OpenStream(g) \/ OpenFails(g) \/ FirstDeadline(g)
      BY <3>4 DEF OpenStream, OpenFails, FirstDeadline, Step, TypeOK
    <3>5. CASE \E g \in Packets : FirstBody(g) \/ FirstFails(g) \/ Publish(g)
      BY <3>5 DEF FirstBody, Write, FirstFails, Publish, Step, TypeOK
    <3>6. CASE MapFatal \/ Remote \/ UNCHANGED vars
      BY <3>6, RemoteKeepsLocal DEF MapFatal, vars, localVars
    <3> QED BY <1>3, <3>1, <3>2, <3>3, <3>4, <3>5, <3>6 DEF Next, Send, Remote
  <2> QED BY <1>3, <2>1 DEF Writing, HalfWritten
<1>4. ASSUME NEW s \in Streams, UNCHANGED <<wire, localVars>> PROVE Writing'
  BY <1>4 DEF Writing, HalfWritten, localVars
<1> QED
  BY <1>1, <1>2, <1>3, <1>4, WireChanges

\* A stream that still works is left with whole frames by everyone who lets
\* go of it: half a frame is followed by the body or by Close.
LEMMA WholeStep == IInv /\ [Next]_vars => Whole'
<1> SUFFICES ASSUME IInv, [Next]_vars PROVE Whole'
  OBVIOUS
<1> USE DEF IInv
<1>0. wire \in [Streams -> Seq(Parts)] /\ \A s \in Streams : Len(wire[s]) \in Nat
  BY LenProperties DEF TypeOK
<1>1. ASSUME NEW g \in Packets,
             WriteLen(g) \/ WriteBody(g) \/ FirstLen(g) \/ FirstBody(g)
      PROVE  Whole'
  <2>1. PICK s \in Streams, part \in {"len", "body"} : Due(g, s, part)
    BY <1>1, EachWrite
  <2>2. /\ Len(wire'[s]) = Len(wire[s]) + 1
        /\ \A t \in Streams \ {s} : wire'[t] = wire[t]
    BY <2>1, WriteAppends DEF Due
  <2>3. /\ UNCHANGED <<ms, conn>>
        /\ \A h \in Packets \ {g} : pc'[h] = pc[h]
        /\ s = IF pc'[g] \in {"firstBody", "publish"} THEN g ELSE ms[g]
    BY <1>1, <2>1 DEF Due, WriteLen, WriteBody, FirstLen, FirstBody, Step, Write, TypeOK
  <2>4. CASE part = "len"
    <3>1. InHand(s)'
      BY <2>1, <2>3, <2>4 DEF InHand, Due
    <3>2. \A t \in Streams \ {s} : InHand(t) => InHand(t)'
      BY <2>1, <2>3, <2>4 DEF InHand, Due
    <3> QED BY <2>2, <2>3, <3>1, <3>2 DEF Whole
  <2>5. CASE part = "body"
    <3>1. Len(wire'[s]) % 2 = 0
      <4> DEFINE n == Len(wire[s])
      <4>1. n \in Nat /\ n % 2 = 1
        BY <1>0, <2>1, <2>5 DEF HalfWritten, Due
      <4> HIDE DEF n
      <4>2. (n + 1) % 2 = 0
        BY <4>1, Parity
      <4> QED BY <2>2, <4>2 DEF n
    <3>2. \A t \in Streams \ {s} : InHand(t) => InHand(t)'
      BY <2>1, <2>3, <2>5 DEF InHand, Due
    <3> QED BY <2>2, <2>3, <3>1, <3>2 DEF Whole
  <2> QED BY <2>4, <2>5
<1>2. ASSUME NEW s \in Streams, Len(wire[s]) >= 2, Consume(s),
             UNCHANGED <<localVars, conn>>
      PROVE  Whole'
  <2>1. /\ Len(wire'[s]) = Len(wire[s]) - 2
        /\ \A t \in Streams \ {s} : wire'[t] = wire[t]
    BY <1>2, ConsumeDrops
  <2>2. Len(wire[s]) % 2 = 0 => Len(wire'[s]) % 2 = 0
    <3> DEFINE n == Len(wire[s])
    <3>1. n \in Nat /\ n >= 2
      BY <1>0, <1>2
    <3> HIDE DEF n
    <3>2. n % 2 = 0 => (n - 2) % 2 = 0
      BY <3>1, Parity
    <3> QED BY <2>1, <3>2 DEF n
  <2>3. \A t \in Streams : InHand(t)' <=> InHand(t)
    BY <1>2 DEF InHand, localVars
  <2> QED BY <1>2, <2>1, <2>2, <2>3 DEF Whole
<1>3. CASE UNCHANGED wire
  <2> SUFFICES ASSUME NEW s \in Streams, conn'[s] = "open", ~InHand(s)',
                      ~\E g \in Packets : \/ WriteLen(g) \/ WriteBody(g)
                                          \/ FirstLen(g) \/ FirstBody(g)
               PROVE  Len(wire[s]) % 2 = 0
    BY <1>1, <1>3 DEF Whole
  <2>1. CASE \E g \in Packets : OpenStream(g)
    <3> PICK g \in Packets : OpenStream(g)
      BY <2>1
    <3>1. /\ pc[g] = "open" /\ pc' = [pc EXCEPT ![g] = "firstDeadline"]
          /\ conn' = [conn EXCEPT ![g] = "open"] /\ UNCHANGED ms
      BY DEF OpenStream, Step
    <3>2. CASE s = g
      <4>1. wire[s] = <<>>
        BY <3>1, <3>2 DEF Opening
      <4>2. Len(<<>>) = 0 /\ 0 % 2 = 0
        OBVIOUS
      <4> QED BY <4>1, <4>2
    <3>3. CASE s # g
      <4>1. conn[s] = "open" /\ (InHand(s) => InHand(s)')
        BY <3>1, <3>3 DEF InHand, TypeOK
      <4> QED BY <4>1 DEF Whole
    <3> QED BY <3>2, <3>3
  <2>2. CASE ~\E g \in Packets : OpenStream(g)
    <3>1. conn[s] = "open"
      <4>1. CASE \E g \in Packets : CloseStream(g) \/ FirstFails(g)
        BY <4>1 DEF TypeOK, CloseStream, FirstFails, CloseConn
      <4>2. CASE \E g \in Packets : \/ Lookup(g) \/ Arrive(g) \/ Acquire(g) \/ Reused(g)
                                    \/ ReuseFails(g) \/ Delete(g) \/ OpenFails(g)
                                    \/ FirstDeadline(g) \/ Publish(g)
        BY <4>2 DEF Lookup, Arrive, Acquire, Reused, ReuseFails, Delete, OpenFails,
           FirstDeadline, Publish, remoteVars
      <4>3. CASE MapFatal \/ Remote \/ UNCHANGED vars
        BY <4>3 DEF TypeOK, MapFatal, Remote, vars, NetworkReset, Handle, Accept, ReadLen,
           ReadBody, ReadFails, HandlerFails, Admit, remoteVars
      <4> QED BY <2>2, <4>1, <4>2, <4>3 DEF Next, Send, Remote
    <3>2. InHand(s) => InHand(s)'
      <4>1. CASE \E g \in Packets : Lookup(g) \/ CloseStream(g) \/ FirstFails(g)
        BY <4>1 DEF InHand, TypeOK, Lookup, CloseStream, FirstFails, CloseConn, Step
      <4>2. CASE \E g \in Packets : \/ Arrive(g) \/ Acquire(g) \/ Reused(g)
                                    \/ ReuseFails(g) \/ Delete(g) \/ OpenFails(g)
                                    \/ FirstDeadline(g) \/ Publish(g)
        BY <4>2 DEF InHand, TypeOK, Arrive, Acquire, Reused, ReuseFails, Delete,
           OpenFails, FirstDeadline, Publish, Step
      <4>3. CASE MapFatal \/ Remote \/ UNCHANGED vars
        BY <4>3, RemoteKeepsLocal DEF InHand, MapFatal, vars, localVars
      <4> QED BY <2>2, <4>1, <4>2, <4>3 DEF Next, Send, Remote
    <3> QED BY <3>1, <3>2 DEF Whole
  <2> QED BY <2>1, <2>2
<1> QED
  BY <1>1, <1>2, <1>3, WireChanges

\* A frame read from a framed wire is the packet that was written.
LEMMA ReadsAPacket ==
  ASSUME IInv, NEW s \in Streams, Len(wire[s]) >= 2
  PROVE  /\ Decode(wire[s][1], wire[s][2]) = wire[s][1].pkt
         /\ wire[s][1].pkt \in Packets
         /\ pc[wire[s][1].pkt] \notin {"idle", "noRoute"}
         /\ Dst[wire[s][1].pkt] = Dst[s] /\ Dst[s] \in Peers
<1>1. wire[s] \in Seq(Parts) /\ 1 \in 1..Len(wire[s]) /\ 2 \in 1..Len(wire[s])
  BY LenProperties DEF IInv, TypeOK
<1>2. wire[s][1] \in Parts /\ wire[s][2] \in Parts
  BY <1>1, ElementOfSeq
<1>3. /\ wire[s][1].part = "len" /\ wire[s][2].part = "body"
      /\ wire[s][2].pkt = wire[s][1].pkt
  <2>1. 1 % 2 = 1 /\ 2 % 2 = 0 /\ 2 - 1 = 1 /\ 0 # 1
    OBVIOUS
  <2> QED BY <1>1, <2>1 DEF IInv, Framed
<1>4. wire[s][2] = Part(wire[s][1].pkt, "body")
  BY <1>2, <1>3 DEF Parts, Part
<1> QED
  BY <1>1, <1>2, <1>3, <1>4 DEF Decode, Parts, IInv, Addressed, Routed

\* The only step that gives something to an interface gives that packet.
LEMMA NoGarbageStep == IInv /\ [Next]_vars => NoGarbage'
<1> SUFFICES ASSUME IInv, [Next]_vars PROVE NoGarbage'
  OBVIOUS
<1>1. ASSUME NEW s \in Streams, ReadBody(s) PROVE NoGarbage'
  <2> DEFINE p == wire[s][1].pkt
  <2>1. p \in Packets /\ p # Garbage
    BY <1>1, ReadsAPacket, DistinctAssumption DEF ReadBody
  <2>2. inbox' = [inbox EXCEPT ![Dst[s]][p] = @ + 1]
    BY <1>1, ReadsAPacket DEF ReadBody
  <2> HIDE DEF p
  <2> QED BY <2>1, <2>2 DEF NoGarbage, IInv, TypeOK
<1>2. CASE UNCHANGED inbox
  BY <1>2 DEF NoGarbage, IInv
<1>3. UNCHANGED inbox \/ \E s \in Streams : ReadBody(s)
  BY DEF Next, vars, Arrive, Send, Lookup, Acquire, WriteLen, WriteBody, Write,
     Reused, ReuseFails, CloseStream, Delete, OpenStream, OpenFails,
     FirstDeadline, FirstLen, FirstBody, FirstFails, Publish, MapFatal,
     NetworkReset, Handle, Accept, ReadLen, ReadFails, HandlerFails, Admit,
     remoteVars
<1> QED
  BY <1>1, <1>2, <1>3

-----------------------------------------------------------------------------
(* The theorems.                                                           *)

\* UpRun starts with no stream and no goroutine: the invariant holds.
LEMMA InitIInv == Init => IInv
<1> SUFFICES ASSUME Init PROVE IInv
  OBVIOUS
<1> USE DEF Init
<1>1. TypeOK
  BY DEF TypeOK
<1>2. Routed /\ Entries /\ Copies /\ Opening
  BY DEF Routed, Entries, Copies, Opening
<1>3. \A s \in Streams : wire[s] = <<>> /\ Len(wire[s]) = 0
  OBVIOUS
<1>4. Framed /\ Addressed
  BY <1>3 DEF Framed, Addressed
<1>5. Writing /\ Whole
  BY DEF Writing, Whole
<1>6. NoDeadEntry /\ NoGarbage
  BY DEF NoDeadEntry, NoGarbage
<1> QED
  BY <1>1, <1>2, <1>4, <1>5, <1>6 DEF IInv

\* Every step preserves the invariant, one conjunct at a time.
LEMMA StepIInv == IInv /\ [Next]_vars => IInv'
BY TypeStep, RoutedStep, EntriesStep, CopiesStep, OpeningStep, FramedStep,
   AddressedStep, WritingStep, WholeStep, NoDeadEntryStep, NoGarbageStep
   DEF IInv

\* The invariant holds in every reachable state, for any number of packets,
\* peers and streams, whatever fails and however goroutines interleave.
THEOREM Invariance == Spec => []IInv
BY InitIInv, StepIInv, PTL DEF Spec

\* Every variable keeps to its values (the state of cli/up.go's sender).
THEOREM TypeCorrect == Spec => []TypeOK
<1>1. IInv => TypeOK
  BY DEF IInv
<1> QED
  BY <1>1, Invariance, PTL

\* streamHandler never writes anything to an interface that is not exactly
\* one packet: sendPacket's frames are never interleaved.
THEOREM Framing == Spec => []NoGarbage
<1>1. IInv => NoGarbage
  BY DEF IInv
<1> QED
  BY <1>1, Invariance, PTL

\* sendPacket never leaves a stream it closed in activeStreams.
THEOREM NoDeadEntries == Spec => []NoDeadEntry
<1>1. IInv => NoDeadEntry
  BY DEF IInv
<1> QED
  BY <1>1, Invariance, PTL

-----------------------------------------------------------------------------
(* Copies: how often a packet is delivered.                                *)

\* The body of a packet is on its way on a stream.
OnWire(p, s) == \E i \in 1..Len(wire[s]) : wire[s][i] = Part(p, "body")
OnReused(p) == ms[p] # NoStream /\ OnWire(p, ms[p])

\* How many bodies a goroutine may still write: one to a stream of the map,
\* one to a stream of its own.
BeforeReused == {"idle", "lookup", "lock", "writeLen", "writeBody"}
BeforeFirst == {"deadline", "close", "delete", "open",
                "firstDeadline", "firstLen", "firstBody"}
Left(p) == IF pc[p] \in BeforeReused THEN 2 ELSE IF pc[p] \in BeforeFirst THEN 1 ELSE 0

\* A body is on the stream that was reused or on the goroutine's own, once on
\* each, and on neither before it is written there.
Placed == \A p \in Packets :
  /\ ms[p] # p
  /\ \A s \in Streams : OnWire(p, s) => s \in {p, ms[p]}
  /\ \A s \in Streams : \A i, j \in 1..Len(wire[s]) :
       wire[s][i] = Part(p, "body") /\ wire[s][j] = Part(p, "body") => i = j
  /\ pc[p] \in BeforeReused => \A s \in Streams : ~OnWire(p, s)
  /\ pc[p] \in BeforeFirst => ~OnWire(p, p)

\* What was delivered, what is on its way and what may still be written.
One(b) == IF b THEN 1 ELSE 0
Budget == \A q \in Peers, p \in Packets :
  inbox[q][p] + One(OnReused(p)) + One(OnWire(p, p)) + Left(p) <= 2

\* A goroutine only goes forward, and looks into the map once.
LEMMA Forward ==
  ASSUME IInv, [Next]_vars, NEW p \in Packets
  PROVE  /\ pc'[p] \in BeforeReused => pc[p] \in BeforeReused
         /\ pc'[p] \in BeforeFirst => pc[p] \in BeforeReused \cup BeforeFirst
         /\ \/ ms'[p] = ms[p]
            \/ pc[p] = "lookup" /\ ms'[p] = activeStreams[Dst[p]] /\ UNCHANGED wire
<1> USE DEF IInv, TypeOK, BeforeReused, BeforeFirst
<1>1. ASSUME NEW g \in Packets, Arrive(g) \/ Send(g)
      PROVE  /\ pc'[p] \in BeforeReused => pc[p] \in BeforeReused
             /\ pc'[p] \in BeforeFirst => pc[p] \in BeforeReused \cup BeforeFirst
  BY <1>1 DEF Arrive, Send, Lookup, Acquire, WriteLen, WriteBody, Reused,
     ReuseFails, CloseStream, Delete, OpenStream, OpenFails, FirstDeadline,
     FirstLen, FirstBody, FirstFails, Publish, Step
<1>2. ASSUME NEW g \in Packets, Arrive(g) \/ Send(g)
      PROVE  \/ ms'[p] = ms[p]
             \/ pc[p] = "lookup" /\ ms'[p] = activeStreams[Dst[p]] /\ UNCHANGED wire
  BY <1>2 DEF Arrive, Send, Lookup, Acquire, WriteLen, WriteBody, Write, Reused,
     ReuseFails, CloseStream, Delete, OpenStream, OpenFails, FirstDeadline,
     FirstLen, FirstBody, FirstFails, Publish, Step
<1>3. CASE UNCHANGED <<pc, ms>>
  BY <1>3
<1>4. MapFatal \/ Remote \/ UNCHANGED vars => UNCHANGED <<pc, ms>>
  BY RemoteKeepsLocal DEF MapFatal, localVars, vars
<1> QED
  BY <1>1, <1>2, <1>3, <1>4 DEF Next, Remote

\* What writes and reads do to the bodies on a wire.
LEMMA WrittenBody ==
  ASSUME IInv, NEW g \in Packets, NEW s \in Streams, NEW part \in {"len", "body"},
         Write(g, s, part), NEW p \in Packets, NEW t \in Streams
  PROVE  OnWire(p, t)' => OnWire(p, t) \/ (p = g /\ t = s /\ part = "body")
<1>1. TypeOK /\ Len(wire[t]) \in Nat
  BY LenProperties DEF IInv, TypeOK
<1>2. CASE t # s
  BY <1>1, <1>2, WriteAppends DEF OnWire
<1>3. CASE t = s
  <2>1. ASSUME NEW i \in 1..Len(wire'[s]), wire'[s][i] = Part(p, "body"), ~OnWire(p, s)
        PROVE  p = g /\ part = "body"
    <3>1. i \in 1..Len(wire[s]) \/ i = Len(wire[s]) + 1
      BY <1>1, <1>3, <2>1, WriteAppends
    <3>2. i = Len(wire[s]) + 1
      BY <1>1, <2>1, <3>1, WriteAppends DEF OnWire
    <3>3. Part(g, part) = Part(p, "body")
      BY <1>1, <2>1, <3>2, WriteAppends
    <3> QED BY <3>3 DEF Part
  <2> QED BY <1>3, <2>1 DEF OnWire
<1> QED
  BY <1>2, <1>3

LEMMA ConsumedBody ==
  ASSUME IInv, NEW s \in Streams, Len(wire[s]) >= 2, Consume(s),
         NEW p \in Packets, NEW t \in Streams, OnWire(p, t)'
  PROVE  OnWire(p, t)
<1>1. TypeOK /\ Len(wire[s]) \in Nat
  BY LenProperties DEF IInv, TypeOK
<1>2. CASE t # s
  BY <1>1, <1>2, ConsumeDrops DEF OnWire
<1>3. CASE t = s
  <2>1. PICK i \in 1..Len(wire'[s]) : wire'[s][i] = Part(p, "body")
    BY <1>3 DEF OnWire
  <2>2. wire[s][i + 2] = Part(p, "body") /\ i + 2 \in 1..Len(wire[s])
    BY <1>1, <2>1, ConsumeDrops
  <2> QED BY <1>3, <2>2 DEF OnWire
<1> QED
  BY <1>2, <1>3

\* A body comes onto a wire by one of the two writes of its own goroutine.
LEMMA NewBody ==
  ASSUME IInv, [Next]_vars, NEW p \in Packets, NEW t \in Streams,
         OnWire(p, t)', ~OnWire(p, t)
  PROVE  \/ WriteBody(p) /\ pc[p] = "writeBody" /\ pc'[p] = "deadline" /\ t = ms[p]
         \/ FirstBody(p) /\ pc[p] = "firstBody" /\ pc'[p] = "publish" /\ t = p
<1>1. CASE UNCHANGED wire
  BY <1>1 DEF OnWire
<1>2. CASE \E s \in Streams : Len(wire[s]) >= 2 /\ Consume(s)
  BY <1>2, ConsumedBody
<1>3. ASSUME NEW g \in Packets, WriteLen(g) \/ WriteBody(g) \/ FirstLen(g) \/ FirstBody(g)
      PROVE  \/ WriteBody(p) /\ pc[p] = "writeBody" /\ pc'[p] = "deadline" /\ t = ms[p]
             \/ FirstBody(p) /\ pc[p] = "firstBody" /\ pc'[p] = "publish" /\ t = p
  <2> USE DEF Step
  <2>1. pc \in [Packets -> {"idle", "lookup", "lock", "open"}
                             \cup Locked \cup Private \cup Settled]
        /\ (pc[g] \in {"writeLen", "writeBody"} => ms[g] \in Streams)
    BY DEF IInv, TypeOK
  <2>2. CASE WriteLen(g)
    BY <2>1, <2>2, WrittenBody DEF WriteLen
  <2>3. CASE WriteBody(g)
    <3>1. /\ pc[g] = "writeBody" /\ ms[g] \in Streams /\ Write(g, ms[g], "body")
          /\ pc'[g] = "deadline"
      BY <2>1, <2>3 DEF WriteBody
    <3>2. p = g /\ t = ms[g]
      BY <3>1, WrittenBody
    <3> QED BY <2>3, <3>1, <3>2
  <2>4. CASE FirstLen(g)
    BY <2>4, WrittenBody DEF FirstLen
  <2>5. CASE FirstBody(g)
    <3>1. pc[g] = "firstBody" /\ Write(g, g, "body") /\ pc'[g] = "publish"
      BY <2>1, <2>5 DEF FirstBody
    <3>2. p = g /\ t = g
      BY <3>1, WrittenBody
    <3> QED BY <2>5, <3>1, <3>2
  <2> QED BY <1>3, <2>2, <2>3, <2>4, <2>5
<1> QED
  BY <1>1, <1>2, <1>3, WireChanges

LEMMA PlacedStep == ASSUME IInv, Placed, [Next]_vars PROVE Placed'
<1> SUFFICES ASSUME NEW p \in Packets
             PROVE  /\ ms'[p] # p
                    /\ \A s \in Streams : OnWire(p, s)' => s \in {p, ms'[p]}
                    /\ \A s \in Streams : \A i, j \in 1..Len(wire'[s]) :
                         wire'[s][i] = Part(p, "body") /\ wire'[s][j] = Part(p, "body") => i = j
                    /\ pc'[p] \in BeforeReused => \A s \in Streams : ~OnWire(p, s)'
                    /\ pc'[p] \in BeforeFirst => ~OnWire(p, p)'
  BY DEF Placed
<1>1. /\ ms[p] # p
      /\ \A s \in Streams : OnWire(p, s) => s \in {p, ms[p]}
      /\ pc[p] \in BeforeReused => \A s \in Streams : ~OnWire(p, s)
      /\ pc[p] \in BeforeFirst => ~OnWire(p, p)
  BY DEF Placed
<1>2. ms'[p] # p
  <2>1. CASE pc[p] = "lookup" /\ ms'[p] = activeStreams[Dst[p]]
    <3>1. Dst[p] \in Peers
      BY <2>1 DEF IInv, Routed
    <3>2. ms'[p] # NoStream => pc[ms'[p]] = "sent"
      BY <2>1, <3>1 DEF IInv, Entries
    <3> QED BY <2>1, <3>2, DistinctAssumption
  <2> QED BY <1>1, <2>1, Forward
<1>3. ASSUME NEW s \in Streams, OnWire(p, s)' PROVE s \in {p, ms'[p]}
  <2>1. pc[p] # "lookup" \/ ~OnWire(p, s)
    BY <1>1 DEF BeforeReused
  <2>2. CASE OnWire(p, s)
    BY <1>1, <2>1, <2>2, Forward
  <2>3. CASE ~OnWire(p, s)
    BY <1>3, <2>3, NewBody, Forward
  <2> QED BY <2>2, <2>3
<1>4. ASSUME pc'[p] \in BeforeReused, NEW s \in Streams PROVE ~OnWire(p, s)'
  <2>1. pc[p] \in BeforeReused /\ pc'[p] \notin {"deadline", "publish"}
    BY <1>4, Forward DEF BeforeReused
  <2> QED BY <1>1, <2>1, NewBody
<1>5. ASSUME pc'[p] \in BeforeFirst PROVE ~OnWire(p, p)'
  <2>1. pc[p] \in BeforeReused \cup BeforeFirst /\ pc'[p] # "publish"
    BY <1>5, Forward DEF BeforeFirst
  <2> QED BY <1>1, <2>1, NewBody
<1>6. ASSUME NEW s \in Streams, NEW i \in 1..Len(wire'[s]), NEW j \in 1..Len(wire'[s]),
             wire'[s][i] = Part(p, "body"), wire'[s][j] = Part(p, "body")
      PROVE  i = j
  <2>1. TypeOK /\ Len(wire[s]) \in Nat
    BY LenProperties DEF IInv, TypeOK
  <2>2. \A k, l \in 1..Len(wire[s]) :
          wire[s][k] = Part(p, "body") /\ wire[s][l] = Part(p, "body") => k = l
    BY DEF Placed
  <2>3. CASE wire'[s] = wire[s]
    BY <1>6, <2>2, <2>3
  <2>4. ASSUME Len(wire[s]) >= 2, Consume(s) PROVE i = j
    <3>1. /\ Len(wire'[s]) = Len(wire[s]) - 2
          /\ \A k \in 1..Len(wire'[s]) : wire'[s][k] = wire[s][k + 2]
      BY <2>1, <2>4, ConsumeDrops
    <3>2. i + 2 \in 1..Len(wire[s]) /\ j + 2 \in 1..Len(wire[s])
      BY <2>1, <3>1
    <3>3. wire[s][i + 2] = Part(p, "body") /\ wire[s][j + 2] = Part(p, "body")
      BY <1>6, <3>1
    <3>4. i + 2 = j + 2
      BY <2>2, <3>2, <3>3
    <3> QED BY <3>4
  <2>5. ASSUME NEW g \in Packets, NEW part \in {"len", "body"}, Write(g, s, part),
               part = "body" => pc[g] = "writeBody" \/ (pc[g] = "firstBody" /\ s = g)
        PROVE  i = j
    <3>1. \A k \in 1..Len(wire'[s]) : k \in 1..Len(wire[s]) \/ k = Len(wire[s]) + 1
      BY <2>1, <2>5, WriteAppends
    <3>2. /\ \A k \in 1..Len(wire[s]) : wire'[s][k] = wire[s][k]
          /\ wire'[s][Len(wire[s]) + 1] = Part(g, part)
      BY <2>1, <2>5, WriteAppends
    <3>3. CASE i \in 1..Len(wire[s]) /\ j \in 1..Len(wire[s])
      BY <1>6, <2>2, <3>2, <3>3
    <3>4. CASE ~(i \in 1..Len(wire[s]) /\ j \in 1..Len(wire[s]))
      <4>1. i = Len(wire[s]) + 1 \/ j = Len(wire[s]) + 1
        BY <3>1, <3>4
      <4>2. Part(g, part) = Part(p, "body")
        BY <1>6, <3>2, <4>1
      <4>3. g = p /\ part = "body"
        BY <4>2 DEF Part
      <4>4. ~OnWire(p, s)
        BY <1>1, <2>5, <4>3 DEF BeforeReused, BeforeFirst
      <4>5. \A k \in 1..Len(wire[s]) : wire'[s][k] # Part(p, "body")
        BY <3>2, <4>4 DEF OnWire
      <4> QED BY <1>6, <3>1, <4>5
    <3> QED BY <3>3, <3>4
  <2>6. CASE \E g \in Packets : WriteLen(g) \/ WriteBody(g) \/ FirstLen(g) \/ FirstBody(g)
    <3>1. PICK g \in Packets, t \in Streams, part \in {"len", "body"} : Due(g, t, part)
      BY <2>6, EachWrite
    <3>2. CASE t = s
      BY <2>5, <3>1, <3>2 DEF Due
    <3>3. CASE t # s
      BY <2>1, <2>3, <3>1, <3>3, WriteAppends DEF Due
    <3> QED BY <3>2, <3>3
  <2>7. CASE \E t \in Streams : Len(wire[t]) >= 2 /\ Consume(t)
    BY <2>1, <2>3, <2>4, <2>7, ConsumeDrops
  <2> QED BY <2>3, <2>6, <2>7, WireChanges
<1> QED
  BY <1>2, <1>3, <1>4, <1>5, <1>6

LEMMA BudgetStep == ASSUME IInv, Placed, Budget, [Next]_vars PROVE Budget'
<1> SUFFICES ASSUME NEW q \in Peers, NEW p \in Packets
             PROVE  inbox'[q][p] + One(OnReused(p))' + One(OnWire(p, p))' + Left(p)' <= 2
  BY DEF Budget
<1>1. inbox[q][p] + One(OnReused(p)) + One(OnWire(p, p)) + Left(p) <= 2
  BY DEF Budget
<1>2. inbox[q][p] \in Nat
  BY DEF IInv, TypeOK
<1>3. /\ ms[p] # p
      /\ pc[p] \in BeforeReused => \A s \in Streams : ~OnWire(p, s)
      /\ pc[p] \in BeforeFirst => ~OnWire(p, p)
      /\ ms[p] \in Streams \cup {NoStream}
  BY DEF Placed, IInv, TypeOK
<1>4. Left(p)' <= Left(p) /\ Left(p) \in 0..2 /\ Left(p)' \in 0..2
  BY Forward DEF Left
<1>5. CASE WriteBody(p) /\ pc[p] = "writeBody" /\ pc'[p] = "deadline"
  <2>1. ms'[p] = ms[p] /\ inbox' = inbox
    BY <1>5, Forward DEF WriteBody, Write, remoteVars
  <2>2. ~OnWire(p, p)' /\ ~OnWire(p, p) /\ ~OnReused(p)
    BY <1>3, <1>5, NewBody DEF BeforeReused, OnReused
  <2>3. Left(p) = 2 /\ Left(p)' = 1
    BY <1>5 DEF Left, BeforeReused, BeforeFirst
  <2> QED BY <1>1, <1>2, <2>1, <2>2, <2>3 DEF One
<1>6. CASE FirstBody(p) /\ pc[p] = "firstBody" /\ pc'[p] = "publish"
  <2>1. ms'[p] = ms[p] /\ inbox' = inbox
    BY <1>6, Forward DEF FirstBody, Write, remoteVars
  <2>2. OnReused(p)' => OnReused(p)
    BY <1>3, <1>6, <2>1, NewBody DEF OnReused
  <2>3. ~OnWire(p, p) /\ Left(p) = 1 /\ Left(p)' = 0
    BY <1>3, <1>6 DEF Left, BeforeReused, BeforeFirst
  <2> QED BY <1>1, <1>2, <2>1, <2>2, <2>3 DEF One
<1>7. CASE ~(\/ WriteBody(p) /\ pc[p] = "writeBody" /\ pc'[p] = "deadline"
             \/ FirstBody(p) /\ pc[p] = "firstBody" /\ pc'[p] = "publish")
  <2>1. \A s \in Streams : OnWire(p, s)' => OnWire(p, s)
    BY <1>7, NewBody
  <2>2. OnReused(p)' => OnReused(p)
    <3>1. CASE ms'[p] = ms[p]
      BY <1>3, <2>1, <3>1 DEF OnReused
    <3>2. CASE pc[p] = "lookup" /\ ms'[p] = activeStreams[Dst[p]]
      <4>1. ms'[p] \in Streams \cup {NoStream}
        BY <3>2 DEF IInv, TypeOK, Routed
      <4> QED BY <1>3, <2>1, <3>2, <4>1 DEF OnReused, BeforeReused
    <3> QED BY <3>1, <3>2, Forward
  <2>3. CASE inbox'[q][p] = inbox[q][p]
    BY <1>1, <1>2, <1>4, <2>1, <2>2, <2>3 DEF One
  <2>4. ASSUME NEW s \in Streams, ReadBody(s), inbox'[q][p] # inbox[q][p]
        PROVE  inbox'[q][p] + One(OnReused(p))' + One(OnWire(p, p))' + Left(p)' <= 2
    <3> DEFINE head == wire[s][1].pkt
    <3>1. Len(wire[s]) >= 2 /\ Consume(s) /\ pc' = pc /\ ms' = ms
      BY <2>4 DEF ReadBody, localVars
    <3>2. head \in Packets /\ inbox' = [inbox EXCEPT ![Dst[s]][head] = @ + 1]
      BY <2>4, <3>1, ReadsAPacket DEF ReadBody
    <3>3. wire[s][2] = Part(head, "body")
      BY <3>1, <3>2, ReadsAPacket, DistinctAssumption DEF Decode
    <3> HIDE DEF head
    <3>4. head = p /\ inbox'[q][p] = inbox[q][p] + 1
      BY <2>4, <3>2 DEF IInv, TypeOK
    <3>5. TypeOK /\ Len(wire[s]) \in Nat
      BY LenProperties DEF IInv, TypeOK
    <3>6. OnWire(p, s)
      BY <3>1, <3>3, <3>4, <3>5 DEF OnWire
    <3>7. ~OnWire(p, s)'
      <4>1. ASSUME NEW i \in 1..Len(wire'[s]), wire'[s][i] = Part(p, "body") PROVE FALSE
        <5>1. i + 2 \in 1..Len(wire[s]) /\ wire[s][i + 2] = Part(p, "body")
          BY <3>1, <3>5, <4>1, ConsumeDrops
        <5>2. i + 2 = 2
          BY <3>1, <3>3, <3>4, <3>5, <5>1 DEF Placed
        <5> QED BY <4>1, <5>2
      <4> QED BY <4>1 DEF OnWire
    <3>8. s \in {p, ms[p]}
      BY <3>6 DEF Placed
    <3>9. CASE s = p
      BY <1>1, <1>2, <1>4, <2>2, <3>4, <3>6, <3>7, <3>9 DEF One
    <3>10. CASE s = ms[p]
      <4>1. OnReused(p) /\ ~OnReused(p)'
        BY <3>1, <3>6, <3>7, <3>10, DistinctAssumption DEF OnReused
      <4> QED BY <1>1, <1>2, <1>4, <2>1, <3>4, <4>1 DEF One
    <3> QED BY <3>8, <3>9, <3>10
  <2>5. UNCHANGED inbox \/ \E s \in Streams : ReadBody(s)
    BY DEF Next, vars, Arrive, Send, Lookup, Acquire, WriteLen, WriteBody, Write,
       Reused, ReuseFails, CloseStream, Delete, OpenStream, OpenFails,
       FirstDeadline, FirstLen, FirstBody, FirstFails, Publish, MapFatal,
       NetworkReset, Handle, Accept, ReadLen, ReadFails, HandlerFails, Admit,
       remoteVars
  <2> QED BY <2>3, <2>4, <2>5
<1> QED
  BY <1>5, <1>6, <1>7

\* sendPacket writes a packet to one reused stream and to one new one, and to
\* each once, so that the peer's interface is given it at most twice, whatever
\* fails between the writes and the reads.
THEOREM TwiceAtMost == Spec => []AtMostTwice
<1>1. Init => Placed /\ Budget
  <2> SUFFICES ASSUME Init PROVE Placed /\ Budget
    OBVIOUS
  <2>1. \A s \in Streams : wire[s] = <<>> /\ Len(wire[s]) = 0
    BY DEF Init
  <2>2. \A s \in Streams : 1..Len(wire[s]) = {}
    <3>1. 1..0 = {}
      OBVIOUS
    <3> QED BY <2>1, <3>1, Zenon
  <2>3. \A p \in Packets, s \in Streams : ~OnWire(p, s)
    BY <2>2 DEF OnWire
  <2>4. \A p \in Packets : ms[p] = NoStream /\ pc[p] = "idle"
    BY DEF Init
  <2>5. Placed
    BY <2>2, <2>3, <2>4, DistinctAssumption DEF Placed
  <2>6. Budget
    <3>1. \A q \in Peers, p \in Packets : inbox[q][p] = 0
      BY DEF Init
    <3>2. \A p \in Packets : ~OnReused(p) /\ ~OnWire(p, p) /\ Left(p) = 2
      BY <2>3, <2>4 DEF OnReused, Left, BeforeReused
    <3>3. \A p \in Packets : One(OnReused(p)) = 0 /\ One(OnWire(p, p)) = 0
      BY <3>2 DEF One
    <3>4. 0 + 0 + 0 + 2 <= 2
      OBVIOUS
    <3> QED BY <3>1, <3>2, <3>3, <3>4, Zenon DEF Budget
  <2> QED BY <2>5, <2>6
<1>2. IInv /\ Placed /\ Budget /\ [Next]_vars => (Placed /\ Budget)'
  BY PlacedStep, BudgetStep
<1>3. IInv /\ Budget => AtMostTwice
  <2> SUFFICES ASSUME IInv, Budget, NEW q \in Peers, NEW p \in Packets
               PROVE  inbox[q][p] <= 2
    BY DEF AtMostTwice
  <2>1. inbox[q][p] + One(OnReused(p)) + One(OnWire(p, p)) + Left(p) <= 2
    BY DEF Budget
  <2>2. inbox[q][p] \in Nat /\ One(OnReused(p)) \in Nat /\ One(OnWire(p, p)) \in Nat
        /\ Left(p) \in Nat
    BY DEF IInv, TypeOK, One, Left
  <2> QED BY <2>1, <2>2
<1> QED
  BY <1>1, <1>2, <1>3, Invariance, PTL DEF Spec

-----------------------------------------------------------------------------
(* The mutex of a stream.                                                  *)

\* The goroutines between ms.Lock.Lock() and the deferred Unlock.
Inside(s) == {g \in Packets : pc[g] \in Locked /\ ms[g] = s}

\* The mutex says who is inside: who waits for it waits for a goroutine that
\* waits for no mutex itself.
MutexTells == \A s \in Streams :
                Inside(s) = IF lock[s] = NoPacket THEN {} ELSE {lock[s]}

\* Who holds a mutex is in the locked section of its stream.
Held == \A s \in Streams :
          lock[s] # NoPacket => pc[lock[s]] \in Locked /\ ms[lock[s]] = s

LEMMA HeldStep == ASSUME IInv, Held, [Next]_vars PROVE Held'
<1> USE DistinctAssumption DEF TypeOK, Held
<1>0. TypeOK /\ Copies
  BY DEF IInv
<1>1. ASSUME NEW g \in Packets, Arrive(g) PROVE Held'
  BY <1>0, <1>1 DEF Arrive, Step
<1>2. ASSUME NEW g \in Packets, Lookup(g) PROVE Held'
  BY <1>0, <1>2 DEF Lookup, Step
<1>3. ASSUME NEW g \in Packets, Acquire(g) PROVE Held'
  BY <1>0, <1>3 DEF Acquire, Step
<1>4. ASSUME NEW g \in Packets, Reused(g) \/ Delete(g) PROVE Held'
  <2>1. pc[g] \in Locked /\ lock[ms[g]] = g /\ ms[g] \in Streams
    BY <1>0, <1>4 DEF Reused, Delete, Step, Copies
  <2>2. /\ ms' = ms /\ lock' = [lock EXCEPT ![ms[g]] = NoPacket]
        /\ \A h \in Packets \ {g} : pc'[h] = pc[h]
    BY <1>0, <1>4 DEF Reused, Delete, Step, Unlock
  <2>3. ASSUME NEW s \in Streams, lock'[s] # NoPacket
        PROVE  pc'[lock'[s]] \in Locked /\ ms'[lock'[s]] = s
    <3>1. s # ms[g] /\ lock'[s] = lock[s] /\ lock[s] \in Packets
      BY <1>0, <2>1, <2>2, <2>3
    <3>2. lock[s] # g
      BY <2>3, <3>1
    <3> QED BY <2>2, <2>3, <3>1, <3>2
  <2> QED BY <2>3
<1>5. ASSUME NEW g \in Packets, Publish(g) PROVE Held'
  <2>1. pc[g] \notin Locked /\ ms' = ms /\ \A h \in Packets \ {g} : pc'[h] = pc[h]
    BY <1>0, <1>5 DEF Publish, Step
  <2>2. lock' = [lock EXCEPT ![g] = NoPacket]
    BY <1>5 DEF Publish
  <2>3. ASSUME NEW s \in Streams, lock'[s] # NoPacket
        PROVE  pc'[lock'[s]] \in Locked /\ ms'[lock'[s]] = s
    <3>1. lock'[s] = lock[s] /\ lock[s] \in Packets
      BY <1>0, <2>2, <2>3
    <3>2. lock[s] # g
      BY <2>1, <2>3, <3>1
    <3> QED BY <2>1, <2>3, <3>1, <3>2
  <2> QED BY <2>3
<1>6. ASSUME NEW g \in Packets, pc[g] \in Locked => pc'[g] \in Locked,
             pc' = [pc EXCEPT ![g] = pc'[g]], UNCHANGED <<ms, lock>>
      PROVE  Held'
  <2>1. ASSUME NEW s \in Streams, lock'[s] # NoPacket
        PROVE  pc'[lock'[s]] \in Locked /\ ms'[lock'[s]] = s
    <3>1. lock'[s] = lock[s] /\ lock[s] \in Packets
      BY <1>0, <1>6, <2>1
    <3>2. pc[lock[s]] \in Locked /\ ms[lock[s]] = s
      BY <2>1, <3>1
    <3>3. pc'[lock[s]] \in Locked
      <4>1. CASE lock[s] = g
        BY <1>6, <3>2, <4>1
      <4>2. CASE lock[s] # g
        <5>1. \A h \in Packets \ {g} : pc'[h] = pc[h]
          BY <1>0, <1>6
        <5> QED BY <3>1, <3>2, <4>2, <5>1
      <4> QED BY <4>1, <4>2
    <3> QED BY <1>6, <3>1, <3>2, <3>3
  <2> QED BY <2>1
<1>7. ASSUME NEW g \in Packets,
             WriteLen(g) \/ WriteBody(g) \/ ReuseFails(g) \/ CloseStream(g)
      PROVE  Held'
  <2>1. pc'[g] \in Locked /\ pc' = [pc EXCEPT ![g] = pc'[g]] /\ UNCHANGED <<ms, lock>>
    BY <1>0, <1>7 DEF WriteLen, WriteBody, Write, ReuseFails, CloseStream, Step
  <2> QED BY <1>6, <2>1
<1>8. ASSUME NEW g \in Packets,
             \/ OpenStream(g) \/ OpenFails(g) \/ FirstDeadline(g)
             \/ FirstLen(g) \/ FirstBody(g) \/ FirstFails(g)
      PROVE  Held'
  <2>1. pc[g] \notin Locked /\ pc' = [pc EXCEPT ![g] = pc'[g]] /\ UNCHANGED <<ms, lock>>
    BY <1>0, <1>8 DEF OpenStream, OpenFails, FirstDeadline, FirstLen, FirstBody,
       FirstFails, Write, Step
  <2> QED BY <1>6, <2>1
<1>9. CASE MapFatal \/ Remote \/ UNCHANGED vars
  <2>1. UNCHANGED <<pc, ms, lock>>
    BY <1>9, RemoteKeepsLocal DEF MapFatal, localVars, vars
  <2> QED BY <2>1
<1> QED
  BY <1>1, <1>2, <1>3, <1>4, <1>5, <1>7, <1>8, <1>9 DEF Next, Send, Remote

\* MuxStream.Lock and its deferred Unlock: a stream has one writer at a time,
\* and its mutex is free whenever nobody writes to it, whatever call failed
\* and although the entry that led to the mutex may be gone: no goroutine of
\* sendPacket is left waiting for one that has returned.
THEOREM OneWriter == Spec => []MutexTells
<1>1. Init => Held
  BY DEF Init, Held
<1>2. IInv /\ Held /\ [Next]_vars => Held'
  BY HeldStep
<1>3. IInv /\ Held => MutexTells
  <2> SUFFICES ASSUME IInv, Held, NEW s \in Streams
               PROVE  Inside(s) = IF lock[s] = NoPacket THEN {} ELSE {lock[s]}
    BY DEF MutexTells
  <2>1. lock[s] \in Packets \cup {NoPacket}
    BY DEF IInv, TypeOK
  <2>2. \A g \in Inside(s) : lock[s] = g /\ g # NoPacket
    BY DistinctAssumption DEF IInv, Copies, Inside
  <2>3. lock[s] # NoPacket => lock[s] \in Inside(s)
    BY <2>1 DEF Held, Inside
  <2> QED BY <2>2, <2>3
<1> QED
  BY <1>1, <1>2, <1>3, Invariance, PTL DEF Spec

-----------------------------------------------------------------------------
(* Refinement: Tunnel implements Datagram.                                 *)

\* At the start nothing is offered and nothing was delivered.
LEMMA InitRefines == Init => D!Init
BY DEF Init, D!Init, D!Frames

\* Reading a packet from the interface offers it, a complete read in the
\* peer's handler delivers it there, and no other step shows.
LEMMA StepRefines == IInv /\ [Next]_vars => [D!Next]_(D!vars)
<1> SUFFICES ASSUME IInv, [Next]_vars PROVE [D!Next]_(D!vars)
  OBVIOUS
<1> DEFINE offered == {p \in Packets : pc[p] # "idle"}
<1>1. ASSUME NEW g \in Packets, Arrive(g) PROVE D!Offer(g)
  <2>1. /\ pc[g] = "idle" /\ pc'[g] # "idle" /\ UNCHANGED inbox
        /\ \A p \in Packets \ {g} : pc'[p] = pc[p]
    BY <1>1 DEF Arrive, Step, remoteVars, IInv, TypeOK
  <2> QED BY <2>1 DEF D!Offer
<1>2. ASSUME NEW s \in Streams, ReadBody(s)
      PROVE  \E p \in Packets : D!Deliver(p)
  <2> DEFINE p == wire[s][1].pkt
  <2>1. /\ p \in Packets /\ pc[p] # "idle" /\ Dst[p] = Dst[s] /\ Dst[s] \in Peers
        /\ inbox' = [inbox EXCEPT ![Dst[s]][p] = @ + 1]
        /\ pc' = pc
    BY <1>2, ReadsAPacket DEF ReadBody, localVars
  <2> HIDE DEF p
  <2> QED BY <2>1 DEF D!Deliver
<1>3. ASSUME UNCHANGED inbox, \A g \in Packets : (pc'[g] = "idle") <=> (pc[g] = "idle")
      PROVE  UNCHANGED D!vars
  BY <1>3 DEF D!vars
<1>4. CASE \E g \in Packets : Send(g)
  <2>1. UNCHANGED inbox
    BY <1>4 DEF Send, Lookup, Acquire, WriteLen, WriteBody, Write, Reused,
       ReuseFails, CloseStream, Delete, OpenStream, OpenFails, FirstDeadline,
       FirstLen, FirstBody, FirstFails, Publish, remoteVars
  <2>2. \A g \in Packets : (pc'[g] = "idle") <=> (pc[g] = "idle")
    BY <1>4 DEF Send, Lookup, Acquire, WriteLen, WriteBody, Reused,
       ReuseFails, CloseStream, Delete, OpenStream, OpenFails, FirstDeadline,
       FirstLen, FirstBody, FirstFails, Publish, Step, IInv, TypeOK
  <2> QED BY <1>3, <2>1, <2>2
<1>5. CASE MapFatal \/ UNCHANGED vars
  BY <1>3, <1>5 DEF MapFatal, vars, remoteVars
<1>6. CASE Remote /\ ~\E s \in Streams : ReadBody(s)
  <2>1. UNCHANGED <<pc, inbox>>
    BY <1>6 DEF Remote, NetworkReset, Handle, Accept, ReadLen, ReadFails,
       HandlerFails, Admit, localVars, remoteVars
  <2> QED BY <1>3, <2>1
<1> QED
  BY <1>1, <1>2, <1>4, <1>5, <1>6 DEF Next, Remote, D!Next

\* The tunnel is a datagram service: what an interface is given was offered
\* to the tunnel, unchanged and for that peer.
THEOREM Refinement == Spec => DatagramService
BY InitRefines, StepRefines, Invariance, PTL DEF Spec, DatagramService, D!Spec

=============================================================================
