------------------------------- MODULE Tunnel -------------------------------
(***************************************************************************)
(* The forwarding path of one node and the stream handlers of its peers:   *)
(* sendPacket, streamHandler and the hand-over in UpRun's loop (cli/up.go).*)
(*                                                                         *)
(* UpRun starts one goroutine per packet, so a goroutine is named by its   *)
(* packet; each goroutine opens at most one libp2p stream, so a stream is  *)
(* named by the packet whose goroutine opened it.  A frame on a stream is  *)
(* two writes: the length, then the body.                                  *)
(***************************************************************************)
EXTENDS Naturals, Sequences

CONSTANTS Packets, Peers,
          NoPeer,     \* the table has no route for the packet
          NoStream,   \* no entry in activeStreams
          NoPacket,   \* nobody holds the mutex
          Garbage,    \* what a handler delivers when it lost the framing
          Dst         \* cfg.FindRouteForIP of each packet's destination

ASSUME DstAssumption == Dst \in [Packets -> Peers \cup {NoPeer}]
ASSUME DistinctAssumption == /\ NoPeer \notin Peers
                             /\ NoStream \notin Packets
                             /\ NoPacket \notin Packets
                             /\ Garbage \notin Packets

VARIABLES
  up,             \* the daemon's process is alive
  pc,             \* where each packet's goroutine is
  ms,             \* the MuxStream it copied out of the map
  activeStreams,  \* the global map, one entry per destination
  lock,           \* the mutex published with each stream
  conn,           \* the stream as the transport sees it
  wire,           \* what was written and not yet turned into a packet
  rx,             \* the peer's streamHandler for the stream
  admits,         \* the peers whose configuration lists this node
  inbox           \* what the peers' interfaces were given

vars == <<up, pc, ms, activeStreams, lock, conn, wire, rx, admits, inbox>>

Streams == Packets
Frames == Packets \cup {Garbage}
Part(p, part) == [pkt |-> p, part |-> part]
Parts == [pkt : Packets, part : {"len", "body"}]

Locked  == {"writeLen", "writeBody", "deadline", "close", "delete"}
Private == {"firstDeadline", "firstLen", "firstBody", "publish"}
Settled == {"sent", "dropped", "unreachable", "noRoute"}

TypeOK ==
  /\ up \in BOOLEAN
  /\ pc \in [Packets -> {"idle", "lookup", "lock", "open"}
                          \cup Locked \cup Private \cup Settled]
  /\ ms \in [Packets -> Streams \cup {NoStream}]
  /\ \A g \in Packets : pc[g] \in Locked \cup {"lock"} => ms[g] # NoStream
  /\ activeStreams \in [Peers -> Streams \cup {NoStream}]
  /\ lock \in [Streams -> Packets \cup {NoPacket}]
  /\ conn \in [Streams -> {"unused", "open", "closed", "reset"}]
  /\ wire \in [Streams -> Seq(Parts)]
  /\ rx \in [Streams -> {"none", "accept", "len", "body", "done", "failed"}]
  /\ admits \in SUBSET Peers
  /\ inbox \in [Peers -> [Frames -> Nat]]

Init ==
  /\ up = TRUE
  /\ pc = [g \in Packets |-> "idle"]
  /\ ms = [g \in Packets |-> NoStream]
  /\ activeStreams = [q \in Peers |-> NoStream]
  /\ lock = [s \in Streams |-> NoPacket]
  /\ conn = [s \in Streams |-> "unused"]
  /\ wire = [s \in Streams |-> <<>>]
  /\ rx = [s \in Streams |-> "none"]
  /\ admits \in SUBSET Peers
  /\ inbox = [q \in Peers |-> [f \in Frames |-> 0]]

-----------------------------------------------------------------------------
(* Steps of a sendPacket goroutine                                         *)

Step(g, from, to) == /\ up
                     /\ pc[g] = from
                     /\ pc' = [pc EXCEPT ![g] = to]

remoteVars == <<rx, admits, inbox>>

\* A packet is read from the interface; with a route, go sendPacket(...).
Arrive(g) ==
  /\ Step(g, "idle", IF Dst[g] = NoPeer THEN "noRoute" ELSE "lookup")
  /\ UNCHANGED <<up, ms, activeStreams, lock, conn, wire, remoteVars>>

\* ms, ok := activeStreams[dst]: the stream and its lock are copied out.
Lookup(g) ==
  /\ Step(g, "lookup",
          IF activeStreams[Dst[g]] = NoStream THEN "open" ELSE "lock")
  /\ ms' = [ms EXCEPT ![g] = activeStreams[Dst[g]]]
  /\ UNCHANGED <<up, activeStreams, lock, conn, wire, remoteVars>>

\* ms.Lock.Lock()
Acquire(g) ==
  /\ Step(g, "lock", "writeLen")
  /\ lock[ms[g]] = NoPacket
  /\ lock' = [lock EXCEPT ![ms[g]] = g]
  /\ UNCHANGED <<up, ms, activeStreams, conn, wire, remoteVars>>

\* A write that succeeds; the transport refuses one on a dead stream.
Write(g, s, part) ==
  /\ conn[s] = "open"
  /\ wire' = [wire EXCEPT ![s] = Append(@, Part(g, part))]
  /\ UNCHANGED <<up, ms, activeStreams, lock, conn, remoteVars>>

WriteLen(g) == /\ Step(g, "writeLen", "writeBody")
               /\ Write(g, ms[g], "len")

WriteBody(g) == /\ Step(g, "writeBody", "deadline")
                /\ Write(g, ms[g], "body")

Unlock(g) == lock' = [lock EXCEPT ![ms[g]] = NoPacket]

\* Mutant: the unlock is not deferred, and the success path returns first.
ReusedKeepsLock(g) ==
  /\ Step(g, "deadline", "sent")
  /\ UNCHANGED <<up, ms, activeStreams, lock, conn, wire, remoteVars>>

\* SetWriteDeadline succeeds: return true, and the deferred Unlock.
Reused(g) ==
  /\ Step(g, "deadline", "sent")
  /\ Unlock(g)
  /\ UNCHANGED <<up, ms, activeStreams, conn, wire, remoteVars>>

\* Any of the three calls fails: the deadline passed or the stream died.
ReuseFails(g) ==
  /\ \E from \in {"writeLen", "writeBody", "deadline"} : Step(g, from, "close")
  /\ UNCHANGED <<up, ms, activeStreams, lock, conn, wire, remoteVars>>

\* stream.Close(): a reset stream stays reset.
CloseConn(s) ==
  conn' = [conn EXCEPT ![s] = IF @ = "open" THEN "closed" ELSE @]

CloseStream(g) ==
  /\ Step(g, "close", "delete")
  /\ CloseConn(ms[g])
  /\ UNCHANGED <<up, ms, activeStreams, lock, wire, remoteVars>>

\* Mutant: the entry is not deleted.
DeleteForgets(g) ==
  /\ Step(g, "delete", "open")
  /\ Unlock(g)
  /\ UNCHANGED <<up, ms, activeStreams, conn, wire, remoteVars>>

\* delete(activeStreams, dst), whatever the entry is by now; then unlock.
Delete(g) ==
  /\ Step(g, "delete", "open")
  /\ activeStreams' = [activeStreams EXCEPT ![Dst[g]] = NoStream]
  /\ Unlock(g)
  /\ UNCHANGED <<up, ms, conn, wire, remoteVars>>

\* Mutant: the stream is published before its first frame is written.
OpenAndPublish(g) ==
  /\ Step(g, "open", "firstDeadline")
  /\ conn' = [conn EXCEPT ![g] = "open"]
  /\ rx' = [rx EXCEPT ![g] = "accept"]
  /\ activeStreams' = [activeStreams EXCEPT ![Dst[g]] = g]
  /\ UNCHANGED <<up, ms, lock, wire, admits, inbox>>

\* NewStream succeeds; the peer's node starts a streamHandler for it.
OpenStream(g) ==
  /\ Step(g, "open", "firstDeadline")
  /\ conn' = [conn EXCEPT ![g] = "open"]
  /\ rx' = [rx EXCEPT ![g] = "accept"]
  /\ UNCHANGED <<up, ms, activeStreams, lock, wire, admits, inbox>>

\* NewStream fails: the packet is lost, go p2p.Rediscover() is started.
OpenFails(g) ==
  /\ Step(g, "open", "unreachable")
  /\ UNCHANGED <<up, ms, activeStreams, lock, conn, wire, remoteVars>>

FirstDeadline(g) ==
  /\ Step(g, "firstDeadline", "firstLen")
  /\ UNCHANGED <<up, ms, activeStreams, lock, conn, wire, remoteVars>>

FirstLen(g) == /\ Step(g, "firstLen", "firstBody")
               /\ Write(g, g, "len")

FirstBody(g) == /\ Step(g, "firstBody", "publish")
                /\ Write(g, g, "body")

FirstFails(g) ==
  /\ \E from \in {"firstDeadline", "firstLen", "firstBody"} :
        Step(g, from, "dropped")
  /\ CloseConn(g)
  /\ UNCHANGED <<up, ms, activeStreams, lock, wire, remoteVars>>

\* Mutant: the entry is made under another key than the destination.
PublishAnywhere(g) ==
  /\ Step(g, "publish", "sent")
  /\ \E q \in Peers : activeStreams' = [activeStreams EXCEPT ![q] = g]
  /\ lock' = [lock EXCEPT ![g] = NoPacket]
  /\ UNCHANGED <<up, ms, conn, wire, remoteVars>>

\* activeStreams[dst] = MuxStream{...} with a fresh, free mutex.
Publish(g) ==
  /\ Step(g, "publish", "sent")
  /\ activeStreams' = [activeStreams EXCEPT ![Dst[g]] = g]
  /\ lock' = [lock EXCEPT ![g] = NoPacket]
  /\ UNCHANGED <<up, ms, conn, wire, remoteVars>>

\* The map is not synchronized: when two goroutines are at an access and
\* one of them writes, the Go runtime may stop the process (fatal error:
\* concurrent map ...).  Otherwise the accesses take effect one by one.
Accessing(g) == pc[g] \in {"lookup", "delete", "publish"}
Modifying(g) == pc[g] \in {"delete", "publish"}

MapFatal ==
  /\ up
  /\ \E g, h \in Packets : g # h /\ Modifying(g) /\ Accessing(h)
  /\ up' = FALSE
  /\ conn' = [s \in Streams |-> IF conn[s] = "open" THEN "reset" ELSE conn[s]]
  /\ UNCHANGED <<pc, ms, activeStreams, lock, wire, remoteVars>>

-----------------------------------------------------------------------------
(* The network, the peers' operators and the peers' streamHandler          *)

localVars == <<up, pc, ms, activeStreams, lock>>

NetworkReset(s) ==
  /\ conn[s] = "open"
  /\ conn' = [conn EXCEPT ![s] = "reset"]
  /\ UNCHANGED <<localVars, wire, remoteVars>>

\* The operator of q adds this node (rpc AddPeer on q).
Admit(q) ==
  /\ q \notin admits
  /\ admits' = admits \cup {q}
  /\ UNCHANGED <<localVars, conn, wire, rx, inbox>>

\* FindPeer on the remote peer's ID: unknown nodes get a reset.
Accept(s) ==
  /\ rx[s] = "accept"
  /\ IF Dst[s] \in admits
     THEN /\ rx' = [rx EXCEPT ![s] = "len"]
          /\ UNCHANGED conn
     ELSE /\ rx' = [rx EXCEPT ![s] = "done"]
          /\ conn' = [conn EXCEPT ![s] = "reset"]
  /\ UNCHANGED <<localVars, wire, admits, inbox>>

\* The length is copied to packetSize; it stays at the head of wire until
\* the body it belongs to is read.
ReadLen(s) ==
  /\ rx[s] = "len"
  /\ wire[s] # <<>>
  /\ rx' = [rx EXCEPT ![s] = "body"]
  /\ UNCHANGED <<localVars, conn, wire, admits, inbox>>

\* What the bytes of a length and a body make: a packet only if they are
\* the two parts of one frame.
Decode(len, body) ==
  IF len.part = "len" /\ body = Part(len.pkt, "body") THEN len.pkt ELSE Garbage

\* Mutant: the next round starts at the same bytes again.
ConsumeNothing(s) == UNCHANGED wire

Consume(s) == wire' = [wire EXCEPT ![s] = SubSeq(@, 3, Len(@))]

\* Mutant: the handler returns after the first packet.
ReadBodyOnce(s) ==
  /\ rx[s] = "body"
  /\ Len(wire[s]) >= 2
  /\ LET f == Decode(wire[s][1], wire[s][2])
     IN  inbox' = [inbox EXCEPT ![Dst[s]][f] = @ + 1]
  /\ Consume(s)
  /\ rx' = [rx EXCEPT ![s] = "done"]
  /\ UNCHANGED <<localVars, conn, admits>>

\* The body is complete: arm the deadline, write to the interface, loop.
ReadBody(s) ==
  /\ rx[s] = "body"
  /\ Len(wire[s]) >= 2
  /\ LET f == Decode(wire[s][1], wire[s][2])
     IN  inbox' = [inbox EXCEPT ![Dst[s]][f] = @ + 1]
  /\ Consume(s)
  /\ rx' = [rx EXCEPT ![s] = "len"]
  /\ UNCHANGED <<localVars, conn, admits>>

\* SetWriteDeadline fails on the handler's side: the packet is lost and
\* the handler returns.
HandlerFails(s) ==
  /\ rx[s] = "body"
  /\ Len(wire[s]) >= 2
  /\ Consume(s)
  /\ rx' = [rx EXCEPT ![s] = "failed"]
  /\ UNCHANGED <<localVars, conn, admits, inbox>>

\* Read fails: the end of a closed stream, or a reset that overtakes data.
ReadFails(s) ==
  /\ rx[s] \in {"len", "body"}
  /\ \/ conn[s] = "reset"
     \/ /\ conn[s] = "closed"
        /\ Len(wire[s]) < (IF rx[s] = "len" THEN 1 ELSE 2)
  /\ rx' = [rx EXCEPT ![s] = "done"]
  /\ UNCHANGED <<localVars, conn, wire, admits, inbox>>

-----------------------------------------------------------------------------
Send(g) == \/ Lookup(g) \/ Acquire(g) \/ WriteLen(g) \/ WriteBody(g)
           \/ Reused(g) \/ ReuseFails(g) \/ CloseStream(g) \/ Delete(g)
           \/ OpenStream(g) \/ OpenFails(g) \/ FirstDeadline(g)
           \/ FirstLen(g) \/ FirstBody(g) \/ FirstFails(g) \/ Publish(g)

Handle(s) == Accept(s) \/ ReadLen(s) \/ ReadBody(s) \/ ReadFails(s)

Next == \/ \E g \in Packets : Arrive(g) \/ Send(g)
        \/ MapFatal
        \/ \E s \in Streams : NetworkReset(s) \/ Handle(s) \/ HandlerFails(s)
        \/ \E q \in Peers : Admit(q)

Spec == Init /\ [][Next]_vars

\* The Go scheduler runs every goroutine that can run, on both machines;
\* a write blocks no longer than the deadline armed before it.
Fairness == /\ \A g \in Packets : WF_vars(Send(g))
            /\ \A s \in Streams : WF_vars(Handle(s))

FairSpec == Spec /\ Fairness
-----------------------------------------------------------------------------
(* Properties                                                              *)

\* No interface is ever given bytes that are not one packet: the two writes
\* of a frame are never separated by another goroutine's, also when writes
\* fail halfway (the mutex of MuxStream, and Close before anybody else).
NoGarbage == \A q \in Peers : inbox[q][Garbage] = 0

\* A packet is delivered at most twice: a goroutine writes it to one reused
\* stream and, when that fails, to one new stream; a failure reported after
\* the body went out is what makes the second copy.
AtMostTwice == \A q \in Peers, p \in Packets : inbox[q][p] <= 2

\* A stream this node closed is not handed to other packets: it is in
\* activeStreams only while the goroutine that closed it is about to delete
\* the entry, also when a second goroutine publishes or deletes meanwhile.
NoDeadEntry ==
  \A q \in Peers :
    LET s == activeStreams[q] IN
    (s # NoStream /\ conn[s] = "closed") =>
       \E g \in Packets : pc[g] = "delete" /\ ms[g] = s

\* The tunnel implements the datagram service.
D == INSTANCE Datagram WITH offered <- {p \in Packets : pc[p] # "idle"}
DatagramService == D!Spec

\* Every packet read from the interface is disposed of: no goroutine waits
\* for ever on a mutex or on a dead stream, unless the runtime stopped us.
EveryPacketSettles ==
  \A g \in Packets : (pc[g] # "idle") ~> (pc[g] \in Settled \/ ~up)

\* A frame that is complete on a working stream does not stay there: it
\* reaches the peer's interface, unless the stream dies or the handler gives
\* up, because the handler loops.
Pending(p) == \E s \in Streams :
                /\ conn[s] = "open" /\ rx[s] # "failed"
                /\ \E i \in 1..Len(wire[s]) : wire[s][i] = Part(p, "body")

FramesAreDelivered == \A p \in Packets : Pending(p) ~> ~Pending(p)

=============================================================================
