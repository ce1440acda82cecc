------------------------------- MODULE Framing -------------------------------
(***************************************************************************)
(* One stream at the level of bytes: what sendPacket writes and how        *)
(* streamHandler (cli/up.go) cuts it into packets again.  Tunnel treats a  *)
(* frame as two parts that arrive whole; this module is about Read calls   *)
(* that return fewer bytes than asked for, the header buffer that is kept  *)
(* from one packet to the next, and streams that end inside a frame.       *)
(***************************************************************************)
EXTENDS Naturals, Sequences

CONSTANTS Radix,        \* values of a byte (256)
          Mtu,          \* capacity of the packet buffer (1420)
          MaxPackets    \* bound: packets written to the stream

ASSUME FramingAssumption == /\ Radix \in Nat \ {0} /\ Mtu \in Nat \ {0}
                            /\ Mtu < Radix * Radix
                            /\ MaxPackets \in Nat

VARIABLES sent,      \* the packets written completely, in order
          wire,      \* bytes written and not yet read
          closed,    \* the sender closed the stream after a failed write
          phase,     \* the handler reads a header or a body, or is over
          header,    \* packetSize: two bytes, never cleared
          body,      \* packet[:plen]
          received,  \* what was written to the interface
          split      \* history: a read has taken one byte of a header only

vars == <<sent, wire, closed, phase, header, body, received, split>>

Byte == 0..(Radix - 1)
Packet == UNION {[1..n -> Byte] : n \in 1..Mtu}

\* Mutant: the bytes are taken in the other order.
SizeBigEndian(h) == h[2] + Radix * h[1]

\* binary.LittleEndian.Uint16 and its inverse
Size(h) == h[1] + Radix * h[2]
Header(n) == <<n % Radix, n \div Radix>>
Frame(p) == Header(Len(p)) \o p

Take(s, n) == SubSeq(s, 1, n)
Drop(s, n) == SubSeq(s, n + 1, Len(s))

TypeOK ==
  /\ sent \in Seq(Packet) /\ received \in Seq(Packet)
  /\ wire \in Seq(Byte) /\ closed \in BOOLEAN
  /\ phase \in {"header", "body", "done", "panic"}
  /\ header \in [1..2 -> Byte]
  /\ body \in Seq(Byte) /\ Len(body) <= Mtu /\ split \in BOOLEAN
  /\ phase = "body" /\ Size(header) <= Mtu => Len(body) < Size(header)

Init ==
  /\ sent = <<>> /\ received = <<>> /\ wire = <<>> /\ closed = FALSE
  /\ phase = "header" /\ header = <<0, 0>> /\ body = <<>>
  /\ split = FALSE

-----------------------------------------------------------------------------
(* sendPacket                                                              *)

WritePacket(p) ==
  /\ ~closed /\ Len(sent) < MaxPackets
  /\ sent' = Append(sent, p)
  /\ wire' = wire \o Frame(p)
  /\ UNCHANGED <<closed, phase, header, body, received, split>>

\* A write fails after some of the frame went out, then Close().
WriteFails(p) ==
  /\ ~closed /\ Len(sent) < MaxPackets
  /\ \E n \in 0..(Len(Frame(p)) - 1) : wire' = wire \o Take(Frame(p), n)
  /\ closed' = TRUE
  /\ UNCHANGED <<sent, phase, header, body, received, split>>

-----------------------------------------------------------------------------
(* streamHandler                                                           *)

\* The number of bytes one Read into a buffer of k bytes may return.
ReadCounts(k) == {n \in 1..k : n <= Len(wire)}

Reading == UNCHANGED <<sent, closed>>

\* An empty write puts no packet on the interface.
Emit(p) == received' = IF p = <<>> THEN received ELSE Append(received, p)

\* stream.Read(packetSize): the count is not looked at, so after a short
\* read the rest of the buffer is from the packet before.
ReadHeader ==
  /\ phase = "header"
  /\ \E n \in ReadCounts(2) :
       /\ split' = (split \/ n = 1)
       /\ header' = Take(wire, n) \o Drop(header, n)
       /\ wire' = Drop(wire, n)
  /\ body' = <<>>
  /\ IF Size(header') = 0
     THEN phase' = "header" /\ Emit(<<>>)
     ELSE phase' = "body" /\ UNCHANGED received
  /\ Reading

\* Mutant: the whole buffer is offered to Read, not packet[plen:size].
ReadBodyGreedily ==
  /\ phase = "body"
  /\ Size(header) <= Mtu
  /\ \E n \in ReadCounts(Mtu - Len(body)) :
       /\ wire' = Drop(wire, n)
       /\ LET read == body \o Take(wire, n) IN
          IF Len(read) < Size(header)
          THEN body' = read /\ UNCHANGED <<phase, received>>
          ELSE body' = <<>> /\ phase' = "header" /\ Emit(read)
  /\ UNCHANGED <<header, split>>
  /\ Reading

\* Mutant: plen is assigned, not accumulated.
ReadBodyForgets ==
  /\ phase = "body"
  /\ Size(header) <= Mtu
  /\ \E n \in ReadCounts(Size(header) - Len(body)) :
       /\ wire' = Drop(wire, n)
       /\ IF n < Size(header)
          THEN body' = Take(wire, n) /\ UNCHANGED <<phase, received>>
          ELSE body' = <<>> /\ phase' = "header" /\ Emit(Take(wire, n))
  /\ UNCHANGED <<header, split>>
  /\ Reading

\* One round of the loop that reads packet[plen:size]; with the last byte
\* the packet goes to the interface.
ReadBody ==
  /\ phase = "body"
  /\ Size(header) <= Mtu
  /\ \E n \in ReadCounts(Size(header) - Len(body)) :
       /\ wire' = Drop(wire, n)
       /\ LET read == body \o Take(wire, n) IN
          IF Len(read) < Size(header)
          THEN body' = read /\ UNCHANGED <<phase, received>>
          ELSE body' = <<>> /\ phase' = "header" /\ Emit(read)
  /\ UNCHANGED <<header, split>>
  /\ Reading

\* packet[plen:size] beyond the capacity of the buffer
SliceBounds ==
  /\ phase = "body" /\ Size(header) > Mtu
  /\ phase' = "panic"
  /\ UNCHANGED <<wire, header, body, received, split>>
  /\ Reading

\* Mutant: the error is looked at only after the header.
ReadFailsInHeader ==
  /\ phase = "header" /\ closed
  /\ Len(wire) <= 2
  /\ phase' = "done"
  /\ UNCHANGED <<wire, header, body, received, split>>
  /\ Reading

\* Read returns an error: at the end of the stream, or with the last bytes
\* of it (n > 0 and io.EOF), which the handler then throws away.
ReadFails ==
  /\ phase \in {"header", "body"} /\ closed
  /\ phase = "body" => Size(header) <= Mtu
  /\ Len(wire) <= (IF phase = "body" THEN Size(header) - Len(body) ELSE 2)
  /\ phase' = "done"
  /\ UNCHANGED <<wire, header, body, received, split>>
  /\ Reading

Handler == ReadHeader \/ ReadBody \/ SliceBounds \/ ReadFails

Next == (\E p \in Packet : WritePacket(p) \/ WriteFails(p)) \/ Handler

Spec == Init /\ [][Next]_vars
FairSpec == Spec /\ WF_vars(Handler)   \* the handler's goroutine is scheduled

-----------------------------------------------------------------------------
(* Properties                                                              *)

\* "to ensure we know the full size of the packet at the other end"
\* (cli/up.go:288): what the handler writes to the interface is what was
\* sent, in order.
InOrder == /\ Len(received) <= Len(sent)
           /\ \A i \in 1..Len(received) : received[i] = sent[i]

\* InOrder holds however bodies are cut and wherever the stream ends, as long
\* as no read has returned half of a header.
InOrderUnlessSplit == ~split => InOrder

\* Until then the handler never slices its buffer out of bounds either, which
\* would end the process.
NoPanic == phase = "panic" => split

\* A packet written to a stream that stays open reaches the interface.
AllDelivered ==
  \A n \in 1..MaxPackets :
    (Len(sent) = n) ~> (Len(received) >= n \/ closed \/ split)

\* A stream that was closed, inside a frame or a header too, is given up by
\* the handler: its goroutine does not wait for the rest for ever.
HandlerReturns == closed ~> (phase \in {"done", "panic"})
=============================================================================
