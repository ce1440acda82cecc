---------------------------- MODULE FramingProofs ----------------------------
(***************************************************************************)
(* Proofs about Framing, for any radix, any capacity of the buffer and any *)
(* number of packets: until a read returns half of a header, the handler   *)
(* knows where each frame begins, and so cuts the bytes into the packets   *)
(* that were sent.                                                         *)
(***************************************************************************)
EXTENDS Framing, Integers, SequenceTheorems, TLAPS

\* The frames of a stream: the packets written completely and, once the sender
\* has closed it, the packet of which it wrote a part.
Written(part) == Append(sent, part)

\* start[i] is what is on the wire before the frame that follows i others,
\* negative when some of that frame has been read: every byte on the wire is the
\* one that its frame has at that place.
Cut(start, part) ==
  /\ \A i \in 0..Len(sent) : LET p == Written(part)[i + 1] IN
       /\ start[i + 1] = start[i] + 2 + Len(p) /\ start[i] <= start[Len(sent)]
       /\ \A k \in 1..(2 + Len(p)) :
            start[i] + k \in 1..Len(wire) => wire[start[i] + k] = Frame(p)[k]
  /\ start[Len(sent)] <= Len(wire) /\ Len(wire) < start[Len(sent) + 1]
  /\ ~closed => Len(wire) = start[Len(sent)]

\* The handler is at the beginning of a frame, or has read its header and, into
\* body, the packet's first bytes.
At(start, part) ==
  LET r == Len(received)  p == Written(part)[r + 1] IN
  /\ phase = "header" => start[r] = 0
  /\ phase = "body" => /\ start[r] = -(2 + Len(body)) /\ Len(body) < Len(p)
                       /\ Size(header) = Len(p)
                       /\ \A k \in 1..Len(body) : body[k] = p[k]

Synced == \E start \in [Nat -> Int], part \in Packet : Cut(start, part) /\ At(start, part)

\* The inductive invariant.
IInv == /\ TypeOK
        /\ ~split => /\ InOrder /\ phase # "panic"
                     /\ phase # "done" => Synced
-----------------------------------------------------------------------------
(* Operators                                                               *)

\* The two bytes of a length give it back, as no length exceeds the buffer.
LEMMA Headers ==
  ASSUME NEW n \in 0..Mtu
  PROVE  Header(n) \in [1..2 -> Byte] /\ Header(n) \in Seq(Byte) /\ Len(Header(n)) = 2
         /\ Size(Header(n)) = n
<1>1. Radix \in Nat /\ Radix > 0 /\ n \in Nat /\ n < Radix * Radix
  BY FramingAssumption
<1>2. (n % Radix) + Radix * (n \div Radix) = n
  BY <1>1
<1>3. n % Radix \in Byte
  BY <1>1 DEF Byte
<1>4. n \div Radix \in Nat
  BY <1>1
<1>5. n \div Radix < Radix
  BY <1>1, <1>2, <1>3, <1>4 DEF Byte
<1>6. n \div Radix \in Byte
  BY <1>1, <1>4, <1>5 DEF Byte
<1>7. Header(n) \in Seq(Byte) /\ Len(Header(n)) = 2
  BY <1>3, <1>6 DEF Header
<1>8. Header(n) \in [1..2 -> Byte] /\ Header(n)[1] = n % Radix /\ Header(n)[2] = n \div Radix
  BY <1>3, <1>6 DEF Header
<1> QED
  BY <1>2, <1>7, <1>8 DEF Size

LEMMA Sizes ==
  ASSUME NEW h \in [1..2 -> Byte]
  PROVE  Size(h) \in Nat
BY FramingAssumption DEF Size, Byte

LEMMA Packets ==
  ASSUME NEW p
  PROVE  p \in Packet <=> p \in Seq(Byte) /\ Len(p) \in 1..Mtu
<1>1. ASSUME p \in Packet
      PROVE  p \in Seq(Byte) /\ Len(p) \in 1..Mtu
  <2>1. PICK n \in 1..Mtu : p \in [1..n -> Byte]
    BY <1>1 DEF Packet
  <2>2. n \in Nat
    BY <2>1, FramingAssumption
  <2> QED
    BY <2>1, <2>2
<1>2. ASSUME p \in Seq(Byte), Len(p) \in 1..Mtu
      PROVE  p \in Packet
  <2>1. p \in [1..Len(p) -> Byte]
    BY <1>2
  <2> QED
    BY <2>1, <1>2 DEF Packet
<1> QED
  BY <1>1, <1>2

\* A frame: two bytes that give the length, then the packet.
LEMMA Frames ==
  ASSUME NEW p \in Packet
  PROVE  /\ Frame(p) \in Seq(Byte) /\ Len(Frame(p)) = 2 + Len(p)
         /\ Size(<<Frame(p)[1], Frame(p)[2]>>) = Len(p)
         /\ \A k \in 1..Len(p) : Frame(p)[2 + k] = p[k]
<1>1. p \in Seq(Byte) /\ Len(p) \in 0..Mtu /\ Len(p) \in Nat
  BY Packets
<1>2. /\ Header(Len(p)) \in Seq(Byte) /\ Len(Header(Len(p))) = 2
      /\ Size(Header(Len(p))) = Len(p)
  BY <1>1, Headers
<1> DEFINE h == Header(Len(p))
<1> HIDE DEF h
<1>3. /\ h \o p \in Seq(Byte) /\ Len(h \o p) = 2 + Len(p)
      /\ \A i \in 1..(2 + Len(p)) : (h \o p)[i] = IF i <= 2 THEN h[i] ELSE p[i - 2]
  <2>1. h \in Seq(Byte) /\ Len(h) = 2
    BY <1>2 DEF h
  <2>2. /\ h \o p \in Seq(Byte) /\ Len(h \o p) = Len(h) + Len(p)
        /\ \A i \in 1..(Len(h) + Len(p)) :
             (h \o p)[i] = IF i <= Len(h) THEN h[i] ELSE p[i - Len(h)]
    BY <1>1, <2>1, ConcatProperties
  <2> QED
    BY <2>1, <2>2
<1>4. Frame(p) = h \o p
  BY DEF Frame, h
<1>5. \A k \in 1..Len(p) : Frame(p)[2 + k] = p[k]
  BY <1>1, <1>3, <1>4
<1>6. Size(<<Frame(p)[1], Frame(p)[2]>>) = Len(p)
  BY <1>1, <1>2, <1>3, <1>4 DEF Size, h
<1> QED
  BY <1>3, <1>4, <1>5, <1>6

LEMMA Takes ==
  ASSUME NEW S, NEW s \in Seq(S), NEW n \in 0..Len(s)
  PROVE  /\ Take(s, n) \in Seq(S) /\ Len(Take(s, n)) = n
         /\ \A i \in 1..n : Take(s, n)[i] = s[i]
<1>1. Len(s) \in Nat /\ n \in Nat /\ n <= Len(s) /\ s \in [1..Len(s) -> S]
  OBVIOUS
<1>2. \A i \in 1..n : s[i] \in S
  BY <1>1
<1>3. \A i \in 1..n : SubSeq(s, 1, n)[i] = s[i]
  BY <1>1, <1>2, SubSeqProperties
<1>4. SubSeq(s, 1, n) \in Seq(S)
  BY <1>1, <1>2, SubSeqProperties
<1>5. Len(SubSeq(s, 1, n)) = n
  BY <1>1, <1>2, SubSeqProperties
<1> QED
  BY <1>3, <1>4, <1>5 DEF Take

LEMMA Drops ==
  ASSUME NEW S, NEW s \in Seq(S), NEW n \in 0..Len(s)
  PROVE  /\ Drop(s, n) \in Seq(S) /\ Len(Drop(s, n)) = Len(s) - n
         /\ \A i \in 1..(Len(s) - n) : Drop(s, n)[i] = s[i + n]
<1>1. Len(s) \in Nat /\ n \in Nat /\ n <= Len(s) /\ s \in [1..Len(s) -> S]
  OBVIOUS
<1>2. \A i \in (n + 1)..Len(s) : s[i] \in S
  BY <1>1
<1>3. SubSeq(s, n + 1, Len(s)) \in Seq(S)
  BY <1>1, <1>2, SubSeqProperties
<1>4. Len(SubSeq(s, n + 1, Len(s))) = Len(s) - n
  <2> DEFINE l == Len(s)  q == Len(SubSeq(s, n + 1, l))
  <2>1. q = IF n + 1 <= l THEN l - (n + 1) + 1 ELSE 0
    BY <1>1, <1>2, SubSeqProperties
  <2>2. l \in Nat /\ n \in Nat /\ n <= l
    BY <1>1
  <2> HIDE DEF l, q
  <2>3. q = l - n
    BY <2>1, <2>2
  <2> QED
    BY <2>3 DEF l, q
<1>5. \A i \in 1..(Len(s) - n) : SubSeq(s, n + 1, Len(s))[i] = s[n + 1 + i - 1]
  BY <1>1, <1>2, SubSeqProperties
<1>6. \A i \in 1..(Len(s) - n) : n + 1 + i - 1 = i + n
  BY <1>1
<1>7. \A i \in 1..(Len(s) - n) : SubSeq(s, n + 1, Len(s))[i] = s[i + n]
  BY <1>5, <1>6
<1> QED
  BY <1>3, <1>4, <1>7 DEF Drop

\* Header reads: the buffer keeps what was not overwritten.
LEMMA Buffers ==
  ASSUME NEW h \in [1..2 -> Byte], NEW s \in Seq(Byte), NEW n \in {1, 2}, n <= Len(s)
  PROVE  /\ Take(s, n) \o Drop(h, n) \in [1..2 -> Byte]
         /\ n = 2 => Take(s, n) \o Drop(h, n) = <<s[1], s[2]>>
<1>1. h \in Seq(Byte) /\ Len(h) = 2
  <2>1. h \in Seq(Byte)
    <3>1. 2 \in Nat
      OBVIOUS
    <3> QED
      BY <3>1, SeqDef
  <2>2. DOMAIN h = 1..2 /\ 2 \in Nat
    OBVIOUS
  <2> QED
    BY <2>1, <2>2, LenProperties
<1>2. n \in 0..Len(s) /\ n \in 0..Len(h)
  BY <1>1
<1> DEFINE a == Take(s, n)  b == Drop(h, n)
<1>3. a \in Seq(Byte) /\ Len(a) = n /\ \A i \in 1..n : a[i] = s[i]
  BY <1>2, Takes
<1>4. b \in Seq(Byte) /\ Len(b) = 2 - n
  <2>1. b \in Seq(Byte) /\ Len(b) = Len(h) - n
    BY <1>1, <1>2, Drops
  <2> QED
    BY <1>1, <2>1
<1> HIDE DEF a, b
<1>5. /\ a \o b \in Seq(Byte) /\ Len(a \o b) = 2
      /\ \A i \in 1..2 : (a \o b)[i] = IF i <= n THEN a[i] ELSE b[i - n]
  BY <1>3, <1>4, ConcatProperties
<1>6. a \o b \in [1..2 -> Byte]
  BY <1>5, LenProperties
<1>7. ASSUME n = 2
      PROVE  a \o b = <<s[1], s[2]>>
  <2>1. (a \o b)[1] = s[1] /\ (a \o b)[2] = s[2]
    BY <1>3, <1>5, <1>7
  <2>2. <<s[1], s[2]>> \in Seq(Byte)
    <3>1. 1 \in 1..Len(s) /\ 2 \in 1..Len(s)
      BY <1>7
    <3>2. s[1] \in Byte /\ s[2] \in Byte
      BY <3>1, ElementOfSeq
    <3> QED
      BY <3>2
  <2>3. Len(<<s[1], s[2]>>) = 2 /\ <<s[1], s[2]>>[1] = s[1] /\ <<s[1], s[2]>>[2] = s[2]
    OBVIOUS
  <2>4. \A i \in 1..2 : (a \o b)[i] = <<s[1], s[2]>>[i]
    <3> TAKE i \in 1..2
    <3>1. CASE i = 1
      BY <2>1, <2>3, <3>1
    <3>2. CASE i = 2
      BY <2>1, <2>3, <3>2
    <3>3. i = 1 \/ i = 2
      OBVIOUS
    <3> QED
      BY <3>1, <3>2, <3>3
  <2> QED
    BY <1>5, <2>2, <2>3, <2>4, SeqEqual
<1> QED
  BY <1>6, <1>7 DEF a, b
\* The packet that follows i others.
LEMMA Pieces ==
  ASSUME TypeOK, NEW part \in Packet
  PROVE  /\ Written(part) \in Seq(Packet)
         /\ \A i \in 0..Len(sent) : Written(part)[i + 1] \in Packet
         /\ \A i \in 1..Len(sent) : Written(part)[i] = sent[i]
         /\ Written(part)[Len(sent) + 1] = part
         /\ Len(sent) \in Nat
<1>1. sent \in Seq(Packet) /\ Len(sent) \in Nat
  BY DEF TypeOK
<1>2. /\ Written(part) \in Seq(Packet) /\ Len(Written(part)) = Len(sent) + 1
      /\ \A i \in 1..Len(sent) : Written(part)[i] = sent[i]
      /\ Written(part)[Len(sent) + 1] = part
  BY <1>1, AppendProperties DEF Written
<1>3. ASSUME NEW i \in 0..Len(sent)
      PROVE  Written(part)[i + 1] \in Packet
  <2>1. i + 1 \in 1..Len(Written(part))
    BY <1>1, <1>2
  <2> QED
    BY <1>2, <2>1, ElementOfSeq
<1> QED
  BY <1>1, <1>2, <1>3

-----------------------------------------------------------------------------
(* Type correctness                                                        *)

LEMMA InitTypeOK == Init => TypeOK
<1> SUFFICES ASSUME Init PROVE TypeOK
  OBVIOUS
<1>1. header \in [1..2 -> Byte]
  BY FramingAssumption DEF Init, Byte
<1>2. Len(body) <= Mtu
  BY FramingAssumption DEF Init
<1>3. sent \in Seq(Packet) /\ received \in Seq(Packet) /\ wire \in Seq(Byte) /\ body \in Seq(Byte)
  BY EmptySeq DEF Init
<1>4. phase = "header" /\ closed = FALSE /\ split = FALSE
  BY DEF Init
<1> QED
  BY <1>1, <1>2, <1>3, <1>4 DEF TypeOK

LEMMA NextTypeOK == TypeOK /\ [Next]_vars => TypeOK'
<1> SUFFICES ASSUME TypeOK, [Next]_vars PROVE TypeOK'
  OBVIOUS
<1> USE DEF TypeOK
<1>1. ASSUME NEW p \in Packet, WritePacket(p)
      PROVE  TypeOK'
  <2>1. sent' \in Seq(Packet)
    BY <1>1, AppendProperties DEF WritePacket
  <2>2. wire' \in Seq(Byte)
    BY <1>1, Frames, ConcatProperties DEF WritePacket
  <2> QED
    BY <1>1, <2>1, <2>2 DEF WritePacket
<1>2. ASSUME NEW p \in Packet, WriteFails(p)
      PROVE  TypeOK'
  <2>1. PICK n \in 0..(Len(Frame(p)) - 1) : wire' = wire \o Take(Frame(p), n)
    BY <1>2 DEF WriteFails
  <2>2. Frame(p) \in Seq(Byte) /\ Len(Frame(p)) \in Nat
    BY Frames, LenProperties
  <2>3. n \in 0..Len(Frame(p))
    BY <2>2
  <2>4. Take(Frame(p), n) \in Seq(Byte)
    BY <2>2, <2>3, Takes
  <2>5. wire' \in Seq(Byte)
    BY <2>1, <2>4, ConcatProperties
  <2> QED
    BY <1>2, <2>5 DEF WriteFails
<1>3. ASSUME ReadHeader
      PROVE  TypeOK'
  <2>1. PICK n \in ReadCounts(2) : /\ split' = (split \/ n = 1)
                                   /\ header' = Take(wire, n) \o Drop(header, n)
                                   /\ wire' = Drop(wire, n)
    BY <1>3 DEF ReadHeader
  <2>2. n \in {1, 2} /\ n <= Len(wire) /\ n \in 0..Len(wire)
    BY <2>1 DEF ReadCounts
  <2>3. header' \in [1..2 -> Byte]
    BY <2>1, <2>2, Buffers
  <2>4. wire' \in Seq(Byte)
    BY <2>1, <2>2, Drops
  <2>5. body' = <<>> /\ body' \in Seq(Byte) /\ Len(body') = 0
    BY <1>3 DEF ReadHeader
  <2>6. received' = received
    BY <1>3 DEF ReadHeader, Emit
  <2>7. Size(header') \in Nat
    BY <2>3, Sizes
  <2>8. phase' \in {"header", "body"} /\ (phase' = "body" => Len(body') < Size(header'))
    BY <1>3, <2>5, <2>7 DEF ReadHeader
  <2>9. sent' = sent /\ closed' = closed /\ split' \in BOOLEAN
    BY <1>3, <2>1 DEF ReadHeader, Reading
  <2> QED
    BY <2>3, <2>4, <2>5, <2>6, <2>8, <2>9, FramingAssumption
<1>4. ASSUME ReadBody
      PROVE  TypeOK'
  <2> DEFINE read(n) == body \o Take(wire, n)
  <2>1. PICK n \in ReadCounts(Size(header) - Len(body)) :
           /\ wire' = Drop(wire, n)
           /\ IF Len(read(n)) < Size(header)
              THEN body' = read(n) /\ UNCHANGED <<phase, received>>
              ELSE body' = <<>> /\ phase' = "header" /\ Emit(read(n))
    BY <1>4 DEF ReadBody
  <2>2. /\ Size(header) \in Nat /\ Size(header) <= Mtu /\ phase = "body"
        /\ sent' = sent /\ closed' = closed /\ header' = header /\ split' = split
    BY <1>4, Sizes DEF ReadBody, Reading
  <2>3. n \in Nat /\ n >= 1 /\ n <= Len(wire) /\ n <= Size(header) - Len(body)
    BY <2>1, <2>2 DEF ReadCounts
  <2>4. wire' \in Seq(Byte) /\ Take(wire, n) \in Seq(Byte) /\ Len(Take(wire, n)) = n
    <3>1. n \in 0..Len(wire)
      BY <2>3
    <3> QED
      BY <2>1, <3>1, Takes, Drops
  <2>5. read(n) \in Seq(Byte) /\ Len(read(n)) = Len(body) + n
    BY <2>4, ConcatProperties
  <2> HIDE DEF read
  <2>6. Len(read(n)) >= 1 /\ Len(read(n)) <= Size(header) /\ Len(read(n)) \in 1..Mtu
    BY <2>2, <2>3, <2>5, FramingAssumption
  <2>7. CASE Len(read(n)) < Size(header)
    BY <2>1, <2>2, <2>4, <2>5, <2>6, <2>7
  <2>8. CASE ~(Len(read(n)) < Size(header))
    <3>1. body' = <<>> /\ phase' = "header" /\ Len(body') = 0
      BY <2>1, <2>8
    <3>2. received' \in Seq(Packet)
      <4>1. read(n) \in Packet
        BY <2>5, <2>6, Packets
      <4>2. received' = received \/ received' = Append(received, read(n))
        BY <2>1, <2>8 DEF Emit
      <4>3. Append(received, read(n)) \in Seq(Packet)
        BY <4>1, AppendProperties
      <4> QED
        BY <4>2, <4>3
    <3> QED
      BY <2>2, <2>4, <3>1, <3>2, FramingAssumption
  <2> QED
    BY <2>7, <2>8
<1>5. ASSUME SliceBounds \/ ReadFails
      PROVE  TypeOK'
  BY <1>5 DEF SliceBounds, ReadFails, Reading
<1>6. CASE UNCHANGED vars
  BY <1>6 DEF vars
<1> QED
  BY <1>1, <1>2, <1>3, <1>4, <1>5, <1>6 DEF Next, Handler
-----------------------------------------------------------------------------
(* The places of the frames                                                *)

\* A read takes bytes off the wire, and so moves all frames forward.
LEMMA Shift ==
  ASSUME TypeOK, NEW start, \A i \in Nat : start[i] \in Int,
         NEW part \in Packet, Cut(start, part),
         NEW n \in 0..Len(wire), wire' = Drop(wire, n), sent' = sent, closed' = closed,
         NEW moved, \A i \in Nat : moved[i] = start[i] - n
  PROVE  Cut(moved, part)'
<1>1. \A i \in Nat : moved[i] = start[i] - n /\ start[i] \in Int /\ moved[i] \in Int
  OBVIOUS
<1>2. sent \in Seq(Packet) /\ wire \in Seq(Byte)
  BY DEF TypeOK
<1>3. Len(sent) \in Nat /\ Len(wire) \in Nat /\ n \in Nat
  BY <1>2, LenProperties
<1>4. Len(wire') = Len(wire) - n /\ \A i \in 1..(Len(wire) - n) : wire'[i] = wire[i + n]
  BY <1>2, Drops
<1>5. Written(part)' = Written(part)
  BY DEF Written
<1> DEFINE Placed(w, at, p, i) == \A k \in 1..(2 + Len(p)) :
                                    at[i] + k \in 1..Len(w) => w[at[i] + k] = Frame(p)[k]
<1>6. ASSUME NEW i \in 0..Len(sent), NEW p \in Packet, p = Written(part)[i + 1]
      PROVE  /\ moved[i + 1] = moved[i] + 2 + Len(p) /\ moved[i] <= moved[Len(sent)]
             /\ Placed(wire', moved, p, i)
  <2>1. start[i + 1] = start[i] + 2 + Len(p) /\ start[i] <= start[Len(sent)]
    BY <1>6 DEF Cut
  <2>0. Placed(wire, start, p, i)
    BY <1>6 DEF Cut
  <2>2. i \in Nat /\ i + 1 \in Nat
    BY <1>3
  <2>3. Len(p) \in Nat
    BY Packets, LenProperties
  <2>4. /\ moved[i] = start[i] - n /\ moved[i + 1] = start[i + 1] - n
        /\ moved[Len(sent)] = start[Len(sent)] - n
        /\ start[i] \in Int /\ start[i + 1] \in Int /\ start[Len(sent)] \in Int
    BY <1>1, <1>3, <2>2
  <2>5. moved[i + 1] = moved[i] + 2 + Len(p) /\ moved[i] <= moved[Len(sent)]
    <3>1. n \in Nat
      BY <1>3
    <3>2. moved[i] <= moved[Len(sent)]
      BY <3>1, <2>1, <2>4
    <3> DEFINE a == start[i]  c == start[i + 1]  m == Len(p)
    <3>3. a \in Int /\ c \in Int /\ m \in Nat /\ c = a + 2 + m
      BY <2>1, <2>3, <2>4
    <3>4. moved[i] = a - n /\ moved[i + 1] = c - n
      BY <2>4
    <3> HIDE DEF a, c, m
    <3>5. c - n = (a - n) + 2 + m
      BY <3>1, <3>3
    <3>6. moved[i + 1] = moved[i] + 2 + Len(p)
      BY <3>4, <3>5 DEF m
    <3> QED
      BY <3>2, <3>6
  <2>6. ASSUME NEW k \in 1..(2 + Len(p)), moved[i] + k \in 1..Len(wire')
        PROVE  wire'[moved[i] + k] = Frame(p)[k]
    <3>1. k \in Int
      OBVIOUS
    <3>2. moved[i] + k \in 1..(Len(wire) - n) /\ (moved[i] + k) + n = start[i] + k
      <4>1. moved[i] + k \in 1..(Len(wire) - n)
        BY <1>4, <2>6
      <4>2. ((start[i] - n) + k) + n = start[i] + k
        BY <1>3, <2>4, <3>1
      <4> QED
        BY <2>4, <4>1, <4>2
    <3>3. start[i] + k \in 1..Len(wire)
      <4>1. start[i] + k \in Int /\ moved[i] + k \in Int
        BY <1>3, <2>4, <3>1
      <4>2. moved[i] + k >= 1 /\ moved[i] + k <= Len(wire) - n
        BY <1>3, <3>2, <4>1
      <4>3. start[i] + k >= 1 /\ start[i] + k <= Len(wire)
        <5> DEFINE a == moved[i] + k  c == start[i] + k
        <5>1. a \in Int /\ c = a + n /\ a >= 1 /\ a <= Len(wire) - n
          BY <3>2, <4>1, <4>2
        <5> HIDE DEF a, c
        <5>2. c >= 1 /\ c <= Len(wire)
          BY <1>3, <5>1
        <5> QED
          BY <5>2 DEF c
      <4> QED
        BY <1>3, <4>1, <4>3
    <3>4. wire'[moved[i] + k] = wire[start[i] + k]
      BY <1>4, <3>2
    <3> QED
      BY <2>0, <3>3, <3>4
  <2> QED
    BY <2>5, <2>6
<1>7. /\ moved[Len(sent)] <= Len(wire') /\ Len(wire') < moved[Len(sent) + 1]
      /\ ~closed => Len(wire') = moved[Len(sent)]
  <2>1. /\ start[Len(sent)] <= Len(wire) /\ Len(wire) < start[Len(sent) + 1]
        /\ ~closed => Len(wire) = start[Len(sent)]
    BY DEF Cut
  <2>2. Len(sent) + 1 \in Nat
    BY <1>3
  <2>3. /\ start[Len(sent)] \in Int /\ start[Len(sent) + 1] \in Int
        /\ moved[Len(sent)] = start[Len(sent)] - n
        /\ moved[Len(sent) + 1] = start[Len(sent) + 1] - n
    BY <1>1, <1>3, <2>2
  <2> QED
    BY <1>3, <1>4, <2>1, <2>3
<1>8. \A i \in 0..Len(sent) : Written(part)[i + 1] \in Packet
  BY Pieces
<1> HIDE DEF Placed
<1>9. \A i \in 0..Len(sent') :
        /\ moved[i + 1] = moved[i] + 2 + Len((Written(part)')[i + 1])
        /\ moved[i] <= moved[Len(sent')]
        /\ Placed(wire', moved, (Written(part)')[i + 1], i)
  BY <1>5, <1>6, <1>8
<1> QED
  BY <1>1, <1>7, <1>9 DEF Cut, Placed
\* A write that is complete adds a frame, one that fails a part of one; where the
\* others are, and what the handler is at, stays so.
LEMMA WriteStep ==
  ASSUME TypeOK, InOrder, ~closed, phase \in {"header", "body"},
         NEW start, \A i \in Nat : start[i] \in Int, NEW part \in Packet,
         Cut(start, part), At(start, part),
         NEW p \in Packet, NEW n \in 0..Len(Frame(p)), wire' = wire \o Take(Frame(p), n),
         \/ sent' = Append(sent, p) /\ n = Len(Frame(p)) /\ closed' = closed
         \/ sent' = sent /\ n < Len(Frame(p)) /\ closed' = TRUE,
         UNCHANGED <<phase, header, body, received>>,
         NEW later,
         \A i \in Nat : later[i] = IF i <= Len(sent) THEN start[i]
                                   ELSE IF i = Len(sent) + 1 THEN Len(wire) + 2 + Len(p)
                                   ELSE Len(wire) + 4 + Len(p) + Len(p)
  PROVE  Cut(later, p)' /\ At(later, p)'
<1> DEFINE l == Len(sent)  w == Len(wire)  m == Len(p)  l2 == Len(sent')  w2 == Len(wire')
           q(i) == Written(part)[i + 1]  q2(i) == (Written(p)')[i + 1]
<1>1. /\ sent \in Seq(Packet) /\ wire \in Seq(Byte) /\ l \in Nat /\ w \in Nat
      /\ Frame(p) \in Seq(Byte) /\ Len(Frame(p)) = 2 + m /\ m \in Nat /\ n \in Nat /\ n <= 2 + m
  <2>1. sent \in Seq(Packet) /\ wire \in Seq(Byte)
    BY DEF TypeOK
  <2>2. p \in Seq(Byte)
    BY Packets
  <2>3. Frame(p) \in Seq(Byte) /\ Len(Frame(p)) = 2 + m
    BY Frames
  <2> QED
    BY <2>1, <2>2, <2>3, LenProperties
<1>2. w2 = w + n /\ \A i \in 1..(w + n) : wire'[i] = IF i <= w THEN wire[i] ELSE Frame(p)[i - w]
  <2> DEFINE t == Take(Frame(p), n)
  <2>1. t \in Seq(Byte) /\ Len(t) = n /\ \A i \in 1..n : t[i] = Frame(p)[i]
    BY <1>1, Takes
  <2> HIDE DEF t
  <2>2. /\ Len(wire \o t) = w + n
        /\ \A i \in 1..(w + n) : (wire \o t)[i] = IF i <= w THEN wire[i] ELSE t[i - w]
    <3>1. /\ Len(wire \o t) = w + Len(t)
          /\ \A i \in 1..(w + Len(t)) : (wire \o t)[i] = IF i <= w THEN wire[i] ELSE t[i - w]
      <4>1. wire \in Seq(Byte) /\ t \in Seq(Byte)
        BY <1>1, <2>1
      <4>2. \A i \in 1..(w + Len(t)) : (wire \o t)[i] = IF i <= w THEN wire[i] ELSE t[i - w]
        BY <4>1, ConcatProperties
      <4> QED
        BY <4>1, <4>2, ConcatProperties
    <3> QED
      BY <2>1, <3>1
  <2>3. \A i \in 1..(w + n) : i <= w \/ i - w \in 1..n
    BY <1>1
  <2> QED
    BY <2>1, <2>2, <2>3 DEF t
<1>3. /\ \/ l2 = l + 1 /\ n = 2 + m /\ closed' = closed
         \/ l2 = l /\ n < 2 + m /\ closed' = TRUE
      /\ \A i \in 1..l : sent'[i] = sent[i]
      /\ l2 = l + 1 => sent'[l + 1] = p
  BY <1>1, AppendProperties
<1>4. /\ \A i \in 0..l : q(i) \in Packet
      /\ \A i \in 0..l : i < l => q2(i) = q(i) /\ q(i) = sent[i + 1]
      /\ \A i \in l..l2 : q2(i) = p
  <2>1. \A i \in 0..l : q(i) \in Packet
    BY Pieces
  <2>2. sent' \in Seq(Packet)
    <3>1. Append(sent, p) \in Seq(Packet)
      BY <1>1, AppendProperties
    <3> QED
      BY <1>1, <3>1
  <2>3. ASSUME NEW i \in 0..l, i < l
        PROVE  q(i) = sent[i + 1] /\ q2(i) = sent'[i + 1]
    <3>1. i + 1 \in 1..l /\ i + 1 \in 1..l2
      BY <1>1, <1>3, <2>3
    <3> QED
      BY <1>1, <2>2, <3>1, AppendProperties DEF Written
  <2>4. ASSUME NEW i \in l..l2
        PROVE  q2(i) = p
    <3>1. l2 \in Nat /\ (i = l2 \/ (i = l /\ l2 = l + 1))
      BY <1>1, <1>3
    <3>2. Append(sent', p)[l2 + 1] = p
      BY <2>2, AppendProperties
    <3>3. l2 = l + 1 => Append(sent', p)[l + 1] = p
      <4>1. l2 = l + 1 => l + 1 \in 1..l2
        BY <1>1
      <4> QED
        BY <1>3, <2>2, <4>1, AppendProperties
    <3> QED
      BY <3>1, <3>2, <3>3 DEF Written
  <2>5. \A i \in 0..l : i < l => q(i) = sent[i + 1] /\ q2(i) = sent[i + 1]
    <3>1. \A i \in 0..l : i < l => i + 1 \in 1..l
      BY <1>1
    <3> QED
      BY <1>3, <2>3, <3>1
  <2> HIDE DEF q, q2, l, l2
  <2> QED
    BY <2>1, <2>4, <2>5
<1>5. /\ start[l] = w
      /\ \A i \in 0..l : start[i + 1] = start[i] + 2 + Len(q(i)) /\ start[i] <= w
      /\ \A i \in 0..l : \A k \in 1..(2 + Len(q(i))) :
           start[i] + k \in 1..w => wire[start[i] + k] = Frame(q(i))[k]
  BY DEF Cut
<1>6. /\ \A i \in 0..l : later[i] = start[i]
      /\ later[l + 1] = w + 2 + m /\ later[l + 2] = w + 4 + m + m
  BY <1>1
<1> HIDE DEF l, w, m, l2, w2, q, q2
<1>7. /\ later[l2] <= w2 /\ w2 < later[l2 + 1]
      /\ ~closed' => w2 = later[l2]
      /\ \A i \in 0..l2 : later[i] <= later[l2]
  <2>1. later[l] = w
    BY <1>1, <1>5, <1>6
  <2>2. CASE l2 = l
    <3>1. \A i \in 0..l : later[i] <= later[l]
      BY <1>5, <1>6, <2>1
    <3> QED
      BY <1>1, <1>2, <1>3, <1>6, <2>1, <2>2, <3>1
  <2>3. CASE l2 = l + 1
    <3>1. n = 2 + m /\ closed' = closed /\ w2 = w + 2 + m
      BY <1>1, <1>2, <1>3, <2>3
    <3>2. \A i \in 0..l : later[i] <= w + 2 + m
      <4> TAKE i \in 0..l
      <4>1. i \in Nat
        BY <1>1
      <4>2. later[i] = start[i] /\ start[i] <= w /\ start[i] \in Int
        BY <1>5, <1>6, <4>1
      <4> QED
        BY <1>1, <4>2
    <3>3. \A i \in 0..l2 : later[i] <= later[l2]
      <4>1. \A i \in 0..l2 : i \in 0..l \/ i = l + 1
        BY <1>1, <2>3
      <4> QED
        BY <1>1, <1>6, <2>3, <3>2, <4>1
    <3>4. l2 + 1 = l + 2
      BY <1>1, <2>3
    <3> QED
      BY <1>1, <1>6, <2>3, <3>1, <3>3, <3>4
  <2> QED
    BY <1>3, <2>2, <2>3
\* The frames that were there.
<1>8. ASSUME NEW i \in 0..l, i < l
      PROVE  /\ later[i + 1] = later[i] + 2 + Len(q2(i))
             /\ \A k \in 1..(2 + Len(q2(i))) :
                  later[i] + k \in 1..w2 => wire'[later[i] + k] = Frame(q2(i))[k]
  <2>1. /\ i \in Nat /\ i + 1 \in 0..l /\ start[i] \in Int /\ q2(i) = q(i)
        /\ Len(q(i)) \in Nat /\ later[i] = start[i] /\ later[i + 1] = start[i + 1]
    <3>1. q(i) \in Seq(Byte)
      BY <1>4, Packets
    <3>2. i \in Nat /\ i + 1 \in 0..l
      BY <1>1, <1>8
    <3> QED
      BY <1>4, <1>6, <1>8, <3>1, <3>2, LenProperties
  <2>2. start[i + 1] = start[i] + 2 + Len(q(i)) /\ start[i + 1] <= w
    BY <1>5, <2>1
  <2>3. ASSUME NEW k \in 1..(2 + Len(q(i))), start[i] + k \in 1..w2
        PROVE  wire'[start[i] + k] = Frame(q(i))[k]
    <3>1. start[i] + k \in Int /\ start[i] + k >= 1 /\ start[i] + k <= w
      <4> DEFINE a == start[i]  c == start[i + 1]  e == Len(q(i))
      <4>1. a \in Int /\ e \in Nat /\ c = a + 2 + e /\ c <= w /\ k \in 1..(2 + e) /\ a + k \in 1..w2
        BY <2>1, <2>2, <2>3
      <4> HIDE DEF a, c, e
      <4>2. a + k \in Int /\ a + k >= 1 /\ a + k <= w
        BY <1>1, <4>1
      <4> QED
        BY <4>2 DEF a
    <3>2. start[i] + k \in 1..w /\ start[i] + k \in 1..(w + n)
      BY <1>1, <3>1
    <3>3. wire'[start[i] + k] = wire[start[i] + k]
      BY <1>2, <3>1, <3>2
    <3> QED
      BY <1>5, <2>3, <3>2, <3>3
  <2> QED
    BY <2>1, <2>2, <2>3
\* The new one, and the one of which nothing is on the wire.
<1>9. ASSUME NEW i \in l..l2
      PROVE  /\ later[i + 1] = later[i] + 2 + Len(q2(i))
             /\ \A k \in 1..(2 + Len(q2(i))) :
                  later[i] + k \in 1..w2 => wire'[later[i] + k] = Frame(q2(i))[k]
  <2>1. q2(i) = p /\ Len(q2(i)) = m
    BY <1>4 DEF m
  <2>2. i = l \/ (i = l + 1 /\ l2 = l + 1)
    BY <1>1, <1>3
  <2>3. CASE i = l
    <3>1. later[i] = w /\ later[i + 1] = w + 2 + m
      <4>1. l \in 0..l
        BY <1>1
      <4> QED
        BY <1>5, <1>6, <2>3, <4>1
    <3>2. ASSUME NEW k \in 1..(2 + m), w + k \in 1..w2
          PROVE  wire'[w + k] = Frame(p)[k]
      <4>1. w + k \in 1..(w + n) /\ ~(w + k <= w) /\ (w + k) - w = k
        BY <1>1, <1>2, <3>2
      <4> QED
        BY <1>2, <4>1
    <3> QED
      BY <1>1, <2>1, <3>1, <3>2
  <2>4. CASE i = l + 1 /\ l2 = l + 1
    <3>1. i + 1 = l + 2 /\ later[i] = w + 2 + m /\ later[i + 1] = w + 4 + m + m
      BY <1>1, <1>6, <2>4
    <3>2. w2 = w + 2 + m
      BY <1>1, <1>2, <1>3, <2>4
    <3>3. ASSUME NEW k \in 1..(2 + m)
          PROVE  ~(w + 2 + m + k \in 1..w2)
      BY <1>1, <3>2
    <3>4. w + 4 + m + m = (w + 2 + m) + 2 + m
      BY <1>1
    <3> QED
      BY <2>1, <3>1, <3>3, <3>4
  <2> QED
    BY <2>2, <2>3, <2>4
<1>10. Cut(later, p)'
  <2>1. \A i \in 0..l2 : (i \in 0..l /\ i < l) \/ i \in l..l2
    BY <1>1, <1>3
  <2>2. \A i \in 0..l2 :
           /\ later[i + 1] = later[i] + 2 + Len(q2(i)) /\ later[i] <= later[l2]
           /\ \A k \in 1..(2 + Len(q2(i))) :
                  later[i] + k \in 1..w2 => wire'[later[i] + k] = Frame(q2(i))[k]
    BY <1>7, <1>8, <1>9, <2>1
  <2> QED
    BY <1>7, <2>2 DEF Cut, l2, w2, q2
<1>11. At(later, p)'
  <2> DEFINE r == Len(received)
  <2>1. r \in Nat /\ r \in 0..l
    BY <1>1 DEF TypeOK, InOrder, l
  <2>2. later[r] = start[r] /\ start[r] \in Int
    BY <1>6, <2>1
  <2>3. phase = "header" => start[r] = 0
    BY DEF At
  <2>4. ASSUME phase = "body"
        PROVE  r < l
    <3>1. start[r] = -(2 + Len(body)) /\ Len(body) \in Nat
      BY <2>4 DEF At, TypeOK
    <3> QED
      BY <1>1, <1>5, <2>1, <3>1
  <2>5. ASSUME phase = "body"
        PROVE  /\ start[r] = -(2 + Len(body)) /\ Len(body) < Len(q(r))
               /\ Size(header) = Len(q(r))
               /\ \A k \in 1..Len(body) : body[k] = q(r)[k]
               /\ q2(r) = q(r)
    <3>1. q2(r) = q(r)
      BY <1>4, <2>1, <2>4, <2>5
    <3> QED
      BY <2>5, <3>1 DEF At, q
  <2> HIDE DEF r
  <2>6. /\ phase' = "header" => later[r] = 0
        /\ phase' = "body" => /\ later[r] = -(2 + Len(body)) /\ Len(body) < Len(q2(r))
                              /\ Size(header) = Len(q2(r))
                              /\ \A k \in 1..Len(body) : body[k] = q2(r)[k]
    BY <2>2, <2>3, <2>5
  <2>7. Size(header)' = Size(header) /\ body' = body /\ Len(received') = r
    BY DEF Size, r
  <2> QED
    BY <2>6, <2>7 DEF At, q2
<1> QED
  BY <1>10, <1>11
\* A header that is read whole is the length of the next frame's packet.
LEMMA HeaderStep ==
  ASSUME TypeOK, InOrder, ReadHeader, ~split',
         NEW start, \A i \in Nat : start[i] \in Int, NEW part \in Packet,
         Cut(start, part), At(start, part),
         NEW moved, \A i \in Nat : moved[i] = start[i] - 2
  PROVE  Cut(moved, part)' /\ At(moved, part)'
<1> DEFINE r == Len(received)  p == Written(part)[r + 1]
<1>1. /\ 2 \in ReadCounts(2) /\ header' = Take(wire, 2) \o Drop(header, 2)
      /\ wire' = Drop(wire, 2) /\ UNCHANGED <<sent, closed, received>>
      /\ phase = "header" /\ body' = <<>>
      /\ phase' = IF Size(header') = 0 THEN "header" ELSE "body"
  <2>1. PICK n \in ReadCounts(2) : /\ split' = (split \/ n = 1)
                                   /\ header' = Take(wire, n) \o Drop(header, n)
                                   /\ wire' = Drop(wire, n)
    BY DEF ReadHeader
  <2>2. n = 2
    <3>1. n # 1
      BY <2>1
    <3>2. n = 1 \/ n = 2
      BY DEF ReadCounts
    <3> QED
      BY <3>1, <3>2
  <2> QED
    BY <2>1, <2>2 DEF ReadHeader, Reading, Emit
<1>2. wire \in Seq(Byte) /\ 2 \in 0..Len(wire) /\ 2 <= Len(wire) /\ Len(wire) \in Nat
  BY <1>1 DEF ReadCounts, TypeOK
<1>3. r \in Nat /\ r \in 0..Len(sent)
  BY DEF TypeOK, InOrder
<1>4. p \in Packet /\ Len(p) \in Nat /\ Len(p) >= 1
  BY <1>3, Pieces, Packets
<1>5. Cut(moved, part)'
  BY <1>1, <1>2, Shift
<1>6. start[r] = 0
  BY <1>1 DEF At
<1>7. header' = <<wire[1], wire[2]>>
  BY <1>1, <1>2, Buffers DEF TypeOK
<1>8. wire[1] = Frame(p)[1] /\ wire[2] = Frame(p)[2]
  <2>1. \A k \in 1..(2 + Len(p)) : start[r] + k \in 1..Len(wire) => wire[start[r] + k] = Frame(p)[k]
    BY <1>3 DEF Cut
  <2>2. 1 \in 1..(2 + Len(p)) /\ 2 \in 1..(2 + Len(p)) /\ 0 + 1 = 1 /\ 0 + 2 = 2
    BY <1>4
  <2>3. 1 \in 1..Len(wire) /\ 2 \in 1..Len(wire)
    BY <1>2
  <2> HIDE DEF r, p
  <2> QED
    BY <2>1, <2>2, <2>3, <1>6
<1>9. Size(header') = Len(p)
  BY <1>4, <1>7, <1>8, Frames
<1>10. phase' = "body"
  BY <1>1, <1>4, <1>9
<1>11. moved[r] = -(2 + Len(body')) /\ Len(body') = 0
  BY <1>1, <1>3, <1>6
<1>12. Written(part)' = Written(part) /\ Len(received') = r /\ Size(header)' = Size(header')
  BY <1>1 DEF Written, Size
<1>13. \A k \in 1..Len(body') : body'[k] = p[k]
  BY <1>11
<1>14. At(moved, part)'
  BY <1>4, <1>9, <1>10, <1>11, <1>12, <1>13 DEF At
<1> QED
  BY <1>5, <1>14

\* Bytes that are read go on with the packet; the packet that is complete is the
\* one that was sent, and the next frame begins.
LEMMA BodyStep ==
  ASSUME TypeOK, InOrder, ReadBody,
         NEW start, \A i \in Nat : start[i] \in Int, NEW part \in Packet,
         Cut(start, part), At(start, part)
  PROVE  /\ InOrder'
         /\ \E n \in Nat : \A moved : (\A i \in Nat : moved[i] = start[i] - n) =>
                                        Cut(moved, part)' /\ At(moved, part)'
<1> DEFINE r == Len(received)  p == Written(part)[r + 1]  b == Len(body)
           read(n) == body \o Take(wire, n)
<1>1. PICK n \in ReadCounts(Size(header) - b) :
         /\ wire' = Drop(wire, n)
         /\ IF Len(read(n)) < Size(header)
            THEN body' = read(n) /\ UNCHANGED <<phase, received>>
            ELSE body' = <<>> /\ phase' = "header" /\ Emit(read(n))
  BY DEF ReadBody
<1>2. /\ phase = "body" /\ UNCHANGED <<header, sent, closed>>
      /\ wire \in Seq(Byte) /\ body \in Seq(Byte) /\ sent \in Seq(Packet)
      /\ received \in Seq(Packet) /\ b \in Nat /\ Len(wire) \in Nat /\ Len(sent) \in Nat
  BY DEF ReadBody, Reading, TypeOK
<1>3. r \in Nat /\ r \in 0..Len(sent)
  BY <1>2 DEF InOrder
<1>4. p \in Packet /\ p \in Seq(Byte) /\ Len(p) \in Nat /\ Len(p) >= 1
  BY <1>3, Pieces, Packets
<1>5. /\ start[r] = -(2 + b) /\ b < Len(p) /\ Size(header) = Len(p)
      /\ \A k \in 1..b : body[k] = p[k]
  BY <1>2 DEF At
<1> HIDE DEF b, r, p
<1>6. n \in Nat /\ n >= 1 /\ n <= Len(wire) /\ n \in 0..Len(wire) /\ b + n <= Len(p)
  BY <1>1, <1>2, <1>4, <1>5 DEF ReadCounts
<1>7. /\ read(n) \in Seq(Byte) /\ Len(read(n)) = b + n
      /\ \A k \in 1..(b + n) : read(n)[k] = p[k]
  <2> DEFINE t == Take(wire, n)
  <2>1. t \in Seq(Byte) /\ Len(t) = n /\ \A i \in 1..n : t[i] = wire[i]
    BY <1>2, <1>6, Takes
  <2> HIDE DEF t
  <2>2. body \o t \in Seq(Byte) /\ Len(body \o t) = Len(body) + Len(t)
    BY <1>2, <2>1, ConcatProperties
  <2>3. \A k \in 1..(Len(body) + Len(t)) :
          (body \o t)[k] = IF k <= Len(body) THEN body[k] ELSE t[k - Len(body)]
    BY <1>2, <2>1, ConcatProperties
  <2>4. \A k \in 1..(2 + Len(p)) : start[r] + k \in 1..Len(wire) => wire[start[r] + k] = Frame(p)[k]
    BY <1>3 DEF Cut, p
  <2>5. ASSUME NEW k \in 1..n
        PROVE  t[k] = p[b + k]
    <3>1. /\ 2 + (b + k) \in 1..(2 + Len(p)) /\ b + k \in 1..Len(p)
          /\ start[r] + (2 + (b + k)) = k /\ k \in 1..Len(wire)
      <4>1. start[r] = -(2 + b) /\ k \in Nat /\ k >= 1 /\ k <= n
        BY <1>5, <1>6
      <4>2. b + k \in 1..Len(p) /\ 2 + (b + k) \in 1..(2 + Len(p)) /\ k \in 1..Len(wire)
        BY <1>2, <1>4, <1>6, <4>1
      <4>3. -(2 + b) + (2 + (b + k)) = k
        BY <1>2, <4>1
      <4> QED
        BY <4>1, <4>2, <4>3
    <3>2. wire[k] = Frame(p)[2 + (b + k)]
      BY <2>4, <3>1
    <3>3. Frame(p)[2 + (b + k)] = p[b + k]
      BY <1>4, <3>1, Frames
    <3> QED
      BY <2>1, <3>2, <3>3
  <2>6. ASSUME NEW k \in 1..(b + n)
        PROVE  (body \o t)[k] = p[k]
    <3>1. CASE k <= b
      <4>1. k \in 1..b /\ k \in 1..(Len(body) + Len(t))
        BY <1>2, <2>1, <3>1 DEF b
      <4> QED
        BY <1>5, <2>3, <3>1, <4>1 DEF b
    <3>2. CASE ~(k <= b)
      <4>1. k - b \in 1..n /\ b + (k - b) = k
        BY <1>2, <1>6, <3>2
      <4>2. (body \o t)[k] = t[k - b]
        BY <2>1, <2>3, <3>2 DEF b
      <4> QED
        BY <2>5, <4>1, <4>2
    <3> QED
      BY <3>1, <3>2
  <2>7. read(n) = body \o t
    BY DEF t
  <2>8. Len(body) + Len(t) = b + n
    BY <2>1 DEF b
  <2> HIDE DEF read
  <2> QED
    BY <2>2, <2>6, <2>7, <2>8<1> HIDE DEF read
<1>8. ASSUME NEW moved, \A i \in Nat : moved[i] = start[i] - n
      PROVE  Cut(moved, part)'
  BY <1>1, <1>2, <1>6, <1>8, Shift
<1>9. Written(part)' = Written(part) /\ Size(header)' = Size(header)
  BY <1>2 DEF Written, Size
<1>10. CASE Len(read(n)) < Size(header)
  <2>1. body' = read(n) /\ UNCHANGED <<phase, received>> /\ Len(body') = b + n
    BY <1>1, <1>7, <1>10
  <2>2. InOrder'
    BY <1>2, <2>1 DEF InOrder
  <2>3. ASSUME NEW moved, \A i \in Nat : moved[i] = start[i] - n
        PROVE  At(moved, part)'
    <3>1. moved[r] = -(2 + Len(body'))
      <4>1. moved[r] = start[r] - n
        BY <1>3, <2>3
      <4> QED
        BY <1>2, <1>5, <1>6, <2>1, <4>1
    <3>2. Len(received') = r /\ (Written(part)')[r + 1] = p
      BY <1>9, <2>1 DEF r, p
    <3>3. Len(body') < Len(p) /\ \A k \in 1..Len(body') : body'[k] = p[k]
      BY <1>5, <1>7, <1>10, <2>1
    <3>4. phase' = "body" /\ Size(header)' = Len(p)
      BY <1>2, <1>5, <1>9, <2>1
    <3> QED
      BY <3>1, <3>2, <3>3, <3>4 DEF At
  <2> QED
    BY <1>6, <1>8, <2>2, <2>3
<1>11. CASE ~(Len(read(n)) < Size(header))
  <2>1. body' = <<>> /\ phase' = "header" /\ Emit(read(n)) /\ b + n = Len(p)
    BY <1>1, <1>2, <1>4, <1>5, <1>6, <1>7, <1>11
  <2>2. read(n) = p
    BY <1>4, <1>7, <2>1, SeqEqual
  <2>3. received' = Append(received, p)
    BY <1>4, <2>1, <2>2 DEF Emit
  \* The part of a frame at the end of a stream is never a whole packet.
  <2>4. r < Len(sent)
    <3>1. ASSUME r = Len(sent) PROVE FALSE
      <4>1. Len(wire) < start[r + 1] /\ start[r + 1] = start[r] + 2 + Len(p)
        BY <1>3, <3>1 DEF Cut, p
      <4>2. start[r + 1] = n
        BY <1>2, <1>4, <1>5, <1>6, <2>1, <4>1
      <4> QED
        BY <1>2, <1>6, <4>1, <4>2
    <3> QED
      BY <1>2, <1>3, <3>1
  <2>5. p = sent[r + 1] /\ r + 1 \in 1..Len(sent)
    <3>1. r + 1 \in 1..Len(sent)
      BY <1>2, <1>3, <2>4
    <3> QED
      BY <3>1, Pieces DEF p
  <2>6. Len(received') = r + 1 /\ received'[r + 1] = p /\ \A i \in 1..r : received'[i] = received[i]
    BY <1>2, <1>4, <2>3, AppendProperties DEF r
  <2>7. InOrder'
    <3>1. \A i \in 1..(r + 1) : i \in 1..r \/ i = r + 1
      BY <1>3
    <3>2. \A i \in 1..(r + 1) : received'[i] = sent[i]
      BY <2>5, <2>6, <3>1 DEF InOrder, r
    <3> QED
      BY <1>2, <1>3, <2>4, <2>6, <3>2 DEF InOrder
  <2>8. ASSUME NEW moved, \A i \in Nat : moved[i] = start[i] - n
        PROVE  At(moved, part)'
    <3>1. start[r + 1] = start[r] + 2 + Len(p)
      BY <1>3 DEF Cut, p
    <3>2. moved[r + 1] = start[r + 1] - n
      BY <1>3, <2>8
    <3>3. moved[r + 1] = 0
      <4>1. start[r + 1] = -(2 + b) + 2 + Len(p) /\ b \in Nat
        BY <1>2, <1>5, <3>1 DEF b
      <4>2. -(2 + b) + 2 + Len(p) = Len(p) - b
        BY <1>4, <4>1
      <4>3. start[r + 1] = n
        BY <1>4, <1>6, <2>1, <4>1, <4>2
      <4> QED
        BY <1>6, <3>2, <4>3
    <3> QED
      BY <2>1, <2>6, <3>3 DEF At
  <2> QED
    BY <1>6, <1>8, <2>7, <2>8
<1> QED
  BY <1>10, <1>11

-----------------------------------------------------------------------------
(* The inductive invariant                                                 *)

LEMMA InitIInv == Init => IInv
<1> SUFFICES ASSUME Init PROVE IInv
  OBVIOUS
<1>1. InOrder /\ phase = "header"
  BY DEF Init, InOrder
<1>2. Synced
  <2> DEFINE start == [i \in Nat |-> IF i = 0 THEN 0 ELSE 3]  part == <<0>>
  <2>1. part \in Packet /\ Len(part) = 1
    <3>1. 0 \in Byte /\ 1 \in 1..Mtu
      BY FramingAssumption DEF Byte
    <3>2. part \in Seq(Byte) /\ Len(part) = 1
      BY <3>1
    <3> QED
      BY <3>1, <3>2, Packets
  <2>2. start \in [Nat -> Int] /\ start[0] = 0 /\ start[1] = 3
    OBVIOUS
  <2>3. Written(part) = <<part>> /\ Len(sent) = 0 /\ Len(wire) = 0 /\ Len(received) = 0
    BY DEF Init, Written
  <2> HIDE DEF start, part
  <2>4. Cut(start, part)
    <3>1. \A i \in 0..0 : i = 0 /\ <<part>>[i + 1] = part
      OBVIOUS
    <3>2. /\ start[0 + 1] = start[0] + 2 + Len(part) /\ start[0] <= start[0]
          /\ \A k \in 1..(2 + Len(part)) : ~(start[0] + k \in 1..0)
      BY <2>1, <2>2
    <3>3. start[0] <= 0 /\ 0 < start[0 + 1] /\ 0 = start[0]
      BY <2>2
    <3> QED
      BY <2>3, <3>1, <3>2, <3>3 DEF Cut
  <2>5. At(start, part)
    BY <1>1, <2>2, <2>3 DEF At
  <2> QED
    BY <2>1, <2>2, <2>4, <2>5 DEF Synced
<1> QED
  BY <1>1, <1>2, InitTypeOK DEF IInv
\* A write keeps the handler's place.
LEMMA SyncedWrite ==
  ASSUME TypeOK, InOrder, Synced, phase # "panic", NEW p \in Packet,
         WritePacket(p) \/ WriteFails(p)
  PROVE  InOrder' /\ phase' # "panic" /\ (phase' # "done" => Synced')
<1>1. /\ sent \in Seq(Packet) /\ received \in Seq(Packet) /\ Len(sent) \in Nat
      /\ Len(received) \in Nat /\ Len(wire) \in Nat /\ Len(p) \in Nat
      /\ Frame(p) \in Seq(Byte) /\ Len(Frame(p)) = 2 + Len(p)
  <2>1. sent \in Seq(Packet) /\ received \in Seq(Packet) /\ wire \in Seq(Byte)
    BY DEF TypeOK
  <2>2. p \in Seq(Byte)
    BY Packets
  <2>3. Frame(p) \in Seq(Byte) /\ Len(Frame(p)) = 2 + Len(p)
    BY Frames
  <2> QED
    BY <2>1, <2>2, <2>3, LenProperties
<1>2. ~closed /\ UNCHANGED <<phase, header, body, received>>
  BY DEF WritePacket, WriteFails
<1>3. PICK n \in 0..Len(Frame(p)) :
        /\ wire' = wire \o Take(Frame(p), n)
        /\ \/ sent' = Append(sent, p) /\ n = Len(Frame(p)) /\ closed' = closed
           \/ sent' = sent /\ n < Len(Frame(p)) /\ closed' = TRUE
  <2>1. CASE WritePacket(p)
    <3>1. Len(Frame(p)) \in 0..Len(Frame(p))
      BY <1>1
    <3>2. Take(Frame(p), Len(Frame(p))) = Frame(p)
      <4> DEFINE f == Frame(p)
      <4>1. f \in Seq(Byte) /\ Len(f) \in 0..Len(f)
        BY <1>1, <3>1
      <4> HIDE DEF f
      <4>2. /\ Take(f, Len(f)) \in Seq(Byte) /\ Len(Take(f, Len(f))) = Len(f)
            /\ \A i \in 1..Len(f) : Take(f, Len(f))[i] = f[i]
        BY <4>1, Takes
      <4>3. Take(f, Len(f)) = f
        BY <4>1, <4>2, SeqEqual
      <4> QED
        BY <4>3 DEF f
    <3> QED
      BY <2>1, <3>1, <3>2 DEF WritePacket
  <2>2. CASE WriteFails(p)
    <3>1. PICK n \in 0..(Len(Frame(p)) - 1) : wire' = wire \o Take(Frame(p), n)
      BY <2>2 DEF WriteFails
    <3>2. n \in 0..Len(Frame(p)) /\ n < Len(Frame(p))
      BY <1>1
    <3> QED
      BY <2>2, <3>1, <3>2 DEF WriteFails
  <2> QED
    BY <2>1, <2>2
<1>4. InOrder'
  <2>1. Len(sent') >= Len(sent) /\ \A i \in 1..Len(sent) : sent'[i] = sent[i]
    <3>1. CASE sent' = sent
      BY <1>1, <3>1
    <3>2. CASE sent' = Append(sent, p)
      BY <1>1, <3>2, AppendProperties
    <3> QED
      BY <1>3, <3>1, <3>2
  <2>2. Len(sent') \in Nat
    BY <1>1, <1>3, AppendProperties
  <2> QED
    BY <1>1, <1>2, <2>1, <2>2 DEF InOrder
<1>5. ASSUME phase \in {"header", "body"}
      PROVE  Synced'
  <2>1. PICK start \in [Nat -> Int], part \in Packet : Cut(start, part) /\ At(start, part)
    BY DEF Synced
  <2>2. PICK later \in [Nat -> Int] :
          \A i \in Nat : later[i] = IF i <= Len(sent) THEN start[i]
                                    ELSE IF i = Len(sent) + 1 THEN Len(wire) + 2 + Len(p)
                                    ELSE Len(wire) + 4 + Len(p) + Len(p)
    <3> DEFINE f == [i \in Nat |-> IF i <= Len(sent) THEN start[i]
                                   ELSE IF i = Len(sent) + 1 THEN Len(wire) + 2 + Len(p)
                                   ELSE Len(wire) + 4 + Len(p) + Len(p)]
    <3>1. f \in [Nat -> Int]
      BY <1>1
    <3> QED
      BY <3>1
  <2>3. \A i \in Nat : start[i] \in Int
    OBVIOUS
  <2>5. Cut(later, p)' /\ At(later, p)'
    BY <1>2, <1>3, <1>5, <2>1, <2>2, <2>3, WriteStep
  <2> QED
    BY <2>2, <2>5 DEF Synced
<1>6. phase \in {"header", "body", "done"}
  BY DEF TypeOK
<1> QED
  BY <1>2, <1>4, <1>5, <1>6

LEMMA NextIInv == IInv /\ [Next]_vars => IInv'
<1> SUFFICES ASSUME IInv, [Next]_vars PROVE IInv'
  OBVIOUS
<1>1. TypeOK /\ TypeOK'
  BY NextTypeOK DEF IInv
<1> SUFFICES ASSUME ~split'
             PROVE  InOrder' /\ phase' # "panic" /\ (phase' # "done" => Synced')
  BY <1>1 DEF IInv
<1>2. ~split
  BY DEF Next, WritePacket, WriteFails, Handler, ReadHeader, ReadBody, SliceBounds, ReadFails, vars
<1>3. InOrder /\ phase # "panic" /\ (phase # "done" => Synced)
  BY <1>2 DEF IInv
<1>4. ASSUME NEW p \in Packet, WritePacket(p) \/ WriteFails(p)
      PROVE  InOrder' /\ phase' # "panic" /\ (phase' # "done" => Synced')
  <2>1. CASE phase = "done"
    <3>1. sent \in Seq(Packet) /\ received' = received /\ phase' = phase
      BY <1>1, <1>4 DEF TypeOK, WritePacket, WriteFails
    <3>2. sent' = sent \/ sent' = Append(sent, p)
      BY <1>4 DEF WritePacket, WriteFails
    <3>3. Len(sent') >= Len(sent) /\ \A i \in 1..Len(sent) : sent'[i] = sent[i]
      BY <3>1, <3>2, AppendProperties
    <3>4. Len(sent') \in Nat /\ Len(sent) \in Nat /\ Len(received) \in Nat
      BY <1>1 DEF TypeOK
    <3> QED
      BY <1>3, <2>1, <3>1, <3>3, <3>4 DEF InOrder
  <2>2. CASE phase # "done"
    BY <1>1, <1>3, <1>4, <2>2, SyncedWrite
  <2> QED
    BY <2>1, <2>2
<1>5. ASSUME NEW start \in [Nat -> Int], NEW n \in Nat
      PROVE  [i \in Nat |-> start[i] - n] \in [Nat -> Int]
  OBVIOUS
<1>6. ASSUME ReadHeader
      PROVE  InOrder' /\ phase' # "panic" /\ (phase' # "done" => Synced')
  <2>1. phase # "done" /\ phase' \in {"header", "body"} /\ UNCHANGED <<sent, received>>
    BY <1>6 DEF ReadHeader, Emit, Reading
  <2>2. PICK start \in [Nat -> Int], part \in Packet : Cut(start, part) /\ At(start, part)
    BY <1>3, <2>1 DEF Synced
  <2> DEFINE moved == [i \in Nat |-> start[i] - 2]
  <2>3. moved \in [Nat -> Int] /\ \A i \in Nat : moved[i] = start[i] - 2
    OBVIOUS
  <2>4. \A i \in Nat : start[i] \in Int
    OBVIOUS
  <2> HIDE DEF moved
  <2>5. Cut(moved, part)' /\ At(moved, part)'
    BY <1>1, <1>3, <1>6, <2>2, <2>3, <2>4, HeaderStep
  <2>6. Synced'
    BY <2>3, <2>5 DEF Synced
  <2> QED
    BY <1>3, <2>1, <2>6 DEF InOrder
<1>7. ASSUME ReadBody
      PROVE  InOrder' /\ phase' # "panic" /\ (phase' # "done" => Synced')
  <2>1. phase # "done" /\ phase' # "panic"
    BY <1>7 DEF ReadBody
  <2>2. PICK start \in [Nat -> Int], part \in Packet : Cut(start, part) /\ At(start, part)
    BY <1>3, <2>1 DEF Synced
  <2>3. \A i \in Nat : start[i] \in Int
    OBVIOUS
  <2>4. InOrder'
    BY <1>1, <1>3, <1>7, <2>2, <2>3, BodyStep
  <2>5. PICK n \in Nat : \A moved : (\A i \in Nat : moved[i] = start[i] - n) =>
                                      Cut(moved, part)' /\ At(moved, part)'
    BY <1>1, <1>3, <1>7, <2>2, <2>3, BodyStep
  <2> DEFINE moved == [i \in Nat |-> start[i] - n]
  <2>6. moved \in [Nat -> Int] /\ \A i \in Nat : moved[i] = start[i] - n
    OBVIOUS
  <2> HIDE DEF moved
  <2>7. Cut(moved, part)' /\ At(moved, part)'
    BY <2>5, <2>6
  <2> QED
    BY <2>1, <2>4, <2>6, <2>7 DEF Synced
<1>8. ~SliceBounds
  <2>1. ASSUME SliceBounds PROVE FALSE
    <3>1. phase = "body" /\ Size(header) > Mtu
      BY <2>1 DEF SliceBounds
    <3>2. PICK start \in [Nat -> Int], part \in Packet : Cut(start, part) /\ At(start, part)
      BY <1>3, <3>1 DEF Synced
    <3>3. Len(received) \in 0..Len(sent)
      BY <1>1, <1>3 DEF TypeOK, InOrder
    <3>4. Written(part)[Len(received) + 1] \in Packet
      BY <1>1, <3>3, Pieces
    <3>5. Size(header) = Len(Written(part)[Len(received) + 1])
      BY <3>1, <3>2 DEF At
    <3> QED
      BY <3>1, <3>4, <3>5, Packets, FramingAssumption
  <2> QED
    BY <2>1
<1>9. ASSUME ReadFails
      PROVE  InOrder' /\ phase' # "panic" /\ (phase' # "done" => Synced')
  <2>1. phase' = "done" /\ UNCHANGED <<sent, received>>
    BY <1>9 DEF ReadFails, Reading
  <2> QED
    BY <1>3, <2>1 DEF InOrder
<1>10. CASE UNCHANGED vars
  <2>1. InOrder' /\ phase' = phase
    BY <1>3, <1>10 DEF vars, InOrder
  <2>2. ASSUME Synced
        PROVE  Synced'
    <3>1. PICK start \in [Nat -> Int], part \in Packet : Cut(start, part) /\ At(start, part)
      BY <2>2 DEF Synced
    <3>2. Cut(start, part)'
      BY <1>10, <3>1 DEF vars, Cut, Written
    <3>3. At(start, part)'
      BY <1>10, <3>1 DEF vars, At, Written, Size
    <3> QED
      BY <3>2, <3>3 DEF Synced
  <2> QED
    BY <1>3, <2>1, <2>2
<1> QED
  BY <1>4, <1>6, <1>7, <1>8, <1>9, <1>10 DEF Next, Handler

LEMMA Invariance == Spec => []IInv
BY InitIInv, NextIInv, PTL DEF Spec

-----------------------------------------------------------------------------
(* Theorems                                                                *)

\* Type correctness: the bytes that the handler has of a packet never exceed its
\* buffer, nor the length it has read (cli/up.go:393).
THEOREM TypeCorrect == Spec => []TypeOK
BY Invariance, PTL DEF IInv

\* As long as every read of a header returned both bytes of it, the interface is
\* given the packets that were sent, in order, however their bodies are cut and
\* wherever the stream ends (cli/up.go:380).
THEOREM Ordered == Spec => []InOrderUnlessSplit
<1>1. IInv => InOrderUnlessSplit
  BY DEF IInv, InOrderUnlessSplit
<1> QED
  BY <1>1, Invariance, PTL

\* Until then no length is larger than the buffer, so its slice is never out of
\* bounds, which would end the process (cli/up.go:394).
THEOREM InBounds == Spec => []NoPanic
<1>1. IInv => NoPanic
  BY DEF IInv, NoPanic, TypeOK
<1> QED
  BY <1>1, Invariance, PTL
=============================================================================
