-------------------------- MODULE ServicePipeProofs --------------------------
(***************************************************************************)
(* Proofs about ServicePipe, for any numbers of bytes and any windows: the *)
(* bytes of an application keep their order through two pipes and three    *)
(* hops, behind a handshake on the stream between them, wherever a hop     *)
(* ends; and what a pipe leaves behind.                                    *)
(***************************************************************************)
EXTENDS ServicePipe, SequenceTheorems, FiniteSetTheorems, TLAPS

\* Types, in the parts that an action changes together.  Everything is a
\* function of hops, pipes and directions, and what is under way is an item.
Carried == Item \ {Nothing}

HopsOK ==
  /\ buf \in [Hops -> [Directions -> Seq(Carried)]]
  /\ \A h \in Hops, d \in Directions : Len(buf[h][d]) <= Window[h]
  /\ ended \in [Hops -> SUBSET Directions] /\ gone \in [Hops -> SUBSET Ends]

PipesOK ==
  /\ pump \in [Pipes -> [Directions -> {"absent", "read", "send", "nil", "gone"}]]
  /\ held \in [Pipes -> [Directions -> Item]]
  /\ loop \in [Pipes -> {"absent", "select", "write", "returned"}]
  /\ chunk \in [Pipes -> [dir : Directions, item : Item]]
  /\ \A i \in Pipes :
       /\ loop[i] = "write" => chunk[i].item # Nothing
       /\ \A d \in Directions : pump[i][d] = "send" => held[i][d] # Nothing

EndsOK ==
  /\ sent \in [Directions -> Nat] /\ \A d \in Directions : sent[d] <= Total[d]
  /\ rcvd \in [Directions -> Seq(Item)]

SidesOK ==
  /\ near \in {"open", "ask", "status", "pipe", "returned"}
  /\ far \in {"none", "id", "answer", "refused", "dial", "pipe", "returned"}
  /\ offered \in BOOLEAN /\ admitted \in BOOLEAN /\ split \in BOOLEAN

Typed == HopsOK /\ PipesOK /\ EndsOK /\ SidesOK

\* A pipe: its pumps run with its loop, and the one whose end the loop has seen
\* is gone.
Pumps ==
  \A i \in Pipes :
    /\ loop[i] = "absent" => \A d \in Directions : pump[i][d] = "absent"
    /\ loop[i] \in {"select", "write"} =>
         \A d \in Directions : pump[i][d] \notin {"absent", "gone"}
    /\ loop[i] = "returned" =>
         \E d \in Directions : \A x \in Directions : pump[i][x] = "gone" <=> x = d

\* The two ends of the stream, and what they have closed when they are done.
Sides ==
  /\ loop[1] \in {"select", "write"} <=> near = "pipe"
  /\ loop[1] = "returned" => near = "returned"
  /\ loop[2] \in {"select", "write"} <=> far = "pipe"
  /\ loop[2] = "returned" => far = "returned"
  /\ near = "returned" /\ far # "none" => "client" \in gone[2]
  /\ far = "returned" => "server" \in gone[2] /\ "down" \in ended[2]

\* The handshake: until the far end has read the service ID there is nothing
\* else on the stream, and a status is the first byte of what comes back.
Handshake ==
  /\ near = "open" => far = "none"
  /\ near = "ask" => /\ far \in {"id", "returned"}
                     /\ buf[2]["up"] = <<>> /\ buf[2]["down"] = <<>>
  /\ far = "none" => near \in {"open", "returned"} /\ buf[2]["up"] = <<>>
  /\ far = "id" => buf[2]["up"] \in {<<>>, <<Id, Id>>}
  /\ far \in {"none", "id"} => ~split
  /\ far = "answer" => near \in {"status", "returned"}
  /\ far \in {"none", "id", "answer"} => buf[2]["down"] = <<>> /\ loop[1] = "absent"
  /\ near = "status" /\ far \notin {"id", "answer"} =>
       buf[2]["down"] # <<>> \/ Lost(2, "down")

\* The way of a direction's bytes, from the one that has written them: First, a
\* pipe, the stream, a pipe, Last.
First(d) == IF d = "up" THEN 1 ELSE 3
Last(d) == IF d = "up" THEN 3 ELSE 1
FromFirst(d) == IF d = "up" THEN 1 ELSE 2
ToLast(d) == IF d = "up" THEN 2 ELSE 1

\* What is on the stream without the handshake.
Data(d) == IF d = "up" THEN IF far \in {"none", "id"} THEN <<>> ELSE buf[2]["up"]
           ELSE IF near = "status" /\ buf[2]["down"] # <<>> THEN Tail(buf[2]["down"])
           ELSE buf[2]["down"]

\* What a pipe holds: in its loop, then in its pump.
InLoop(i, d) == IF loop[i] = "write" /\ chunk[i].dir = d THEN <<chunk[i].item>> ELSE <<>>
InPump(i, d) == IF pump[i][d] = "send" THEN <<held[i][d]>> ELSE <<>>
InPipe(i, d) == InLoop(i, d) \o InPump(i, d)

\* The bytes of a direction, from the one received first: with those in the last
\* hop, with those on the stream, with all that are under way.
Arriving(d) == rcvd[d] \o buf[Last(d)][d]
Halfway(d) == Arriving(d) \o (InPipe(ToLast(d), d) \o Data(d))
UnderWay(d) == Halfway(d) \o (InPipe(FromFirst(d), d) \o buf[First(d)][d])

\* The first bytes of those an application writes, n at most.
Counts(s, n) == Len(s) <= n /\ \A j \in 1..Len(s) : s[j] = j

\* There is no gap up to the first hop that takes no more bytes: what is behind
\* it nobody will ask for.
Ordered(d) ==
  /\ Counts(Arriving(d), sent[d])
  /\ ~Lost(Last(d), d) =>
       /\ Counts(Halfway(d), sent[d])
       /\ ~Lost(2, d) =>
            /\ Counts(UnderWay(d), sent[d])
            /\ ~Lost(First(d), d) => Len(UnderWay(d)) = sent[d]

Continuous == split \/ \A d \in Directions : Ordered(d)

\* The inductive invariant.
IInv == Typed /\ Pumps /\ Sides /\ Handshake /\ Continuous

LEMMA TypedTypeOK == Typed => TypeOK
  BY DEF Typed, HopsOK, PipesOK, EndsOK, SidesOK, TypeOK, Carried

-----------------------------------------------------------------------------
(* Hops                                                                    *)

\* In a step that takes nothing from a hop and puts nothing into one, a buffer
\* stays or goes with its hop, and no hop comes back.
Shrinks ==
  \A h \in Hops, d \in Directions :
    /\ buf'[h][d] = buf[h][d] \/ (buf'[h][d] = <<>> /\ Lost(h, d)')
    /\ Lost(h, d) => Lost(h, d)'

LEMMA ClosesHops ==
  ASSUME HopsOK, NEW S, Close(S)
  PROVE  /\ HopsOK' /\ Shrinks
         /\ \A h \in Hops, d \in Directions :
              <<h, Reader(d)>> \in S => buf'[h][d] = <<>>
         /\ \A h \in Hops, e \in Ends :
              /\ <<h, e>> \in S => e \in gone'[h] /\ Writes(e) \in ended'[h]
              /\ e \in gone[h] => e \in gone'[h]
         /\ \A h \in Hops : ended[h] \subseteq ended'[h]
<1>1. /\ \A h \in Hops : gone'[h] = gone[h] \cup {e \in Ends : <<h, e>> \in S}
      /\ \A h \in Hops, d \in Directions :
           buf'[h][d] = IF <<h, Reader(d)>> \in S THEN <<>> ELSE buf[h][d]
      /\ \A h \in Hops :
           ended'[h] = ended[h] \cup {Writes(e) : e \in {x \in Ends : <<h, x>> \in S}}
  BY DEF Close
<1>2. /\ <<>> \in Seq(Carried) /\ Len(<<>>) = 0
      /\ \A e \in Ends : Writes(e) \in Directions
      /\ \A d \in Directions : Reader(d) \in Ends
  BY DEF Writes, Reader, Ends, Directions
<1>3. \A h \in Hops, d \in Directions :
        buf'[h][d] \in Seq(Carried) /\ Len(buf'[h][d]) <= Window[h]
  <2> TAKE h \in Hops, d \in Directions
  <2>1. Window[h] \in Nat
    BY PipeAssumption
  <2>2. buf[h][d] \in Seq(Carried) /\ Len(buf[h][d]) <= Window[h]
    BY DEF HopsOK
  <2>3. buf'[h][d] = <<>> \/ buf'[h][d] = buf[h][d]
    BY <1>1
  <2>4. CASE buf'[h][d] = buf[h][d]
    BY <2>2, <2>4
  <2>5. CASE buf'[h][d] = <<>>
    <3>1. Len(buf'[h][d]) = 0
      BY <1>2, <2>5
    <3>2. Len(buf'[h][d]) <= Window[h]
      BY <2>1, <3>1
    <3> QED
      BY <1>2, <2>5, <3>2
  <2> QED
    BY <2>3, <2>4, <2>5
<1>4. HopsOK'
  <2>1. buf' \in [Hops -> [Directions -> Seq(Carried)]]
    BY <1>3 DEF Close
  <2>2. gone' \in [Hops -> SUBSET Ends]
    BY DEF Close, HopsOK
  <2>3. ended' \in [Hops -> SUBSET Directions]
    BY <1>2 DEF Close, HopsOK
  <2> QED
    BY <1>3, <2>1, <2>2, <2>3 DEF HopsOK
<1>5. /\ \A h \in Hops, e \in Ends :
           /\ <<h, e>> \in S => e \in gone'[h] /\ Writes(e) \in ended'[h]
           /\ e \in gone[h] => e \in gone'[h]
      /\ \A h \in Hops : ended[h] \subseteq ended'[h]
  BY <1>1
<1>6. Shrinks
  BY <1>1, <1>2, <1>5 DEF Shrinks, Lost
<1> QED
  BY <1>1, <1>4, <1>5, <1>6

\* One buffer changes, and nothing is closed.
LEMMA Changes ==
  ASSUME HopsOK, NEW h \in Hops, NEW d \in Directions, NEW s \in Seq(Carried),
         buf' = [buf EXCEPT ![h][d] = s], Len(s) <= Window[h], UNCHANGED <<ended, gone>>
  PROVE  /\ HopsOK' /\ buf'[h][d] = s
         /\ \A k \in Hops, x \in Directions : k # h \/ x # d => buf'[k][x] = buf[k][x]
         /\ \A k \in Hops, x \in Directions : Lost(k, x)' <=> Lost(k, x)
<1>1. /\ buf' \in [Hops -> [Directions -> Seq(Carried)]] /\ buf'[h][d] = s
      /\ \A k \in Hops, x \in Directions : k # h \/ x # d => buf'[k][x] = buf[k][x]
  BY DEF HopsOK
<1>2. HopsOK'
  BY <1>1 DEF HopsOK
<1> QED
  BY <1>1, <1>2 DEF Lost

\* What is put into a hop that takes it is at the end of its buffer.
LEMMA Puts ==
  ASSUME HopsOK, NEW h \in Hops, NEW d \in Directions, NEW item \in Carried,
         CanWrite(h, d), Put(h, d, item), UNCHANGED <<ended, gone>>
  PROVE  /\ HopsOK'
         /\ \A k \in Hops, x \in Directions :
              k # h \/ x # d \/ Lost(h, d) => buf'[k][x] = buf[k][x]
         /\ ~Lost(h, d) => buf'[h][d] = Append(buf[h][d], item)
         /\ \A k \in Hops, x \in Directions : Lost(k, x)' <=> Lost(k, x)
<1>1. CASE Lost(h, d)
  BY <1>1 DEF Put, HopsOK, Lost
<1>2. CASE ~Lost(h, d)
  <2> DEFINE s == Append(buf[h][d], item)
  <2>1. buf[h][d] \in Seq(Carried) /\ Len(buf[h][d]) < Window[h] /\ Window[h] \in Nat
    BY <1>2, PipeAssumption DEF HopsOK, CanWrite
  <2>2. s \in Seq(Carried) /\ Len(s) = Len(buf[h][d]) + 1 /\ Len(buf[h][d]) \in Nat
    BY <2>1, AppendProperties, LenProperties
  <2>3. buf' = [buf EXCEPT ![h][d] = s]
    BY <1>2 DEF Put
  <2>4. Len(s) <= Window[h]
    BY <2>1, <2>2
  <2> HIDE DEF s
  <2>5. /\ HopsOK' /\ buf'[h][d] = s
        /\ \A k \in Hops, x \in Directions : k # h \/ x # d => buf'[k][x] = buf[k][x]
        /\ \A k \in Hops, x \in Directions : Lost(k, x)' <=> Lost(k, x)
    BY <2>2, <2>3, <2>4, Changes
  <2> QED
    BY <1>2, <2>5 DEF s
<1> QED
  BY <1>1, <1>2

\* What is taken from a hop was at the head of its buffer.
LEMMA Takes ==
  ASSUME HopsOK, NEW h \in Hops, NEW d \in Directions, buf[h][d] # <<>>,
         buf' = [buf EXCEPT ![h][d] = Tail(@)], UNCHANGED <<ended, gone>>
  PROVE  /\ HopsOK' /\ buf'[h][d] = Tail(buf[h][d]) /\ Head(buf[h][d]) \in Carried
         /\ \A k \in Hops, x \in Directions : k # h \/ x # d => buf'[k][x] = buf[k][x]
         /\ \A k \in Hops, x \in Directions : Lost(k, x)' <=> Lost(k, x)
<1> DEFINE s == Tail(buf[h][d])
<1>1. buf[h][d] \in Seq(Carried) /\ Len(buf[h][d]) <= Window[h] /\ Window[h] \in Nat
  BY PipeAssumption DEF HopsOK
<1>2. s \in Seq(Carried) /\ Len(s) = Len(buf[h][d]) - 1 /\ Head(buf[h][d]) \in Carried
  BY <1>1, HeadTailProperties
<1>3. Len(s) <= Window[h]
  BY <1>1, <1>2, LenProperties
<1>4. buf' = [buf EXCEPT ![h][d] = s]
  OBVIOUS
<1> HIDE DEF s
<1>5. /\ HopsOK' /\ buf'[h][d] = s
      /\ \A k \in Hops, x \in Directions : k # h \/ x # d => buf'[k][x] = buf[k][x]
      /\ \A k \in Hops, x \in Directions : Lost(k, x)' <=> Lost(k, x)
  BY <1>2, <1>3, <1>4, Changes
<1> QED
  BY <1>2, <1>5 DEF s

-----------------------------------------------------------------------------
(* Types                                                                   *)

LEMMA Same ==
  ASSUME Typed
  PROVE  /\ UNCHANGED hops => HopsOK' /\ Shrinks
         /\ UNCHANGED pipes => PipesOK'
         /\ UNCHANGED ends => EndsOK'
         /\ UNCHANGED <<near, far, given, split>> => SidesOK'
<1>1. UNCHANGED hops => HopsOK' /\ Shrinks
  BY DEF Typed, HopsOK, hops, Shrinks, Lost
<1>2. UNCHANGED pipes => PipesOK'
  BY DEF Typed, PipesOK, pipes
<1>3. UNCHANGED ends => EndsOK'
  BY DEF Typed, EndsOK, ends
<1>4. UNCHANGED <<near, far, given, split>> => SidesOK'
  BY DEF Typed, SidesOK, given
<1> QED
  BY <1>1, <1>2, <1>3, <1>4

LEMMA StartedTyped ==
  ASSUME Typed, NEW i \in Pipes, Started(i)
  PROVE  /\ PipesOK' /\ \A d \in Directions : pump'[i][d] = "read"
         /\ loop'[i] = "select"
         /\ \A k \in Pipes : k # i => pump'[k] = pump[k] /\ loop'[k] = loop[k]
BY DEF Typed, PipesOK, Started

\* The status is one byte, and so is each of the two of an ID.
LEMMA Handed == Id \in Carried /\ Ok \in Carried /\ No \in Carried /\ Nothing \in Item
                /\ Nothing \notin Nat
BY PipeAssumption DEF Carried, Item, Byte

LEMMA NearTyped ==
  ASSUME Typed, Handshake, Near PROVE Typed'
<1>1. CASE OpenStream
  <2>1. HopsOK'
    BY <1>1, Same, ClosesHops DEF OpenStream, Typed
  <2>2. SidesOK'
    BY <1>1 DEF OpenStream, Typed, SidesOK, given
  <2> QED
    BY <1>1, <2>1, <2>2, Same DEF OpenStream, Typed
<1>2. CASE OpenFails \/ StatusFails
  <2>1. HopsOK'
    BY <1>2, ClosesHops DEF OpenFails, StatusFails, NearReturns, Typed
  <2>2. SidesOK'
    BY <1>2 DEF OpenFails, StatusFails, NearReturns, Typed, SidesOK, given
  <2> QED
    BY <1>2, <2>1, <2>2, Same DEF OpenFails, StatusFails, Typed
<1>3. CASE Ask
  <2>1. SidesOK' /\ PipesOK' /\ EndsOK'
    BY <1>3, Same DEF Ask, NearReturns, Typed, SidesOK, given
  <2>2. CASE NearReturns(Closes(1))
    BY <2>1, <2>2, ClosesHops DEF NearReturns, Typed
  <2>3. CASE /\ UNCHANGED <<ended, gone>>
             /\ buf' = [buf EXCEPT ![2]["up"] = @ \o <<Id, Id>>]
    <3> DEFINE s == <<Id, Id>>
    <3>1. s \in Seq(Carried) /\ Len(s) = 2
      BY Handed
    <3>2. buf[2]["up"] = <<>> /\ 2 \in Hops /\ "up" \in Directions
      BY <1>3 DEF Ask, Handshake, Hops, Directions
    <3>3. buf[2]["up"] \o s = s
      BY <3>1, <3>2
    <3>4. Len(s) <= Window[2]
      BY <3>1, PipeAssumption DEF Hops
    <3>5. buf' = [buf EXCEPT ![2]["up"] = s]
      BY <2>3, <3>3
    <3> HIDE DEF s
    <3> QED
      BY <2>1, <2>3, <3>1, <3>2, <3>4, <3>5, Changes DEF Typed
  <2> QED
    BY <1>3, <2>2, <2>3 DEF Ask
<1>4. CASE ReadStatus
  <2>1. SidesOK' /\ EndsOK'
    BY <1>4, Same DEF ReadStatus, NearReturns, Typed, SidesOK, given
  <2>2. CASE NearReturns(Closes(1)) /\ UNCHANGED pipes
    BY <2>1, <2>2, Same, ClosesHops DEF NearReturns, Typed
  <2>3. CASE /\ Started(1) /\ buf' = [buf EXCEPT ![2]["down"] = Tail(@)]
             /\ UNCHANGED <<ended, gone>>
    <3>1. 2 \in Hops /\ "down" \in Directions /\ 1 \in Pipes
      BY DEF Hops, Directions, Pipes
    <3>2. HopsOK'
      BY <1>4, <2>3, <3>1, Takes DEF ReadStatus, Typed
    <3> QED
      BY <2>1, <2>3, <3>1, <3>2, StartedTyped DEF Typed
  <2> QED
    BY <1>4, <2>2, <2>3 DEF ReadStatus
<1> QED
  BY <1>1, <1>2, <1>3, <1>4 DEF Near

LEMMA FarTyped ==
  ASSUME Typed, Handshake, Far PROVE Typed'
<1>1. ASSUME NEW n \in {1, 2}, ReadId(n) PROVE Typed'
  <2>1. SidesOK' /\ PipesOK' /\ EndsOK'
    BY <1>1, Same DEF ReadId, Typed, SidesOK, given
  <2> DEFINE s == SubSeq(buf[2]["up"], n + 1, Len(buf[2]["up"]))
  <2>2. 2 \in Hops /\ "up" \in Directions
    BY DEF Hops, Directions
  <2>3. /\ buf[2]["up"] \in Seq(Carried) /\ Len(buf[2]["up"]) \in Nat
        /\ Len(buf[2]["up"]) <= Window[2] /\ n <= Len(buf[2]["up"]) /\ Window[2] \in Nat
    <3>1. buf[2]["up"] \in Seq(Carried) /\ Len(buf[2]["up"]) <= Window[2]
      BY <2>2 DEF Typed, HopsOK
    <3>2. n <= Len(buf[2]["up"]) /\ Window[2] \in Nat
      BY <1>1, <2>2, PipeAssumption DEF ReadId
    <3> QED
      BY <3>1, <3>2, LenProperties
  <2>4. s \in Seq(Carried)
    BY <2>3, SubSeqProperties
  <2>5. Len(s) = Len(buf[2]["up"]) - n
    BY <2>3, SubSeqProperties
  <2>6. buf' = [buf EXCEPT ![2]["up"] = s] /\ UNCHANGED <<ended, gone>>
    BY <1>1 DEF ReadId
  <2>7. Len(s) <= Window[2]
    BY <2>3, <2>5
  <2> HIDE DEF s
  <2>8. HopsOK'
    BY <2>2, <2>4, <2>6, <2>7, Changes DEF Typed
  <2> QED
    BY <2>1, <2>8 DEF Typed
<1>2. CASE ReadIdFails \/ FarGivesUp
  <2>1. HopsOK'
    BY <1>2, ClosesHops DEF ReadIdFails, FarGivesUp, FarReturns, Typed
  <2>2. SidesOK'
    BY <1>2 DEF ReadIdFails, FarGivesUp, FarReturns, Typed, SidesOK, given
  <2> QED
    BY <1>2, <2>1, <2>2, Same DEF ReadIdFails, FarGivesUp, Typed
<1>3. CASE AnswerId
  <2>1. SidesOK' /\ PipesOK' /\ EndsOK'
    BY <1>3, Same DEF AnswerId, FarReturns, Typed, SidesOK, given
  <2>2. CASE FarReturns({<<2, "server">>})
    BY <2>1, <2>2, ClosesHops DEF FarReturns, Typed
  <2>3. ASSUME NEW item \in {Ok, No}, Put(2, "down", item), UNCHANGED <<ended, gone>>
        PROVE  Typed'
    <3>1. 2 \in Hops /\ "down" \in Directions /\ item \in Carried
      BY Handed DEF Hops, Directions
    <3>2. CanWrite(2, "down")
      <4>1. Len(buf[2]["down"]) = 0
        BY <1>3 DEF AnswerId, Handshake
      <4> QED
        BY <4>1, PipeAssumption DEF CanWrite, Hops
    <3>3. HopsOK'
      BY <2>3, <3>1, <3>2, Puts DEF Typed
    <3> QED
      BY <2>1, <3>3 DEF Typed
  <2> QED
    BY <1>3, <2>2, <2>3 DEF AnswerId
<1>4. CASE DialServer
  <2>1. SidesOK' /\ EndsOK' /\ HopsOK'
    BY <1>4, Same DEF DialServer, Typed, SidesOK, given
  <2>2. PipesOK'
    BY <1>4, StartedTyped DEF DialServer, Pipes
  <2> QED
    BY <2>1, <2>2 DEF Typed
<1> QED
  BY <1>1, <1>2, <1>3, <1>4 DEF Far

\* Where things are.
LEMMA Places ==
  /\ \A i \in Pipes, d \in Directions : Source(i, d) \in Hops /\ Target(i, d) \in Hops
  /\ \A e \in Ends : Hop(e) \in Hops /\ Writes(e) \in Directions
  /\ \A d \in Directions :
       /\ First(d) \in Hops /\ Last(d) \in Hops /\ First(d) # Last(d)
       /\ First(d) # 2 /\ Last(d) # 2
       /\ FromFirst(d) \in Pipes /\ ToLast(d) \in Pipes /\ FromFirst(d) # ToLast(d)
       /\ Source(FromFirst(d), d) = First(d) /\ Target(FromFirst(d), d) = 2
       /\ Source(ToLast(d), d) = 2 /\ Target(ToLast(d), d) = Last(d)
       /\ \A i \in Pipes : i = FromFirst(d) \/ i = ToLast(d)
  /\ \A e \in Ends : First(Writes(e)) = Hop(e)
  /\ 2 \in Hops /\ 1 \in Pipes /\ 2 \in Pipes /\ {"up", "down"} = Directions
BY DEF Source, Target, Hops, Pipes, Directions, Ends, Hop, Writes, First, Last,
       FromFirst, ToLast

\* A pump sees an end, or reads.
LEMMA PumpReads ==
  ASSUME Typed, NEW i \in Pipes, NEW d \in Directions, PumpRead(i, d)
  PROVE  /\ Typed' /\ pump[i][d] = "read" /\ loop' = loop /\ chunk' = chunk
         /\ UNCHANGED <<near, far, ended, gone, ends, given, split>>
         /\ \A k \in Pipes, x \in Directions :
              k # i \/ x # d => pump'[k][x] = pump[k][x] /\ held'[k][x] = held[k][x]
         /\ \A k \in Hops, x \in Directions :
              k # Source(i, d) \/ x # d => buf'[k][x] = buf[k][x]
         /\ \A k \in Hops, x \in Directions : Lost(k, x)' <=> Lost(k, x)
         /\ \/ pump'[i][d] = "nil" /\ buf' = buf
            \/ /\ pump'[i][d] = "send" /\ ~AtEOF(Source(i, d), d)
               /\ buf[Source(i, d)][d] # <<>>
               /\ held'[i][d] = Head(buf[Source(i, d)][d])
               /\ buf'[Source(i, d)][d] = Tail(buf[Source(i, d)][d])
<1> DEFINE h == Source(i, d)
<1>1. h \in Hops
  BY Places
<1>2. /\ pump[i][d] = "read"
      /\ UNCHANGED <<near, far, ended, gone, loop, chunk, ends, given, split>>
  BY DEF PumpRead
<1>3. SidesOK' /\ EndsOK'
  BY <1>2, Same
<1>4. CASE /\ pump' = [pump EXCEPT ![i][d] = "nil"] /\ UNCHANGED <<buf, held>>
  <2>1. HopsOK'
    BY <1>2, <1>4, Same DEF hops
  <2>2. /\ PipesOK' /\ pump'[i][d] = "nil"
        /\ \A k \in Pipes, x \in Directions : k # i \/ x # d => pump'[k][x] = pump[k][x]
    BY <1>2, <1>4 DEF Typed, PipesOK
  <2> QED
    BY <1>2, <1>3, <1>4, <2>1, <2>2 DEF Typed, Lost
<1>5. CASE /\ buf[h][d] # <<>> /\ ~AtEOF(h, d)
           /\ pump' = [pump EXCEPT ![i][d] = "send"]
           /\ held' = [held EXCEPT ![i][d] = Head(buf[h][d])]
           /\ buf' = [buf EXCEPT ![h][d] = Tail(@)]
  <2> HIDE DEF h
  <2>1. /\ HopsOK' /\ buf'[h][d] = Tail(buf[h][d]) /\ Head(buf[h][d]) \in Carried
        /\ \A k \in Hops, x \in Directions : k # h \/ x # d => buf'[k][x] = buf[k][x]
        /\ \A k \in Hops, x \in Directions : Lost(k, x)' <=> Lost(k, x)
    BY <1>1, <1>2, <1>5, Takes DEF Typed
  <2>2. /\ pump' \in [Pipes -> [Directions -> {"absent", "read", "send", "nil", "gone"}]]
        /\ held' \in [Pipes -> [Directions -> Item]]
        /\ pump'[i][d] = "send" /\ held'[i][d] = Head(buf[h][d])
        /\ \A k \in Pipes, x \in Directions :
             k # i \/ x # d => pump'[k][x] = pump[k][x] /\ held'[k][x] = held[k][x]
    BY <1>5, <2>1 DEF Typed, PipesOK, Carried
  <2>3. \A k \in Pipes, x \in Directions : pump'[k][x] = "send" => held'[k][x] # Nothing
    <3> TAKE k \in Pipes, x \in Directions
    <3>1. CASE k = i /\ x = d
      BY <2>1, <2>2, <3>1 DEF Carried
    <3>2. CASE k # i \/ x # d
      BY <2>2, <3>2 DEF Typed, PipesOK
    <3> QED
      BY <3>1, <3>2
  <2>4. PipesOK'
    BY <1>2, <2>2, <2>3 DEF Typed, PipesOK
  <2> QED
    BY <1>2, <1>3, <1>5, <2>1, <2>2, <2>4 DEF Typed, h
<1> QED
  BY <1>4, <1>5 DEF PumpRead

\* The loop takes what a pump holds.
LEMMA LoopTakes ==
  ASSUME Typed, NEW i \in Pipes, NEW d \in Directions, Take(i, d)
  PROVE  /\ Typed' /\ loop[i] = "select" /\ pump[i][d] = "send"
         /\ loop'[i] = "write" /\ pump'[i][d] = "read"
         /\ chunk'[i].dir = d /\ chunk'[i].item = held[i][d]
         /\ UNCHANGED <<near, far, hops, ends, given, split>>
         /\ \A k \in Pipes : k # i => loop'[k] = loop[k] /\ chunk'[k] = chunk[k]
         /\ \A k \in Pipes, x \in Directions :
              k # i \/ x # d => pump'[k][x] = pump[k][x] /\ held'[k][x] = held[k][x]
<1>1. /\ loop[i] = "select" /\ pump[i][d] = "send"
      /\ UNCHANGED <<near, far, hops, ends, given, split>>
  BY DEF Take
<1>2. /\ loop' \in [Pipes -> {"absent", "select", "write", "returned"}]
      /\ loop'[i] = "write" /\ \A k \in Pipes : k # i => loop'[k] = loop[k]
  BY DEF Take, Typed, PipesOK
<1>3. /\ pump' \in [Pipes -> [Directions -> {"absent", "read", "send", "nil", "gone"}]]
      /\ held' \in [Pipes -> [Directions -> Item]]
      /\ pump'[i][d] = "read"
      /\ \A k \in Pipes, x \in Directions :
           k # i \/ x # d => pump'[k][x] = pump[k][x] /\ held'[k][x] = held[k][x]
  BY Handed DEF Take, Typed, PipesOK
<1>4. held[i][d] \in Item /\ held[i][d] # Nothing
  BY <1>1 DEF Typed, PipesOK
<1>5. /\ chunk' \in [Pipes -> [dir : Directions, item : Item]]
      /\ chunk'[i].dir = d /\ chunk'[i].item = held[i][d]
      /\ \A k \in Pipes : k # i => chunk'[k] = chunk[k]
  BY <1>4 DEF Take, Typed, PipesOK
<1>6. PipesOK'
  <2>1. \A k \in Pipes : loop'[k] = "write" => chunk'[k].item # Nothing
    BY <1>2, <1>4, <1>5 DEF Typed, PipesOK
  <2>2. \A k \in Pipes, x \in Directions : pump'[k][x] = "send" => held'[k][x] # Nothing
    <3> TAKE k \in Pipes, x \in Directions
    <3>1. CASE k = i /\ x = d
      BY <1>3, <3>1
    <3>2. CASE k # i \/ x # d
      BY <1>3, <3>2 DEF Typed, PipesOK
    <3> QED
      BY <3>1, <3>2
  <2> QED
    BY <1>2, <1>3, <1>5, <2>1, <2>2 DEF PipesOK
<1> QED
  BY <1>1, <1>2, <1>3, <1>5, <1>6, Same DEF Typed

\* The loop has written.
LEMMA LoopWrites ==
  ASSUME Typed, NEW i \in Pipes, Write(i)
  PROVE  /\ Typed' /\ loop[i] = "write" /\ loop'[i] = "select"
         /\ UNCHANGED <<near, far, ended, gone, pump, held, ends, given, split>>
         /\ \A k \in Pipes : k # i => loop'[k] = loop[k] /\ chunk'[k] = chunk[k]
         /\ \A k \in Hops, x \in Directions : Lost(k, x)' <=> Lost(k, x)
         /\ chunk[i].dir \in Directions /\ chunk[i].item \in Carried
         /\ LET d == chunk[i].dir  h == Target(i, d) IN
              /\ \A k \in Hops, x \in Directions :
                   k # h \/ x # d \/ Lost(h, d) => buf'[k][x] = buf[k][x]
              /\ ~Lost(h, d) => buf'[h][d] = Append(buf[h][d], chunk[i].item)
<1>1. /\ loop[i] = "write"
      /\ UNCHANGED <<near, far, ended, gone, pump, held, ends, given, split>>
  BY DEF Write
<1>2. chunk[i].dir \in Directions /\ chunk[i].item \in Carried
  BY <1>1 DEF Typed, PipesOK, Carried
<1> DEFINE d == chunk[i].dir  h == Target(i, d)
<1>3. /\ CanWrite(h, d) /\ Put(h, d, chunk[i].item)
      /\ loop' = [loop EXCEPT ![i] = "select"]
      /\ chunk' = [chunk EXCEPT ![i] = [dir |-> "up", item |-> Nothing]]
  BY DEF Write
<1>4. h \in Hops
  BY <1>2, Places
<1>5. /\ loop' \in [Pipes -> {"absent", "select", "write", "returned"}]
      /\ chunk' \in [Pipes -> [dir : Directions, item : Item]]
      /\ loop'[i] = "select"
      /\ \A k \in Pipes : k # i => loop'[k] = loop[k] /\ chunk'[k] = chunk[k]
  <2>1. [dir |-> "up", item |-> Nothing] \in [dir : Directions, item : Item]
    BY Handed, Places
  <2> HIDE DEF d, h
  <2> QED
    BY <1>3, <2>1 DEF Typed, PipesOK
<1>6. PipesOK'
  BY <1>1, <1>5 DEF Typed, PipesOK
<1> HIDE DEF d, h
<1>7. /\ HopsOK'
      /\ \A k \in Hops, x \in Directions :
           k # h \/ x # d \/ Lost(h, d) => buf'[k][x] = buf[k][x]
      /\ ~Lost(h, d) => buf'[h][d] = Append(buf[h][d], chunk[i].item)
      /\ \A k \in Hops, x \in Directions : Lost(k, x)' <=> Lost(k, x)
  BY <1>1, <1>2, <1>3, <1>4, Puts DEF d, Typed
<1> QED
  BY <1>1, <1>2, <1>5, <1>6, <1>7, Same DEF Typed, d, h

\* The loop has seen the end of a pump, and the handler of the pipe returns.
LEMMA PipeReturns ==
  ASSUME Typed, NEW i \in Pipes, NEW d \in Directions, TakeNil(i, d)
  PROVE  /\ Typed' /\ Shrinks /\ loop[i] = "select" /\ loop'[i] = "returned"
         /\ pump[i][d] = "nil" /\ pump'[i][d] = "gone" /\ Close(Closes(i))
         /\ IF i = 1 THEN near' = "returned" /\ far' = far
                     ELSE far' = "returned" /\ near' = near
         /\ UNCHANGED <<held, chunk, ends, given, split>>
         /\ \A k \in Pipes : k # i => loop'[k] = loop[k]
         /\ \A k \in Pipes, x \in Directions : k # i \/ x # d => pump'[k][x] = pump[k][x]
<1>1. /\ loop[i] = "select" /\ pump[i][d] = "nil" /\ Close(Closes(i))
      /\ IF i = 1 THEN near' = "returned" /\ far' = far
                  ELSE far' = "returned" /\ near' = near
      /\ UNCHANGED <<held, chunk, ends, given, split>>
  BY DEF TakeNil
<1>2. /\ loop' \in [Pipes -> {"absent", "select", "write", "returned"}]
      /\ loop'[i] = "returned" /\ \A k \in Pipes : k # i => loop'[k] = loop[k]
      /\ pump' \in [Pipes -> [Directions -> {"absent", "read", "send", "nil", "gone"}]]
      /\ pump'[i][d] = "gone"
      /\ \A k \in Pipes, x \in Directions : k # i \/ x # d => pump'[k][x] = pump[k][x]
  BY DEF TakeNil, Typed, PipesOK
<1>3. PipesOK'
  <2>1. \A k \in Pipes : loop'[k] = "write" => loop[k] = "write"
    BY <1>2
  <2>2. \A k \in Pipes, x \in Directions : pump'[k][x] = "send" => pump[k][x] = "send"
    <3> TAKE k \in Pipes, x \in Directions
    <3>1. CASE k = i /\ x = d
      BY <1>2, <3>1
    <3>2. CASE k # i \/ x # d
      BY <1>2, <3>2
    <3> QED
      BY <3>1, <3>2
  <2> QED
    BY <1>1, <1>2, <2>1, <2>2 DEF Typed, PipesOK
<1>4. HopsOK' /\ Shrinks
  BY <1>1, ClosesHops DEF Typed
<1>5. SidesOK'
  BY <1>1 DEF Typed, SidesOK, given
<1> QED
  BY <1>1, <1>2, <1>3, <1>4, <1>5, Same DEF Typed

\* An application writes a byte.
LEMMA Sends ==
  ASSUME Typed, NEW e \in Ends, Send(e)
  PROVE  LET d == Writes(e)  h == Hop(e) IN
         /\ Typed' /\ sent'[d] = sent[d] + 1
         /\ \A x \in Directions : x # d => sent'[x] = sent[x]
         /\ UNCHANGED <<near, far, ended, gone, pipes, rcvd, given, split>>
         /\ \A k \in Hops, x \in Directions : Lost(k, x)' <=> Lost(k, x)
         /\ \A k \in Hops, x \in Directions :
              k # h \/ x # d \/ Lost(h, d) => buf'[k][x] = buf[k][x]
         /\ ~Lost(h, d) => buf'[h][d] = Append(buf[h][d], sent[d] + 1)
         /\ sent[d] + 1 \in Carried
<1> DEFINE d == Writes(e)  h == Hop(e)
<1>1. /\ sent[d] < Total[d] /\ CanWrite(h, d) /\ Put(h, d, sent[d] + 1)
      /\ sent' = [sent EXCEPT ![d] = @ + 1]
      /\ UNCHANGED <<near, far, ended, gone, pipes, rcvd, given, split>>
  BY DEF Send
<1>2. d \in Directions /\ h \in Hops /\ h # 2
  BY Places DEF Hop
<1> HIDE DEF d, h
<1>3. sent[d] \in Nat /\ Total[d] \in Nat
  BY <1>2, PipeAssumption DEF Typed, EndsOK
<1>4. sent[d] + 1 \in Carried
  <2>1. Total["up"] \in Nat /\ Total["down"] \in Nat /\ (d = "up" \/ d = "down")
    BY <1>2, PipeAssumption DEF Directions
  <2>2. sent[d] + 1 <= Total["up"] + Total["down"]
    BY <1>1, <1>3, <2>1
  <2>3. sent[d] + 1 \in Byte
    BY <1>3, <2>1, <2>2 DEF Byte
  <2> QED
    BY <1>3, <2>3, Handed DEF Carried, Item
<1>5. EndsOK' /\ sent'[d] = sent[d] + 1 /\ \A x \in Directions : x # d => sent'[x] = sent[x]
  <2>1. /\ sent' \in [Directions -> Nat] /\ sent'[d] = sent[d] + 1
        /\ \A x \in Directions : x # d => sent'[x] = sent[x]
    BY <1>1, <1>2, <1>3 DEF Typed, EndsOK
  <2>2. \A x \in Directions : sent'[x] <= Total[x]
    BY <1>1, <1>3, <2>1 DEF Typed, EndsOK
  <2> QED
    BY <1>1, <2>1, <2>2 DEF Typed, EndsOK
<1>6. /\ HopsOK'
      /\ \A k \in Hops, x \in Directions :
           k # h \/ x # d \/ Lost(h, d) => buf'[k][x] = buf[k][x]
      /\ ~Lost(h, d) => buf'[h][d] = Append(buf[h][d], sent[d] + 1)
      /\ \A k \in Hops, x \in Directions : Lost(k, x)' <=> Lost(k, x)
  BY <1>1, <1>2, <1>4, Puts DEF Typed
<1> QED
  BY <1>1, <1>4, <1>5, <1>6, Same DEF Typed, d, h

\* An application takes a byte.
Comes(e) == IF e = "client" THEN "down" ELSE "up"

LEMMA Receives ==
  ASSUME Typed, NEW e \in Ends, Receive(e)
  PROVE  LET d == Comes(e)  h == Hop(e) IN
         /\ Typed' /\ d \in Directions /\ h = Last(d) /\ buf[h][d] # <<>>
         /\ rcvd'[d] = Append(rcvd[d], Head(buf[h][d]))
         /\ \A x \in Directions : x # d => rcvd'[x] = rcvd[x]
         /\ UNCHANGED <<near, far, ended, gone, pipes, sent, given, split>>
         /\ \A k \in Hops, x \in Directions : Lost(k, x)' <=> Lost(k, x)
         /\ \A k \in Hops, x \in Directions : k # h \/ x # d => buf'[k][x] = buf[k][x]
         /\ buf'[h][d] = Tail(buf[h][d])
<1> DEFINE d == Comes(e)  h == Hop(e)
<1>1. /\ buf[h][d] # <<>>
      /\ rcvd' = [rcvd EXCEPT ![d] = Append(@, Head(buf[h][d]))]
      /\ buf' = [buf EXCEPT ![h][d] = Tail(@)]
      /\ UNCHANGED <<near, far, ended, gone, pipes, sent, given, split>>
  BY DEF Receive, Comes
<1>2. d \in Directions /\ h \in Hops /\ h = Last(d)
  BY Places DEF Comes, Last, Hop, Ends, Directions
<1> HIDE DEF d, h
<1>3. /\ HopsOK' /\ buf'[h][d] = Tail(buf[h][d]) /\ Head(buf[h][d]) \in Carried
      /\ \A k \in Hops, x \in Directions : k # h \/ x # d => buf'[k][x] = buf[k][x]
      /\ \A k \in Hops, x \in Directions : Lost(k, x)' <=> Lost(k, x)
  BY <1>1, <1>2, Takes DEF Typed
<1>4. Append(rcvd[d], Head(buf[h][d])) \in Seq(Item)
  <2>1. rcvd[d] \in Seq(Item) /\ Head(buf[h][d]) \in Item
    BY <1>2, <1>3 DEF Typed, EndsOK, Carried
  <2> QED
    BY <2>1, AppendProperties
<1>5. /\ rcvd' \in [Directions -> Seq(Item)]
      /\ rcvd'[d] = Append(rcvd[d], Head(buf[h][d]))
      /\ \A x \in Directions : x # d => rcvd'[x] = rcvd[x]
  BY <1>1, <1>2, <1>4 DEF Typed, EndsOK
<1>6. EndsOK'
  BY <1>1, <1>5 DEF Typed, EndsOK
<1> QED
  BY <1>1, <1>2, <1>3, <1>5, <1>6, Same DEF Typed, d, h

\* An application closes its connection or half of it, or the stream breaks.
LEMMA Closings ==
  ASSUME Typed, Break \/ \E e \in Ends : Finish(e)
  PROVE  /\ Typed' /\ Shrinks /\ UNCHANGED <<near, far, pipes, ends, given, split>>
         /\ \A h \in Hops, e \in Ends : e \in gone[h] => e \in gone'[h]
         /\ \A h \in Hops : ended[h] \subseteq ended'[h]
<1>1. UNCHANGED <<near, far, pipes, ends, given, split>>
  BY DEF Break, Finish
<1>2. PICK e \in Ends :
        \/ \E S : Close(S)
        \/ /\ ended' = [ended EXCEPT ![Hop(e)] = @ \cup {Writes(e)}]
           /\ UNCHANGED <<buf, gone>>
  BY DEF Break, Finish, Ends
<1>3. CASE \E S : Close(S)
  BY <1>1, <1>3, ClosesHops, Same DEF Typed
<1>4. CASE /\ ended' = [ended EXCEPT ![Hop(e)] = @ \cup {Writes(e)}]
           /\ UNCHANGED <<buf, gone>>
  <2>1. Hop(e) \in Hops /\ Writes(e) \in Directions
    BY Places
  <2>2. /\ ended' \in [Hops -> SUBSET Directions]
        /\ \A h \in Hops : ended[h] \subseteq ended'[h]
    BY <1>4, <2>1 DEF Typed, HopsOK
  <2>3. HopsOK' /\ Shrinks
    BY <1>4, <2>2 DEF Typed, HopsOK, Shrinks, Lost
  <2> QED
    BY <1>1, <1>4, <2>2, <2>3, Same DEF Typed
<1> QED
  BY <1>2, <1>3, <1>4

LEMMA NextTyped ==
  ASSUME Typed, Handshake, [Next]_vars PROVE Typed'
<1>1. CASE Near \/ Far
  BY <1>1, NearTyped, FarTyped
<1>2. ASSUME NEW i \in Pipes, Loop(i) \/ \E d \in Directions : PumpRead(i, d)
      PROVE  Typed'
  BY <1>2, PumpReads, LoopTakes, LoopWrites, PipeReturns DEF Loop
<1>3. ASSUME NEW e \in Ends, Send(e) \/ Receive(e) PROVE Typed'
  BY <1>3, Sends, Receives
<1>4. CASE Break \/ \E e \in Ends : Finish(e)
  BY <1>4, Closings
<1>5. CASE UNCHANGED vars
  BY <1>5, Same DEF vars, Typed
<1> QED
  BY <1>1, <1>2, <1>3, <1>4, <1>5 DEF Next, Internal

-----------------------------------------------------------------------------
(* Pipes and the ends of the stream                                        *)

LEMMA NextPumps ==
  ASSUME Typed, Pumps, Sides, Handshake, [Next]_vars PROVE Pumps'
<1>1. CASE UNCHANGED pipes
  BY <1>1 DEF Pumps, pipes
<1>2. ASSUME NEW i \in Pipes, Started(i) PROVE Pumps'
  <2> SUFFICES ASSUME NEW k \in Pipes
               PROVE  /\ loop'[k] = "absent" => \A d \in Directions : pump'[k][d] = "absent"
                      /\ loop'[k] \in {"select", "write"} =>
                           \A d \in Directions : pump'[k][d] \notin {"absent", "gone"}
                      /\ loop'[k] = "returned" =>
                           \E d \in Directions :
                             \A x \in Directions : pump'[k][x] = "gone" <=> x = d
    BY DEF Pumps
  <2>1. CASE k = i
    BY <1>2, <2>1, StartedTyped
  <2>2. CASE k # i
    BY <1>2, <2>2, StartedTyped DEF Pumps
  <2> QED
    BY <2>1, <2>2
<1>3. ASSUME NEW i \in Pipes, NEW d \in Directions, PumpRead(i, d) PROVE Pumps'
  <2>1. \A k \in Pipes, x \in Directions :
          /\ pump'[k][x] = "gone" <=> pump[k][x] = "gone"
          /\ pump'[k][x] = "absent" <=> pump[k][x] = "absent"
    <3> TAKE k \in Pipes, x \in Directions
    <3>1. CASE k = i /\ x = d
      <4>1. pump[i][d] = "read" /\ pump'[i][d] \in {"nil", "send"}
        BY <1>3, PumpReads
      <4> QED
        BY <3>1, <4>1
    <3>2. CASE k # i \/ x # d
      BY <1>3, <3>2, PumpReads
    <3> QED
      BY <3>1, <3>2
  <2>2. loop' = loop
    BY <1>3, PumpReads
  <2> QED
    BY <2>1, <2>2 DEF Pumps
<1>4. ASSUME NEW i \in Pipes, NEW d \in Directions, Take(i, d) PROVE Pumps'
  <2>1. \A k \in Pipes, x \in Directions :
          /\ pump'[k][x] = "gone" <=> pump[k][x] = "gone"
          /\ pump'[k][x] = "absent" <=> pump[k][x] = "absent"
    <3> TAKE k \in Pipes, x \in Directions
    <3>1. CASE k = i /\ x = d
      BY <1>4, <3>1, LoopTakes
    <3>2. CASE k # i \/ x # d
      BY <1>4, <3>2, LoopTakes
    <3> QED
      BY <3>1, <3>2
  <2>2. \A k \in Pipes : \/ loop'[k] = loop[k]
                         \/ loop[k] = "select" /\ loop'[k] = "write"
    BY <1>4, LoopTakes
  <2> QED
    BY <2>1, <2>2 DEF Pumps
<1>5. ASSUME NEW i \in Pipes, Write(i) PROVE Pumps'
  <2>1. pump' = pump /\ \A k \in Pipes : \/ loop'[k] = loop[k]
                                         \/ loop[k] = "write" /\ loop'[k] = "select"
    BY <1>5, LoopWrites
  <2> QED
    BY <2>1 DEF Pumps
<1>6. ASSUME NEW i \in Pipes, NEW d \in Directions, TakeNil(i, d) PROVE Pumps'
  <2>1. /\ loop[i] = "select" /\ loop'[i] = "returned" /\ pump'[i][d] = "gone"
        /\ \A k \in Pipes : k # i => loop'[k] = loop[k]
        /\ \A k \in Pipes, x \in Directions : k # i \/ x # d => pump'[k][x] = pump[k][x]
    BY <1>6, PipeReturns
  <2>2. \A x \in Directions : pump[i][x] \notin {"absent", "gone"}
    BY <2>1 DEF Pumps
  <2>3. \A x \in Directions : pump'[i][x] = "gone" <=> x = d
    BY <2>1, <2>2
  <2> QED
    BY <2>1, <2>3 DEF Pumps
<1>7. CASE Near
  BY <1>1, <1>2, <1>7, Places DEF Near, OpenStream, OpenFails, Ask, ReadStatus, StatusFails
<1>8. CASE Far
  BY <1>1, <1>2, <1>8, Places DEF Far, ReadId, ReadIdFails, AnswerId, DialServer, FarGivesUp
<1>9. CASE Break \/ \E e \in Ends : Receive(e) \/ Send(e) \/ Finish(e)
  BY <1>1, <1>9 DEF Break, Receive, Send, Finish
<1>10. CASE UNCHANGED vars
  BY <1>1, <1>10 DEF vars
<1> QED
  BY <1>3, <1>4, <1>5, <1>6, <1>7, <1>8, <1>9, <1>10 DEF Next, Internal, Loop

\* As long as nothing is opened again, what an end has closed stays closed.
LEMMA SidesKept ==
  ASSUME Typed, Sides, UNCHANGED <<near, far>>,
         \A i \in Pipes : \/ loop'[i] = loop[i]
                          \/ {loop[i], loop'[i]} = {"select", "write"},
         \A h \in Hops, e \in Ends : e \in gone[h] => e \in gone'[h],
         \A h \in Hops : ended[h] \subseteq ended'[h]
  PROVE  Sides'
<1>1. \A i \in Pipes :
        /\ loop'[i] \in {"select", "write"} <=> loop[i] \in {"select", "write"}
        /\ loop'[i] = "returned" <=> loop[i] = "returned"
  OBVIOUS
<1>2. 1 \in Pipes /\ 2 \in Pipes /\ 2 \in Hops /\ "client" \in Ends /\ "server" \in Ends
  BY Places DEF Ends
<1>3. /\ "client" \in gone[2] => "client" \in gone'[2]
      /\ "server" \in gone[2] => "server" \in gone'[2]
      /\ "down" \in ended[2] => "down" \in ended'[2]
  BY <1>2
<1> QED
  BY <1>1, <1>2, <1>3 DEF Sides

LEMMA Returns ==
  ASSUME Typed
  PROVE  /\ Close(Closes(1)) => "client" \in gone'[2]
         /\ \A S : Close(S) /\ <<2, "server">> \in S =>
                  "server" \in gone'[2] /\ "down" \in ended'[2]
         /\ \A S : Close(S) =>
              /\ "client" \in gone[2] => "client" \in gone'[2]
              /\ "server" \in gone[2] => "server" \in gone'[2]
              /\ "down" \in ended[2] => "down" \in ended'[2]
<1>1. /\ 2 \in Hops /\ "client" \in Ends /\ "server" \in Ends /\ Writes("server") = "down"
      /\ <<2, "client">> \in Closes(1)
  BY Places DEF Ends, Closes, Writes
<1>2. Close(Closes(1)) => "client" \in gone'[2]
  BY <1>1, ClosesHops DEF Typed
<1>3. \A S : Close(S) /\ <<2, "server">> \in S =>
             "server" \in gone'[2] /\ "down" \in ended'[2]
  BY <1>1, ClosesHops DEF Typed
<1>4. \A S : Close(S) =>
        /\ "client" \in gone[2] => "client" \in gone'[2]
        /\ "server" \in gone[2] => "server" \in gone'[2]
        /\ "down" \in ended[2] => "down" \in ended'[2]
  BY <1>1, ClosesHops DEF Typed
<1> QED
  BY <1>2, <1>3, <1>4

LEMMA NearSides ==
  ASSUME Typed, Sides, Handshake, Near PROVE Sides'
<1>1. CASE OpenStream
  <2>1. near = "open" /\ near' = "ask" /\ far' \in {"id", "returned"} /\ loop' = loop
    BY <1>1 DEF OpenStream, pipes
  <2>2. far = "none"
    BY <2>1 DEF Handshake
  <2>3. far' = "returned" => "server" \in gone'[2] /\ "down" \in ended'[2]
    <3>1. <<2, "server">> \in {2} \X Ends
      BY DEF Ends
    <3> QED
      BY <1>1, <3>1, Returns DEF OpenStream
  <2>4. /\ loop[1] \notin {"select", "write", "returned"}
        /\ loop[2] \notin {"select", "write", "returned"}
    BY <2>1, <2>2 DEF Sides
  <2> QED
    BY <2>1, <2>3, <2>4 DEF Sides
<1>2. CASE OpenFails
  <2>1. /\ near = "open" /\ near' = "returned" /\ far' = far /\ loop' = loop
    BY <1>2 DEF OpenFails, NearReturns, pipes
  <2>2. far = "none"
    BY <2>1 DEF Handshake
  <2> QED
    BY <2>1, <2>2 DEF Sides
<1>3. ASSUME near \in {"ask", "status"}, NearReturns(Closes(1)), UNCHANGED pipes
      PROVE  Sides'
  <2>1. near' = "returned" /\ far' = far /\ loop' = loop /\ Close(Closes(1))
    BY <1>3 DEF NearReturns, pipes
  <2>2. /\ "client" \in gone'[2]
        /\ "server" \in gone[2] => "server" \in gone'[2]
        /\ "down" \in ended[2] => "down" \in ended'[2]
    BY <2>1, Returns
  <2> QED
    BY <1>3, <2>1, <2>2 DEF Sides
<1>4. CASE Ask
  <2>1. CASE near' = "status" /\ UNCHANGED <<far, ended, gone, pipes>> /\ near = "ask"
    BY <2>1 DEF Sides, pipes
  <2> QED
    BY <1>3, <1>4, <2>1 DEF Ask
<1>5. CASE ReadStatus
  <2>1. CASE /\ near' = "pipe" /\ Started(1) /\ UNCHANGED <<far, ended, gone>>
    <3>1. loop'[1] = "select" /\ loop'[2] = loop[2]
      BY <2>1, StartedTyped, Places
    <3> QED
      BY <2>1, <3>1 DEF Sides
  <2> QED
    BY <1>3, <1>5, <2>1 DEF ReadStatus
<1>6. CASE StatusFails
  BY <1>3, <1>6 DEF StatusFails
<1> QED
  BY <1>1, <1>2, <1>4, <1>5, <1>6 DEF Near

LEMMA FarSides ==
  ASSUME Typed, Sides, Handshake, Far PROVE Sides'
<1>1. ASSUME far \in {"id", "answer", "dial", "refused"}, FarReturns({<<2, "server">>}),
             UNCHANGED pipes
      PROVE  Sides'
  <2>1. far' = "returned" /\ near' = near /\ loop' = loop /\ Close({<<2, "server">>})
    BY <1>1 DEF FarReturns, pipes
  <2>2. /\ "server" \in gone'[2] /\ "down" \in ended'[2]
        /\ "client" \in gone[2] => "client" \in gone'[2]
    BY <2>1, Returns
  <2> QED
    BY <1>1, <2>1, <2>2 DEF Sides
<1>2. ASSUME far \in {"id", "answer"}, far' \in {"answer", "dial", "refused"},
             UNCHANGED <<near, ended, gone, pipes>>
      PROVE  Sides'
  BY <1>2 DEF Sides, pipes
<1>3. CASE DialServer
  <2>1. /\ far = "dial" /\ far' = "pipe" /\ Started(2) /\ UNCHANGED <<near, ended, gone>>
    BY <1>3 DEF DialServer, hops
  <2>2. loop'[2] = "select" /\ loop'[1] = loop[1]
    BY <2>1, StartedTyped, Places
  <2> QED
    BY <2>1, <2>2 DEF Sides
<1>4. CASE (\E n \in {1, 2} : ReadId(n)) \/ AnswerId
  BY <1>1, <1>2, <1>4 DEF ReadId, AnswerId
<1>5. CASE ReadIdFails \/ FarGivesUp
  BY <1>1, <1>5 DEF ReadIdFails, FarGivesUp
<1> QED
  BY <1>3, <1>4, <1>5 DEF Far

LEMMA NextSides ==
  ASSUME Typed, Sides, Handshake, [Next]_vars PROVE Sides'
<1>1. CASE Near \/ Far
  BY <1>1, NearSides, FarSides
<1>2. ASSUME NEW i \in Pipes, NEW d \in Directions, PumpRead(i, d) PROVE Sides'
  BY <1>2, PumpReads, SidesKept
<1>3. ASSUME NEW i \in Pipes, NEW d \in Directions, Take(i, d) PROVE Sides'
  <2>1. /\ UNCHANGED <<near, far, ended, gone>>
        /\ \A k \in Pipes : \/ loop'[k] = loop[k]
                            \/ {loop[k], loop'[k]} = {"select", "write"}
    BY <1>3, LoopTakes DEF hops
  <2> QED
    BY <2>1, SidesKept
<1>4. ASSUME NEW i \in Pipes, Write(i) PROVE Sides'
  <2>1. /\ UNCHANGED <<near, far, ended, gone>>
        /\ \A k \in Pipes : \/ loop'[k] = loop[k]
                            \/ {loop[k], loop'[k]} = {"select", "write"}
    BY <1>4, LoopWrites
  <2> QED
    BY <2>1, SidesKept
<1>5. ASSUME NEW i \in Pipes, NEW d \in Directions, TakeNil(i, d) PROVE Sides'
  <2>1. /\ loop[i] = "select" /\ loop'[i] = "returned" /\ Close(Closes(i))
        /\ \A k \in Pipes : k # i => loop'[k] = loop[k]
        /\ IF i = 1 THEN near' = "returned" /\ far' = far
                    ELSE far' = "returned" /\ near' = near
    BY <1>5, PipeReturns
  <2>2. /\ "client" \in gone[2] => "client" \in gone'[2]
        /\ "server" \in gone[2] => "server" \in gone'[2]
        /\ "down" \in ended[2] => "down" \in ended'[2]
    BY <2>1, Returns
  <2>3. CASE i = 1
    <3>1. "client" \in gone'[2] /\ loop'[2] = loop[2]
      BY <2>1, <2>3, Returns, Places
    <3> QED
      BY <2>1, <2>2, <2>3, <3>1 DEF Sides
  <2>4. CASE i = 2
    <3>1. <<2, "server">> \in Closes(2)
      BY DEF Closes
    <3>2. "server" \in gone'[2] /\ "down" \in ended'[2] /\ loop'[1] = loop[1]
      BY <2>1, <2>4, <3>1, Returns, Places
    <3> QED
      BY <2>1, <2>2, <2>4, <3>2 DEF Sides
  <2> QED
    BY <2>3, <2>4 DEF Pipes
<1>6. ASSUME NEW e \in Ends, Send(e) \/ Receive(e) PROVE Sides'
  BY <1>6, SidesKept DEF Send, Receive, pipes
<1>7. CASE Break \/ \E e \in Ends : Finish(e)
  BY <1>7, Closings, SidesKept DEF pipes
<1>8. CASE UNCHANGED vars
  BY <1>8, SidesKept DEF vars, hops, pipes
<1> QED
  BY <1>1, <1>2, <1>3, <1>4, <1>5, <1>6, <1>7, <1>8 DEF Next, Internal, Loop

-----------------------------------------------------------------------------
(* The handshake                                                           *)

\* Buffers that do not change, or go with the stream.
LEMMA HandshakeKept ==
  ASSUME Handshake, UNCHANGED <<near, far, split>>,
         loop[1] = "absent" => loop'[1] = "absent",
         buf'[2]["up"] \in {buf[2]["up"], <<>>},
         buf'[2]["down"] = buf[2]["down"] \/ (buf'[2]["down"] = <<>> /\ Lost(2, "down")'),
         Lost(2, "down") => Lost(2, "down")'
  PROVE  Handshake'
BY DEF Handshake

LEMMA NearHandshake ==
  ASSUME Typed, Sides, Handshake, Near PROVE Handshake'
<1>0. 2 \in Hops /\ "up" \in Directions /\ "down" \in Directions
  BY Places
<1>1. ASSUME Shrinks
      PROVE  /\ buf'[2]["up"] \in {buf[2]["up"], <<>>}
             /\ buf'[2]["down"] \in {buf[2]["down"], <<>>}
  BY <1>0, <1>1 DEF Shrinks
<1>2. CASE OpenStream
  <2>1. /\ near = "open" /\ near' = "ask" /\ far' \in {"id", "returned"}
        /\ loop' = loop /\ split' = split
    BY <1>2 DEF OpenStream, pipes
  <2>2. far = "none" /\ ~split /\ loop[1] = "absent"
        /\ buf[2]["up"] = <<>> /\ buf[2]["down"] = <<>>
    BY <2>1 DEF Handshake
  <2>3. buf'[2]["up"] = <<>> /\ buf'[2]["down"] = <<>>
    BY <1>1, <1>2, <2>2, Same, ClosesHops DEF OpenStream, Typed
  <2> QED
    BY <2>1, <2>2, <2>3 DEF Handshake
<1>3. ASSUME near \in {"open", "ask", "status"}, NEW S, NearReturns(S), UNCHANGED <<pipes, split>>
      PROVE  Handshake'
  <2>1. near' = "returned" /\ far' = far /\ loop' = loop /\ split' = split
    BY <1>3 DEF NearReturns, pipes
  <2>2. /\ buf'[2]["up"] \in {buf[2]["up"], <<>>}
        /\ buf'[2]["down"] \in {buf[2]["down"], <<>>}
    BY <1>1, <1>3, ClosesHops DEF NearReturns, Typed
  <2> QED
    BY <2>1, <2>2 DEF Handshake
<1>4. CASE Ask
  <2>1. CASE /\ near' = "status" /\ buf' = [buf EXCEPT ![2]["up"] = @ \o <<Id, Id>>]
             /\ UNCHANGED <<far, ended, gone>>
    <3>1. /\ far \in {"id", "returned"} /\ buf[2]["up"] = <<>> /\ buf[2]["down"] = <<>>
          /\ loop' = loop /\ split' = split
      BY <1>4 DEF Ask, Handshake, pipes
    <3>2. buf'[2]["up"] = <<>> \o <<Id, Id>> /\ buf'[2]["down"] = <<>>
      BY <1>0, <2>1, <3>1 DEF Typed, HopsOK
    <3>3. buf'[2]["up"] = <<Id, Id>>
      BY <3>2
    <3>4. far = "returned" => Lost(2, "down")'
      BY <2>1 DEF Sides, Lost
    <3> QED
      BY <2>1, <3>1, <3>2, <3>3, <3>4 DEF Handshake
  <2> QED
    BY <1>3, <1>4, <2>1 DEF Ask
<1>5. CASE ReadStatus
  <2>1. far \notin {"none", "id", "answer"}
    BY <1>5 DEF ReadStatus, Handshake
  <2>2. CASE near' = "pipe" /\ UNCHANGED <<far, split>>
    BY <2>1, <2>2 DEF Handshake
  <2> QED
    BY <1>3, <1>5, <2>2 DEF ReadStatus
<1>6. CASE OpenFails \/ StatusFails
  BY <1>3, <1>6 DEF OpenFails, StatusFails
<1> QED
  BY <1>2, <1>4, <1>5, <1>6 DEF Near

LEMMA FarHandshake ==
  ASSUME Typed, Sides, Handshake, Far PROVE Handshake'
<1>0. 2 \in Hops /\ "up" \in Directions /\ "down" \in Directions
  BY Places
<1>1. ASSUME NEW n \in {1, 2}, ReadId(n) PROVE Handshake'
  <2>1. /\ far = "id" /\ far' = "answer" /\ near' = near /\ loop' = loop
        /\ n <= Len(buf[2]["up"])
        /\ buf' = [buf EXCEPT ![2]["up"] = SubSeq(@, n + 1, Len(@))]
    BY <1>1 DEF ReadId, pipes
  <2>2. buf[2]["up"] # <<>>
    BY <2>1
  <2>3. near \in {"status", "returned"} /\ loop[1] = "absent" /\ buf[2]["down"] = <<>>
    BY <2>1, <2>2 DEF Handshake, Sides, Typed, SidesOK
  <2>4. buf'[2]["down"] = <<>>
    BY <1>0, <2>1, <2>3 DEF Typed, HopsOK
  <2> QED
    BY <2>1, <2>3, <2>4 DEF Handshake
<1>2. ASSUME far \in {"id", "answer", "dial", "refused"}, FarReturns({<<2, "server">>}),
             UNCHANGED <<pipes, split>>
      PROVE  Handshake'
  <2>1. far' = "returned" /\ near' = near /\ loop' = loop /\ split' = split
    BY <1>2 DEF FarReturns, pipes
  <2>2. /\ buf'[2]["up"] \in {buf[2]["up"], <<>>}
        /\ buf'[2]["down"] \in {buf[2]["down"], <<>>}
    BY <1>0, <1>2, ClosesHops DEF FarReturns, Typed, Shrinks
  <2>3. Lost(2, "down")'
    BY <1>2, Returns DEF FarReturns, Lost
  <2> QED
    BY <1>2, <2>1, <2>2, <2>3 DEF Handshake
<1>3. CASE AnswerId
  <2>1. far = "answer" /\ near \in {"status", "returned"} /\ buf[2]["down"] = <<>>
    BY <1>3 DEF AnswerId, Handshake
  <2>2. ASSUME far' \in {"dial", "refused"}, NEW item \in {Ok, No}, ~Lost(2, "down"),
               Put(2, "down", item), UNCHANGED near
        PROVE  Handshake'
    <3>1. buf'[2]["down"] = Append(<<>>, item)
      BY <1>0, <2>1, <2>2 DEF Put, Typed, HopsOK
    <3>2. buf'[2]["down"] # <<>>
      BY <3>1
    <3> QED
      BY <2>1, <2>2, <3>2 DEF Handshake
  <2> QED
    BY <1>2, <1>3, <2>1, <2>2 DEF AnswerId
<1>4. CASE DialServer
  <2>1. far = "dial" /\ far' = "pipe" /\ UNCHANGED <<near, buf, ended, gone>>
    BY <1>4 DEF DialServer, hops
  <2> QED
    BY <2>1 DEF Handshake, Lost
<1>5. CASE ReadIdFails \/ FarGivesUp
  BY <1>2, <1>5 DEF ReadIdFails, FarGivesUp
<1> QED
  BY <1>1, <1>3, <1>4, <1>5 DEF Far

LEMMA NextHandshake ==
  ASSUME Typed, Pumps, Sides, Handshake, [Next]_vars PROVE Handshake'
<1>0. 2 \in Hops /\ "up" \in Directions /\ "down" \in Directions
  BY Places
<1>1. CASE Near \/ Far
  BY <1>1, NearHandshake, FarHandshake
<1>2. ASSUME NEW i \in Pipes, NEW d \in Directions, PumpRead(i, d) PROVE Handshake'
  <2>1. /\ pump[i][d] = "read" /\ loop' = loop /\ UNCHANGED <<near, far, split>>
        /\ Lost(2, "down")' <=> Lost(2, "down")
        /\ Source(i, d) # 2 \/ d = "down" => buf'[2]["up"] = buf[2]["up"]
        /\ Source(i, d) # 2 \/ d = "up" => buf'[2]["down"] = buf[2]["down"]
    BY <1>0, <1>2, PumpReads
  <2>2. loop[i] # "absent"
    BY <2>1 DEF Pumps
  <2>3. CASE Source(i, d) # 2
    BY <2>1, <2>3, HandshakeKept
  <2>4. CASE i = 2 /\ d = "up"
    <3>1. far \in {"pipe", "returned"}
      BY <2>2, <2>4, Places DEF Sides, Typed, PipesOK
    <3>2. near = "ask" => buf'[2]["up"] = <<>>
      <4>1. buf' = buf \/ buf[2]["up"] # <<>>
        BY <1>2, <2>4, PumpReads DEF Source
      <4> QED
        BY <4>1 DEF Handshake
    <3> QED
      BY <2>1, <2>4, <3>1, <3>2 DEF Handshake
  <2>5. CASE i = 1 /\ d = "down"
    <3>1. near \in {"pipe", "returned"} /\ far \notin {"none", "id", "answer"}
      BY <2>2, <2>5, Places DEF Sides, Typed, PipesOK, Handshake
    <3> QED
      BY <2>1, <3>1 DEF Handshake
  <2> QED
    BY <2>3, <2>4, <2>5 DEF Source, Pipes, Directions
<1>3. ASSUME NEW i \in Pipes, NEW d \in Directions, Take(i, d) PROVE Handshake'
  <2>1. /\ loop[i] = "select" /\ \A k \in Pipes : k # i => loop'[k] = loop[k]
        /\ UNCHANGED <<near, far, split, buf, ended, gone>>
    BY <1>3, LoopTakes DEF hops
  <2>2. loop[1] = "absent" => loop'[1] = "absent"
    BY <2>1, Places
  <2> QED
    BY <2>1, <2>2, HandshakeKept DEF Lost
<1>4. ASSUME NEW i \in Pipes, Write(i) PROVE Handshake'
  <2> DEFINE d == chunk[i].dir
  <2>0. /\ loop[i] = "write" /\ UNCHANGED <<near, far, split>> /\ d \in Directions
        /\ \A k \in Pipes : k # i => loop'[k] = loop[k]
        /\ \A k \in Hops, x \in Directions : Lost(k, x)' <=> Lost(k, x)
        /\ \A k \in Hops, x \in Directions :
             k # Target(i, d) \/ x # d \/ Lost(Target(i, d), d) => buf'[k][x] = buf[k][x]
        /\ ~Lost(Target(i, d), d) =>
             buf'[Target(i, d)][d] = Append(buf[Target(i, d)][d], chunk[i].item)
    BY <1>4, LoopWrites
  <2> HIDE DEF d
  <2>1. /\ loop[i] = "write" /\ \A k \in Pipes : k # i => loop'[k] = loop[k]
        /\ UNCHANGED <<near, far, split>>
        /\ Lost(2, "down")' <=> Lost(2, "down")
        /\ Target(i, d) # 2 \/ d # "up" => buf'[2]["up"] = buf[2]["up"]
        /\ Target(i, d) # 2 \/ d # "down" \/ Lost(2, "down") => buf'[2]["down"] = buf[2]["down"]
        /\ Target(i, d) = 2 /\ d = "down" /\ ~Lost(2, "down") =>
             buf'[2]["down"] = Append(buf[2]["down"], chunk[i].item)
        /\ d \in Directions
    BY <1>0, <2>0
  <2>2. loop[1] = "absent" => loop'[1] = "absent"
    BY <2>1, Places
  <2>3. CASE Target(i, d) # 2
    BY <2>1, <2>2, <2>3, HandshakeKept
  <2>4. CASE i = 1
    <3>1. near = "pipe" /\ far \notin {"none", "id", "answer"}
      BY <2>1, <2>4, Places DEF Sides, Handshake
    <3> QED
      BY <2>1, <3>1 DEF Handshake
  <2>5. CASE i = 2 /\ d = "down" /\ Target(i, d) = 2
    <3>1. far = "pipe"
      BY <2>1, <2>5, Places DEF Sides
    <3>2. buf'[2]["down"] # <<>> \/ Lost(2, "down")'
      <4>1. buf[2]["down"] \in Seq(Carried)
        BY <1>0 DEF Typed, HopsOK
      <4>2. ~Lost(2, "down") => Len(buf'[2]["down"]) = Len(buf[2]["down"]) + 1
        BY <2>1, <2>5, <4>1, AppendProperties
      <4> QED
        BY <2>1, <4>1, <4>2, LenProperties
    <3> QED
      BY <2>1, <3>1, <3>2 DEF Handshake
  <2> QED
    BY <2>1, <2>3, <2>4, <2>5 DEF Target, Pipes, Directions
<1>5. ASSUME NEW i \in Pipes, NEW d \in Directions, TakeNil(i, d) PROVE Handshake'
  <2>1. /\ loop[i] = "select" /\ Close(Closes(i)) /\ split' = split
        /\ IF i = 1 THEN near' = "returned" /\ far' = far
                    ELSE far' = "returned" /\ near' = near
    BY <1>5, PipeReturns
  <2>2. CASE i = 1
    <3>1. near = "pipe" /\ far \notin {"none", "id", "answer"}
      BY <2>1, <2>2, Places DEF Sides, Handshake
    <3> QED
      BY <2>1, <2>2, <3>1 DEF Handshake
  <2>3. CASE i = 2
    <3>1. far = "pipe"
      BY <2>1, <2>3, Places DEF Sides
    <3>2. Lost(2, "down")'
      <4>1. <<2, "server">> \in Closes(2)
        BY DEF Closes
      <4> QED
        BY <2>1, <2>3, <4>1, Returns DEF Lost
    <3> QED
      BY <2>1, <2>3, <3>1, <3>2 DEF Handshake
  <2> QED
    BY <2>2, <2>3 DEF Pipes
<1>6. ASSUME NEW e \in Ends, Send(e) \/ Receive(e) PROVE Handshake'
  <2>1. Hop(e) # 2 /\ Hop(e) \in Hops
    BY Places DEF Hop
  <2>2. buf'[2] = buf[2] /\ UNCHANGED <<near, far, split, loop, ended, gone>>
    BY <1>6, <2>1, <1>0 DEF Send, Receive, Put, pipes, Typed, HopsOK
  <2> QED
    BY <2>2, HandshakeKept DEF Lost
<1>7. CASE Break \/ \E e \in Ends : Finish(e)
  <2>1. Shrinks /\ UNCHANGED <<near, far, split, loop>>
    BY <1>7, Closings DEF pipes
  <2>2. /\ buf'[2]["up"] \in {buf[2]["up"], <<>>}
        /\ buf'[2]["down"] = buf[2]["down"] \/ (buf'[2]["down"] = <<>> /\ Lost(2, "down")')
        /\ Lost(2, "down") => Lost(2, "down")'
    BY <1>0, <2>1 DEF Shrinks
  <2> QED
    BY <2>1, <2>2, HandshakeKept
<1>8. CASE UNCHANGED vars
  BY <1>8, HandshakeKept DEF vars, hops, pipes, Lost
<1> QED
  BY <1>1, <1>2, <1>3, <1>4, <1>5, <1>6, <1>7, <1>8 DEF Next, Internal, Loop

-----------------------------------------------------------------------------
(* The bytes                                                               *)

LEMMA HeadThenTail ==
  ASSUME NEW S, NEW s \in Seq(S), s # <<>> PROVE <<Head(s)>> \o Tail(s) = s
<1> DEFINE u == <<Head(s)>>  t == Tail(s)
<1>1. /\ u \in Seq(S) /\ Len(u) = 1 /\ u[1] = Head(s)
      /\ t \in Seq(S) /\ Len(t) = Len(s) - 1 /\ \A j \in 1..Len(t) : t[j] = s[j + 1]
      /\ Head(s) = s[1] /\ Len(s) \in Nat /\ Len(s) >= 1
  BY HeadTailProperties, LenProperties
<1> HIDE DEF u, t
<1>2. /\ u \o t \in Seq(S) /\ Len(u \o t) = Len(u) + Len(t)
      /\ \A j \in 1..(Len(u) + Len(t)) :
           (u \o t)[j] = IF j <= Len(u) THEN u[j] ELSE t[j - Len(u)]
  <2>1. u \in Seq(S) /\ t \in Seq(S)
    BY <1>1
  <2> QED
    BY <2>1, ConcatProperties
<1>3. Len(u \o t) = Len(s)
  BY <1>1, <1>2
<1>4. \A j \in 1..Len(s) : (u \o t)[j] = s[j]
  <2> TAKE j \in 1..Len(s)
  <2>1. CASE j = 1
    BY <1>1, <1>2, <2>1
  <2>2. CASE j # 1
    <3>1. j - 1 \in 1..Len(t) /\ j \in 1..(Len(u) + Len(t)) /\ ~(j <= Len(u))
      BY <1>1, <2>2
    <3>2. (u \o t)[j] = t[j - 1] /\ t[j - 1] = s[j - 1 + 1] /\ j - 1 + 1 = j
      BY <1>1, <1>2, <3>1
    <3> QED
      BY <3>2
  <2> QED
    BY <2>1, <2>2
<1>5. u \o t = s
  BY <1>2, <1>3, <1>4, SeqEqual
<1> QED
  BY <1>5 DEF u, t

LEMMA Associates ==
  ASSUME NEW S, NEW s \in Seq(S), NEW t \in Seq(S), NEW u \in Seq(S)
  PROVE  s \o (t \o u) = (s \o t) \o u /\ s \o t \in Seq(S)
<1>1. (s \o t) \o u = s \o (t \o u)
  BY ConcatAssociative
<1>2. s \o t \in Seq(S)
  BY ConcatProperties
<1> QED
  BY <1>1, <1>2

\* What is in front of bytes in order is in order.
LEMMA InFront ==
  ASSUME NEW S, NEW s \in Seq(S), NEW t \in Seq(S), NEW n \in Nat, Counts(s \o t, n)
  PROVE  Counts(s, n)
<1>1. /\ Len(s) \in Nat /\ Len(t) \in Nat /\ Len(s \o t) = Len(s) + Len(t)
      /\ \A j \in 1..(Len(s) + Len(t)) :
           (s \o t)[j] = IF j <= Len(s) THEN s[j] ELSE t[j - Len(s)]
  BY ConcatProperties, LenProperties
<1>2. Len(s) <= n
  BY <1>1 DEF Counts
<1>3. \A j \in 1..Len(s) : s[j] = (s \o t)[j] /\ j \in 1..Len(s \o t)
  BY <1>1
<1> QED
  BY <1>2, <1>3 DEF Counts

\* The next byte behind them.
LEMMA OneMore ==
  ASSUME NEW S, NEW s \in Seq(S), Counts(s, Len(s)), Len(s) + 1 \in S
  PROVE  /\ Counts(Append(s, Len(s) + 1), Len(s) + 1)
         /\ Len(Append(s, Len(s) + 1)) = Len(s) + 1
<1> DEFINE n == Len(s)
<1>1. n \in Nat
  BY LenProperties
<1>2. /\ Len(Append(s, n + 1)) = n + 1
      /\ \A j \in 1..n : Append(s, n + 1)[j] = s[j]
      /\ Append(s, n + 1)[n + 1] = n + 1
  BY AppendProperties
<1>3. \A j \in 1..n : s[j] = j
  BY DEF Counts
<1> HIDE DEF n
<1>4. \A j \in 1..(n + 1) : j \in 1..n \/ j = n + 1
  BY <1>1
<1>5. \A j \in 1..(n + 1) : Append(s, n + 1)[j] = j
  BY <1>2, <1>3, <1>4
<1>6. Counts(Append(s, n + 1), n + 1)
  BY <1>1, <1>2, <1>5 DEF Counts
<1> QED
  BY <1>2, <1>6 DEF n

\* All of them are sequences.
LEMMA Sequences ==
  ASSUME Typed, NEW d \in Directions
  PROVE  /\ sent[d] \in Nat /\ rcvd[d] \in Seq(Item)
         /\ \A h \in Hops : buf[h][d] \in Seq(Item) /\ buf[h][d] \in Seq(Carried)
         /\ Data(d) \in Seq(Item)
         /\ \A i \in Pipes : /\ InLoop(i, d) \in Seq(Item) /\ InPump(i, d) \in Seq(Item)
                             /\ InPipe(i, d) \in Seq(Item)
         /\ Arriving(d) \in Seq(Item) /\ Halfway(d) \in Seq(Item) /\ UnderWay(d) \in Seq(Item)
<1>1. sent[d] \in Nat /\ rcvd[d] \in Seq(Item)
  BY DEF Typed, EndsOK
<1>2. \A h \in Hops : buf[h][d] \in Seq(Item) /\ buf[h][d] \in Seq(Carried)
  <2>1. \A s \in Seq(Carried) : s \in Seq(Item)
    BY SeqMonotonic DEF Carried
  <2> QED
    BY <2>1 DEF Typed, HopsOK
<1>3. \A h \in Hops, x \in Directions : buf[h][x] \in Seq(Carried)
  BY DEF Typed, HopsOK
<1>4. Data(d) \in Seq(Item)
  <2>1. CASE d = "up"
    <3>1. <<>> \in Seq(Item)
      OBVIOUS
    <3> QED
      BY <1>2, <2>1, <3>1, Places DEF Data
  <2>2. CASE d # "up"
    <3>1. d = "down"
      BY <2>2 DEF Directions
    <3>2. buf[2]["down"] # <<>> => Tail(buf[2]["down"]) \in Seq(Item)
      BY <1>2, <3>1, Places, HeadTailProperties
    <3> QED
      BY <1>2, <3>1, <3>2, Places DEF Data
  <2> QED
    BY <2>1, <2>2
<1>5. \A i \in Pipes : InLoop(i, d) \in Seq(Item) /\ InPump(i, d) \in Seq(Item)
  BY DEF Typed, PipesOK, InLoop, InPump
<1>6. \A i \in Pipes : InPipe(i, d) \in Seq(Item)
  BY <1>5, ConcatProperties DEF InPipe
<1>7. Arriving(d) \in Seq(Item)
  BY <1>1, <1>2, Places, ConcatProperties DEF Arriving
<1>8. Halfway(d) \in Seq(Item)
  <2>1. InPipe(ToLast(d), d) \o Data(d) \in Seq(Item)
    BY <1>4, <1>6, Places, ConcatProperties
  <2> QED
    BY <1>7, <2>1, ConcatProperties DEF Halfway
<1>9. UnderWay(d) \in Seq(Item)
  <2>1. InPipe(FromFirst(d), d) \o buf[First(d)][d] \in Seq(Item)
    BY <1>2, <1>6, Places, ConcatProperties
  <2> QED
    BY <1>8, <2>1, ConcatProperties DEF UnderWay
<1> QED
  BY <1>1, <1>2, <1>4, <1>5, <1>6, <1>7, <1>8, <1>9

\* Bytes that only move keep their order.
LEMMA Moved ==
  ASSUME NEW d \in Directions, Ordered(d),
         Arriving(d)' = Arriving(d), Halfway(d)' = Halfway(d), UnderWay(d)' = UnderWay(d),
         sent'[d] = sent[d], \A h \in Hops : Lost(h, d)' <=> Lost(h, d)
  PROVE  Ordered(d)'
<1>1. First(d) \in Hops /\ Last(d) \in Hops /\ 2 \in Hops
  BY Places
<1>2. /\ Lost(Last(d), d)' <=> Lost(Last(d), d)
      /\ Lost(2, d)' <=> Lost(2, d)
      /\ Lost(First(d), d)' <=> Lost(First(d), d)
  BY <1>1
<1> QED
  BY <1>2 DEF Ordered

\* Nothing moves in direction d, though hops may be closed, and bytes with them.
Still(d) ==
  /\ rcvd'[d] = rcvd[d] /\ sent'[d] = sent[d]
  /\ \A h \in {First(d), Last(d)} :
       buf'[h][d] = buf[h][d] \/ (buf'[h][d] = <<>> /\ Lost(h, d)')
  /\ \A h \in Hops : Lost(h, d) => Lost(h, d)'
  /\ Data(d)' = Data(d) \/ (Data(d)' = <<>> /\ Lost(2, d)')
  /\ \A i \in Pipes : InPipe(i, d)' = InPipe(i, d)

LEMMA StillOrdered ==
  ASSUME Typed, NEW d \in Directions, Ordered(d), Still(d) PROVE Ordered(d)'
<1>1. First(d) \in Hops /\ Last(d) \in Hops /\ 2 \in Hops
      /\ FromFirst(d) \in Pipes /\ ToLast(d) \in Pipes
  BY Places
<1> DEFINE L == buf[Last(d)][d]  F == buf[First(d)][d]  D == Data(d)
           p == InPipe(ToLast(d), d)  q == InPipe(FromFirst(d), d)
<1>2. /\ rcvd[d] \in Seq(Item) /\ L \in Seq(Item) /\ F \in Seq(Item) /\ D \in Seq(Item)
      /\ p \in Seq(Item) /\ q \in Seq(Item) /\ sent[d] \in Nat
      /\ Arriving(d) \in Seq(Item) /\ Halfway(d) \in Seq(Item)
  BY <1>1, Sequences
<1>3. /\ Arriving(d) = rcvd[d] \o L /\ Halfway(d) = Arriving(d) \o (p \o D)
      /\ UnderWay(d) = Halfway(d) \o (q \o F)
  BY DEF Arriving, Halfway, UnderWay
<1>4. /\ Arriving(d)' = rcvd[d] \o buf'[Last(d)][d]
      /\ Halfway(d)' = Arriving(d)' \o (p \o Data(d)')
      /\ UnderWay(d)' = Halfway(d)' \o (q \o buf'[First(d)][d])
  BY <1>1 DEF Arriving, Halfway, UnderWay, Still
<1>5. Counts(Arriving(d)', sent[d])
  <2>1. Counts(rcvd[d] \o L, sent[d])
    BY <1>3 DEF Ordered
  <2>2. CASE buf'[Last(d)][d] = L
    BY <1>4, <2>1, <2>2
  <2>3. CASE buf'[Last(d)][d] = <<>>
    <3>1. Counts(rcvd[d], sent[d])
      BY <1>2, <2>1, InFront
    <3>2. Arriving(d)' = rcvd[d]
      BY <1>2, <1>4, <2>3, ConcatEmptySeq
    <3> QED
      BY <3>1, <3>2
  <2> QED
    BY <1>1, <2>2, <2>3 DEF Still
<1>6. ASSUME ~Lost(Last(d), d)'
      PROVE  ~Lost(Last(d), d) /\ Arriving(d)' = Arriving(d)
  BY <1>1, <1>3, <1>4, <1>6 DEF Still
<1>7. ASSUME ~Lost(Last(d), d)'
      PROVE  Counts(Halfway(d)', sent[d])
  <2>1. Counts(Arriving(d) \o (p \o D), sent[d])
    BY <1>3, <1>6, <1>7 DEF Ordered
  <2>2. CASE Data(d)' = D
    BY <1>4, <1>6, <1>7, <2>1, <2>2
  <2>3. CASE Data(d)' = <<>>
    <3>1. Arriving(d) \o (p \o D) = (Arriving(d) \o p) \o D /\ Arriving(d) \o p \in Seq(Item)
      <4>1. Arriving(d) \in Seq(Item) /\ p \in Seq(Item) /\ D \in Seq(Item)
        BY <1>2
      <4> HIDE DEF D, F, p, q
      <4> QED
        BY <4>1, Associates
    <3>2. Counts((Arriving(d) \o p) \o D, sent[d])
      BY <2>1, <3>1
    <3>3. Counts(Arriving(d) \o p, sent[d])
      BY <1>2, <3>1, <3>2, InFront
    <3>4. p \o <<>> = p
      BY <1>2, ConcatEmptySeq
    <3>5. Halfway(d)' = Arriving(d) \o p
      BY <1>4, <1>6, <1>7, <2>3, <3>4
    <3> QED
      BY <3>3, <3>5
  <2> QED
    BY <2>2, <2>3 DEF Still
<1>8. ASSUME ~Lost(Last(d), d)', ~Lost(2, d)'
      PROVE  ~Lost(2, d) /\ Halfway(d)' = Halfway(d)
  BY <1>1, <1>3, <1>4, <1>6, <1>8 DEF Still
<1>9. ASSUME ~Lost(Last(d), d)', ~Lost(2, d)'
      PROVE  Counts(UnderWay(d)', sent[d])
  <2>1. Counts(Halfway(d) \o (q \o F), sent[d])
    BY <1>3, <1>6, <1>8, <1>9 DEF Ordered
  <2>2. CASE buf'[First(d)][d] = F
    BY <1>4, <1>8, <1>9, <2>1, <2>2
  <2>3. CASE buf'[First(d)][d] = <<>>
    <3>1. Halfway(d) \o (q \o F) = (Halfway(d) \o q) \o F /\ Halfway(d) \o q \in Seq(Item)
      <4>1. Halfway(d) \in Seq(Item) /\ q \in Seq(Item) /\ F \in Seq(Item)
        BY <1>2
      <4> HIDE DEF D, F, p, q
      <4> QED
        BY <4>1, Associates
    <3>2. Counts((Halfway(d) \o q) \o F, sent[d])
      BY <2>1, <3>1
    <3>3. Counts(Halfway(d) \o q, sent[d])
      BY <1>2, <3>1, <3>2, InFront
    <3>4. q \o <<>> = q
      BY <1>2, ConcatEmptySeq
    <3>5. UnderWay(d)' = Halfway(d) \o q
      BY <1>4, <1>8, <1>9, <2>3, <3>4
    <3> QED
      BY <3>3, <3>5
  <2> QED
    BY <1>1, <2>2, <2>3 DEF Still
<1>10. ASSUME ~Lost(Last(d), d)', ~Lost(2, d)', ~Lost(First(d), d)'
       PROVE  Len(UnderWay(d)') = sent[d]
  <2>1. buf'[First(d)][d] = F /\ ~Lost(First(d), d)
    BY <1>1, <1>10 DEF Still
  <2>2. UnderWay(d)' = UnderWay(d)
    BY <1>3, <1>4, <1>8, <1>10, <2>1
  <2> QED
    BY <1>6, <1>8, <1>10, <2>1, <2>2 DEF Ordered
<1>11. sent'[d] = sent[d]
  BY DEF Still
<1> QED
  BY <1>5, <1>7, <1>9, <1>10, <1>11 DEF Ordered

\* What is on the stream, when hops are only closed.
LEMMA DataKept ==
  ASSUME NEW d \in Directions, Shrinks,
         far \in {"none", "id"} <=> far' \in {"none", "id"},
         near = "status" <=> near' = "status"
  PROVE  Data(d)' = Data(d) \/ (Data(d)' = <<>> /\ Lost(2, d)')
<1>1. \A x \in Directions :
        buf'[2][x] = buf[2][x] \/ (buf'[2][x] = <<>> /\ Lost(2, x)')
  BY Places DEF Shrinks
<1>2. CASE d = "up"
  BY <1>1, <1>2 DEF Data
<1>3. CASE d = "down"
  <2>1. CASE buf'[2]["down"] = buf[2]["down"]
    BY <1>3, <2>1 DEF Data
  <2>2. CASE buf'[2]["down"] = <<>> /\ Lost(2, "down")'
    BY <1>3, <2>2 DEF Data
  <2> QED
    BY <1>1, <1>3, <2>1, <2>2
<1> QED
  BY <1>2, <1>3 DEF Directions

\* A step that moves nothing.
LEMMA Rests ==
  ASSUME Typed, NEW d \in Directions, Ordered(d), Shrinks, UNCHANGED ends,
         Data(d)' = Data(d) \/ (Data(d)' = <<>> /\ Lost(2, d)'),
         \A i \in Pipes : InPipe(i, d)' = InPipe(i, d)
  PROVE  Ordered(d)'
<1>1. /\ \A h \in {First(d), Last(d)} :
           buf'[h][d] = buf[h][d] \/ (buf'[h][d] = <<>> /\ Lost(h, d)')
      /\ \A h \in Hops : Lost(h, d) => Lost(h, d)'
  BY Places DEF Shrinks
<1>2. Still(d)
  BY <1>1 DEF Still, ends
<1> QED
  BY <1>2, StillOrdered

LEMMA SamePipes ==
  ASSUME UNCHANGED pipes, NEW i \in Pipes, NEW d \in Directions
  PROVE  InPipe(i, d)' = InPipe(i, d)
BY DEF pipes, InPipe, InLoop, InPump

LEMMA StartedPipes ==
  ASSUME Typed, Pumps, NEW k \in Pipes, loop[k] = "absent", Started(k),
         NEW i \in Pipes, NEW d \in Directions
  PROVE  InPipe(i, d)' = InPipe(i, d)
<1>1. /\ loop'[k] = "select" /\ pump'[k][d] = "read"
      /\ i # k => pump'[i] = pump[i] /\ loop'[i] = loop[i]
  BY StartedTyped
<1>2. pump[k][d] = "absent"
  BY DEF Pumps
<1>3. held' = held /\ chunk' = chunk
  BY DEF Started
<1>4. InLoop(i, d)' = InLoop(i, d) /\ InPump(i, d)' = InPump(i, d)
  <2>1. CASE i = k
    BY <1>1, <1>2, <2>1 DEF InLoop, InPump
  <2>2. CASE i # k
    BY <1>1, <1>3, <2>2 DEF InLoop, InPump
  <2> QED
    BY <2>1, <2>2
<1> QED
  BY <1>4 DEF InPipe

\* The handshake moves no byte of an application.
LEMMA NearOrdered ==
  ASSUME IInv, Near, NEW d \in Directions, Ordered(d) PROVE Ordered(d)'
<1>0. /\ Typed /\ Sides /\ Handshake /\ Pumps /\ 2 \in Hops /\ 1 \in Pipes
      /\ "up" \in Directions /\ "down" \in Directions /\ (d = "up" \/ d = "down")
  BY Places DEF IInv, Directions
<1>1. CASE OpenStream
  <2>1. /\ near = "open" /\ near' = "ask" /\ UNCHANGED <<pipes, ends>>
    BY <1>1 DEF OpenStream
  <2>2. far = "none" /\ buf[2]["up"] = <<>> /\ buf[2]["down"] = <<>>
    BY <1>0, <2>1 DEF Handshake
  <2>3. Shrinks
    BY <1>0, <1>1, Same, ClosesHops DEF OpenStream, Typed
  <2>4. buf'[2]["up"] = <<>> /\ buf'[2]["down"] = <<>>
    BY <1>0, <2>2, <2>3 DEF Shrinks
  <2>5. Data(d)' = Data(d)
    BY <1>0, <2>1, <2>2, <2>4 DEF Data
  <2> QED
    BY <1>0, <2>1, <2>3, <2>5, Rests, SamePipes
<1>2. CASE OpenFails
  <2>1. /\ near = "open" /\ near' = "returned" /\ far' = far /\ UNCHANGED <<pipes, ends>>
    BY <1>2 DEF OpenFails, NearReturns
  <2>2. Shrinks
    BY <1>0, <1>2, ClosesHops DEF OpenFails, NearReturns, Typed
  <2> QED
    BY <1>0, <2>1, <2>2, DataKept, Rests, SamePipes
<1>3. ASSUME near \in {"ask", "status"}, NearReturns(Closes(1)), UNCHANGED <<pipes, ends>>
      PROVE  Ordered(d)'
  <2>1. near' = "returned" /\ far' = far /\ Close(Closes(1))
    BY <1>3 DEF NearReturns
  <2>2. Shrinks
    BY <1>0, <2>1, ClosesHops DEF Typed
  <2>3. buf'[2]["down"] = <<>>
    <3>1. <<2, Reader("down")>> \in Closes(1)
      BY DEF Closes, Reader
    <3> QED
      BY <1>0, <2>1, <3>1, ClosesHops DEF Typed
  <2>4. Lost(2, "down")'
    BY <1>0, <2>1, Returns DEF Lost, Reader
  <2>5. Data(d)' = Data(d) \/ (Data(d)' = <<>> /\ Lost(2, d)')
    <3>1. CASE d = "down"
      BY <2>1, <2>3, <2>4, <3>1 DEF Data
    <3>2. CASE d = "up"
      <4>1. buf'[2]["up"] = buf[2]["up"] \/ (buf'[2]["up"] = <<>> /\ Lost(2, "up")')
        BY <1>0, <2>2 DEF Shrinks
      <4> QED
        BY <2>1, <3>2, <4>1 DEF Data
    <3> QED
      BY <1>0, <3>1, <3>2
  <2> QED
    BY <1>0, <1>3, <2>2, <2>5, Rests, SamePipes
<1>4. CASE Ask
  <2>1. CASE /\ near' = "status" /\ buf' = [buf EXCEPT ![2]["up"] = @ \o <<Id, Id>>]
             /\ UNCHANGED <<far, ended, gone>> /\ ~Lost(2, "up")
    <3>1. /\ far \in {"id", "returned"} /\ buf[2]["up"] = <<>> /\ buf[2]["down"] = <<>>
          /\ near = "ask" /\ UNCHANGED <<pipes, ends>>
      BY <1>0, <1>4 DEF Ask, Handshake
    <3>2. far = "id"
      BY <1>0, <2>1, <3>1 DEF Sides, Lost, Reader
    <3>3. /\ buf'[2]["down"] = <<>>
          /\ \A h \in {First(d), Last(d)} : buf'[h][d] = buf[h][d]
      BY <1>0, <2>1, <3>1, Places DEF Typed, HopsOK
    <3>4. Data(d)' = Data(d)
      BY <1>0, <2>1, <3>1, <3>2, <3>3 DEF Data
    <3>5. \A h \in Hops : Lost(h, d) => Lost(h, d)'
      BY <2>1 DEF Lost
    <3>6. Still(d)
      BY <3>1, <3>3, <3>4, <3>5, SamePipes DEF Still, ends
    <3> QED
      BY <1>0, <3>6, StillOrdered
  <2> QED
    BY <1>3, <1>4, <2>1 DEF Ask
<1>5. CASE ReadStatus
  <2>1. CASE /\ near' = "pipe" /\ Started(1) /\ buf' = [buf EXCEPT ![2]["down"] = Tail(@)]
             /\ UNCHANGED <<far, ended, gone>>
    <3>1. near = "status" /\ buf[2]["down"] # <<>> /\ UNCHANGED ends
      BY <1>5 DEF ReadStatus
    <3>2. /\ buf'[2]["down"] = Tail(buf[2]["down"]) /\ buf'[2]["up"] = buf[2]["up"]
          /\ \A h \in {First(d), Last(d)} : buf'[h][d] = buf[h][d]
      BY <1>0, <2>1, Places DEF Typed, HopsOK
    <3>3. Data(d)' = Data(d)
      BY <1>0, <2>1, <3>1, <3>2 DEF Data
    <3>4. loop[1] = "absent"
      BY <1>0, <3>1 DEF Sides, Typed, PipesOK
    <3>5. \A h \in Hops : Lost(h, d) => Lost(h, d)'
      BY <2>1 DEF Lost
    <3>6. \A i \in Pipes : InPipe(i, d)' = InPipe(i, d)
      BY <1>0, <2>1, <3>4, StartedPipes
    <3>7. Still(d)
      BY <3>1, <3>2, <3>3, <3>5, <3>6 DEF Still, ends
    <3> QED
      BY <1>0, <3>7, StillOrdered
  <2> QED
    BY <1>3, <1>5, <2>1 DEF ReadStatus
<1>6. CASE StatusFails
  BY <1>3, <1>6 DEF StatusFails
<1> QED
  BY <1>1, <1>2, <1>4, <1>5, <1>6 DEF Near

LEMMA FarOrdered ==
  ASSUME IInv, Far, NEW d \in Directions, Ordered(d) PROVE split' \/ Ordered(d)'
<1>0. /\ Typed /\ Sides /\ Handshake /\ Pumps /\ 2 \in Hops /\ 2 \in Pipes
      /\ "up" \in Directions /\ "down" \in Directions /\ (d = "up" \/ d = "down")
  BY Places DEF IInv, Directions
<1>1. ASSUME NEW n \in {1, 2}, ReadId(n), ~split' PROVE Ordered(d)'
  <2>1. /\ n = 2 /\ far = "id" /\ far' = "answer" /\ near' = near /\ n <= Len(buf[2]["up"])
        /\ buf' = [buf EXCEPT ![2]["up"] = SubSeq(@, n + 1, Len(@))]
        /\ UNCHANGED <<ended, gone, pipes, ends>>
    BY <1>1 DEF ReadId
  <2>2. buf[2]["up"] = <<Id, Id>>
    BY <1>0, <2>1 DEF Handshake
  <2>3. SubSeq(buf[2]["up"], n + 1, Len(buf[2]["up"])) = <<>>
    <3>1. <<Id, Id>> \in Seq(Item) /\ Len(<<Id, Id>>) = 2
      BY Handed DEF Carried
    <3>2. SubSeq(<<Id, Id>>, 3, 2) = <<>>
      BY <3>1, SubSeqEmpty
    <3> QED
      BY <2>1, <2>2, <3>1, <3>2
  <2>4. buf' = [buf EXCEPT ![2]["up"] = <<>>]
    BY <2>1, <2>3
  <2>5. buf'[2]["up"] = <<>>
        /\ \A h \in Hops, x \in Directions : h # 2 \/ x # "up" => buf'[h][x] = buf[h][x]
    <3>1. buf \in [Hops -> [Directions -> Seq(Carried)]]
      BY <1>0 DEF Typed, HopsOK
    <3>2. buf'[2]["up"] = <<>>
      BY <1>0, <2>4, <3>1
    <3>3. \A h \in Hops, x \in Directions : h # 2 \/ x # "up" => buf'[h][x] = buf[h][x]
      BY <1>0, <2>4, <3>1
    <3> QED
      BY <3>2, <3>3
  <2>6. buf'[2]["up"] = <<>> /\ buf'[2]["down"] = buf[2]["down"]
        /\ \A h \in {First(d), Last(d)} : buf'[h][d] = buf[h][d]
    <3>1. "down" # "up"
      OBVIOUS
    <3>2. \A h \in {First(d), Last(d)} : h \in Hops /\ h # 2
      BY Places
    <3> QED
      BY <1>0, <2>5, <3>1, <3>2
  <2>7. Data(d)' = Data(d)
    <3>1. CASE d = "up"
      BY <2>1, <2>6, <3>1 DEF Data
    <3>2. CASE d = "down"
      BY <2>1, <2>6, <3>2 DEF Data
    <3> QED
      BY <1>0, <3>1, <3>2
  <2>8. \A h \in Hops : Lost(h, d) => Lost(h, d)'
    BY <2>1 DEF Lost
  <2>9. Still(d)
    BY <2>1, <2>6, <2>7, <2>8, SamePipes DEF Still, ends
  <2> QED
    BY <1>0, <2>9, StillOrdered
<1>2. ASSUME far \in {"answer", "dial", "refused"}, FarReturns({<<2, "server">>}),
             UNCHANGED <<pipes, ends>>
      PROVE  Ordered(d)'
  <2>1. far' = "returned" /\ near' = near /\ Shrinks
    BY <1>0, <1>2, ClosesHops DEF FarReturns, Typed
  <2> QED
    BY <1>0, <1>2, <2>1, DataKept, Rests, SamePipes
<1>3. CASE ReadIdFails
  <2>1. /\ far = "id" /\ far' = "returned" /\ near' = near /\ Close({<<2, "server">>})
        /\ UNCHANGED <<pipes, ends>>
    BY <1>3 DEF ReadIdFails, FarReturns
  <2>2. Shrinks
    BY <1>0, <2>1, ClosesHops DEF Typed
  <2>3. buf'[2]["up"] = <<>>
    <3>1. <<2, Reader("up")>> \in {<<2, "server">>}
      BY DEF Reader
    <3>2. HopsOK
      BY <1>0 DEF Typed
    <3>3. \A h \in Hops, x \in Directions :
            <<h, Reader(x)>> \in {<<2, "server">>} => buf'[h][x] = <<>>
      BY <2>1, <3>2, ClosesHops
    <3> QED
      BY <1>0, <3>1, <3>3
  <2>4. Data(d)' = Data(d)
    <3>1. buf[2]["down"] = <<>> /\ buf'[2]["down"] = <<>>
      BY <1>0, <2>1, <2>2 DEF Handshake, Shrinks
    <3> QED
      BY <1>0, <2>1, <2>3, <3>1 DEF Data
  <2> QED
    BY <1>0, <2>1, <2>2, <2>4, Rests, SamePipes
<1>4. CASE AnswerId
  <2>1. ASSUME far' \in {"dial", "refused"}, NEW item \in {Ok, No}, ~Lost(2, "down"),
               Put(2, "down", item), UNCHANGED <<near, ended, gone>>
        PROVE  Ordered(d)'
    <3>1. far = "answer" /\ near \in {"status", "returned"} /\ buf[2]["down"] = <<>>
          /\ UNCHANGED <<pipes, ends>>
      BY <1>0, <1>4 DEF AnswerId, Handshake
    <3>2. near = "status"
      BY <1>0, <2>1, <3>1 DEF Sides, Lost, Reader
    <3>3. /\ buf'[2]["down"] = Append(<<>>, item) /\ buf'[2]["up"] = buf[2]["up"]
          /\ \A h \in {First(d), Last(d)} : buf'[h][d] = buf[h][d]
      BY <1>0, <2>1, <3>1, Places DEF Put, Typed, HopsOK
    <3>4. buf'[2]["down"] = <<item>>
      BY <3>3
    <3>5. Tail(buf'[2]["down"]) = <<>> /\ buf'[2]["down"] # <<>>
      BY <3>4
    <3>6. Data(d)' = Data(d)
      BY <1>0, <2>1, <3>1, <3>2, <3>3, <3>5 DEF Data
    <3>7. \A h \in Hops : Lost(h, d) => Lost(h, d)'
      BY <2>1 DEF Lost
    <3>8. Still(d)
      BY <3>1, <3>3, <3>6, <3>7, SamePipes DEF Still, ends
    <3> QED
      BY <1>0, <3>8, StillOrdered
  <2> QED
    BY <1>2, <1>4, <2>1 DEF AnswerId
<1>5. CASE DialServer
  <2>1. /\ far = "dial" /\ far' = "pipe" /\ near' = near /\ Started(2) /\ UNCHANGED <<hops, ends>>
    BY <1>5 DEF DialServer
  <2>2. loop[2] = "absent"
    BY <1>0, <2>1 DEF Sides, Typed, PipesOK
  <2>3. \A i \in Pipes : InPipe(i, d)' = InPipe(i, d)
    BY <1>0, <2>1, <2>2, StartedPipes
  <2>4. Shrinks
    BY <1>0, <2>1, Same
  <2> QED
    BY <1>0, <2>1, <2>3, <2>4, DataKept, Rests
<1>6. CASE FarGivesUp
  BY <1>2, <1>6 DEF FarGivesUp
<1> QED
  BY <1>1, <1>3, <1>4, <1>5, <1>6 DEF Far

-----------------------------------------------------------------------------
(* Steps that move bytes                                                   *)

LEMMA HeadMoves ==
  ASSUME NEW S, NEW s \in Seq(S), NEW t \in Seq(S), t # <<>>
  PROVE  (s \o <<Head(t)>>) \o Tail(t) = s \o t
<1> DEFINE u == <<Head(t)>>  v == Tail(t)
<1>1. u \o v = t
  BY HeadThenTail
<1>2. u \in Seq(S) /\ v \in Seq(S)
  BY HeadTailProperties
<1> HIDE DEF u, v
<1>3. s \o (u \o v) = (s \o u) \o v
  BY <1>2, Associates
<1> QED
  BY <1>1, <1>3 DEF u, v

\* A direction in which nothing happens.
LEMMA Elsewhere ==
  ASSUME Typed, NEW x \in Directions, Ordered(x), near' = near, far' = far,
         sent'[x] = sent[x], rcvd'[x] = rcvd[x],
         \A h \in Hops : buf'[h][x] = buf[h][x],
         \A h \in Hops : Lost(h, x)' <=> Lost(h, x),
         \A i \in Pipes : InPipe(i, x)' = InPipe(i, x)
  PROVE  Ordered(x)'
<1>1. 2 \in Hops /\ First(x) \in Hops /\ Last(x) \in Hops
  BY Places
<1>2. buf'[2][x] = buf[2][x]
  BY <1>1
<1>3. Data(x)' = Data(x)
  <2>1. CASE x = "up"
    BY <1>2, <2>1 DEF Data
  <2>2. CASE x = "down"
    BY <1>2, <2>2 DEF Data
  <2> QED
    BY <2>1, <2>2 DEF Directions
<1>4. Still(x)
  BY <1>1, <1>3 DEF Still
<1> QED
  BY <1>4, StillOrdered

\* A byte goes from a hop into a pump.
LEMMA PumpOrdered ==
  ASSUME IInv, NEW i \in Pipes, NEW d \in Directions, PumpRead(i, d),
         NEW x \in Directions, Ordered(x)
  PROVE  Ordered(x)'
<1> DEFINE h == Source(i, d)
<1>1. /\ pump[i][d] = "read" /\ loop' = loop /\ chunk' = chunk
      /\ UNCHANGED <<near, far, ended, gone, ends, given, split>>
      /\ \A k \in Pipes, y \in Directions :
           k # i \/ y # d => pump'[k][y] = pump[k][y] /\ held'[k][y] = held[k][y]
      /\ \A k \in Hops, y \in Directions : k # h \/ y # d => buf'[k][y] = buf[k][y]
      /\ \A k \in Hops, y \in Directions : Lost(k, y)' <=> Lost(k, y)
      /\ \/ pump'[i][d] = "nil" /\ buf' = buf
         \/ /\ pump'[i][d] = "send" /\ buf[h][d] # <<>>
            /\ held'[i][d] = Head(buf[h][d]) /\ buf'[h][d] = Tail(buf[h][d])
  BY PumpReads DEF IInv
<1>2. sent' = sent /\ rcvd' = rcvd /\ near' = near /\ far' = far
  BY <1>1 DEF ends
<1>3. Typed /\ Pumps /\ Sides /\ Handshake /\ h \in Hops
  BY Places DEF IInv
<1> HIDE DEF h
<1>4. /\ \A k \in Pipes, y \in Directions : InLoop(k, y)' = InLoop(k, y)
      /\ \A k \in Pipes, y \in Directions : k # i \/ y # d => InPump(k, y)' = InPump(k, y)
  BY <1>1 DEF InLoop, InPump
<1>5. \A k \in Pipes, y \in Directions : k # i \/ y # d => InPipe(k, y)' = InPipe(k, y)
  BY <1>4 DEF InPipe
<1>6. CASE x # d
  BY <1>1, <1>2, <1>3, <1>5, <1>6, Elsewhere
<1>7. CASE x = d /\ pump'[i][d] = "nil" /\ buf' = buf
  <2>1. InPump(i, d)' = InPump(i, d)
    BY <1>1, <1>7 DEF InPump
  <2>2. InPipe(i, d)' = InPipe(i, d)
    BY <1>4, <2>1 DEF InPipe
  <2>3. \A k \in Pipes : InPipe(k, x)' = InPipe(k, x)
    BY <1>5, <1>7, <2>2
  <2> QED
    BY <1>1, <1>2, <1>3, <1>7, <2>3, Elsewhere
<1>8. CASE /\ x = d /\ pump'[i][d] = "send" /\ buf[h][d] # <<>>
           /\ held'[i][d] = Head(buf[h][d]) /\ buf'[h][d] = Tail(buf[h][d])
  <2> DEFINE t == buf[h][d]  q == InLoop(i, d)
  <2>1. t \in Seq(Item) /\ q \in Seq(Item)
    BY <1>3, Sequences
  <2>2. InPipe(i, d) = q /\ InPipe(i, d)' = q \o <<Head(t)>>
    <3>1. InPump(i, d) = <<>> /\ InPump(i, d)' = <<Head(t)>>
      BY <1>1, <1>8 DEF InPump
    <3>2. q \o <<>> = q
      BY <2>1, ConcatEmptySeq
    <3> QED
      BY <1>4, <3>1, <3>2 DEF InPipe
  <2>3. InPipe(i, d)' \o buf'[h][d] = InPipe(i, d) \o buf[h][d]
    <3>1. (q \o <<Head(t)>>) \o Tail(t) = q \o t
      BY <1>8, <2>1, HeadMoves
    <3> QED
      BY <1>8, <2>2, <3>1
  <2> HIDE DEF t, q
  <2>4. /\ First(d) \in Hops /\ Last(d) \in Hops /\ 2 \in Hops /\ First(d) # Last(d)
        /\ First(d) # 2 /\ Last(d) # 2 /\ FromFirst(d) \in Pipes /\ ToLast(d) \in Pipes
        /\ FromFirst(d) # ToLast(d) /\ (i = FromFirst(d) \/ i = ToLast(d))
        /\ Source(FromFirst(d), d) = First(d) /\ Source(ToLast(d), d) = 2
    BY Places
  <2>5. Arriving(d)' = Arriving(d)
    <3>1. h # Last(d)
      BY <2>4 DEF h
    <3>2. buf'[Last(d)][d] = buf[Last(d)][d]
      BY <1>1, <2>4, <3>1
    <3> QED
      BY <1>2, <3>2 DEF Arriving
  <2>6. CASE i = FromFirst(d)
    <3>1. h = First(d)
      BY <2>4, <2>6 DEF h
    <3>2. buf'[2][d] = buf[2][d] /\ InPipe(ToLast(d), d)' = InPipe(ToLast(d), d)
      BY <1>1, <1>5, <2>4, <2>6, <3>1
    <3>3. Data(d)' = Data(d)
      <4>1. CASE d = "up"
        BY <1>2, <3>2, <4>1 DEF Data
      <4>2. CASE d = "down"
        BY <1>2, <3>2, <4>2 DEF Data
      <4> QED
        BY <4>1, <4>2 DEF Directions
    <3>4. Halfway(d)' = Halfway(d)
      BY <2>5, <3>2, <3>3 DEF Halfway
    <3>5. UnderWay(d)' = UnderWay(d)
      BY <2>3, <2>6, <3>1, <3>4 DEF UnderWay
    <3> QED
      BY <1>1, <1>2, <1>8, <2>5, <3>4, <3>5, Moved
  <2>7. CASE i = ToLast(d)
    <3>1. h = 2
      BY <2>4, <2>7 DEF h
    <3>2. buf'[First(d)][d] = buf[First(d)][d]
          /\ InPipe(FromFirst(d), d)' = InPipe(FromFirst(d), d)
      BY <1>1, <1>5, <2>4, <2>7, <3>1
    <3>3. loop[i] \in {"select", "write", "returned"}
      BY <1>1, <1>3 DEF Pumps, Typed, PipesOK
    <3>4. Data(d) = buf[2][d] /\ Data(d)' = buf'[2][d]
      <4>1. CASE d = "up"
        <5>1. i = 2
          BY <2>7, <4>1 DEF ToLast
        <5>2. far \in {"pipe", "returned"}
          BY <1>3, <3>3, <5>1 DEF Sides
        <5> QED
          BY <1>2, <4>1, <5>2 DEF Data
      <4>2. CASE d = "down"
        <5>1. i = 1
          BY <2>7, <4>2 DEF ToLast
        <5>2. near \in {"pipe", "returned"}
          BY <1>3, <3>3, <5>1 DEF Sides
        <5> QED
          BY <1>2, <4>2, <5>2 DEF Data
      <4> QED
        BY <4>1, <4>2 DEF Directions
    <3>5. Halfway(d)' = Halfway(d)
      BY <2>3, <2>5, <2>7, <3>1, <3>4 DEF Halfway
    <3>6. UnderWay(d)' = UnderWay(d)
      BY <3>2, <3>5 DEF UnderWay
    <3> QED
      BY <1>1, <1>2, <1>8, <2>5, <3>5, <3>6, Moved
  <2> QED
    BY <2>4, <2>6, <2>7
<1> QED
  BY <1>1, <1>6, <1>7, <1>8

\* From a pump into the loop of its pipe.
LEMMA TakeOrdered ==
  ASSUME Typed, NEW i \in Pipes, NEW d \in Directions, Take(i, d),
         NEW x \in Directions, Ordered(x)
  PROVE  Ordered(x)'
<1>1. /\ loop[i] = "select" /\ pump[i][d] = "send"
      /\ loop'[i] = "write" /\ pump'[i][d] = "read"
      /\ chunk'[i].dir = d /\ chunk'[i].item = held[i][d]
      /\ \A k \in Pipes : k # i => loop'[k] = loop[k] /\ chunk'[k] = chunk[k]
      /\ \A k \in Pipes, y \in Directions :
           k # i \/ y # d => pump'[k][y] = pump[k][y] /\ held'[k][y] = held[k][y]
  BY LoopTakes
<1>2. /\ UNCHANGED <<near, far, buf, ended, gone, sent, rcvd>>
  BY LoopTakes DEF hops, ends
<1>3. \A k \in Pipes : k # i => InPipe(k, x)' = InPipe(k, x)
  <2>1. \A k \in Pipes : k # i => InLoop(k, x)' = InLoop(k, x) /\ InPump(k, x)' = InPump(k, x)
    BY <1>1 DEF InLoop, InPump
  <2> QED
    BY <2>1 DEF InPipe
<1>4. \A k \in Pipes : InPipe(k, x)' = InPipe(k, x)
  <2>1. InPipe(i, x)' = InPipe(i, x)
    <3>1. CASE x # d
      <4>1. InLoop(i, x)' = InLoop(i, x) /\ InPump(i, x)' = InPump(i, x)
        BY <1>1, <3>1 DEF InLoop, InPump
      <4> QED
        BY <4>1 DEF InPipe
    <3>2. CASE x = d
      <4> DEFINE c == <<held[i][d]>>
      <4>1. /\ InLoop(i, x) = <<>> /\ InPump(i, x) = c
            /\ InLoop(i, x)' = c /\ InPump(i, x)' = <<>>
        BY <1>1, <3>2 DEF InLoop, InPump
      <4>2. c \in Seq(Item)
        BY DEF Typed, PipesOK
      <4> HIDE DEF c
      <4>3. c \o <<>> = c /\ <<>> \o c = c
        BY <4>2, ConcatEmptySeq
      <4> QED
        BY <4>1, <4>3 DEF InPipe
    <3> QED
      BY <3>1, <3>2
  <2> QED
    BY <1>3, <2>1
<1>5. \A h \in Hops : Lost(h, x)' <=> Lost(h, x)
  BY <1>2 DEF Lost
<1> QED
  BY <1>2, <1>4, <1>5, Elsewhere

\* From the loop of a pipe into the hop behind it, when this takes it.
LEMMA WriteOrdered ==
  ASSUME IInv, NEW i \in Pipes, Write(i), NEW x \in Directions, Ordered(x)
  PROVE  Ordered(x)'
<1> DEFINE d == chunk[i].dir  h == Target(i, d)  c == <<chunk[i].item>>
<1>1. Typed /\ Pumps /\ Sides /\ Handshake /\ Typed'
  BY LoopWrites DEF IInv
<1>2. /\ loop[i] = "write" /\ loop'[i] = "select" /\ pump' = pump /\ held' = held
      /\ near' = near /\ far' = far /\ sent' = sent /\ rcvd' = rcvd
      /\ \A k \in Pipes : k # i => loop'[k] = loop[k] /\ chunk'[k] = chunk[k]
      /\ \A k \in Hops, y \in Directions : Lost(k, y)' <=> Lost(k, y)
      /\ d \in Directions /\ chunk[i].item \in Carried /\ chunk[i].item \in Item
      /\ \A k \in Hops, y \in Directions :
           k # h \/ y # d \/ Lost(h, d) => buf'[k][y] = buf[k][y]
      /\ ~Lost(h, d) => buf'[h][d] = Append(buf[h][d], chunk[i].item)
  BY <1>1, LoopWrites DEF ends, Carried
<1>3. /\ \A k \in Pipes : k # i => InPipe(k, x)' = InPipe(k, x)
      /\ InPump(i, x)' = InPump(i, x) /\ InLoop(i, x)' = <<>>
      /\ x # d => InLoop(i, x) = <<>>
      /\ x = d => InLoop(i, x) = c
  <2>1. \A k \in Pipes : InPump(k, x)' = InPump(k, x)
    BY <1>2 DEF InPump
  <2>2. \A k \in Pipes : k # i => InLoop(k, x)' = InLoop(k, x)
    BY <1>2 DEF InLoop
  <2>3. InLoop(i, x)' = <<>>
    BY <1>2 DEF InLoop
  <2>4. /\ x # d => InLoop(i, x) = <<>>
        /\ x = d => InLoop(i, x) = c
    BY <1>2 DEF InLoop
  <2> QED
    BY <2>1, <2>2, <2>3, <2>4 DEF InPipe
<1>4. c \in Seq(Item)
  BY <1>2
<1> HIDE DEF d, h, c
<1>5. CASE x # d
  <2>1. \A k \in Pipes : InPipe(k, x)' = InPipe(k, x)
    BY <1>3, <1>5 DEF InPipe
  <2> QED
    BY <1>1, <1>2, <1>5, <2>1, Elsewhere
<1>6. CASE x = d
  <2> DEFINE m == InPump(i, x)  L == buf[Last(x)][x]  F == buf[First(x)][x]  D == Data(x)
             A == Arriving(x)  H == Halfway(x)  U == UnderWay(x)
             p == InPipe(ToLast(x), x)
  <2>1. /\ First(x) \in Hops /\ Last(x) \in Hops /\ 2 \in Hops /\ First(x) # Last(x)
        /\ First(x) # 2 /\ Last(x) # 2 /\ FromFirst(x) \in Pipes /\ ToLast(x) \in Pipes
        /\ FromFirst(x) # ToLast(x) /\ (i = FromFirst(x) \/ i = ToLast(x))
        /\ (i = FromFirst(x) => h = 2) /\ (i = ToLast(x) => h = Last(x))
    BY <1>6, Places DEF h
  <2>2. /\ rcvd[x] \in Seq(Item) /\ L \in Seq(Item) /\ F \in Seq(Item) /\ D \in Seq(Item)
        /\ m \in Seq(Item) /\ A \in Seq(Item) /\ p \in Seq(Item) /\ sent[x] \in Nat
        /\ H \in Seq(Item)
    BY <1>1, <2>1, Sequences
  <2>3. InPipe(i, x) = c \o m /\ InPipe(i, x)' = m
    <3>1. <<>> \o m = m
      BY <2>2, ConcatEmptySeq
    <3> QED
      BY <1>3, <1>6, <3>1 DEF InPipe
  <2>4. /\ A = rcvd[x] \o L /\ H = A \o (p \o D) /\ U = H \o (InPipe(FromFirst(x), x) \o F)
        /\ Arriving(x)' = rcvd[x] \o buf'[Last(x)][x]
        /\ Halfway(x)' = Arriving(x)' \o (InPipe(ToLast(x), x)' \o Data(x)')
        /\ UnderWay(x)' = Halfway(x)' \o (InPipe(FromFirst(x), x)' \o buf'[First(x)][x])
    BY <1>2 DEF Arriving, Halfway, UnderWay
  <2>5. /\ Counts(A, sent[x])
        /\ ~Lost(Last(x), x) => Counts(H, sent[x])
        /\ ~Lost(Last(x), x) /\ ~Lost(2, x) => Counts(U, sent[x])
        /\ ~Lost(Last(x), x) /\ ~Lost(2, x) /\ ~Lost(First(x), x) => Len(U) = sent[x]
    BY DEF Ordered
  <2>6. /\ Lost(Last(x), x)' <=> Lost(Last(x), x)
        /\ Lost(2, x)' <=> Lost(2, x)
        /\ Lost(First(x), x)' <=> Lost(First(x), x)
        /\ sent'[x] = sent[x]
    BY <1>2, <2>1
  <2> HIDE DEF m, L, F, D, A, H, U, p
  <2>7. CASE i = ToLast(x)
    <3>1. h = Last(x) /\ buf'[2][x] = buf[2][x] /\ buf'[First(x)][x] = F
          /\ InPipe(FromFirst(x), x)' = InPipe(FromFirst(x), x) /\ p = c \o m
      BY <1>2, <1>3, <2>1, <2>3, <2>7 DEF F, p
    <3>2. Data(x)' = D
      <4>1. CASE x = "up"
        BY <1>2, <3>1, <4>1 DEF Data, D
      <4>2. CASE x = "down"
        BY <1>2, <3>1, <4>2 DEF Data, D
      <4> QED
        BY <4>1, <4>2 DEF Directions
    <3>3. CASE Lost(h, d)
      <4>1. Arriving(x)' = A
        BY <1>2, <2>1, <2>4, <3>3 DEF L
      <4> QED
        BY <1>6, <2>5, <2>6, <3>1, <3>3, <4>1 DEF Ordered
    <3>4. CASE ~Lost(h, d)
      <4>1. buf'[Last(x)][x] = Append(L, chunk[i].item)
        BY <1>2, <1>6, <3>1, <3>4 DEF L
      <4>2. Append(L, chunk[i].item) = L \o c
        BY <1>2, <2>2, AppendIsConcat DEF c
      <4>3. rcvd[x] \o (L \o c) = (rcvd[x] \o L) \o c
        <5>1. rcvd[x] \in Seq(Item) /\ L \in Seq(Item) /\ c \in Seq(Item)
          BY <1>4, <2>2
        <5> DEFINE R == rcvd[x]
        <5>2. R \in Seq(Item)
          BY <5>1
        <5> HIDE DEF R
        <5>3. R \o (L \o c) = (R \o L) \o c
          BY <5>1, <5>2, Associates
        <5> QED
          BY <5>3 DEF R
      <4>4. Arriving(x)' = A \o c
        BY <2>4, <4>1, <4>2, <4>3
      <4>5. /\ A \o ((c \o m) \o D) = (A \o c) \o (m \o D)
            /\ A \o c \in Seq(Item) /\ m \o D \in Seq(Item)
        <5>1. A \in Seq(Item) /\ c \in Seq(Item) /\ m \in Seq(Item) /\ D \in Seq(Item)
          BY <1>4, <2>2
        <5>2. A \o c \in Seq(Item) /\ m \o D \in Seq(Item)
          BY <5>1, ConcatProperties
        <5> DEFINE M == m \o D
        <5>3. c \o (m \o D) = (c \o m) \o D
          <6>1. c \in Seq(Item) /\ m \in Seq(Item) /\ D \in Seq(Item)
            BY <5>1
          <6> HIDE DEF M
          <6> QED
            BY <6>1, Associates
        <5>4. A \in Seq(Item) /\ c \in Seq(Item) /\ M \in Seq(Item)
          BY <5>1, <5>2
        <5> HIDE DEF M
        <5>5. A \o (c \o M) = (A \o c) \o M
          BY <5>4, Associates
        <5> QED
          BY <5>2, <5>3, <5>5 DEF M
      <4>6. Halfway(x)' = (A \o c) \o (m \o D) /\ H = A \o ((c \o m) \o D)
        BY <2>3, <2>4, <2>7, <3>1, <3>2, <4>4
      <4>7. Halfway(x)' = H
        BY <4>5, <4>6
      <4>8. UnderWay(x)' = U
        BY <2>4, <3>1, <4>7
      <4>9. Counts((A \o c) \o (m \o D), sent[x])
        BY <1>6, <2>5, <3>1, <3>4, <4>6, <4>7
      <4>10. Counts(A \o c, sent[x])
        BY <2>2, <4>5, <4>9, InFront
      <4> QED
        BY <2>5, <2>6, <4>4, <4>7, <4>8, <4>10 DEF Ordered
    <3> QED
      BY <3>3, <3>4
  <2>8. CASE i = FromFirst(x)
    <3>1. h = 2 /\ buf'[Last(x)][x] = L /\ buf'[First(x)][x] = F
          /\ InPipe(ToLast(x), x)' = p /\ InPipe(FromFirst(x), x) = c \o m
          /\ InPipe(FromFirst(x), x)' = m
      BY <1>2, <1>3, <2>1, <2>3, <2>8 DEF F, L, p
    <3>2. Arriving(x)' = A
      BY <2>4, <3>1
    <3>3. CASE Lost(h, d)
      <4>1. buf'[2][x] = buf[2][x]
        BY <1>2, <2>1, <3>3
      <4>2. Data(x)' = D
        <5>1. CASE x = "up"
          BY <1>2, <4>1, <5>1 DEF Data, D
        <5>2. CASE x = "down"
          BY <1>2, <4>1, <5>2 DEF Data, D
        <5> QED
          BY <5>1, <5>2 DEF Directions
      <4>3. Halfway(x)' = H
        BY <2>4, <3>1, <3>2, <4>2
      <4> QED
        BY <1>6, <2>5, <2>6, <3>1, <3>2, <3>3, <4>3 DEF Ordered
    <3>4. CASE ~Lost(h, d)
      <4>1. buf'[2][x] = Append(buf[2][x], chunk[i].item) /\ ~Lost(2, x)
        BY <1>2, <1>6, <3>1, <3>4
      <4>2. buf[2][x] \in Seq(Item)
        BY <1>1, <2>1, Sequences
      <4>3. Data(x)' = Append(D, chunk[i].item)
        <5>1. CASE x = "up"
          <6>1. i = 1
            BY <2>8, <5>1 DEF FromFirst
          <6>2. far \notin {"none", "id", "answer"}
            BY <1>1, <1>2, <6>1 DEF Handshake
          <6> QED
            BY <1>2, <4>1, <5>1, <6>2 DEF Data, D
        <5>2. CASE x = "down"
          <6>1. i = 2
            BY <2>8, <5>2 DEF FromFirst
          <6>2. far = "pipe"
            BY <1>1, <1>2, <6>1 DEF Sides
          <6>3. near = "status" => buf[2]["down"] # <<>>
            BY <1>1, <4>1, <5>2, <6>2 DEF Handshake
          <6>4. buf'[2]["down"] # <<>>
            BY <1>2, <4>1, <4>2, <5>2, AppendProperties
          <6>5. buf[2]["down"] # <<>> =>
                  Tail(buf'[2]["down"]) = Append(Tail(buf[2]["down"]), chunk[i].item)
            BY <4>1, <4>2, <5>2, HeadTailAppend
          <6>6. CASE near = "status"
            BY <1>2, <5>2, <6>3, <6>4, <6>5, <6>6 DEF Data, D
          <6>7. CASE near # "status"
            BY <1>2, <4>1, <5>2, <6>7 DEF Data, D
          <6> QED
            BY <6>6, <6>7
        <5> QED
          BY <5>1, <5>2 DEF Directions
      <4>4. Append(D, chunk[i].item) = D \o c
        BY <1>2, <2>2, AppendIsConcat DEF c
      <4> DEFINE E == p \o D
      <4>5. p \o (D \o c) = (p \o D) \o c /\ p \o D \in Seq(Item)
        BY <1>4, <2>2, Associates
      <4>6. E \in Seq(Item)
        BY <4>5
      <4> HIDE DEF E
      <4>7. A \o (E \o c) = (A \o E) \o c
        <5>1. A \in Seq(Item) /\ E \in Seq(Item) /\ c \in Seq(Item)
          BY <1>4, <2>2, <4>6
        <5> QED
          BY <5>1, Associates
      <4>8. Halfway(x)' = H \o c
        BY <2>4, <3>1, <3>2, <4>3, <4>4, <4>5, <4>7 DEF E
      <4>9. /\ H \o ((c \o m) \o F) = (H \o c) \o (m \o F)
            /\ H \o c \in Seq(Item) /\ m \o F \in Seq(Item)
        <5>1. H \in Seq(Item) /\ c \in Seq(Item) /\ m \in Seq(Item) /\ F \in Seq(Item)
          BY <1>4, <2>2
        <5>2. H \o c \in Seq(Item) /\ m \o F \in Seq(Item)
          BY <5>1, ConcatProperties
        <5> DEFINE M == m \o F
        <5>3. c \o (m \o F) = (c \o m) \o F
          <6>1. c \in Seq(Item) /\ m \in Seq(Item) /\ F \in Seq(Item)
            BY <5>1
          <6> HIDE DEF M
          <6> QED
            BY <6>1, Associates
        <5>4. H \in Seq(Item) /\ c \in Seq(Item) /\ M \in Seq(Item)
          BY <5>1, <5>2
        <5> HIDE DEF M
        <5>5. H \o (c \o M) = (H \o c) \o M
          BY <5>4, Associates
        <5> QED
          BY <5>2, <5>3, <5>5 DEF M
      <4>10. UnderWay(x)' = (H \o c) \o (m \o F) /\ U = H \o ((c \o m) \o F)
        BY <2>4, <3>1, <4>8
      <4>11. UnderWay(x)' = U
        BY <4>9, <4>10
      <4>12. ~Lost(Last(x), x) => Counts(H \o c, sent[x])
        <5>1. ASSUME ~Lost(Last(x), x) PROVE Counts(H \o c, sent[x])
          <6>1. Counts((H \o c) \o (m \o F), sent[x])
            BY <2>5, <4>1, <4>10, <4>11, <5>1
          <6> QED
            BY <2>2, <4>9, <6>1, InFront
        <5> QED
          BY <5>1
      <4> QED
        BY <2>5, <2>6, <3>2, <4>8, <4>11, <4>12 DEF Ordered
    <3> QED
      BY <3>3, <3>4
  <2> QED
    BY <2>1, <2>7, <2>8
<1> QED
  BY <1>5, <1>6

\* A pipe that returns moves nothing, and closes hops.
LEMMA ReturnOrdered ==
  ASSUME IInv, NEW i \in Pipes, NEW d \in Directions, TakeNil(i, d),
         NEW x \in Directions, Ordered(x)
  PROVE  Ordered(x)'
<1>1. Typed /\ Sides
  BY DEF IInv
<1>2. /\ Shrinks /\ loop[i] = "select" /\ loop'[i] = "returned"
      /\ pump[i][d] = "nil" /\ pump'[i][d] = "gone" /\ held' = held /\ chunk' = chunk
      /\ UNCHANGED ends
      /\ \A k \in Pipes : k # i => loop'[k] = loop[k]
      /\ \A k \in Pipes, y \in Directions : k # i \/ y # d => pump'[k][y] = pump[k][y]
  BY <1>1, PipeReturns
<1>3. /\ far \in {"none", "id"} <=> far' \in {"none", "id"}
      /\ near = "status" <=> near' = "status"
  <2>1. CASE i = 1
    <3>1. near = "pipe" /\ near' = "returned" /\ far' = far
      BY <1>1, <1>2, <2>1, PipeReturns DEF Sides
    <3> QED
      BY <3>1
  <2>2. CASE i = 2
    <3>1. far = "pipe" /\ far' = "returned" /\ near' = near
      BY <1>1, <1>2, <2>2, PipeReturns DEF Sides
    <3> QED
      BY <3>1
  <2> QED
    BY <2>1, <2>2 DEF Pipes
<1>4. \A k \in Pipes : InPipe(k, x)' = InPipe(k, x)
  <2> TAKE k \in Pipes
  <2>1. InLoop(k, x)' = InLoop(k, x)
    BY <1>2 DEF InLoop
  <2>2. InPump(k, x)' = InPump(k, x)
    <3>1. CASE k = i /\ x = d
      BY <1>2, <3>1 DEF InPump
    <3>2. CASE k # i \/ x # d
      BY <1>2, <3>2 DEF InPump
    <3> QED
      BY <3>1, <3>2
  <2> QED
    BY <2>1, <2>2 DEF InPipe
<1>5. Data(x)' = Data(x) \/ (Data(x)' = <<>> /\ Lost(2, x)')
  BY <1>2, <1>3, DataKept
<1> QED
  BY <1>1, <1>2, <1>4, <1>5, Rests

\* What an application writes is the next byte, if its hop takes it.
LEMMA SendOrdered ==
  ASSUME Typed, NEW e \in Ends, Send(e), NEW x \in Directions, Ordered(x)
  PROVE  Ordered(x)'
<1> DEFINE d == Writes(e)  h == Hop(e)
<1>1. /\ sent'[d] = sent[d] + 1 /\ sent[d] + 1 \in Carried
      /\ \A y \in Directions : y # d => sent'[y] = sent[y]
      /\ UNCHANGED <<near, far, pipes, rcvd>>
      /\ \A k \in Hops, y \in Directions : Lost(k, y)' <=> Lost(k, y)
      /\ \A k \in Hops, y \in Directions :
           k # h \/ y # d \/ Lost(h, d) => buf'[k][y] = buf[k][y]
      /\ ~Lost(h, d) => buf'[h][d] = Append(buf[h][d], sent[d] + 1)
  BY Sends
<1>2. d \in Directions /\ h = First(d)
  BY Places
<1>3. \A k \in Pipes : InPipe(k, x)' = InPipe(k, x)
  BY <1>1, SamePipes
<1> HIDE DEF d, h
<1>4. CASE x # d
  BY <1>1, <1>3, <1>4, Elsewhere
<1>5. CASE x = d
  <2> DEFINE F == buf[First(x)][x]  n == sent[x]
             A == Arriving(x)  H == Halfway(x)  U == UnderWay(x)  q == InPipe(FromFirst(x), x)
  <2>1. /\ First(x) \in Hops /\ Last(x) \in Hops /\ 2 \in Hops /\ First(x) # Last(x)
        /\ First(x) # 2 /\ FromFirst(x) \in Pipes /\ ToLast(x) \in Pipes
    BY Places
  <2>2. /\ F \in Seq(Item) /\ A \in Seq(Item) /\ H \in Seq(Item) /\ U \in Seq(Item)
        /\ q \in Seq(Item) /\ n \in Nat /\ n + 1 \in Item
    BY <1>1, <1>5, <2>1, Sequences DEF Carried
  <2>3. buf'[2][x] = buf[2][x] /\ buf'[Last(x)][x] = buf[Last(x)][x]
    BY <1>1, <1>2, <1>5, <2>1
  <2>4. Data(x)' = Data(x)
    <3>1. CASE x = "up"
      BY <1>1, <2>3, <3>1 DEF Data
    <3>2. CASE x = "down"
      BY <1>1, <2>3, <3>2 DEF Data
    <3> QED
      BY <3>1, <3>2 DEF Directions
  <2>5. Arriving(x)' = A
    BY <1>1, <2>3 DEF Arriving
  <2>6. Halfway(x)' = H
    BY <1>3, <2>1, <2>4, <2>5 DEF Halfway
  <2>7. U = H \o (q \o F) /\ UnderWay(x)' = H \o (q \o buf'[First(x)][x])
    BY <1>3, <2>1, <2>6 DEF UnderWay
  <2>8. /\ Counts(A, n)
        /\ ~Lost(Last(x), x) => Counts(H, n)
        /\ ~Lost(Last(x), x) /\ ~Lost(2, x) => Counts(U, n)
        /\ ~Lost(Last(x), x) /\ ~Lost(2, x) /\ ~Lost(First(x), x) => Len(U) = n
    BY DEF Ordered
  <2>9. /\ Lost(Last(x), x)' <=> Lost(Last(x), x)
        /\ Lost(2, x)' <=> Lost(2, x)
        /\ Lost(First(x), x)' <=> Lost(First(x), x)
        /\ sent'[x] = n + 1
    BY <1>1, <1>5, <2>1
  <2> HIDE DEF F, n, A, H, U, q
  <2>10. \A s \in Seq(Item) : Counts(s, n) => Counts(s, n + 1)
    <3> TAKE s \in Seq(Item)
    <3>1. Len(s) \in Nat
      BY LenProperties
    <3> QED
      BY <2>2, <3>1 DEF Counts
  <2>11. CASE Lost(h, d)
    <3>1. UnderWay(x)' = U
      BY <1>1, <2>1, <2>7, <2>11 DEF F
    <3>2. Lost(First(x), x)
      BY <1>2, <1>5, <2>11
    <3> QED
      BY <2>2, <2>5, <2>6, <2>8, <2>9, <2>10, <3>1, <3>2 DEF Ordered
  <2>12. CASE ~Lost(h, d)
    <3> DEFINE c == <<n + 1>>
    <3>1. buf'[First(x)][x] = Append(F, n + 1) /\ ~Lost(First(x), x)
      BY <1>1, <1>2, <1>5, <2>12 DEF F, n
    <3>2. Append(F, n + 1) = F \o c /\ Append(U, n + 1) = U \o c /\ c \in Seq(Item)
      BY <2>2, AppendIsConcat
    <3> HIDE DEF c
    <3> DEFINE E == q \o F
    <3>3. E \in Seq(Item) /\ q \o (F \o c) = E \o c
      <4>1. q \in Seq(Item) /\ F \in Seq(Item) /\ c \in Seq(Item)
        BY <2>2, <3>2
      <4> QED
        BY <4>1, Associates
    <3> HIDE DEF E
    <3>4. H \o (E \o c) = (H \o E) \o c
      <4>1. H \in Seq(Item) /\ E \in Seq(Item) /\ c \in Seq(Item)
        BY <2>2, <3>2, <3>3
      <4> QED
        BY <4>1, Associates
    <3>5. UnderWay(x)' = Append(U, n + 1)
      BY <2>7, <3>1, <3>2, <3>3, <3>4 DEF E
    <3>6. ASSUME ~Lost(Last(x), x), ~Lost(2, x)
          PROVE  Counts(UnderWay(x)', n + 1) /\ Len(UnderWay(x)') = n + 1
      <4>1. Counts(U, n) /\ Len(U) = n
        BY <2>8, <3>1, <3>6
      <4>2. Counts(U, Len(U)) /\ Len(U) + 1 \in Item
        BY <2>2, <4>1
      <4>3. Counts(Append(U, Len(U) + 1), Len(U) + 1) /\ Len(Append(U, Len(U) + 1)) = Len(U) + 1
        BY <2>2, <4>2, OneMore
      <4> QED
        BY <3>5, <4>1, <4>3
    <3> QED
      BY <2>2, <2>5, <2>6, <2>8, <2>9, <2>10, <3>6 DEF Ordered
  <2> QED
    BY <2>11, <2>12
<1> QED
  BY <1>4, <1>5

\* What an application receives was the first in its hop.
LEMMA ReceiveOrdered ==
  ASSUME Typed, NEW e \in Ends, Receive(e), NEW x \in Directions, Ordered(x)
  PROVE  Ordered(x)'
<1> DEFINE d == Comes(e)  h == Hop(e)
<1>1. /\ d \in Directions /\ h = Last(d) /\ buf[h][d] # <<>>
      /\ rcvd'[d] = Append(rcvd[d], Head(buf[h][d]))
      /\ \A y \in Directions : y # d => rcvd'[y] = rcvd[y]
      /\ UNCHANGED <<near, far, pipes, sent>>
      /\ \A k \in Hops, y \in Directions : Lost(k, y)' <=> Lost(k, y)
      /\ \A k \in Hops, y \in Directions : k # h \/ y # d => buf'[k][y] = buf[k][y]
      /\ buf'[h][d] = Tail(buf[h][d])
  BY Receives
<1>2. \A k \in Pipes : InPipe(k, x)' = InPipe(k, x)
  BY <1>1, SamePipes
<1> HIDE DEF d, h
<1>3. CASE x # d
  BY <1>1, <1>2, <1>3, Elsewhere
<1>4. CASE x = d
  <2> DEFINE L == buf[Last(x)][x]  R == rcvd[x]
  <2>1. /\ First(x) \in Hops /\ Last(x) \in Hops /\ 2 \in Hops /\ First(x) # Last(x)
        /\ Last(x) # 2 /\ FromFirst(x) \in Pipes /\ ToLast(x) \in Pipes
    BY Places
  <2>2. R \in Seq(Item) /\ L \in Seq(Item) /\ L # <<>>
    BY <1>1, <1>4, <2>1, Sequences
  <2>3. rcvd'[x] = Append(R, Head(L)) /\ buf'[Last(x)][x] = Tail(L)
    BY <1>1, <1>4
  <2>4. buf'[2][x] = buf[2][x] /\ buf'[First(x)][x] = buf[First(x)][x]
    BY <1>1, <1>4, <2>1
  <2>5. Arriving(x) = R \o L /\ Arriving(x)' = Append(R, Head(L)) \o Tail(L)
    BY <2>3 DEF Arriving
  <2> HIDE DEF L, R
  <2>6. Append(R, Head(L)) = R \o <<Head(L)>>
    <3>1. Head(L) \in Item
      BY <2>2, HeadTailProperties
    <3> QED
      BY <2>2, <3>1, AppendIsConcat
  <2>7. Arriving(x)' = Arriving(x)
    BY <2>2, <2>5, <2>6, HeadMoves
  <2>8. Data(x)' = Data(x)
    <3>1. CASE x = "up"
      BY <1>1, <2>4, <3>1 DEF Data
    <3>2. CASE x = "down"
      BY <1>1, <2>4, <3>2 DEF Data
    <3> QED
      BY <3>1, <3>2 DEF Directions
  <2>9. Halfway(x)' = Halfway(x)
    BY <1>2, <2>1, <2>7, <2>8 DEF Halfway
  <2>10. UnderWay(x)' = UnderWay(x)
    BY <1>2, <2>1, <2>4, <2>9 DEF UnderWay
  <2> QED
    BY <1>1, <2>7, <2>9, <2>10, Moved
<1> QED
  BY <1>3, <1>4

LEMMA NextOrdered ==
  ASSUME IInv, [Next]_vars PROVE Continuous'
<1>0. Typed /\ Sides /\ Handshake
  BY DEF IInv
<1>1. CASE Far
  <2>1. CASE split
    <3>1. split' = split
      <4>1. far # "id"
        BY <1>0, <2>1 DEF Handshake
      <4> QED
        BY <1>1, <4>1 DEF Far, ReadId, ReadIdFails, AnswerId, DialServer, FarGivesUp
    <3> QED
      BY <2>1, <3>1 DEF Continuous
  <2>2. CASE \A d \in Directions : Ordered(d)
    BY <1>1, <2>2, FarOrdered DEF Continuous
  <2> QED
    BY <2>1, <2>2 DEF IInv, Continuous
<1>2. ASSUME split' = split, \A d \in Directions : Ordered(d) => Ordered(d)'
      PROVE  Continuous'
  BY <1>2 DEF IInv, Continuous
<1>3. CASE Near
  <2>1. split' = split
    BY <1>3 DEF Near, OpenStream, OpenFails, Ask, ReadStatus, StatusFails
  <2> QED
    BY <1>2, <1>3, <2>1, NearOrdered
<1>4. ASSUME NEW i \in Pipes, NEW d \in Directions, PumpRead(i, d) PROVE Continuous'
  <2>1. split' = split
    BY <1>4 DEF PumpRead
  <2> QED
    BY <1>2, <1>4, <2>1, PumpOrdered
<1>5. ASSUME NEW i \in Pipes, NEW d \in Directions, Take(i, d) PROVE Continuous'
  <2>1. split' = split
    BY <1>5 DEF Take
  <2> QED
    BY <1>0, <1>2, <1>5, <2>1, TakeOrdered
<1>6. ASSUME NEW i \in Pipes, NEW d \in Directions, TakeNil(i, d) PROVE Continuous'
  <2>1. split' = split
    BY <1>6 DEF TakeNil
  <2> QED
    BY <1>2, <1>6, <2>1, ReturnOrdered
<1>7. ASSUME NEW i \in Pipes, Write(i) PROVE Continuous'
  <2>1. split' = split
    BY <1>7 DEF Write
  <2> QED
    BY <1>2, <1>7, <2>1, WriteOrdered
<1>8. ASSUME NEW e \in Ends, Send(e) PROVE Continuous'
  <2>1. split' = split
    BY <1>8 DEF Send
  <2> QED
    BY <1>0, <1>2, <1>8, <2>1, SendOrdered
<1>9. ASSUME NEW e \in Ends, Receive(e) PROVE Continuous'
  <2>1. split' = split
    BY <1>9 DEF Receive
  <2> QED
    BY <1>0, <1>2, <1>9, <2>1, ReceiveOrdered
<1>10. ASSUME UNCHANGED <<near, far, pipes, ends, split>>, Shrinks PROVE Continuous'
  <2>1. \A d \in Directions : Ordered(d) => Ordered(d)'
    <3> TAKE d \in Directions
    <3> HAVE Ordered(d)
    <3>1. Data(d)' = Data(d) \/ (Data(d)' = <<>> /\ Lost(2, d)')
      BY <1>10, DataKept
    <3>2. \A i \in Pipes : InPipe(i, d)' = InPipe(i, d)
      BY <1>10, SamePipes
    <3> QED
      BY <1>0, <1>10, <3>1, <3>2, Rests
  <2> QED
    BY <1>2, <1>10, <2>1
<1>11. CASE Break \/ \E e \in Ends : Finish(e)
  BY <1>0, <1>10, <1>11, Closings
<1>12. CASE UNCHANGED vars
  <2>1. Shrinks
    BY <1>0, <1>12, Same DEF vars
  <2> QED
    BY <1>10, <1>12, <2>1 DEF vars
<1> QED
  BY <1>1, <1>3, <1>4, <1>5, <1>6, <1>7, <1>8, <1>9, <1>11, <1>12 DEF Next, Internal, Loop

LEMMA InitIInv == Init => IInv
<1> SUFFICES ASSUME Init PROVE IInv
  OBVIOUS
<1>1. /\ \A h \in Hops, d \in Directions : buf[h][d] = <<>>
      /\ \A h \in Hops : ended[h] = {} /\ gone[h] = {}
      /\ \A i \in Pipes : /\ loop[i] = "absent"
                          /\ \A d \in Directions : pump[i][d] = "absent"
      /\ \A d \in Directions : sent[d] = 0 /\ rcvd[d] = <<>>
      /\ near = "open" /\ far = "none" /\ split = FALSE
  BY DEF Init
<1>2. HopsOK
  <2>1. \A h \in Hops : 0 <= Window[h]
    BY PipeAssumption
  <2>2. <<>> \in Seq(Carried) /\ Len(<<>>) = 0
    OBVIOUS
  <2>3. buf \in [Hops -> [Directions -> Seq(Carried)]]
    BY <2>2 DEF Init
  <2>4. \A h \in Hops, d \in Directions : Len(buf[h][d]) <= Window[h]
    BY <1>1, <2>1, <2>2
  <2> QED
    BY <2>3, <2>4 DEF Init, HopsOK
<1>3. PipesOK
  BY <1>1, Handed, Places DEF Init, PipesOK
<1>4. EndsOK
  BY PipeAssumption DEF Init, EndsOK
<1>5. Typed
  BY <1>2, <1>3, <1>4 DEF Init, Typed, SidesOK
<1>6. Pumps /\ Sides /\ Handshake
  <2>1. Pumps
    BY <1>1 DEF Pumps
  <2>2. Sides
    BY <1>1, Places DEF Sides
  <2>3. Handshake
    BY <1>1, Places DEF Handshake
  <2> QED
    BY <2>1, <2>2, <2>3
<1>7. \A d \in Directions : Ordered(d)
  <2> TAKE d \in Directions
  <2>1. <<>> \o <<>> = <<>>
    OBVIOUS
  <2>2. 2 \in Hops /\ First(d) \in Hops /\ Last(d) \in Hops
        /\ FromFirst(d) \in Pipes /\ ToLast(d) \in Pipes
    BY Places
  <2>3. Data(d) = <<>>
    BY <1>1, <2>2, Places DEF Data
  <2>4. \A i \in Pipes : InPipe(i, d) = <<>>
    BY <1>1, <2>1 DEF InPipe, InLoop, InPump
  <2>5. Arriving(d) = <<>>
    BY <1>1, <2>1, <2>2 DEF Arriving
  <2>6. Halfway(d) = <<>>
    BY <2>1, <2>2, <2>3, <2>4, <2>5 DEF Halfway
  <2>7. UnderWay(d) = <<>>
    BY <1>1, <2>1, <2>2, <2>4, <2>6 DEF UnderWay
  <2>8. Counts(<<>>, 0) /\ Len(<<>>) = 0
    BY DEF Counts
  <2>9. sent[d] = 0
    BY <1>1
  <2> QED
    BY <2>5, <2>6, <2>7, <2>8, <2>9 DEF Ordered
<1> QED
  BY <1>5, <1>6, <1>7 DEF IInv, Continuous

LEMMA Invariance == Spec => []IInv
<1>1. IInv /\ [Next]_vars => IInv'
  <2> SUFFICES ASSUME IInv, [Next]_vars PROVE IInv'
    OBVIOUS
  <2>1. Typed /\ Pumps /\ Sides /\ Handshake
    BY DEF IInv
  <2>2. Typed' /\ Pumps' /\ Sides' /\ Handshake'
    BY <2>1, NextTyped, NextPumps, NextSides, NextHandshake
  <2> QED
    BY <2>2, NextOrdered DEF IInv
<1> QED
  BY <1>1, InitIInv, PTL DEF Spec

-----------------------------------------------------------------------------
(* What follows                                                            *)

\* Every variable of a connection to a service keeps its type, no hop holds
\* more than its window, and nothing is carried that is not a byte.
THEOREM TypeCorrect == Spec => []TypeOK
<1>1. IInv => TypeOK
  BY TypedTypeOK DEF IInv
<1> QED
  BY <1>1, Invariance, PTL

\* svc.pipe and the handshake before it: an application receives the first
\* bytes of those the other one wrote, in order, whatever ends in between.
THEOREM ReceivedInOrder == Spec => []InOrder
<1>1. IInv => InOrder
  <2> SUFFICES ASSUME IInv, ~split, NEW d \in Directions
               PROVE  /\ Len(rcvd[d]) <= sent[d]
                      /\ \A n \in 1..Len(rcvd[d]) : rcvd[d][n] = n
    BY DEF InOrder
  <2>1. Last(d) \in Hops
    BY Places
  <2>2. rcvd[d] \in Seq(Item) /\ buf[Last(d)][d] \in Seq(Item) /\ sent[d] \in Nat
    BY <2>1, Sequences DEF IInv
  <2>3. Counts(rcvd[d] \o buf[Last(d)][d], sent[d])
    BY DEF IInv, Continuous, Ordered, Arriving
  <2>4. Counts(rcvd[d], sent[d])
    BY <2>2, <2>3, InFront
  <2> QED
    BY <2>4 DEF Counts
<1> QED
  BY <1>1, Invariance, PTL

\* Nobody has ended a direction's bytes, or closed what they are read from.
Flowing(d) == ~split /\ \A h \in Hops : ~Lost(h, d)

\* What an application has received and what is on its way to it are the bytes
\* the other one has written, each of them once.
NoneMissing ==
  \A d \in Directions :
    Flowing(d) => /\ Len(UnderWay(d)) = sent[d]
                  /\ \A n \in 1..sent[d] : UnderWay(d)[n] = n

\* An application is never further ahead than the three hops and what the two
\* pipes have in hand, one chunk each in the loop and in the pump.
Ahead ==
  \A d \in Directions :
    Flowing(d) => sent[d] <= Len(rcvd[d]) + (Window[1] + Window[2] + Window[3]) + 4

\* svc.pipe, as long as nothing is closed: no byte is dropped between two
\* goroutines, and none is written twice, wherever they are interrupted.
THEOREM NothingDropped == Spec => []NoneMissing
<1>1. IInv => NoneMissing
  <2> SUFFICES ASSUME IInv, NEW d \in Directions, Flowing(d)
               PROVE  /\ Len(UnderWay(d)) = sent[d]
                      /\ \A n \in 1..sent[d] : UnderWay(d)[n] = n
    BY DEF NoneMissing
  <2>1. Ordered(d) /\ First(d) \in Hops /\ Last(d) \in Hops /\ 2 \in Hops
    BY Places DEF IInv, Continuous, Flowing
  <2>2. Counts(UnderWay(d), sent[d]) /\ Len(UnderWay(d)) = sent[d]
    BY <2>1 DEF Ordered, Flowing
  <2> QED
    BY <2>2 DEF Counts
<1> QED
  BY <1>1, Invariance, PTL

\* How much the parts of a connection hold.
LEMMA Held ==
  ASSUME Typed, NEW d \in Directions
  PROVE  /\ Len(Data(d)) <= Window[2] /\ Len(Data(d)) \in Nat
         /\ \A h \in Hops : /\ Len(buf[h][d]) <= Window[h] /\ Len(buf[h][d]) \in Nat
                            /\ Window[h] \in Nat
         /\ \A i \in Pipes : Len(InPipe(i, d)) <= 2 /\ Len(InPipe(i, d)) \in Nat
<1>1. \A h \in Hops : /\ Len(buf[h][d]) <= Window[h] /\ Len(buf[h][d]) \in Nat
                      /\ Window[h] \in Nat
  <2>1. \A h \in Hops : buf[h][d] \in Seq(Item)
    BY Sequences
  <2>2. \A h \in Hops : Len(buf[h][d]) \in Nat
    BY <2>1, LenProperties
  <2> QED
    BY <2>2, PipeAssumption DEF Typed, HopsOK
<1>2. Len(Data(d)) <= Window[2] /\ Len(Data(d)) \in Nat
  <2>1. 2 \in Hops /\ buf[2][d] \in Seq(Item)
    BY Sequences, Places
  <2>2. buf[2][d] # <<>> => Len(Tail(buf[2][d])) = Len(buf[2][d]) - 1 /\ Len(buf[2][d]) >= 1
    BY <2>1, HeadTailProperties, LenProperties, EmptySeq
  <2>3. Len(<<>>) = 0
    OBVIOUS
  <2>4. Data(d) \in {<<>>, buf[2][d]} \/ (buf[2][d] # <<>> /\ Data(d) = Tail(buf[2][d]))
    BY DEF Data, Directions
  <2> QED
    BY <1>1, <2>1, <2>2, <2>3, <2>4
<1>3. ASSUME NEW i \in Pipes PROVE Len(InPipe(i, d)) <= 2 /\ Len(InPipe(i, d)) \in Nat
  <2>1. InLoop(i, d) \in Seq(Item) /\ InPump(i, d) \in Seq(Item)
    BY Sequences
  <2>2. Len(InLoop(i, d)) \in {0, 1} /\ Len(InPump(i, d)) \in {0, 1}
    BY DEF InLoop, InPump
  <2>3. Len(InPipe(i, d)) = Len(InLoop(i, d)) + Len(InPump(i, d))
    BY <2>1, ConcatProperties DEF InPipe
  <2>4. \A a, b \in {0, 1} : a + b <= 2 /\ a + b \in Nat
    OBVIOUS
  <2> QED
    BY <2>2, <2>3, <2>4
<1> QED
  BY <1>1, <1>2, <1>3

\* Backpressure: an application that does not read stops the other one, whatever
\* its peer has left to write, since no goroutine of pipe reads on while what it
\* has read is not taken from it.
THEOREM WriterWaits == Spec => []Ahead
<1>1. IInv => Ahead
  <2> SUFFICES ASSUME IInv, NEW d \in Directions, Flowing(d)
               PROVE  sent[d] <= Len(rcvd[d]) + (Window[1] + Window[2] + Window[3]) + 4
    BY DEF Ahead
  <2> DEFINE first == buf[First(d)][d]
             last == buf[Last(d)][d]
             begun == InPipe(FromFirst(d), d)
             ready == InPipe(ToLast(d), d)
             data == Data(d)
             got == rcvd[d]
  <2>1. Typed /\ Len(UnderWay(d)) = sent[d]
    <3>1. Ordered(d) /\ First(d) \in Hops /\ Last(d) \in Hops /\ 2 \in Hops
      BY Places DEF IInv, Continuous, Flowing
    <3> QED
      BY <3>1 DEF IInv, Ordered, Flowing
  <2>2. /\ got \in Seq(Item) /\ last \in Seq(Item) /\ first \in Seq(Item)
        /\ begun \in Seq(Item) /\ ready \in Seq(Item) /\ data \in Seq(Item)
    BY <2>1, Sequences, Places
  <2>3. UnderWay(d) = ((got \o last) \o (ready \o data)) \o (begun \o first)
    BY DEF UnderWay, Halfway, Arriving
  <2>4. /\ Len(first) <= Window[First(d)] /\ Len(last) <= Window[Last(d)]
        /\ Len(data) <= Window[2] /\ Len(begun) <= 2 /\ Len(ready) <= 2
        /\ \A h \in Hops : Window[h] \in Nat
    BY <2>1, Held, Places
  <2>5. Window[First(d)] + Window[Last(d)] = Window[1] + Window[3]
    <3>1. Window[1] \in Nat /\ Window[3] \in Nat
      BY <2>4 DEF Hops
    <3> QED
      BY <3>1 DEF First, Last, Directions
  <2> HIDE DEF first, last, begun, ready, data, got
  <2>6. /\ Len(got) \in Nat /\ Len(last) \in Nat /\ Len(first) \in Nat
        /\ Len(begun) \in Nat /\ Len(ready) \in Nat /\ Len(data) \in Nat
    BY <2>2, LenProperties
  <2>7. sent[d] = Len(got) + Len(last) + Len(ready) + Len(data) + Len(begun) + Len(first)
    <3>1. got \o last \in Seq(Item) /\ Len(got \o last) = Len(got) + Len(last)
      BY <2>2, ConcatProperties
    <3>2. ready \o data \in Seq(Item) /\ Len(ready \o data) = Len(ready) + Len(data)
      BY <2>2, ConcatProperties
    <3>3. begun \o first \in Seq(Item) /\ Len(begun \o first) = Len(begun) + Len(first)
      BY <2>2, ConcatProperties
    <3>4. /\ (got \o last) \o (ready \o data) \in Seq(Item)
          /\ Len((got \o last) \o (ready \o data)) = Len(got \o last) + Len(ready \o data)
      BY <3>1, <3>2, ConcatProperties
    <3>5. Len(((got \o last) \o (ready \o data)) \o (begun \o first))
            = Len((got \o last) \o (ready \o data)) + Len(begun \o first)
      BY <3>3, <3>4, ConcatProperties
    <3> QED
      BY <2>1, <2>3, <2>6, <3>1, <3>2, <3>3, <3>4, <3>5
  <2>8. Window[1] \in Nat /\ Window[2] \in Nat /\ Window[3] \in Nat
        /\ Window[First(d)] \in Nat /\ Window[Last(d)] \in Nat
    BY <2>4, Places DEF Hops
  <2>9. Len(first) + Len(last) <= Window[1] + Window[3]
    <3>1. Len(first) + Len(last) <= Window[First(d)] + Window[Last(d)]
      BY <2>4, <2>6, <2>8
    <3> QED
      BY <2>5, <3>1
  <2>10. sent[d] <= Len(got) + (Window[1] + Window[2] + Window[3]) + 4
    <3> DEFINE f == Len(first)  l == Len(last)  p == Len(begun)  q == Len(ready)
               n == Len(data)  g == Len(got)
    <3>1. /\ f + l <= Window[1] + Window[3] /\ p <= 2 /\ q <= 2 /\ n <= Window[2]
          /\ f \in Nat /\ l \in Nat /\ p \in Nat /\ q \in Nat /\ n \in Nat /\ g \in Nat
          /\ sent[d] = g + l + q + n + p + f
      BY <2>4, <2>6, <2>7, <2>9
    <3> HIDE DEF f, l, p, q, n, g
    <3>2. sent[d] <= g + (Window[1] + Window[2] + Window[3]) + 4
      BY <2>8, <3>1
    <3> QED
      BY <3>2 DEF g
  <2> QED
    BY <2>10 DEF got
<1> QED
  BY <1>1, Invariance, PTL

\* The goroutines of toChan: when pipe has returned, one of its two is left.
THEOREM OnePumpLeft == Spec => []LeavesOnePump
<1>1. IInv => LeavesOnePump
  <2> SUFFICES ASSUME IInv, NEW i \in Pipes, loop[i] = "returned"
               PROVE  Cardinality({d \in Directions : pump[i][d] # "gone"}) = 1
    BY DEF LeavesOnePump
  <2>1. PICK d \in Directions : \A x \in Directions : pump[i][x] = "gone" <=> x = d
    BY DEF IInv, Pumps
  <2>2. PICK y \in Directions : {x \in Directions : pump[i][x] # "gone"} = {y}
    <3>1. CASE d = "up"
      <4>1. {x \in Directions : pump[i][x] # "gone"} = {"down"}
        BY <2>1, <3>1 DEF Directions
      <4> QED
        BY <4>1 DEF Directions
    <3>2. CASE d = "down"
      <4>1. {x \in Directions : pump[i][x] # "gone"} = {"up"}
        BY <2>1, <3>2 DEF Directions
      <4> QED
        BY <4>1 DEF Directions
    <3> QED
      BY <3>1, <3>2 DEF Directions
  <2> QED
    BY <2>2, FS_Singleton
<1> QED
  BY <1>1, Invariance, PTL
==============================================================================
