---------------------------- MODULE ServicePipe ----------------------------
(***************************************************************************)
(* One connection to a service of another node (svc/): a client's TCP      *)
(* connection ends in the embedded network stack, RemoteServiceProxy opens *)
(* a stream and asks for the service, streamHandler answers and hands the  *)
(* stream to TCPServiceProxy, which dials the server.  Both ends then run  *)
(* pipe, so that bytes cross three hops and two pipes.                     *)
(*                                                                         *)
(* Hop 1 is the client's connection, 2 the stream, 3 the server's.  Pipe i *)
(* joins the hops i and i + 1.                                             *)
(***************************************************************************)
EXTENDS Naturals, Sequences, FiniteSets

CONSTANTS Total,   \* Total[d]: bytes an application writes in direction d
          Window,  \* Window[h]: bytes hop h takes before a write blocks
          HalfClosers,  \* applications that may close their writing half only
          Id,      \* a byte of a service ID
          Ok, No,  \* RS_OK, RS_NOT_SUPPORTED
          Nothing  \* no byte

Hops == 1..3
Pipes == {1, 2}
Directions == {"up", "down"}    \* to the server, to the client
Ends == {"client", "server"}    \* of a hop: the one nearer to ...

ASSUME PipeAssumption ==
  /\ Total \in [Directions -> Nat]
  /\ Window \in [Hops -> Nat] /\ Window[2] >= 2
  /\ {Id, Ok, No, Nothing} \cap Nat = {} /\ Nothing \notin {Id, Ok, No}

Byte == 1..(Total["up"] + Total["down"])
Item == Byte \cup {Id, Ok, No, Nothing}

VARIABLES
  near,      \* RemoteServiceProxy's Handle: open, ask, status, pipe, returned
  far,       \* streamHandler: none, id, answer, refused, dial, pipe, returned
  buf,       \* what a hop holds in each direction
  ended,     \* directions in which no more will be written to a hop
  gone,      \* the ends of a hop that have been closed
  pump,      \* goroutines of toChan: absent, read, send, nil, gone
  held,      \* the chunk a pump read last
  loop,      \* pipe's loop: absent, select, write, returned
  chunk,     \* what the loop is about to write: [dir, item]
  sent, rcvd,
  offered,   \* the service asked for is registered there
  admitted,  \* the node that asks is in the list there
  split      \* the read of the service ID returned one byte of two

hops == <<buf, ended, gone>>
pipes == <<pump, held, loop, chunk>>
ends == <<sent, rcvd>>
given == <<offered, admitted>>
vars == <<near, far, hops, pipes, ends, given, split>>

TypeOK ==
  /\ near \in {"open", "ask", "status", "pipe", "returned"}
  /\ far \in {"none", "id", "answer", "refused", "dial", "pipe", "returned"}
  /\ \A h \in Hops, d \in Directions :
       buf[h][d] \in Seq(Item \ {Nothing}) /\ Len(buf[h][d]) <= Window[h]
  /\ ended \in [Hops -> SUBSET Directions] /\ gone \in [Hops -> SUBSET Ends]
  /\ pump \in [Pipes -> [Directions -> {"absent", "read", "send", "nil", "gone"}]]
  /\ held \in [Pipes -> [Directions -> Item]]
  /\ loop \in [Pipes -> {"absent", "select", "write", "returned"}]
  /\ chunk \in [Pipes -> [dir : Directions, item : Item]]
  /\ \A d \in Directions : sent[d] \in 0..Total[d] /\ rcvd[d] \in Seq(Item)
  /\ offered \in BOOLEAN /\ admitted \in BOOLEAN /\ split \in BOOLEAN

\* Accept has returned the client's connection.
Init ==
  /\ near = "open" /\ far = "none"
  /\ buf = [h \in Hops |-> [d \in Directions |-> <<>>]]
  /\ ended = [h \in Hops |-> {}] /\ gone = [h \in Hops |-> {}]
  /\ pump = [i \in Pipes |-> [d \in Directions |-> "absent"]]
  /\ held = [i \in Pipes |-> [d \in Directions |-> Nothing]]
  /\ loop = [i \in Pipes |-> "absent"]
  /\ chunk = [i \in Pipes |-> [dir |-> "up", item |-> Nothing]]
  /\ sent = [d \in Directions |-> 0] /\ rcvd = [d \in Directions |-> <<>>]
  /\ offered \in BOOLEAN /\ admitted \in BOOLEAN /\ split = FALSE

-----------------------------------------------------------------------------
(* Hops                                                                    *)

Writer(d) == IF d = "up" THEN "client" ELSE "server"
Reader(d) == IF d = "up" THEN "server" ELSE "client"
Writes(e) == IF e = "client" THEN "up" ELSE "down"

\* Who has closed or lost a hop cannot write to it, and nobody reads what is
\* written to one that was closed at the other end.
Lost(h, d) == Reader(d) \in gone[h] \/ d \in ended[h]
CanWrite(h, d) == Lost(h, d) \/ Len(buf[h][d]) < Window[h]
Put(h, d, item) ==
  buf' = IF Lost(h, d) THEN buf ELSE [buf EXCEPT ![h][d] = Append(@, item)]
AtEOF(h, d) == Reader(d) \in gone[h] \/ (buf[h][d] = <<>> /\ d \in ended[h])

\* Close of a set of <<hop, end>>; what is there to be read at a closed end
\* is dropped.
Close(S) ==
  /\ gone' = [h \in Hops |-> gone[h] \cup {e \in Ends : <<h, e>> \in S}]
  /\ buf' = [h \in Hops |-> [d \in Directions |->
                IF <<h, Reader(d)>> \in S THEN <<>> ELSE buf[h][d]]]
  /\ ended' = [h \in Hops |-> ended[h] \cup {Writes(e) : e \in {x \in Ends : <<h, x>> \in S}}]

\* What the deferred calls close when the handler of pipe i returns.
Closes(i) == {<<i, "server">>, <<i + 1, "client">>}

-----------------------------------------------------------------------------
(* The handshake                                                           *)

OpenStream ==
  /\ near = "open"
  /\ near' = "ask" /\ far' = IF admitted THEN "id" ELSE "returned"
  /\ IF admitted THEN UNCHANGED hops ELSE Close({2} \X Ends)
  /\ UNCHANGED <<pipes, ends, given, split>>

NearReturns(S) == near' = "returned" /\ Close(S) /\ UNCHANGED far

\* The stream is not there yet, so only the client's connection is closed.
OpenFails ==
  /\ near = "open"
  /\ NearReturns({<<1, "server">>})
  /\ UNCHANGED <<pipes, ends, given, split>>

\* stream.Write(svcId): two bytes.
Ask ==
  /\ near = "ask"
  /\ \/ /\ ~Lost(2, "up")
        /\ near' = "status"
        /\ buf' = [buf EXCEPT ![2]["up"] = @ \o <<Id, Id>>]
        /\ UNCHANGED <<far, ended, gone>>
     \/ Lost(2, "up") /\ NearReturns(Closes(1))
  /\ UNCHANGED <<pipes, ends, given, split>>

Started(i) == /\ pump' = [pump EXCEPT ![i] = [d \in Directions |-> "read"]]
              /\ loop' = [loop EXCEPT ![i] = "select"]
              /\ UNCHANGED <<held, chunk>>

\* Mutant: the status is not taken off the stream.
PeekStatus ==
  /\ near = "status" /\ ~AtEOF(2, "down") /\ buf[2]["down"] # <<>>
  /\ IF Head(buf[2]["down"]) = Ok
     THEN near' = "pipe" /\ Started(1) /\ UNCHANGED <<far, hops>>
     ELSE NearReturns(Closes(1)) /\ UNCHANGED pipes
  /\ UNCHANGED <<ends, given, split>>

\* stream.Read(buf) of one byte, and what it says.
ReadStatus ==
  /\ near = "status" /\ ~AtEOF(2, "down") /\ buf[2]["down"] # <<>>
  /\ IF Head(buf[2]["down"]) = Ok
     THEN /\ near' = "pipe" /\ Started(1)
          /\ buf' = [buf EXCEPT ![2]["down"] = Tail(@)]
          /\ UNCHANGED <<far, ended, gone>>
     ELSE NearReturns(Closes(1)) /\ UNCHANGED pipes
  /\ UNCHANGED <<ends, given, split>>

StatusFails ==
  /\ near = "status" /\ AtEOF(2, "down")
  /\ NearReturns(Closes(1))
  /\ UNCHANGED <<pipes, ends, given, split>>

\* streamHandler reads two bytes with one Read, which may return one.
ReadId(n) ==
  /\ far = "id" /\ n <= Len(buf[2]["up"]) /\ ~AtEOF(2, "up")
  /\ far' = "answer"
  /\ buf' = [buf EXCEPT ![2]["up"] = SubSeq(@, n + 1, Len(@))]
  /\ split' = (n = 1)
  /\ UNCHANGED <<near, ended, gone, pipes, ends, given>>

FarReturns(S) == far' = "returned" /\ Close(S) /\ UNCHANGED near

ReadIdFails ==
  /\ far = "id" /\ AtEOF(2, "up")
  /\ FarReturns({<<2, "server">>})
  /\ UNCHANGED <<pipes, ends, given, split>>

\* RS_OK or RS_NOT_SUPPORTED; half an ID may be that of another service.
AnswerId ==
  /\ far = "answer"
  /\ \/ /\ (offered \/ split) /\ ~Lost(2, "down")
        /\ far' = "dial" /\ Put(2, "down", Ok)
        /\ UNCHANGED <<near, ended, gone>>
     \/ /\ (~offered \/ split) /\ ~Lost(2, "down")
        /\ far' = "refused" /\ Put(2, "down", No)
        /\ UNCHANGED <<near, ended, gone>>
     \/ Lost(2, "down") /\ FarReturns({<<2, "server">>})
  /\ UNCHANGED <<pipes, ends, given, split>>

\* DialTCP of TCPServiceProxy.
DialServer ==
  /\ far = "dial"
  /\ far' = "pipe" /\ Started(2)
  /\ UNCHANGED <<near, hops, ends, given, split>>

\* The dial fails, or the service was refused: defer stream.Close().
FarGivesUp ==
  /\ far \in {"dial", "refused"}
  /\ FarReturns({<<2, "server">>})
  /\ UNCHANGED <<pipes, ends, given, split>>

-----------------------------------------------------------------------------
(* pipe                                                                    *)

Source(i, d) == IF d = "up" THEN i ELSE i + 1
Target(i, d) == IF d = "up" THEN i + 1 ELSE i

\* The goroutine of toChan: Read, then the send on the unbuffered channel.
PumpRead(i, d) ==
  LET h == Source(i, d) IN
  /\ pump[i][d] = "read"
  /\ IF AtEOF(h, d)
     THEN /\ pump' = [pump EXCEPT ![i][d] = "nil"]
          /\ UNCHANGED <<buf, held>>
     ELSE /\ buf[h][d] # <<>>
          /\ pump' = [pump EXCEPT ![i][d] = "send"]
          /\ held' = [held EXCEPT ![i][d] = Head(buf[h][d])]
          /\ buf' = [buf EXCEPT ![h][d] = Tail(@)]
  /\ UNCHANGED <<near, far, ended, gone, loop, chunk, ends, given, split>>

\* case b := <-chan: the pump goes on reading while the loop writes.
Take(i, d) ==
  /\ loop[i] = "select" /\ pump[i][d] = "send"
  /\ loop' = [loop EXCEPT ![i] = "write"]
  /\ chunk' = [chunk EXCEPT ![i] = [dir |-> d, item |-> held[i][d]]]
  /\ pump' = [pump EXCEPT ![i][d] = "read"]
  /\ held' = [held EXCEPT ![i][d] = Nothing]
  /\ UNCHANGED <<near, far, hops, ends, given, split>>

\* Mutant: the stream is left open.
TakeNilKeepsStream(i, d) ==
  /\ loop[i] = "select" /\ pump[i][d] = "nil"
  /\ pump' = [pump EXCEPT ![i][d] = "gone"]
  /\ loop' = [loop EXCEPT ![i] = "returned"]
  /\ IF i = 1 THEN near' = "returned" /\ UNCHANGED far
              ELSE far' = "returned" /\ UNCHANGED near
  /\ Close(Closes(i) \ ({2} \X Ends))
  /\ UNCHANGED <<held, chunk, ends, given, split>>

\* Mutant: the pump goes on after an error.
TakeNilAgain(i, d) ==
  /\ loop[i] = "select" /\ pump[i][d] = "nil"
  /\ pump' = [pump EXCEPT ![i][d] = "read"]
  /\ loop' = [loop EXCEPT ![i] = "returned"]
  /\ IF i = 1 THEN near' = "returned" /\ UNCHANGED far
              ELSE far' = "returned" /\ UNCHANGED near
  /\ Close(Closes(i))
  /\ UNCHANGED <<held, chunk, ends, given, split>>

\* case nil: pipe returns, its caller closes both hops.  Nobody receives from
\* the other pump any more.
TakeNil(i, d) ==
  /\ loop[i] = "select" /\ pump[i][d] = "nil"
  /\ pump' = [pump EXCEPT ![i][d] = "gone"]
  /\ loop' = [loop EXCEPT ![i] = "returned"]
  /\ IF i = 1 THEN near' = "returned" /\ UNCHANGED far
              ELSE far' = "returned" /\ UNCHANGED near
  /\ Close(Closes(i))
  /\ UNCHANGED <<held, chunk, ends, given, split>>

\* Mutant: a hop that is full loses the chunk.
WriteOrDrop(i) ==
  LET d == chunk[i].dir  h == Target(i, d) IN
  /\ loop[i] = "write"
  /\ IF Len(buf[h][d]) < Window[h] THEN Put(h, d, chunk[i].item) ELSE UNCHANGED buf
  /\ loop' = [loop EXCEPT ![i] = "select"]
  /\ chunk' = [chunk EXCEPT ![i] = [dir |-> "up", item |-> Nothing]]
  /\ UNCHANGED <<near, far, ended, gone, pump, held, ends, given, split>>

\* s.Write, which blocks while the hop is full; its error is ignored.
Write(i) ==
  LET d == chunk[i].dir  h == Target(i, d) IN
  /\ loop[i] = "write" /\ CanWrite(h, d)
  /\ Put(h, d, chunk[i].item)
  /\ loop' = [loop EXCEPT ![i] = "select"]
  /\ chunk' = [chunk EXCEPT ![i] = [dir |-> "up", item |-> Nothing]]
  /\ UNCHANGED <<near, far, ended, gone, pump, held, ends, given, split>>

-----------------------------------------------------------------------------
(* The applications and the network                                        *)

Hop(e) == IF e = "client" THEN 1 ELSE 3
There(e) == e \notin gone[Hop(e)] /\ (e = "server" => loop[2] # "absent")

Send(e) ==
  LET d == Writes(e)  h == Hop(e) IN
  /\ There(e) /\ d \notin ended[h] /\ sent[d] < Total[d] /\ CanWrite(h, d)
  /\ sent' = [sent EXCEPT ![d] = @ + 1]
  /\ Put(h, d, sent[d] + 1)
  /\ UNCHANGED <<near, far, ended, gone, pipes, rcvd, given, split>>

Receive(e) ==
  LET d == IF e = "client" THEN "down" ELSE "up"  h == Hop(e) IN
  /\ There(e) /\ buf[h][d] # <<>>
  /\ rcvd' = [rcvd EXCEPT ![d] = Append(@, Head(buf[h][d]))]
  /\ buf' = [buf EXCEPT ![h][d] = Tail(@)]
  /\ UNCHANGED <<near, far, ended, gone, pipes, sent, given, split>>

\* An application closes its connection, or its writing half only.
Finish(e) ==
  /\ There(e)
  /\ \/ Close({<<Hop(e), e>>})
     \/ /\ ended' = [ended EXCEPT ![Hop(e)] = @ \cup {Writes(e)}]
        /\ e \in HalfClosers /\ ended' # ended /\ UNCHANGED <<buf, gone>>
  /\ UNCHANGED <<near, far, pipes, ends, given, split>>

\* The stream breaks, with what was on the way.
Break ==
  /\ near \in {"ask", "status", "pipe"} /\ gone[2] = {}
  /\ Close({2} \X Ends)
  /\ UNCHANGED <<near, far, pipes, ends, given, split>>

-----------------------------------------------------------------------------
Near == OpenStream \/ OpenFails \/ Ask \/ ReadStatus \/ StatusFails
Far == (\E n \in {1, 2} : ReadId(n)) \/ ReadIdFails \/ AnswerId
       \/ DialServer \/ FarGivesUp
Loop(i) == (\E d \in Directions : Take(i, d) \/ TakeNil(i, d)) \/ Write(i)

Internal == \/ Near \/ Far
            \/ \E i \in Pipes : Loop(i) \/ \E d \in Directions : PumpRead(i, d)
            \/ \E e \in Ends : Receive(e)
Next == Internal \/ Break \/ \E e \in Ends : Send(e) \/ Finish(e)

Spec == Init /\ [][Next]_vars

\* The goroutines are scheduled, dials end, and the applications keep reading.
\* As they write a bounded number of bytes, it is enough that something is
\* done as long as something can be.
FairSpec == Spec /\ WF_vars(Internal)

-----------------------------------------------------------------------------
(* Properties                                                              *)

\* Across two pipes and three hops an application receives what the other one
\* sent, in order, without a repetition or a gap, and nothing of the handshake,
\* unless the two bytes of the service ID were read apart.
InOrder ==
  split \/ \A d \in Directions :
             /\ Len(rcvd[d]) <= sent[d]
             /\ \A n \in 1..Len(rcvd[d]) : rcvd[d][n] = n

\* A pipe that has returned leaves one goroutine behind, the pump of the
\* other direction, and no more.
LeavesOnePump ==
  \A i \in Pipes :
    loop[i] = "returned" => Cardinality({d \in Directions : pump[i][d] # "gone"}) = 1

\* Both loops write to the stream, one in each direction, and neither gets
\* rid of its chunk: each waits for the pump that waits for the other.
CrossBlocked ==
  /\ \A i \in Pipes : /\ loop[i] = "write" /\ Target(i, chunk[i].dir) = 2
                      /\ ~CanWrite(2, chunk[i].dir)
  /\ pump[1]["down"] = "send" /\ pump[2]["up"] = "send"

\* As long as nobody closes anything and both applications keep reading, all
\* that was sent arrives, although one loop serves both directions of a pipe
\* and blocks in its writes, unless both loops block in the stream at once:
\* then nothing moves any more, in either direction.
Quiet == ~split /\ \A h \in Hops : ended[h] = {}
AllArrives ==
  \A d \in Directions :
    (sent[d] > Len(rcvd[d])) ~> (sent[d] = Len(rcvd[d]) \/ ~Quiet \/ CrossBlocked)

\* An end anywhere, a refusal or a break included, closes the connections of
\* both applications, again unless both loops block in the stream, where they
\* no longer see that a connection was closed.
EndsReachBoth ==
  (\E h \in Hops : ended[h] # {})
    ~> \/ "server" \in gone[1] /\ (loop[2] # "absent" => "client" \in gone[3])
       \/ CrossBlocked
=============================================================================
