----------------------------- MODULE P2pProofs -----------------------------
(***************************************************************************)
(* Proofs about the components of p2p.  PeerFinding, for any peers, books, *)
(* lists and numbers of requests and routings: answers are whole, and a    *)
(* search loses none.  Discovery: what the loop keeps, and that it rests.  *)
(***************************************************************************)
EXTENDS PeerFinding, Discovery, SequenceTheorems, TLAPS

\* An exchange: what the handler was to tell is in one of three places.
Exchange ==
  \A q \in Requests :
    /\ pc[q] # "read" => unread[q] = {} /\ handler[q] \notin {"greet", "answer"}
    /\ pc[q] = "open" \/ handler[q] = "greet" => got[q] = {} /\ unread[q] = {}
    /\ handler[q] = "answer" => got[q] \cup unread[q] \cup left[q] = Book[Asked(q)]
    /\ pc[q] = "read" /\ handler[q] = "closed" => got[q] \cup unread[q] = Book[Asked(q)]
    /\ pc[q] = "err" => got[q] = {}

\* A search: its goroutines, and the one exchange among them.
Searching ==
  /\ find = "idle" => \A r \in Routings : rt[r] = "idle"
  /\ find = "returned" => \A r \in Routings : rt[r] = "done"
  /\ IF rt[Find] = "search" THEN list[Find] = Config ELSE pc[Find] = "idle"

\* What was answered has been appended, or is about to be.
Appended ==
  /\ \A r \in Routings :
       /\ rt[r] \in {"idle", "search"} => reply[r] = {}
       /\ rt[r] = "append" => loaded = info
       /\ rt[r] = "done" => reply[r] \subseteq info
  /\ reply[Find] # {} =>
       reply[Find] = {a \in Book[Head(Config)] : a.peer = target}

PexInv == PexTypeOK /\ Exchange /\ WholeAnswer
FindInv == TypeOK /\ Searching /\ Appended
IInv == PexInv /\ FindInv

\* A list that is not empty has a first element, and what is behind it.
LEMMA FirstOf ==
  ASSUME NEW S, NEW s \in Seq(S), s # <<>>
  PROVE  Head(s) \in S /\ Tail(s) \in Seq(S)
BY HeadTailProperties

\* The peer that is asked is a peer, and its book a set of addresses.
LEMMA AskedIsPeer ==
  ASSUME PexTypeOK, NEW q \in Requests, list[q] # <<>>
  PROVE  Asked(q) \in Peers /\ Book[Asked(q)] \subseteq Addresses
<1>1. Asked(q) \in Peers BY FirstOf DEF PexTypeOK, Asked
<1> QED BY <1>1, PeerExchangeAssumption

\* Nothing of an exchange changes.
LEMMA SameExchange ==
  ASSUME Exchange, WholeAnswer, UNCHANGED <<request, stream>>
  PROVE  Exchange' /\ WholeAnswer'
BY DEF Exchange, WholeAnswer, Asked, request, stream

LEMMA SamePex ==
  ASSUME PexInv, UNCHANGED pexVars
  PROVE  PexInv'
<1>1. Exchange' /\ WholeAnswer' BY SameExchange DEF PexInv, pexVars
<1>2. PexTypeOK' BY DEF PexInv, pexVars, net, request, stream, PexTypeOK
<1> QED BY <1>1, <1>2 DEF PexInv

\* At the start nothing is known, asked or connected.
LEMMA Initially == Init => IInv
<1> SUFFICES ASSUME Init PROVE IInv
  OBVIOUS
<1> USE DEF Init, PexInit
<1>1. PexTypeOK
  <2>1. live \in Seq(Peers) /\ changes \in 0..MaxChanges BY PeerExchangeAssumption
  <2>2. events \in Seq([peer : Peers, connected : BOOLEAN]) OBVIOUS
  <2>3. list \in [Requests -> Seq(Peers)] OBVIOUS
  <2>4. table \subseteq Peers BY PeerExchangeAssumption DEF Members
  <2> QED BY <2>1, <2>2, <2>3, <2>4 DEF PexTypeOK
<1>2. Exchange /\ WholeAnswer
  <2>1. \A q \in Requests : /\ pc[q] = "idle" /\ got[q] = {} /\ unread[q] = {}
                            /\ handler[q] = "none"
    OBVIOUS
  <2> HIDE DEF Init, PexInit
  <2> QED BY <2>1 DEF Exchange, WholeAnswer
<1>3. FindInv
  BY <1>1, RoutingAssumption, PeerExchangeAssumption
  DEF FindInv, TypeOK, Searching, Appended, Routings
<1> QED BY <1>1, <1>2, <1>3 DEF IInv, PexInv

\* Both ends of an exchange: a line is left, on the way, or read.
LEMMA ExchangeInv ==
  ASSUME IInv, NEW q \in Requests, RequestStep(q) \/ HandlerStep(q), UNCHANGED search
  PROVE  IInv'
<1> USE DEF IInv, PexInv, net, stream, request
<1>1. PexTypeOK' /\ Exchange' /\ WholeAnswer'
  <2>1. CASE Open(q) BY <2>1 DEF Open, PexTypeOK, Exchange, WholeAnswer, Asked
  <2>2. CASE OpenFails(q)
    BY <2>2 DEF OpenFails, Fail, PexTypeOK, Exchange, WholeAnswer, Asked
  <2>3. CASE NoneToAsk(q)
    BY <2>3 DEF NoneToAsk, PexTypeOK, Exchange, WholeAnswer, Asked
  <2>4. CASE ReadLine(q)
    <3>1. PICK a \in unread[q] :
            /\ unread' = [unread EXCEPT ![q] = @ \ {a}]
            /\ got' = [got EXCEPT ![q] = @ \cup {a}]
      BY <2>4 DEF ReadLine
    <3>2. /\ pc[q] = "read" /\ handler[q] # "reset"
          /\ UNCHANGED <<platform, live, table, net, pc, list, handler, left, cancelled>>
      BY <2>4 DEF ReadLine
    <3>3. PexTypeOK' BY <3>1, <3>2 DEF PexTypeOK
    <3>4. got'[q] \cup unread'[q] = got[q] \cup unread[q]
      BY <3>1, <2>4 DEF PexTypeOK
    <3>5. handler[q] # "greet"
      BY <3>1, <3>2 DEF Exchange
    <3>6. got'[q] \cup unread'[q] \cup left[q] = got[q] \cup unread[q] \cup left[q]
      BY <3>4
    <3>7. \A r \in Requests : r # q => got'[r] = got[r] /\ unread'[r] = unread[r]
      BY <3>1 DEF PexTypeOK
    <3>8. Exchange' BY <3>2, <3>4, <3>5, <3>6, <3>7 DEF Exchange, Asked
    <3>9. WholeAnswer' BY <3>2, <3>7 DEF WholeAnswer, Asked
    <3> QED BY <3>3, <3>8, <3>9
  <2>5. CASE EndOfAnswer(q)
    <3>1. /\ pc' = [pc EXCEPT ![q] = "ok"] /\ handler[q] = "closed" /\ unread[q] = {}
          /\ pc[q] = "read" /\ UNCHANGED <<platform, live, table, net, list, got, stream, cancelled>>
      BY <2>5 DEF EndOfAnswer
    <3>2. PexTypeOK' BY <3>1 DEF PexTypeOK
    <3>3. Exchange' BY <3>1 DEF PexTypeOK, Exchange, Asked
    <3>4. WholeAnswer'
      <4>1. got[q] = Book[Asked(q)] /\ list[q] # <<>> BY <3>1 DEF PexTypeOK, Exchange
      <4>2. \A r \in Requests : pc'[r] = "ok" => r = q \/ pc[r] = "ok" BY <3>1 DEF PexTypeOK
      <4> QED BY <3>1, <4>1, <4>2 DEF WholeAnswer, Asked
    <3> QED BY <3>2, <3>3, <3>4
  <2>6. CASE ReadFails(q)
    BY <2>6 DEF ReadFails, Fail, PexTypeOK, Exchange, WholeAnswer, Asked
  <2>7. CASE ReadQuestion(q)
    BY <2>7, AskedIsPeer DEF ReadQuestion, PexTypeOK, Exchange, WholeAnswer, Asked
  <2>8. CASE WriteLine(q)
    BY <2>8 DEF WriteLine, PexTypeOK, Exchange, WholeAnswer, Asked
  <2>9. CASE CloseAnswer(q)
    BY <2>9 DEF CloseAnswer, PexTypeOK, Exchange, WholeAnswer, Asked
  <2> QED BY <2>1, <2>2, <2>3, <2>4, <2>5, <2>6, <2>7, <2>8, <2>9 DEF RequestStep, HandlerStep
<1>2. /\ UNCHANGED <<platform, live, table, path, list>>
      /\ pc[q] = "idle" => UNCHANGED pc
      /\ \A r \in Requests : r # q => pc'[r] = pc[r]
  BY DEF RequestStep, HandlerStep, Open, OpenFails, NoneToAsk, ReadLine, EndOfAnswer,
     ReadFails, Fail, ReadQuestion, WriteLine, CloseAnswer, Exchange, PexTypeOK
<1>3. FindInv'
  BY <1>1, <1>2, PeerExchangeAssumption DEF FindInv, TypeOK, Searching, Appended, search
<1> QED BY <1>1, <1>3

\* PeXService: a request begins with what nothing else uses.
LEMMA ServiceInv ==
  ASSUME IInv, NEW q \in Requests, TakeEvent(q) \/ Learn(q), UNCHANGED search
  PROVE  IInv'
<1> USE DEF IInv, PexInv, net, stream, request
<1>1. CASE TakeEvent(q)
  <2>1. /\ Head(events) \in [peer : Peers, connected : BOOLEAN]
        /\ events' \in Seq([peer : Peers, connected : BOOLEAN])
    BY <1>1, FirstOf DEF TakeEvent, PexTypeOK
  <2>2. \/ UNCHANGED <<pc, list, got>>
        \/ \E ps \in Seq(Peers) : Begin(q, ps)
    <3>1. Head(events).peer \in Peers /\ live \in Seq(Peers) BY <2>1 DEF PexTypeOK
    <3>2. <<Head(events).peer>> \in Seq(Peers) BY <3>1
    <3> QED BY <1>1, <3>1, <3>2 DEF TakeEvent
  <2>3. PexTypeOK' /\ Exchange' /\ WholeAnswer'
    <3> USE <1>1, <2>1 DEF TakeEvent, PexTypeOK, Exchange, WholeAnswer, Asked
    <3>1. CASE UNCHANGED <<pc, list, got>> BY <3>1
    <3>2. CASE \E ps \in Seq(Peers) : Begin(q, ps)
      <4>1. PICK ps \in Seq(Peers) : Begin(q, ps) BY <3>2
      <4>2. /\ pc' = [pc EXCEPT ![q] = "open"] /\ list' = [list EXCEPT ![q] = ps]
            /\ got' = [got EXCEPT ![q] = {}]
        BY <4>1 DEF Begin
      <4>3. pc[q] = "idle" /\ UNCHANGED <<stream, live, platform, cancelled>> OBVIOUS
      <4>4. PexTypeOK' BY <4>2
      <4>5. Exchange' BY <4>2, <4>3
      <4>6. WholeAnswer' BY <4>2, <4>3
      <4> QED BY <4>4, <4>5, <4>6
    <3> QED BY <2>2, <3>1, <3>2
  <2>4. FindInv'
    <3>1. pc'[Find] = pc[Find] /\ list'[Find] = list[Find]
      BY <1>1, <2>2, PeerExchangeAssumption DEF TakeEvent, Begin, PexTypeOK
    <3> QED BY <2>3, <3>1 DEF FindInv, TypeOK, Searching, Appended, search
  <2> QED BY <2>3, <2>4
<1>2. CASE Learn(q)
  <2>1. PexTypeOK' /\ Exchange' /\ WholeAnswer'
    BY <1>2 DEF Learn, PexTypeOK, Exchange, WholeAnswer, Asked, Addresses
  <2>2. FindInv'
    BY <1>2, <2>1, PeerExchangeAssumption
    DEF Learn, FindInv, TypeOK, Searching, Appended, search
  <2> QED BY <2>1, <2>2
<1> QED BY <1>1, <1>2

\* Connections and the list of peers.
LEMMA NetInv ==
  ASSUME IInv, NEW p \in Peers,
         Dial(p) \/ DialEnds(p) \/ Incoming(p) \/ Vanish(p) \/ AddPeer(p) \/ InsertRoutes(p),
         UNCHANGED search
  PROVE  IInv'
<1> USE DEF IInv, PexInv, net, stream, request
<1>1. PexTypeOK'
  <2>1. \A c \in BOOLEAN : Event(p, c) \in [peer : Peers, connected : BOOLEAN]
    BY DEF Event
  <2>2. \A c \in BOOLEAN : Append(events, Event(p, c)) \in Seq([peer : Peers, connected : BOOLEAN])
    BY <2>1, AppendProperties DEF PexTypeOK
  <2>3. CASE Dial(p)
    <3>1. path' \in [Peers -> Kinds \cup {"none"}]
      BY <2>3 DEF Dial, PexTypeOK, Addresses
    <3>2. dials' \subseteq Peers /\ events' \in Seq([peer : Peers, connected : BOOLEAN])
      BY <2>2, <2>3 DEF Dial, PexTypeOK
    <3> QED BY <2>3, <3>1, <3>2 DEF Dial, PexTypeOK
  <2>4. CASE DialEnds(p)
    <3>1. dials' \subseteq Peers BY <2>4 DEF DialEnds, PexTypeOK
    <3> QED BY <2>4, <3>1 DEF DialEnds, PexTypeOK
  <2>5. CASE Incoming(p)
    <3>1. path' \in [Peers -> Kinds \cup {"none"}]
      BY <2>5 DEF Incoming, PexTypeOK, Kinds
    <3>2. store' \subseteq Addresses /\ changes' \in 0..MaxChanges
      BY <2>5, PeerExchangeAssumption DEF Incoming, PexTypeOK, Addresses, Kinds
    <3>3. events' \in Seq([peer : Peers, connected : BOOLEAN])
      BY <2>2, <2>5 DEF Incoming
    <3> QED BY <2>5, <3>1, <3>2, <3>3 DEF Incoming, PexTypeOK
  <2>6. CASE Vanish(p)
    <3>1. path' \in [Peers -> Kinds \cup {"none"}] /\ up' \subseteq Peers
      BY <2>6 DEF Vanish, PexTypeOK
    <3>2. changes' \in 0..MaxChanges
      BY <2>6, PeerExchangeAssumption DEF Vanish, PexTypeOK
    <3>3. events' \in Seq([peer : Peers, connected : BOOLEAN])
      BY <2>2, <2>6 DEF Vanish, PexTypeOK
    <3>4. handler' \in [Requests -> {"none", "greet", "answer", "closed", "reset"}]
      BY <2>6 DEF Vanish, PexTypeOK
    <3> QED BY <2>6, <3>1, <3>2, <3>3, <3>4 DEF Vanish, PexTypeOK
  <2>7. CASE AddPeer(p)
    <3>1. live' \in Seq(Peers) BY <2>7, AppendProperties DEF AddPeer, PexTypeOK
    <3> QED BY <2>7, <3>1 DEF AddPeer, PexTypeOK
  <2>8. CASE InsertRoutes(p) BY <2>8 DEF InsertRoutes, PexTypeOK
  <2> QED BY <2>3, <2>4, <2>5, <2>6, <2>7, <2>8
<1>2. Exchange' /\ WholeAnswer'
  <2>1. CASE UNCHANGED <<request, stream>>
    BY <2>1, SameExchange
  <2>2. CASE Vanish(p)
    BY <2>2 DEF Vanish, Exchange, WholeAnswer, Asked
  <2> QED BY <2>1, <2>2 DEF Dial, DialEnds, Incoming, AddPeer, InsertRoutes
<1>3. FindInv'
  BY <1>1, PeerExchangeAssumption
  DEF Dial, DialEnds, Incoming, Vanish, AddPeer, InsertRoutes, FindInv, TypeOK,
      Searching, Appended, search
<1> QED BY <1>1, <1>2, <1>3

\* FindPeer begins: Find is not in use.
LEMMA StartInv == ASSUME IInv, StartFind PROVE IInv'
<1> USE DEF IInv, PexInv, net, stream, request
<1>1. pc[Find] = "idle" /\ Find \in Requests /\ Config \in Seq(Peers)
      /\ \A r \in Routings : rt[r] = "idle"
  BY PeerExchangeAssumption DEF StartFind, FindInv, Searching, Routings
<1>2. PexTypeOK'
  <2>1. pc' \in [Requests -> {"idle", "open", "read", "ok", "err"}]
    BY <1>1 DEF StartFind, Begin, PexTypeOK
  <2>3. list' \in [Requests -> Seq(Peers)] BY <1>1 DEF StartFind, Begin, PexTypeOK
  <2>4. got' \in [Requests -> SUBSET Addresses] BY <1>1 DEF StartFind, Begin, PexTypeOK
  <2>2. \A q \in Requests : pc'[q] = "read" => pc[q] = "read" /\ list'[q] = list[q]
    BY <1>1 DEF StartFind, Begin, PexTypeOK
  <2> QED BY <2>1, <2>2, <2>3, <2>4 DEF StartFind, PexTypeOK
<1>3. Exchange' /\ WholeAnswer'
  <2>1. CASE UNCHANGED request
    BY <2>1, SameExchange DEF StartFind
  <2>2. CASE Begin(Find, Config)
    <3>1. /\ pc' = [pc EXCEPT ![Find] = "open"] /\ list' = [list EXCEPT ![Find] = Config]
          /\ got' = [got EXCEPT ![Find] = {}] /\ UNCHANGED stream
      BY <2>2 DEF StartFind, Begin
    <3> HIDE DEF request
    <3>2. Exchange' BY <1>1, <3>1 DEF PexTypeOK, Exchange, Asked
    <3>3. WholeAnswer' BY <1>1, <3>1 DEF PexTypeOK, WholeAnswer, Asked
    <3> QED BY <3>2, <3>3
  <2> QED BY <2>1, <2>2 DEF StartFind
<1>4. FindInv'
  <2>1. /\ rt' \in [Routings -> {"idle", "search", "answer", "append", "done"}]
        /\ \A r \in Routings : rt'[r] \in {"search", "done"} /\ reply[r] = {}
        /\ UNCHANGED <<target, reply, mutex, loaded, info, grace>> /\ find' = "running"
    BY <1>1 DEF StartFind, FindInv, Appended
  <2>2. IF rt'[Find] = "search" THEN list'[Find] = Config ELSE pc'[Find] = "idle"
    BY <1>1 DEF StartFind, Begin, Routings, PexTypeOK
  <2> QED BY <1>1, <1>2, <2>1, <2>2 DEF FindInv, TypeOK, Searching, Appended, Routings
<1> QED BY <1>2, <1>3, <1>4

\* The routings: who appends has the mutex, so nothing is appended meanwhile.
LEMMA RoutingInv ==
  ASSUME IInv, NEW r \in Routings, OtherAnswers(r) \/ Load(r) \/ Store(r)
  PROVE  IInv'
<1> USE DEF IInv
<1>1. PexInv' /\ UNCHANGED <<pc, list>>
  BY SamePex DEF OtherAnswers, Load, Store, pexVars, request
<1>2. CASE OtherAnswers(r)
  <2>1. \A a \in Advertised : a \in Addresses BY RoutingAssumption
  <2> QED BY <1>1, <1>2, <2>1 DEF OtherAnswers, PexInv, FindInv, TypeOK, Searching, Appended, Routings
<1>3. CASE Load(r)
  BY <1>1, <1>3, RoutingAssumption DEF Load, PexInv, FindInv, TypeOK, Searching, Appended, Routings
<1>4. CASE Store(r)
  BY <1>1, <1>4, RoutingAssumption DEF Store, PexInv, FindInv, TypeOK, Searching, Appended, Routings
<1> QED BY <1>2, <1>3, <1>4

\* PeXRouting answers with the target's part of one whole answer.
LEMMA PexAnswersInv == ASSUME IInv, PexAnswers PROVE IInv'
<1> USE DEF IInv, PexInv, net, stream, request
<1>1. /\ Find \in Requests /\ Find \in Routings /\ list[Find] = Config
      /\ pc[Find] = "ok" =>
           got[Find] = IF Config = <<>> THEN {} ELSE Book[Head(Config)]
      /\ pc[Find] = "err" => got[Find] = {}
  BY PeerExchangeAssumption
  DEF PexAnswers, FindInv, Searching, WholeAnswer, Exchange, Routings, Asked
<1>2. PexTypeOK' /\ Exchange' /\ WholeAnswer'
  BY <1>1 DEF PexAnswers, PexTypeOK, Exchange, WholeAnswer, Asked
<1>3. DEFINE mine == {a \in got[Find] : a.peer = target}
<1>4. /\ mine \subseteq Addresses
      /\ mine # {} => mine = {a \in Book[Head(Config)] : a.peer = target}
      /\ pc[Find] = "err" => mine = {}
  BY <1>1 DEF PexAnswers, PexTypeOK
<1>5. reply' = [reply EXCEPT ![Find] = mine] BY DEF PexAnswers
<1> HIDE DEF mine
<1>6. FindInv'
  BY <1>1, <1>2, <1>4, <1>5 DEF PexAnswers, FindInv, TypeOK, PexTypeOK, Searching, Appended
<1> QED BY <1>2, <1>6

\* The end of the search, and its timers.
LEMMA EndInv == ASSUME IInv, GraceOver \/ Timeout \/ Return PROVE IInv'
<1> USE DEF IInv, PexInv, net, stream, request, search
<1>1. PexTypeOK' /\ UNCHANGED <<platform, live, table, path, request, stream>>
  BY DEF GraceOver, Timeout, Return, FindInv, TypeOK, PexTypeOK
<1>2. Exchange' /\ WholeAnswer'
  BY <1>1 DEF Exchange, WholeAnswer, Asked
<1>3. FindInv'
  BY <1>1 DEF GraceOver, Timeout, Return, FindInv, TypeOK, Searching, Appended
<1> QED BY <1>1, <1>2, <1>3

\* IInv is inductive.
THEOREM Invariance == Spec => []IInv
<1>1. IInv /\ [Next]_vars => IInv'
  <2> SUFFICES ASSUME IInv, [Next]_vars PROVE IInv'
    OBVIOUS
  <2>1. CASE UNCHANGED vars
    <3>1. PexInv' BY <2>1, SamePex DEF vars, IInv
    <3> QED BY <2>1, <3>1 DEF vars, pexVars, request, search, IInv, PexInv, FindInv, TypeOK,
       Searching, Appended
  <2>2. CASE Next
    BY <2>2, ExchangeInv, ServiceInv, NetInv, StartInv, RoutingInv, PexAnswersInv, EndInv
    DEF Next, Internal, External, Environment
  <2> QED BY <2>1, <2>2
<1> QED BY <1>1, Initially, PTL DEF Spec

\* Type correctness; in it, that one routing at a time appends.
THEOREM TypeCorrect == Spec => []TypeOK
BY Invariance, PTL DEF IInv, FindInv

\* A request that reports success has all the peer's addresses, however lines,
\* resets and deadlines meet (p2p/pex.go:92).
THEOREM Whole == Spec => []WholeAnswer
BY Invariance, PTL DEF IInv, PexInv

\* A search returns what every routing answered (p2p/routing.go:34).
THEOREM NoneLost == Spec => []NothingLost
<1>1. IInv => NothingLost
  BY DEF IInv, FindInv, Searching, Appended, NothingLost
<1> QED BY <1>1, Invariance, PTL

-----------------------------------------------------------------------------
(***************************************************************************)
(* Discovery, for every set of peers and of callers, who call as often as  *)
(* they like: types, which include the bounds of the interval, and the rest    *)
(* after a pass.                                                           *)
(***************************************************************************)

\* The two intervals a pass can be followed by are among the intervals, and
\* none of them is short: doubling stays in the list until it is cut at 60.
LEMMA Intervals ==
  ASSUME NEW d \in Durations, NEW found \in BOOLEAN
  PROVE  LET next == IF ~found THEN 10 ELSE IF 2 * d >= 60 THEN 60 ELSE 2 * d
         IN  next \in Durations /\ next >= 2
BY DEF Durations

\* Every variable keeps to its values; todo only holds peers of the list,
\* and the ticker is set to the interval or to the millisecond of a request.
LEMMA DiscoveryTypeStep == DiscoveryTypeOK /\ [DiscoveryNext]_discovery => DiscoveryTypeOK'
<1> SUFFICES ASSUME DiscoveryTypeOK, [DiscoveryNext]_discovery PROVE DiscoveryTypeOK'
  OBVIOUS
<1> USE DiscoveryAssumption DEF DiscoveryTypeOK, ticker, network, loop
<1>1. ASSUME NEW a \in {0, 1}, Elapse(a) PROVE DiscoveryTypeOK'
  BY <1>1 DEF Elapse
<1>2. ASSUME NEW c \in Callers, TakeRequest(c) PROVE DiscoveryTypeOK'
  <2>1. 3 \in Durations
    BY DEF Durations
  <2>2. period' = 0 /\ arm' = 1 - arm /\ tick' = FALSE
    BY <1>2 DEF TakeRequest, Reset
  <2>3. /\ place' = place /\ dur' = 3 /\ waiting' \subseteq Callers
        /\ UNCHANGED <<todo, any, peers, connected, reachable>>
    BY <1>2 DEF TakeRequest
  <2>4. tick' \in BOOLEAN /\ any' \in BOOLEAN
    BY <2>2, <2>3, Zenon
  <2> QED BY <2>1, <2>2, <2>3, <2>4
<1>3. ASSUME NEW c \in Callers, Call(c) PROVE DiscoveryTypeOK'
  BY <1>3 DEF Call
<1>4. CASE TakeTick
  BY <1>4 DEF TakeTick
<1>5. CASE BackOff
  <2>1. dur' \in Durations
    BY <1>5, Intervals DEF BackOff
  <2>2. period' = dur' /\ arm' = 1 - arm /\ tick' = FALSE
    BY <1>5 DEF BackOff, Reset
  <2>3. /\ place' = "select" /\ UNCHANGED <<todo, any, peers, connected, reachable>>
        /\ UNCHANGED waiting
    BY <1>5 DEF BackOff
  <2>4. tick' \in BOOLEAN /\ any' \in BOOLEAN
    BY <2>2, <2>3, Zenon
  <2> QED BY <2>1, <2>2, <2>3, <2>4
<1>6. CASE DiscoverReturns
  BY <1>6 DEF DiscoverReturns
<1>7. ASSUME NEW p \in Candidates, AppendPeer(p) PROVE DiscoveryTypeOK'
  BY <1>7 DEF AppendPeer
<1>8. ASSUME NEW p \in Candidates, Visit(p) \/ VisitFails(p) PROVE DiscoveryTypeOK'
  BY <1>8 DEF Visit, VisitFails
<1>9. ASSUME NEW p \in Candidates,
             Connect(p) \/ Disconnect(p) \/ Appear(p) \/ Disappear(p)
      PROVE DiscoveryTypeOK'
  BY <1>9 DEF Connect, Disconnect, Appear, Disappear
<1>10. CASE UNCHANGED discovery
  BY <1>10 DEF discovery
<1> QED
  BY <1>1, <1>2, <1>3, <1>4, <1>5, <1>6, <1>7, <1>8, <1>9, <1>10 DEF DiscoveryNext

\* Discover's variables keep to their values; its interval stays between one
\* second and a minute however passes and requests alternate.
THEOREM DiscoveryTypeCorrect == DiscoverySpec => []DiscoveryTypeOK
<1>1. DiscoveryInit => DiscoveryTypeOK
  <2> SUFFICES ASSUME DiscoveryInit PROVE DiscoveryTypeOK
    OBVIOUS
  <2>1. 1 \in Durations
    BY DEF Durations
  <2>2. tick \in BOOLEAN /\ any \in BOOLEAN
    BY Zenon DEF DiscoveryInit
  <2>3. todo \subseteq peers /\ waiting \subseteq Callers /\ reachable \subseteq Candidates
    BY DEF DiscoveryInit
  <2> QED BY <2>1, <2>2, <2>3, DiscoveryAssumption DEF DiscoveryInit, DiscoveryTypeOK
<1>2. DiscoveryTypeOK /\ [DiscoveryNext]_discovery => DiscoveryTypeOK'
  BY DiscoveryTypeStep
<1> QED
  BY <1>1, <1>2, PTL DEF DiscoverySpec

\* Only BackOff ends a pass, and it leaves no tick and a whole interval.
LEMMA RestStep ==
  DiscoveryTypeOK /\ [DiscoveryNext]_discovery =>
    (place = "dial" /\ place' = "select" => period' >= 2 /\ ~tick')
<1> SUFFICES ASSUME DiscoveryTypeOK, [DiscoveryNext]_discovery, place = "dial", place' = "select"
             PROVE  period' >= 2 /\ ~tick'
  OBVIOUS
<1>1. BackOff
  BY DEF DiscoveryNext, discovery, ticker, network, loop,
     Elapse, TakeRequest, Call, TakeTick, DiscoverReturns,
     AppendPeer, Visit, VisitFails, Connect, Disconnect,
     Appear, Disappear
<1>2. period' = dur' /\ dur' >= 2
  BY <1>1, Intervals DEF BackOff, Reset, DiscoveryTypeOK
<1> QED
  BY <1>1, <1>2 DEF BackOff, Reset

\* After a pass Discover waits for at least two seconds: no tick of an earlier
\* setting of the ticker starts the next one.
THEOREM Rests == DiscoverySpec => RestsAfterPass
<1>1. DiscoveryTypeOK /\ [DiscoveryNext]_discovery =>
        [(place = "dial" /\ place' = "select") => period' >= 2 /\ ~tick']_discovery
  BY RestStep
<1> QED
  BY <1>1, DiscoveryTypeCorrect, PTL DEF DiscoverySpec, RestsAfterPass
==============================================================================
