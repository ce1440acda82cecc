---------------------------- MODULE PeerExchange ----------------------------
(***************************************************************************)
(* p2p/pex.go: RequestPeX, the stream handler that answers it, PeXService, *)
(* which exchanges when a connection comes or goes, and the dials that     *)
(* follow, past the RecursionGater of p2p/routing.go.                      *)
(*                                                                         *)
(* A stream carries one question and one answer, line by line.  A line is  *)
(* an address, [peer, kind]: kind tells a public address from one inside   *)
(* the tunnel.  Formatting a line and decoding it are inverse, as both     *)
(* ends run this program.                                                  *)
(***************************************************************************)
EXTENDS Naturals, Sequences, FiniteSets

CONSTANTS
  Peers,       \* the other nodes
  Config,      \* the peers of the configuration file, in order
  Later,       \* peers the operator adds to the running node
  Book,        \* what the peerstore of a node holds of its own VPN peers
  Admitting,   \* nodes that have us among their peers
  Routed,      \* peers whose tunnel addresses the kernel routes to the interface
  Requests,    \* goroutines that run RequestPeX
  Find,        \* the one of them that ParallelRouting starts
  MaxChanges   \* bound: connections made by others, and losses of peers

Kinds == {"public", "tunnel4", "tunnel6"}
Addresses == [peer : Peers, kind : Kinds]
Members(list) == {list[i] : i \in DOMAIN list}

ASSUME PeerExchangeAssumption ==
  /\ Config \in Seq(Peers) /\ Later \subseteq Peers
  /\ Book \in [Peers -> SUBSET Addresses]
  /\ Admitting \subseteq Peers /\ Routed \subseteq Peers
  /\ Find \in Requests /\ MaxChanges \in Nat

VARIABLES
  platform,  \* which of routing.go and routing_windows.go was built
  live,      \* cfg.Peers
  table,     \* peers the table of routes leads their tunnel addresses to
  up,        \* peers that can be reached
  path,      \* kind of the address a peer is connected over, or "none"
  store,     \* our peerstore
  events,    \* EvtPeerConnectednessChanged, not yet taken
  changes,   \* changes made by others
  dials,     \* peers a goroutine calls host.Connect for
  pc,        \* where a request is: idle, open, read, ok, err
  list,      \* the peers it has still to ask
  got,       \* addrInfos
  handler,   \* the other end: none, greet, answer, closed, reset
  left,      \* lines the handler has still to write
  unread,    \* lines on the way
  cancelled  \* the context of FindPeer

net == <<up, path, store, events, changes, dials>>
stream == <<handler, left, unread>>
request == <<pc, list, got>>
pexVars == <<platform, live, table, net, request, stream, cancelled>>

PexTypeOK ==
  /\ platform \in {"unix", "windows"}
  /\ live \in Seq(Peers) /\ table \subseteq Peers /\ up \subseteq Peers
  /\ path \in [Peers -> Kinds \cup {"none"}]
  /\ store \subseteq Addresses
  /\ events \in Seq([peer : Peers, connected : BOOLEAN])
  /\ changes \in 0..MaxChanges /\ dials \subseteq Peers
  /\ pc \in [Requests -> {"idle", "open", "read", "ok", "err"}]
  /\ list \in [Requests -> Seq(Peers)]
  /\ \A q \in Requests : pc[q] = "read" => list[q] # <<>>
  /\ got \in [Requests -> SUBSET Addresses]
  /\ handler \in [Requests -> {"none", "greet", "answer", "closed", "reset"}]
  /\ left \in [Requests -> SUBSET Addresses]
  /\ unread \in [Requests -> SUBSET Addresses]
  /\ cancelled \in BOOLEAN

PexInit ==
  /\ platform \in {"unix", "windows"}
  /\ live = Config /\ table = Members(Config) /\ up = Peers
  /\ path = [p \in Peers |-> "none"] /\ store = {}
  /\ events = <<>> /\ changes = 0 /\ dials = {}
  /\ pc = [q \in Requests |-> "idle"] /\ list = [q \in Requests |-> <<>>]
  /\ got = [q \in Requests |-> {}]
  /\ handler = [q \in Requests |-> "none"]
  /\ left = [q \in Requests |-> {}] /\ unread = [q \in Requests |-> {}]
  /\ cancelled = FALSE

-----------------------------------------------------------------------------
(* RequestPeX                                                              *)

\* The peer a request talks to.
Asked(q) == Head(list[q])
Cancelled(q) == q = Find /\ cancelled
Known(p) == \E a \in store : a.peer = p
Begin(q, ps) == /\ pc' = [pc EXCEPT ![q] = "open"]
                /\ list' = [list EXCEPT ![q] = ps]
                /\ got' = [got EXCEPT ![q] = {}]

\* NewStream succeeds, with a connection or an address to make one, and the
\* question is written.  The handler refuses a node that is not in its list.
Open(q) ==
  /\ pc[q] = "open" /\ list[q] # <<>> /\ ~Cancelled(q)
  /\ Asked(q) \in up /\ (path[Asked(q)] # "none" \/ Known(Asked(q)))
  /\ pc' = [pc EXCEPT ![q] = "read"]
  /\ handler' = [handler EXCEPT ![q] = IF Asked(q) \in Admitting
                                       THEN "greet" ELSE "reset"]
  /\ UNCHANGED <<platform, live, table, net, list, got, left, unread, cancelled>>

\* return nil, err: what other peers have answered is dropped.
Fail(q) == pc' = [pc EXCEPT ![q] = "err"] /\ got' = [got EXCEPT ![q] = {}]

OpenFails(q) ==
  /\ pc[q] = "open" /\ list[q] # <<>>
  /\ Fail(q)
  /\ UNCHANGED <<platform, live, table, net, list, stream, cancelled>>

\* The loop is over; as it ends at the first answer, the list was empty.
NoneToAsk(q) ==
  /\ pc[q] = "open" /\ list[q] = <<>>
  /\ pc' = [pc EXCEPT ![q] = "ok"]
  /\ UNCHANGED <<platform, live, table, net, list, got, stream, cancelled>>

ReadLine(q) ==
  /\ pc[q] = "read" /\ handler[q] # "reset"
  /\ \E a \in unread[q] :
       /\ unread' = [unread EXCEPT ![q] = @ \ {a}]
       /\ got' = [got EXCEPT ![q] = @ \cup {a}]
  /\ UNCHANGED <<platform, live, table, net, pc, list, handler, left, cancelled>>

\* Mutant: whatever is read when the connection ends is taken for the answer.
EndOfAnswerEarly(q) ==
  /\ pc[q] = "read" /\ handler[q] \in {"closed", "reset"}
  /\ pc' = [pc EXCEPT ![q] = "ok"]
  /\ UNCHANGED <<platform, live, table, net, list, got, stream, cancelled>>

\* io.EOF, behind the last line: return addrInfos, nil.
EndOfAnswer(q) ==
  /\ pc[q] = "read" /\ handler[q] = "closed" /\ unread[q] = {}
  /\ pc' = [pc EXCEPT ![q] = "ok"]
  /\ UNCHANGED <<platform, live, table, net, list, got, stream, cancelled>>

\* Mutant: no deadline is set.
ReadFailsOnReset(q) ==
  /\ pc[q] = "read" /\ handler[q] = "reset"
  /\ Fail(q)
  /\ unread' = [unread EXCEPT ![q] = {}]
  /\ UNCHANGED <<platform, live, table, net, list, handler, left, cancelled>>

\* Mutant: the stream is closed and not reset.
ReadFailsQuietly(q) ==
  /\ pc[q] = "read"
  /\ Fail(q)
  /\ unread' = [unread EXCEPT ![q] = {}]
  /\ UNCHANGED <<platform, live, table, net, list, handler, left, cancelled>>

\* Any other error: the stream was reset, or ten seconds have passed.
\* checkErrPeX resets it, which ends the handler.
ReadFails(q) ==
  /\ pc[q] = "read"
  /\ Fail(q)
  /\ unread' = [unread EXCEPT ![q] = {}]
  /\ handler' = [handler EXCEPT ![q] = "reset"]
  /\ UNCHANGED <<platform, live, table, net, list, left, cancelled>>

-----------------------------------------------------------------------------
(* The handler of the peer that is asked                                   *)

\* What it may tell: its book, without the node that asks (which is not in
\* Peers, so it never is).
ReadQuestion(q) ==
  /\ handler[q] = "greet" /\ pc[q] = "read"
  /\ handler' = [handler EXCEPT ![q] = "answer"]
  /\ left' = [left EXCEPT ![q] = Book[Asked(q)]]
  /\ UNCHANGED <<platform, live, table, net, request, unread, cancelled>>

WriteLine(q) ==
  /\ handler[q] = "answer"
  /\ \E a \in left[q] :
       /\ left' = [left EXCEPT ![q] = @ \ {a}]
       /\ unread' = [unread EXCEPT ![q] = @ \cup {a}]
  /\ UNCHANGED <<platform, live, table, net, request, handler, cancelled>>

CloseAnswer(q) ==
  /\ handler[q] = "answer" /\ left[q] = {}
  /\ handler' = [handler EXCEPT ![q] = "closed"]
  /\ UNCHANGED <<platform, live, table, net, request, left, unread, cancelled>>

-----------------------------------------------------------------------------
(* PeXService                                                              *)

\* An event of a peer that is in the list now starts a goroutine: with that
\* peer, or with all peers when it was lost.
TakeEvent(q) ==
  /\ events # <<>> /\ q # Find /\ pc[q] = "idle"
  /\ events' = Tail(events)
  /\ LET e == Head(events) IN
     IF e.peer \in Members(live)
     THEN Begin(q, IF e.connected THEN <<e.peer>> ELSE live)
     ELSE UNCHANGED request
  /\ UNCHANGED <<platform, live, table, up, path, store, changes, dials, stream, cancelled>>

\* Mutant: the addresses are kept and nobody is dialed.
LearnOnly(q) ==
  /\ q # Find /\ pc[q] \in {"ok", "err"}
  /\ pc' = [pc EXCEPT ![q] = "idle"]
  /\ store' = store \cup got[q]
  /\ UNCHANGED <<platform, live, table, up, path, events, changes, dials, list, got,
                 stream, cancelled>>

\* The goroutine keeps what it got, for 30 s, starts a dial per address, and
\* ends; after an error it has nothing.  Dials of one peer run into one.
Learn(q) ==
  /\ q # Find /\ pc[q] \in {"ok", "err"}
  /\ pc' = [pc EXCEPT ![q] = "idle"]
  /\ store' = store \cup got[q]
  /\ dials' = dials \cup {a.peer : a \in got[q]}
  /\ UNCHANGED <<platform, live, table, up, path, events, changes, list, got, stream, cancelled>>

-----------------------------------------------------------------------------
(* Connections                                                             *)

Event(p, c) == [peer |-> p, connected |-> c]

\* InterceptAddrDial: an IPv4 address that the table leads to the very peer we
\* are dialing is one inside the tunnel we want to build.  On Windows that is
\* enough; elsewhere the kernel is asked as well, and as the gater lets the
\* dial pass when it gets no answer, the address is not safe from being used.
Refuses(a, answered) ==
  /\ a.kind = "tunnel4" /\ a.peer \in table
  /\ platform = "windows" \/ (answered /\ a.peer \in Routed)

\* host.Connect tries the addresses the peerstore has of the peer.
Dial(p) ==
  /\ p \in dials /\ path[p] = "none" /\ p \in up
  /\ \E a \in store, answered \in BOOLEAN :
       /\ a.peer = p /\ ~Refuses(a, answered)
       /\ path' = [path EXCEPT ![p] = a.kind]
  /\ dials' = dials \ {p}
  /\ events' = Append(events, Event(p, TRUE))
  /\ UNCHANGED <<platform, live, table, up, store, changes, request, stream, cancelled>>

\* There is a connection already, or none is made: the peer is not there, every
\* address is refused or too old, the dial takes too long, or an earlier one
\* failed and the transport backs off.  Nobody looks at the error.
DialEnds(p) ==
  /\ p \in dials
  /\ dials' = dials \ {p}
  /\ UNCHANGED <<platform, live, table, up, path, store, events, changes, request,
                 stream, cancelled>>

\* A peer connects to us; identify tells its address.
Incoming(p) ==
  /\ changes < MaxChanges /\ path[p] = "none" /\ p \in up
  /\ changes' = changes + 1
  /\ path' = [path EXCEPT ![p] = "public"]
  /\ store' = store \cup {[peer |-> p, kind |-> "public"]}
  /\ events' = Append(events, Event(p, TRUE))
  /\ UNCHANGED <<platform, live, table, up, dials, request, stream, cancelled>>

\* A peer is gone: its streams break at both ends.
Vanish(p) ==
  /\ changes < MaxChanges /\ p \in up
  /\ changes' = changes + 1
  /\ up' = up \ {p} /\ path' = [path EXCEPT ![p] = "none"]
  /\ events' = IF path[p] = "none" THEN events ELSE Append(events, Event(p, FALSE))
  /\ handler' = [q \in Requests |-> IF pc[q] = "read" /\ Asked(q) = p
                                    THEN "reset" ELSE handler[q]]
  /\ UNCHANGED <<platform, live, table, store, dials, request, left, unread, cancelled>>

\* The RPC method AddPeer appends the peer, and then fills the table: who looks
\* in between finds one and not the other.
AddPeer(p) ==
  /\ p \in Later /\ p \notin Members(live)
  /\ live' = Append(live, p)
  /\ UNCHANGED <<platform, table, net, request, stream, cancelled>>

InsertRoutes(p) ==
  /\ p \in Members(live) /\ p \notin table
  /\ table' = table \cup {p}
  /\ UNCHANGED <<platform, live, net, request, stream, cancelled>>

-----------------------------------------------------------------------------
RequestStep(q) == Open(q) \/ OpenFails(q) \/ NoneToAsk(q)
                  \/ ReadLine(q) \/ EndOfAnswer(q) \/ ReadFails(q)
HandlerStep(q) == ReadQuestion(q) \/ WriteLine(q) \/ CloseAnswer(q)
Environment == \E p \in Peers : Incoming(p) \/ Vanish(p) \/ AddPeer(p) \/ InsertRoutes(p)

\* What a request that was answered has in its hands: the question went to the
\* first peer of its list and to no other.
WholeAnswer ==
  \A q \in Requests :
    pc[q] = "ok" => got[q] = IF list[q] = <<>> THEN {} ELSE Book[Asked(q)]
=============================================================================
