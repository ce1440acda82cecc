---------------------------- MODULE PeerFinding ----------------------------
(***************************************************************************)
(* ParallelRouting.FindPeer (p2p/routing.go, routing_windows.go): one      *)
(* search for a peer by several routings at a time, of which one is        *)
(* PeXRouting (p2p/pex.go) and with it an exchange of PeerExchange.        *)
(***************************************************************************)
EXTENDS PeerExchange

CONSTANTS Others,     \* the other routings: DHT and delegated HTTP
          Advertised, \* addresses they may answer with
          NoOne       \* no routing holds the mutex

ASSUME RoutingAssumption ==
  NoOne \notin Others \cup {Find} /\ Advertised \subseteq Addresses

VARIABLES
  find,     \* FindPeer: idle, running, returned
  target,   \* the peer it looks for
  rt,       \* its goroutines: idle, search, answer, append, done
  reply,    \* the addresses a routing answered with
  mutex, loaded, info,
  grace     \* the AfterFunc of half a second: off, armed, fired

search == <<find, target, rt, reply, mutex, loaded, info, grace>>
vars == <<pexVars, search>>

Routings == Others \cup {Find}

TypeOK ==
  /\ PexTypeOK
  /\ find \in {"idle", "running", "returned"} /\ target \in Peers
  /\ rt \in [Routings -> {"idle", "search", "answer", "append", "done"}]
  /\ \A r \in Routings : rt[r] = "append" => mutex = r
  /\ reply \in [Routings -> SUBSET Addresses]
  /\ mutex \in Routings \cup {NoOne}
  /\ loaded \subseteq Addresses /\ info \subseteq Addresses
  /\ grace \in {"off", "armed", "fired"}

Init ==
  /\ PexInit
  /\ find = "idle" /\ target \in Peers
  /\ rt = [r \in Routings |-> "idle"] /\ reply = [r \in Routings |-> {}]
  /\ mutex = NoOne /\ loaded = {} /\ info = {} /\ grace = "off"

-----------------------------------------------------------------------------
\* The routed host has no connection to the peer.  PeXRouting knows the peers
\* of the start only: for another target it is not found at once, otherwise
\* all of them are to be asked.
StartFind ==
  /\ find = "idle" /\ path[target] = "none"
  /\ find' = "running"
  /\ IF target \in Members(Config)
     THEN Begin(Find, Config) /\ rt' = [r \in Routings |-> "search"]
     ELSE /\ UNCHANGED request
          /\ rt' = [r \in Routings |-> IF r = Find THEN "done" ELSE "search"]
  /\ UNCHANGED <<platform, live, table, net, stream, cancelled, target, reply, mutex,
                 loaded, info, grace>>

\* PeXRouting.FindPeer returns: an error, or what concerns the target, which
\* may be nothing.
PexAnswers ==
  /\ rt[Find] = "search" /\ pc[Find] \in {"ok", "err"}
  /\ rt' = [rt EXCEPT ![Find] = IF pc[Find] = "ok" THEN "answer" ELSE "done"]
  /\ reply' = [reply EXCEPT ![Find] = {a \in got[Find] : a.peer = target}]
  /\ pc' = [pc EXCEPT ![Find] = "idle"]
  /\ UNCHANGED <<platform, live, table, net, list, got, stream, cancelled, find, target,
                 mutex, loaded, info, grace>>

\* Another routing finds the peer, or does not; a cancelled context ends it.
OtherAnswers(r) ==
  /\ rt[r] = "search" /\ r # Find
  /\ \/ /\ ~cancelled
        /\ rt' = [rt EXCEPT ![r] = "answer"]
        /\ \E a \in Advertised : /\ a.peer = target
                                 /\ reply' = [reply EXCEPT ![r] = {a}]
     \/ rt' = [rt EXCEPT ![r] = "done"] /\ UNCHANGED reply
  /\ UNCHANGED <<pexVars, find, target, mutex, loaded, info, grace>>

\* mutex.Lock(), and append reads info.Addrs.
Load(r) ==
  /\ rt[r] = "answer" /\ mutex = NoOne
  /\ rt' = [rt EXCEPT ![r] = "append"]
  /\ mutex' = r /\ loaded' = info
  /\ UNCHANGED <<pexVars, find, target, reply, info, grace>>

\* info.Addrs = ..., and, not on Windows, the others get half a second more.
Store(r) ==
  /\ rt[r] = "append"
  /\ rt' = [rt EXCEPT ![r] = "done"]
  /\ info' = loaded \cup reply[r] /\ mutex' = NoOne
  /\ grace' = IF platform = "unix" /\ grace = "off" THEN "armed" ELSE grace
  /\ UNCHANGED <<pexVars, find, target, reply, loaded>>

\* cancelSubCtx from the AfterFunc, also when the call has returned.
GraceOver ==
  /\ grace = "armed"
  /\ grace' = "fired" /\ cancelled' = TRUE
  /\ UNCHANGED <<platform, live, table, net, request, stream, find, target, rt, reply,
                 mutex, loaded, info>>

\* The 30 s of context.WithTimeout.
Timeout ==
  /\ find = "running" /\ ~cancelled
  /\ cancelled' = TRUE
  /\ UNCHANGED <<platform, live, table, net, request, stream, search>>

\* Mutant: FindPeer returns with its context, without wg.Wait.
ReturnAtCancel ==
  /\ find = "running" /\ (cancelled \/ \A r \in Routings : rt[r] = "done")
  /\ find' = "returned" /\ cancelled' = TRUE
  /\ store' = store \cup info
  /\ dials' = IF info = {} THEN dials ELSE dials \cup {target}
  /\ UNCHANGED <<platform, live, table, up, path, events, changes, request, stream,
                 target, rt, reply, mutex, loaded, info, grace>>

\* wg.Wait is over: the routed host keeps the addresses and dials.  No address
\* is an error on Windows and an empty answer elsewhere, with which the host
\* has nothing to dial either.
Return ==
  /\ find = "running" /\ \A r \in Routings : rt[r] = "done"
  /\ find' = "returned" /\ cancelled' = TRUE
  /\ store' = store \cup info
  /\ dials' = IF info = {} THEN dials ELSE dials \cup {target}
  /\ UNCHANGED <<platform, live, table, up, path, events, changes, request, stream,
                 target, rt, reply, mutex, loaded, info, grace>>

-----------------------------------------------------------------------------
\* What this node does; the handlers at the other end are not part of it.
Internal ==
  \/ /\ \/ \E q \in Requests : RequestStep(q) \/ TakeEvent(q) \/ Learn(q)
        \/ \E p \in Peers : Dial(p) \/ DialEnds(p)
     /\ UNCHANGED search
  \/ \E r \in Routings : OtherAnswers(r) \/ Load(r) \/ Store(r)
  \/ PexAnswers \/ GraceOver \/ Timeout \/ Return

External ==
  \/ /\ (\E q \in Requests : HandlerStep(q)) \/ Environment
     /\ UNCHANGED search
  \/ StartFind

Next == Internal \/ External

Spec == Init /\ [][Next]_vars

\* The goroutines of this node are scheduled and its timers fire; a NewStream
\* and a dial end, and the other routings heed their context.  As there are
\* boundedly many changes from outside, it is enough that something is done
\* as long as something can be.  Nothing is assumed of the handler at the
\* other end, nor of the network.
FairSpec == Spec /\ WF_vars(Internal)

-----------------------------------------------------------------------------
(* Properties                                                              *)

\* FindPeer returns everything any routing answered, and, if the exchange
\* succeeded, all that the peer it asked has about the target: no answer is
\* lost to a concurrent append, to the cancellation, or to a broken stream.
NothingLost ==
  find = "returned" =>
    \A r \in Routings :
      /\ reply[r] \subseteq info
      /\ r = Find /\ reply[r] # {} =>
           reply[r] = {a \in Book[Head(Config)] : a.peer = target}

\* FindPeer returns, although its exchange reads from a peer that may stall
\* and does not heed the context: the deadline of the stream ends it.
FindReturns == (find = "running") ~> (find = "returned")

\* No exchange is stuck at either end (our end of FindPeer's is covered above):
\* when the requester gives up it resets the stream, which ends the handler.
ExchangesEnd ==
  /\ \A q \in Requests \ {Find} : (pc[q] # "idle") ~> (pc[q] = "idle")
  /\ \A q \in Requests :
       (handler[q] \in {"greet", "answer"}) ~> (handler[q] \notin {"greet", "answer"})

\* What the asked peer began to tell is dialed, address by address, or we are
\* connected already: a line that is on its way when the handler closes, or when
\* peers come and go, is not lost.  Only an exchange that breaks tells nothing.
LearnedIsDialed ==
  \A q \in Requests \ {Find}, p \in Peers :
    (pc[q] = "read" /\ handler[q] = "answer" /\ \E a \in Book[Asked(q)] : a.peer = p)
      ~> (p \in dials \/ path[p] # "none" \/ pc[q] = "err")
=============================================================================
