----------------------------- MODULE Discovery -----------------------------
(***************************************************************************)
(* p2p.Discover and p2p.Rediscover (p2p/discover.go): the loop that dials  *)
(* the configured peers with a growing interval, and the callers that want *)
(* it to look at once: a failed NewStream in sendPacket, the RPC method    *)
(* AddPeer after it added a peer, and SIGUSR1.                             *)
(*                                                                         *)
(* Time is abstract: the ticker's interval is remembered, and that it has  *)
(* elapsed is an event.  A ticker that is Reset starts over, so the event  *)
(* belongs to one setting of the ticker, which arm tells from the next.    *)
(***************************************************************************)
EXTENDS Naturals

CONSTANTS Candidates,   \* peers that are configured or may be added
          Configured,   \* the peers of the configuration file
          Callers       \* goroutines that call Rediscover, as often as they like

ASSUME DiscoveryAssumption == Configured \subseteq Candidates

VARIABLES
  place,      \* Discover: at its select, dialing, or returned
  todo,       \* peers of the snapshot of cfg.Peers still to look at
  any,        \* connectedToAny
  dur,        \* dur, in seconds
  period,     \* what the ticker is set to, in seconds; 0 is a millisecond
  arm,        \* which setting of the ticker this is
  tick,       \* a tick waits in ticker.C
  peers,      \* cfg.Peers
  connected,  \* peers the host has a connection to
  reachable,  \* peers a dial would find
  waiting     \* callers blocked in discoverNow <- true

ticker == <<period, arm, tick>>
discovery == <<place, todo, any, dur, ticker, peers, connected, reachable, waiting>>

Durations == {1, 2, 3, 4, 6, 8, 10, 12, 16, 20, 24, 32, 40, 48, 60}

DiscoveryTypeOK ==
  /\ place \in {"select", "dial", "returned"}
  /\ todo \subseteq peers /\ any \in BOOLEAN
  /\ dur \in Durations /\ period \in {0, dur}
  /\ arm \in {0, 1} /\ tick \in BOOLEAN
  /\ peers \subseteq Candidates
  /\ connected \subseteq Candidates /\ reachable \subseteq Candidates
  /\ waiting \subseteq Callers

DiscoveryInit ==
  /\ place = "select" /\ todo = {} /\ any = FALSE
  /\ dur = 1 /\ period = 1 /\ arm = 0 /\ tick = FALSE
  /\ peers = Configured
  /\ connected = {} /\ reachable \in SUBSET Candidates
  /\ waiting = {}

-----------------------------------------------------------------------------
network == <<connected, reachable>>

\* Mutant: as before Go 1.23, Reset leaves a tick of the old setting.
ResetKeepsTick(p) == period' = p /\ arm' = 1 - arm /\ UNCHANGED tick

\* ticker.Reset; with the Go version of go.mod it drops a waiting tick.
Reset(p) == period' = p /\ arm' = 1 - arm /\ tick' = FALSE

\* The interval elapses; a tick that was not fetched yet swallows it.
Elapse(a) == /\ place # "returned" /\ arm = a /\ ~tick
             /\ tick' = TRUE
             /\ UNCHANGED <<place, todo, any, dur, period, arm, peers, network, waiting>>

\* case <-discoverNow: the caller is released.
TakeRequest(c) ==
  /\ place = "select" /\ c \in waiting
  /\ waiting' = waiting \ {c}
  /\ dur' = 3
  /\ Reset(0)
  /\ UNCHANGED <<place, todo, any, peers, network>>

\* Mutant: the pass is over the peers the daemon was started with.
TakeTickConfigured ==
  /\ place = "select" /\ tick
  /\ place' = "dial" /\ tick' = FALSE
  /\ todo' = Configured /\ any' = FALSE
  /\ UNCHANGED <<dur, period, arm, peers, network, waiting>>

\* Mutant: there is no pass while there is a connection.
TakeTickIfLonely ==
  /\ place = "select" /\ tick
  /\ place' = (IF connected = {} THEN "dial" ELSE "select") /\ tick' = FALSE
  /\ todo' = (IF connected = {} THEN peers ELSE {}) /\ any' = FALSE
  /\ UNCHANGED <<dur, period, arm, peers, network, waiting>>

\* case <-ticker.C: the range loop fixes the list of peers here.
TakeTick ==
  /\ place = "select" /\ tick
  /\ place' = "dial" /\ tick' = FALSE
  /\ todo' = peers /\ any' = FALSE
  /\ UNCHANGED <<dur, period, arm, peers, network, waiting>>

\* One round of the range loop, with a peer that is connected or that
\* DialPeer connects to.
Visit(p) ==
  /\ place = "dial" /\ p \in todo
  /\ p \in connected \cup reachable
  /\ todo' = todo \ {p}
  /\ connected' = connected \cup {p} /\ any' = TRUE
  /\ UNCHANGED <<place, dur, ticker, peers, reachable, waiting>>

\* Mutant: a peer is dialed until it is found.
VisitAgain(p) ==
  /\ place = "dial" /\ p \in todo
  /\ p \notin connected
  /\ UNCHANGED discovery

\* DialPeer returns an error, also because of the transport's back-off after
\* an earlier one: continue with the next peer.
VisitFails(p) ==
  /\ place = "dial" /\ p \in todo
  /\ p \notin connected
  /\ todo' = todo \ {p}
  /\ UNCHANGED <<place, any, dur, ticker, peers, network, waiting>>

\* The pass is over: without any connection bootstrap the DHT, which is left
\* out here (its effect is that peers appear), and try again in ten seconds,
\* otherwise double the interval up to a minute.
BackOff ==
  /\ place = "dial" /\ todo = {}
  /\ place' = "select"
  /\ dur' = IF ~any THEN 10 ELSE IF 2 * dur >= 60 THEN 60 ELSE 2 * dur
  /\ Reset(dur')
  /\ UNCHANGED <<todo, any, peers, network, waiting>>

\* ctx.Done(): nobody receives from discoverNow any more.
DiscoverReturns ==
  /\ place = "select"
  /\ place' = "returned"
  /\ UNCHANGED <<todo, any, dur, ticker, peers, network, waiting>>

-----------------------------------------------------------------------------
(* The callers and the network                                             *)

loop == <<place, todo, any, dur, ticker>>

\* The RPC method AddPeer appends a peer; the loop may see it before the call
\* of Rediscover that follows.
AppendPeer(p) == /\ p \notin peers /\ peers' = peers \cup {p}
                 /\ UNCHANGED <<loop, network, waiting>>

\* Rediscover() is called: the send waits for the loop.  Every packet whose
\* stream cannot be opened calls it, so a caller never runs out of calls.
Call(c) ==
  /\ c \notin waiting
  /\ waiting' = waiting \cup {c}
  /\ UNCHANGED <<loop, network, peers>>

\* A peer dials us; connections break; peers come and go.
Connect(p) == /\ p \notin connected /\ connected' = connected \cup {p}
              /\ UNCHANGED <<loop, reachable, peers, waiting>>

Disconnect(p) == /\ p \in connected /\ connected' = connected \ {p}
                 /\ UNCHANGED <<loop, reachable, peers, waiting>>

Appear(p) == /\ p \notin reachable /\ reachable' = reachable \cup {p}
             /\ UNCHANGED <<loop, connected, peers, waiting>>

Disappear(p) == /\ p \in reachable /\ reachable' = reachable \ {p}
                /\ UNCHANGED <<loop, connected, peers, waiting>>

-----------------------------------------------------------------------------
DiscoveryNext ==
  \/ \E a \in {0, 1} : Elapse(a)
  \/ \E c \in Callers : TakeRequest(c) \/ Call(c)
  \/ TakeTick \/ BackOff \/ DiscoverReturns
  \/ \E p \in Candidates : \/ AppendPeer(p) \/ Visit(p) \/ VisitFails(p)
                          \/ Connect(p) \/ Disconnect(p)
                          \/ Appear(p) \/ Disappear(p)

DiscoverySpec == DiscoveryInit /\ [][DiscoveryNext]_discovery

\* The loop is scheduled and a dial ends (DialPeer has a timeout); a peer that
\* is there whenever it is dialed is found in the end.  A ticker fires if it
\* is not set anew before its time: each setting has a fairness of its own.
\* The select chooses at random among ready cases, and senders on a channel
\* are served in order, so no ready case waits for ever.
FairDiscovery ==
  /\ DiscoverySpec
  /\ \A a \in {0, 1} : WF_discovery(Elapse(a))
  /\ WF_discovery(BackOff)
  /\ WF_discovery(\E p \in Candidates : Visit(p) \/ VisitFails(p))
  /\ \A p \in Candidates : SF_discovery(Visit(p))
  /\ SF_discovery(TakeTick)
  /\ \A c \in Callers : SF_discovery(TakeRequest(c))

-----------------------------------------------------------------------------
(* Properties                                                              *)

\* After a pass the loop rests for the whole of the new interval: no tick of
\* an earlier setting, above all of the millisecond one, starts another
\* pass.
RestsAfterPass ==
  [][(place = "dial" /\ place' = "select") => period' >= 2 /\ ~tick']_discovery

\* Rediscover returns: the RPC that added a peer is answered and the signal
\* handler goes back to its loop, also when the loop is in a slow pass or
\* other callers keep coming, as long as the daemon runs.
CallersReturn ==
  \A c \in Callers : (c \in waiting) ~> (c \notin waiting \/ place = "returned")

\* Requests that come without end: each sets the ticker anew, and it may never
\* get to its millisecond.
RequestsForEver == []<><<\E c \in Callers : TakeRequest(c)>>_discovery

\* A peer of the configuration, or one added later, that can be reached is
\* connected to: no list of peers is stale for ever.  Only requests without
\* end can keep the loop from its passes.
PeersAreConnected ==
  \/ \A p \in Candidates :
       (p \in peers /\ p \in reachable)
         ~> (p \in connected \/ p \notin reachable \/ place = "returned")
  \/ RequestsForEver

\* "Immediately trigger discovery" (p2p/discover.go:29): a request is followed
\* by a pass, if not while a burst of requests lasts then after it, however
\* long it was.  Without the exception this is false.
RequestTriggersPass ==
  \/ (place = "select" /\ period = 0) ~> (place \in {"dial", "returned"})
  \/ RequestsForEver
=============================================================================
