------------------------------ MODULE Registry ------------------------------
(***************************************************************************)
(* The configuration of a running node and the requests that change it:    *)
(* the AddPeer and Route methods of the RPC server (rpc/server.go, also    *)
(* behind the JSON-RPC server), config.AddPeer and the lookups             *)
(* (config/config.go), the kernel's routes (tun/), which UpRun sets up      *)
(* while requests are already served, and the forwarding loop's            *)
(* FindRouteForIP.  net/rpc and net/http serve every request in a          *)
(* goroutine of its own and nothing in config is guarded by a lock, so a   *)
(* request is cut at its accesses to shared state.                         *)
(***************************************************************************)
EXTENDS Naturals, Sequences, FiniteSets

CONSTANTS
  Peers, Names, Nets, Addrs,
  None,          \* no peer, no operation
  NoName,        \* the empty name
  Lower,         \* strings.ToLower on Names
  Host4, Host6,  \* mkBuiltinAddr4/6 of a peer, as host networks
  Covers,        \* the addresses in a network
  Self, Service, \* the node itself; the service network of a peer, or its own
  ConfigPeers,   \* the peers of the configuration file, in order
  ConfigRoutes,  \* the "routes" of the file: network -> peer or None
  Requests,      \* request goroutines
  Ops            \* what clients ask that wait for each other (Ops[TRUE]) and
                 \* that do not (Ops[FALSE])

Entry(id, name) == [id |-> id, name |-> name]

ASSUME RegistryAssumption ==
  /\ None \notin Peers /\ NoName \in Names
  /\ Host4 \in [Peers -> Nets] /\ Host6 \in [Peers -> Nets]
  /\ Lower \in [Names -> Names]
  /\ Covers \in [Nets -> SUBSET Addrs]
  /\ Service \in [Peers \cup {Self} -> Nets]
  /\ ConfigPeers \in Seq([id : Peers, name : Names])
  /\ ConfigRoutes \in [Nets -> Peers \cup {None}]
  /\ DOMAIN Ops = BOOLEAN
  /\ \A o \in Ops[TRUE] \cup Ops[FALSE] :
       /\ o # None /\ o.kind \in {"addPeer", "routeAdd", "routeDel"}
       /\ o.kind = "addPeer" => o.id \in Peers /\ o.name \in Names
       /\ o.kind # "addPeer" => o.net \in Nets

VARIABLES
  serial,   \* the clients wait for each other: no two requests overlap
  alive,    \* the process has not crashed
  peers,    \* cfg.Peers
  table,    \* PeerLookup.ByRoute: network -> peer or None
  byName,   \* PeerLookup.ByName, keyed by the name in lower case
  byNetID,  \* PeerLookup.ByNetID; the key is what Host6 adds to its prefix
  kernel,   \* networks the kernel sends to the interface
  warned,   \* networks a "Failed to add ... route" warning was printed for
  stranded, \* networks whose route a "del" that failed could not put back
  listed,   \* UpRun has added the service networks to its options
  pending,  \* the routes among its options that it has not applied yet
  pc, op, reply,
  loaded,   \* the slice append read
  target    \* the peer a request got from a lookup

config == <<peers, table, byName, byNetID>>
routing == <<kernel, warned, stranded>>
setUp == <<listed, pending>>
vars == <<serial, alive, config, routing, setUp, pc, op, reply, loaded, target>>

TypeOK ==
  /\ serial \in BOOLEAN
  /\ alive \in BOOLEAN
  /\ peers \in Seq([id : Peers, name : Names])
  /\ table \in [Nets -> Peers \cup {None}]
  /\ byName \in [Names -> Peers \cup {None}]
  /\ byNetID \in [Nets -> Peers \cup {None}]
  /\ kernel \subseteq Nets /\ warned \subseteq Nets /\ stranded \subseteq Nets
  /\ listed \in BOOLEAN /\ pending \subseteq Nets
  /\ pc \in [Requests -> {"idle", "checkID", "checkName", "append", "store",
                          "index", "last", "apply4", "apply6", "rediscover",
                          "resolve", "applyRoute", "insert",
                          "unroute", "remove", "done"}]
  /\ op \in [Requests -> Ops[serial] \cup {None}]
  /\ reply \in [Requests -> {"none", "ok", "error"}]
  /\ target \in [Requests -> Peers \cup {None}]
  /\ \A r \in Requests :
       pc[r] \in {"apply4", "apply6", "insert"} => target[r] # None

\* The networks of a peer, and what config.AddPeer does to the table.
HasAddr(id, net) == net \in {Host4[id], Host6[id]}
Routed(t, id) == [t EXCEPT ![Host4[id]] = id, ![Host6[id]] = id]

\* Of the peers of the file with one key the last one wins.
LastOf(indices) ==
  IF indices = {} THEN None
  ELSE ConfigPeers[CHOOSE i \in indices : \A j \in indices : j <= i].id

\* config.Read goes through the file's peers in order and inserts a peer's own
\* routes and its two addresses, over what an earlier one has inserted.
ReadTable ==
  [net \in Nets |-> LastOf({i \in 1..Len(ConfigPeers) :
                              LET id == ConfigPeers[i].id
                              IN HasAddr(id, net) \/ ConfigRoutes[net] = id})]

\* config.Read, then UpRun up to where it starts the servers: the routes of the
\* table are listed as options, and none is applied.
Init ==
  /\ serial \in BOOLEAN
  /\ alive = TRUE
  /\ peers = ConfigPeers
  /\ table = ReadTable
  /\ byName = [n \in Names |->
       LastOf({i \in 1..Len(ConfigPeers) : /\ ConfigPeers[i].name # NoName
                                           /\ Lower[ConfigPeers[i].name] = n})]
  /\ byNetID = [k \in Nets |->
       LastOf({i \in 1..Len(ConfigPeers) : Host6[ConfigPeers[i].id] = k})]
  /\ kernel = {} /\ warned = {} /\ stranded = {}
  /\ listed = FALSE
  /\ pending = {net \in Nets : table[net] # None}
  /\ pc = [r \in Requests |-> "idle"] /\ op = [r \in Requests |-> None]
  /\ reply = [r \in Requests |-> "none"]
  /\ loaded = [r \in Requests |-> <<>>]
  /\ target = [r \in Requests |-> None]

-----------------------------------------------------------------------------
At(r, from) == alive /\ pc[r] = from
Goto(r, to) == pc' = [pc EXCEPT ![r] = to] /\ UNCHANGED <<serial, alive, setUp, op, reply>>
Reply(r, what) == /\ pc' = [pc EXCEPT ![r] = "done"]
                  /\ reply' = [reply EXCEPT ![r] = what]
                  /\ UNCHANGED <<serial, alive, setUp, op>>
held == <<loaded, target>>
SetUp == listed /\ pending = {}

\* UpRun reads cfg.Peers once more, for the service networks.
ListServices ==
  /\ alive /\ ~listed
  /\ listed' = TRUE
  /\ pending' = pending \cup {Service[Self]}
                        \cup {Service[peers[i].id] : i \in 1..Len(peers)}
  /\ UNCHANGED <<serial, alive, config, routing, pc, op, reply, held>>

\* tunDev.Apply(routeOpts...) adds one route after the other, in an order that
\* is fixed: those of the table first.
NextOption == LET first == {net \in pending : ReadTable[net] # None}
              IN CHOOSE net \in IF first # {} THEN first ELSE pending : TRUE
ApplyNext ==
  /\ alive /\ listed /\ pending # {} /\ NextOption \notin kernel
  /\ kernel' = kernel \cup {NextOption}
  /\ pending' = pending \ {NextOption}
  /\ UNCHANGED <<serial, alive, config, warned, stranded, listed, pc, op, reply, held>>

\* The first that fails, because a request has added it or for any reason of
\* the kernel's, ends the process (checkErr), as do the steps before.
SetUpFails ==
  /\ alive /\ ~SetUp
  /\ alive' = FALSE
  /\ UNCHANGED <<serial, config, routing, setUp, pc, op, reply, held>>

\* A call arrives with its arguments.
Start(r) ==
  /\ At(r, "idle")
  /\ serial => \A q \in Requests : pc[q] \in {"idle", "done"}
  /\ \E o \in Ops[serial] :
       /\ op' = [op EXCEPT ![r] = o]
       /\ pc' = [pc EXCEPT ![r] = CASE o.kind = "addPeer" -> "checkID"
                                    [] o.kind = "routeAdd" -> "resolve"
                                    [] o.kind = "routeDel" -> "unroute"]
  /\ UNCHANGED <<serial, alive, config, routing, setUp, reply, held>>

Known(id) == \E i \in 1..Len(peers) : peers[i].id = id
Named(name) == \E i \in 1..Len(peers) : peers[i].name = name

\* Mutant: only the pair of ID and name has to be new.
CheckIDAndName(r) ==
  /\ At(r, "checkID")
  /\ IF op[r].name = NoName \/ \E i \in 1..Len(peers) :
                                  peers[i] = Entry(op[r].id, op[r].name)
     THEN Reply(r, "error") ELSE Goto(r, "append")
  /\ UNCHANGED <<config, routing, held>>

\* An empty name is refused; FindPeer, then "Peer already exists".
CheckID(r) ==
  /\ At(r, "checkID")
  /\ IF op[r].name = NoName \/ Known(op[r].id)
     THEN Reply(r, "error") ELSE Goto(r, "checkName")
  /\ UNCHANGED <<config, routing, held>>

\* FindPeerByName compares names as they are written.
CheckName(r) ==
  /\ At(r, "checkName")
  /\ IF Named(op[r].name) THEN Reply(r, "error") ELSE Goto(r, "append")
  /\ UNCHANGED <<config, routing, held>>

\* cfg.Peers = append(cfg.Peers, newPeer) reads the slice and writes it.
LoadPeers(r) ==
  /\ At(r, "append")
  /\ loaded' = [loaded EXCEPT ![r] = peers]
  /\ Goto(r, "store")
  /\ UNCHANGED <<config, routing, target>>

StorePeers(r) ==
  /\ At(r, "store")
  /\ peers' = Append(loaded[r], Entry(op[r].id, op[r].name))
  /\ loaded' = [loaded EXCEPT ![r] = <<>>]
  /\ Goto(r, "index")
  /\ UNCHANGED <<table, byName, byNetID, routing, target>>

\* ByRoute is a trie without a lock: of two goroutines that change it at the
\* same time, one may link a node over the other's, whose change is lost.
Changing(r) == pc[r] \in {"index", "insert", "remove"}
Contended(r) == \E q \in Requests \ {r} : Changing(q)
Results(r, new) ==
  LET changed == {net \in Nets : new[net] # table[net]} IN
  {[net \in Nets |-> IF net \in lost THEN table[net] ELSE new[net]] :
     lost \in IF Contended(r) THEN SUBSET changed ELSE {{}}}

\* Mutant: ByNetID is forgotten.
IndexNoNetID(r) ==
  /\ At(r, "index")
  /\ table' \in Results(r, Routed(table, op[r].id))
  /\ byName' = [byName EXCEPT ![Lower[op[r].name]] = op[r].id]
  /\ Goto(r, "last")
  /\ UNCHANGED <<peers, byNetID, routing, held>>

\* Mutant: the second Insert is forgotten.
IndexOnly4(r) ==
  /\ At(r, "index")
  /\ LET id == op[r].id IN
     /\ table' \in Results(r, [table EXCEPT ![Host4[id]] = id])
     /\ byName' = [byName EXCEPT ![Lower[op[r].name]] = id]
     /\ byNetID' = [byNetID EXCEPT ![Host6[id]] = id]
  /\ Goto(r, "last")
  /\ UNCHANGED <<peers, routing, held>>

\* ByRoute.Insert twice, ByName, ByNetID
Index(r) ==
  /\ At(r, "index")
  /\ LET id == op[r].id IN
     /\ table' \in Results(r, Routed(table, id))
     /\ byName' = [byName EXCEPT ![Lower[op[r].name]] = id]
     /\ byNetID' = [byNetID EXCEPT ![Host6[id]] = id]
  /\ Goto(r, "last")
  /\ UNCHANGED <<peers, routing, held>>

\* Two accesses at once, one of them a write, to the maps or to the slice
\* header: the process may end ("concurrent map writes", or an index out of
\* range from half a header); otherwise they take effect one by one.
ReadsPeers(r) == pc[r] \in {"checkID", "checkName", "append", "last", "resolve"}
Conflict(r, q) == \/ pc[r] = "index" /\ pc[q] = "index"
                  \/ pc[r] = "store" /\ (pc[q] = "store" \/ ReadsPeers(q))

RaceFatal ==
  /\ alive
  /\ \/ \E r, q \in Requests : r # q /\ Conflict(r, q)
     \/ ~listed /\ \E r \in Requests : pc[r] = "store"
  /\ alive' = FALSE
  /\ UNCHANGED <<serial, config, routing, setUp, pc, op, reply, held>>

\* newPeer := hsr.config.Peers[len(hsr.config.Peers)-1]
Last(r) ==
  /\ At(r, "last")
  /\ target' = [target EXCEPT ![r] = peers[Len(peers)].id]
  /\ Goto(r, "apply4")
  /\ UNCHANGED <<config, routing, loaded>>

\* tunDev.Apply(tun.Route(net)): the kernel refuses a route it has, and may
\* fail for reasons of its own; AddPeer prints a warning and goes on.
ApplyHost(net) == \/ /\ net \notin kernel
                     /\ kernel' = kernel \cup {net}
                     /\ UNCHANGED <<warned, stranded>>
                  \/ /\ warned' = warned \cup {net}
                     /\ UNCHANGED <<kernel, stranded>>

Apply4(r) == /\ At(r, "apply4")
             /\ ApplyHost(Host4[target[r]])
             /\ Goto(r, "apply6")
             /\ UNCHANGED <<config, held>>

Apply6(r) == /\ At(r, "apply6")
             /\ ApplyHost(Host6[target[r]])
             /\ Goto(r, "rediscover")
             /\ UNCHANGED <<config, held>>

\* p2p.Rediscover() returns when Discover takes it (module Discovery).
Rediscover(r) == /\ At(r, "rediscover")
                 /\ Reply(r, "ok")
                 /\ UNCHANGED <<config, routing, held>>

\* FindPeerByCLIRef: the first peer in order with the name ("@name") or
\* whose ID has the prefix; a prefix is given by the IDs that have it.
Refers(ref, p) == IF ref.by = "name" THEN p.name = ref.name ELSE p.id \in ref.ids

\* Mutant: the peer is read again, as AddPeer does, from the end of the list.
ResolveToLast(r) ==
  /\ At(r, "resolve")
  /\ IF \A i \in 1..Len(peers) : ~Refers(op[r].ref, peers[i])
     THEN Reply(r, "error") /\ UNCHANGED target
     ELSE /\ target' = [target EXCEPT ![r] = peers[Len(peers)].id]
          /\ Goto(r, "applyRoute")
  /\ UNCHANGED <<config, routing, loaded>>

\* Mutant: "no such peer" is not noticed.
ResolveAnyway(r) ==
  /\ At(r, "resolve")
  /\ LET found == {i \in 1..Len(peers) : Refers(op[r].ref, peers[i])} IN
     target' = [target EXCEPT ![r] =
                  IF found = {} THEN None
                  ELSE peers[CHOOSE i \in found : \A j \in found : i <= j].id]
  /\ Goto(r, "applyRoute")
  /\ UNCHANGED <<config, routing, loaded>>

Resolve(r) ==
  /\ At(r, "resolve")
  /\ LET found == {i \in 1..Len(peers) : Refers(op[r].ref, peers[i])} IN
     IF found = {}
     THEN Reply(r, "error") /\ UNCHANGED target
     ELSE LET first == CHOOSE i \in found : \A j \in found : i <= j IN
          /\ target' = [target EXCEPT ![r] = peers[first].id]
          /\ Goto(r, "applyRoute")
  /\ UNCHANGED <<config, routing, loaded>>

\* The kernel first: when it refuses, the table stays as it is.
ApplyRoute(r) ==
  /\ At(r, "applyRoute")
  /\ \/ /\ op[r].net \notin kernel
        /\ kernel' = kernel \cup {op[r].net}
        /\ Goto(r, "insert")
     \/ Reply(r, "error") /\ UNCHANGED kernel
  /\ UNCHANGED <<config, warned, stranded, held>>

InsertRoute(r) ==
  /\ At(r, "insert")
  /\ table' \in Results(r, [table EXCEPT ![op[r].net] = target[r]])
  /\ Reply(r, "ok")
  /\ UNCHANGED <<peers, byName, byNetID, routing, held>>

\* tun.RemoveRoute, again before the table; the kernel refuses to remove
\* what it does not have.
Unroute(r) ==
  /\ At(r, "unroute")
  /\ \/ /\ op[r].net \in kernel
        /\ kernel' = kernel \ {op[r].net}
        /\ Goto(r, "remove")
     \/ Reply(r, "error") /\ UNCHANGED kernel
  /\ UNCHANGED <<config, warned, stranded, held>>

RemoveRoute(r) ==
  /\ At(r, "remove")
  /\ table' \in Results(r, [table EXCEPT ![op[r].net] = None])
  /\ Reply(r, "ok")
  /\ UNCHANGED <<peers, byName, byNetID, routing, held>>

\* Mutant: the kernel's route is not put back.
RemoveFailsForGood(r) ==
  /\ At(r, "remove")
  /\ Reply(r, "error")
  /\ UNCHANGED <<config, routing, held>>

\* ByRoute.Remove fails: the kernel's route is put back, which may fail too,
\* and nobody looks at that.
RemoveFails(r) ==
  /\ At(r, "remove")
  /\ \/ /\ op[r].net \notin kernel
        /\ kernel' = kernel \cup {op[r].net}
        /\ UNCHANGED stranded
     \/ /\ stranded' = stranded \cup {op[r].net}
        /\ UNCHANGED kernel
  /\ Reply(r, "error")
  /\ UNCHANGED <<config, warned, held>>

\* The forwarding loop looks up a destination.  With more than one match
\* FindRouteForIP reports the duplicates, and the type assertion in that
\* report, n.(RouteTableEntry) on a *RouteTableEntry, panics.
Matches(a) == {net \in Nets : table[net] # None /\ a \in Covers[net]}

Forward(a) ==
  /\ alive /\ SetUp
  /\ Cardinality(Matches(a)) > 1
  /\ alive' = FALSE
  /\ UNCHANGED <<serial, config, routing, setUp, pc, op, reply, held>>

-----------------------------------------------------------------------------
Serve(r) == \/ CheckID(r) \/ CheckName(r) \/ LoadPeers(r) \/ StorePeers(r)
            \/ Index(r) \/ Last(r) \/ Apply4(r) \/ Apply6(r) \/ Rediscover(r)
            \/ Resolve(r) \/ ApplyRoute(r) \/ InsertRoute(r)
            \/ Unroute(r) \/ RemoveRoute(r) \/ RemoveFails(r)

Next == \/ \E r \in Requests : Start(r) \/ Serve(r)
        \/ ListServices \/ ApplyNext \/ SetUpFails
        \/ RaceFatal
        \/ \E a \in Addrs : Forward(a)

Spec == Init /\ [][Next]_vars
-----------------------------------------------------------------------------
(* Properties                                                              *)

\* What follows up to AddedIsRouted is about clients that wait for each other;
\* what is left of it when they do not is OnlyRequested.
Quiet == \A r \in Requests : pc[r] \in {"idle", "done"}

\* "check whether the peer exists already" (rpc/server.go:216, in Chinese):
\* nobody else in the list has the ID, or the name, of a peer that was added
\* to those of the file.
Distinct == serial =>
  \A i \in 1..Len(peers), j \in (Len(ConfigPeers) + 1)..Len(peers) :
    i # j => peers[i].id # peers[j].id /\ peers[i].name # peers[j].name

\* Once the interface is set up, and between requests, the kernel sends the
\* interface what the table can forward and what the service network answers,
\* whichever of the two steps of a request failed.  The exceptions are a route
\* of the file that a client deleted before UpRun came to add it, and routes
\* that were warned of or that a failed "del" could not put back.
Serviced == {Service[Self]} \cup {Service[peers[i].id] : i \in 1..Len(peers)}
Deleted(net) == \E r \in Requests : /\ reply[r] = "ok" /\ op[r].kind = "routeDel"
                                    /\ op[r].net = net
KernelAgrees ==
  (serial /\ Quiet /\ SetUp) =>
    LET routes == {net \in Nets : table[net] # None} IN
    /\ \A net \in kernel \ (routes \cup Serviced) : ReadTable[net] # None /\ Deleted(net)
    /\ routes \ kernel \subseteq warned \cup stranded

\* Between requests a name and a network ID resolve to the last peer of the
\* list that has it (Magic DNS and the service network look them up): the
\* lookups are what config.Read would make of the list.  AddPeer compares
\* names as they are written, so a name that differs in case is accepted and
\* takes the place of the one before.
LookupsAgree ==
  (serial /\ Quiet) => \A i \in 1..Len(peers) :
             LET later == {peers[j] : j \in (i + 1)..Len(peers)} IN
             /\ \/ peers[i].name = NoName
                \/ \E p \in later : Lower[p.name] = Lower[peers[i].name]
                \/ byName[Lower[peers[i].name]] = peers[i].id
             /\ \/ \E p \in later : Host6[p.id] = Host6[peers[i].id]
                \/ byNetID[Host6[peers[i].id]] = peers[i].id

\* A request that was not refused, so far.
Accepted(r, kind) == op[r] # None /\ op[r].kind = kind /\ reply[r] # "error"

\* A peer that was added successfully is forwarded to under both addresses,
\* unless an operator changed these routes, or a peer was added whose ID gives
\* the same address: then to that one.
AddedIsRouted ==
  \A r \in Requests :
    (serial /\ reply[r] = "ok" /\ op[r].kind = "addPeer") =>
      \A net \in {Host4[op[r].id], Host6[op[r].id]} :
        \/ \E q \in Requests : /\ Accepted(q, "addPeer")
                               /\ table[net] = op[q].id /\ HasAddr(op[q].id, net)
        \/ \E q \in Requests : /\ op[q] # None
                               /\ op[q].kind \in {"routeAdd", "routeDel"}
                               /\ op[q].net = net

\* The peers of the file and those of requests that were not refused.
Announced == {ConfigPeers[i] : i \in 1..Len(ConfigPeers)}
               \cup {Entry(op[r].id, op[r].name) :
                        r \in {q \in Requests : Accepted(q, "addPeer")}}

\* However requests race, a network is only ever forwarded to a peer that
\* the file, the peer's own addresses or a request that was not refused name
\* for it: what one request resolved is never inserted for another.
OnlyRequested ==
  \A net \in Nets :
    table[net] \notin {None, ConfigRoutes[net]} =>
      \E p \in Announced :
        /\ p.id = table[net]
        /\ \/ HasAddr(p.id, net)
           \/ \E r \in Requests : /\ Accepted(r, "routeAdd")
                                /\ op[r].net = net /\ Refers(op[r].ref, p)

\* "[!] Found duplicate route %s to /p2p/%s for %s" (config/config.go:233):
\* overlapping routes are reported, and the packet that the loop has read once
\* the interface is set up is forwarded.
Survives == SetUp => alive
=============================================================================
