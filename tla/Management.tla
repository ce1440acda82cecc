----------------------------- MODULE Management -----------------------------
(***************************************************************************)
(* The operators' commands: the command line over net/rpc (rpc/client.go,  *)
(* on Windows with a port file), programs over JSON-RPC                    *)
(* (rpc/jsonrpc_client.go), the two servers of the daemon                  *)
(* (rpc/server.go, server_windows.go, jsonrpc_server.go), and the daemon   *)
(* under them, which is stopped, killed and started again.  What AddPeer   *)
(* and Route do to the routes is module Registry; here AddPeer is cut      *)
(* where it reads the list of peers, writes it, writes the table of names  *)
(* and waits, and what routes it changes is left out.                      *)
(***************************************************************************)
EXTENDS MagicDns

CONSTANTS
  Clients,     \* commands, each with the retries of who gave it
  Peers,
  ConfigPeers, \* the peers of the configuration file, in order
  Ops,         \* what each client may ask, and how
  None,
  MaxTries,    \* bound: tries of each client's command
  MaxStarts,   \* bound: daemons, one after the other
  MaxPasses    \* bound: passes of discovery in a daemon's life

ASSUME ManagementAssumption ==
  /\ ConfigPeers \in Seq([id : Peers, name : Names])
  /\ \A c \in Clients : None \notin Ops[c]
  /\ \A o \in UNION {Ops[c] : c \in Clients} :
       /\ o.kind \in {"addPeer", "status", "peers", "route", "nodeIp"}
       /\ o.via \in {"gob", "json"}
       /\ o.kind = "addPeer" => o.id \in Peers /\ o.name \in Names
       /\ o.kind = "nodeIp" => o.via = "json"  \* the command line does not ask it
  /\ MaxTries \in [Clients -> Nat \ {0}] /\ MaxStarts \in Nat /\ MaxPasses \in Nat

VARIABLES
  platform,
  phase,     \* the daemon: off, on, cancelled (ctxCancel was called)
  daemon,    \* its number, 0 before the first
  rpc, json, \* the servers' listeners: off, listening, closed
  rpcPort, jsonPort,  \* the port files: the daemon whose port they hold, or 0
  loop,      \* Discover: free (at its select), busy, returned
  passes,
  list,      \* cfg.Peers, with who added a peer, or None
  byName,    \* cfg.PeerLookup.ByName
  lost,      \* an append of this daemon's life overwrote another
  client,    \* a command: idle, dial, wait, told
  op,        \* what it asks, and how: "gob" or "json"
  url,       \* the daemon whose JSON-RPC port it was given
  try,
  told,      \* what came back, and the daemon that did it
  at,        \* the goroutine that serves a try
  seen,      \* the list it has read, for its append or for the size of a reply
  outcome    \* ok, refused (the reply holds an Err), error (the method failed)

servers == <<rpc, json, rpcPort, jsonPort>>
process == <<phase, daemon>>
discovery == <<loop, passes>>
config == <<list, byName, lost>>
command == <<client, op, url, try, told>>
handlers == <<at, seen, outcome>>
vars == <<platform, process, servers, discovery, config, command, handlers>>

Calls == UNION {{c} \X (1..MaxTries[c]) : c \in Clients}
Current(c) == <<c, try[c]>>
OpOf(k) == op[k[1]]
Entry == [id : Peers, name : Names, by : Clients \cup {None}]

TypeOK ==
  /\ platform \in {"unix", "windows"}
  /\ phase \in {"off", "on", "cancelled"} /\ daemon \in 0..MaxStarts
  /\ {rpc, json} \subseteq {"off", "listening", "closed"}
  /\ {rpcPort, jsonPort} \subseteq 0..daemon
  /\ loop \in {"free", "busy", "returned"} /\ passes \in 0..MaxPasses
  /\ list \in Seq(Entry) /\ byName \in [Names -> SUBSET Peers] /\ lost \in BOOLEAN
  /\ client \in [Clients -> {"idle", "dial", "wait", "told"}]
  /\ op = [c \in Clients |-> op[c]] /\ try \in [Clients -> Nat]
  /\ \A c \in Clients : op[c] \in Ops[c] \cup {None} /\ try[c] \in 1..MaxTries[c]
  /\ url \in [Clients -> 0..MaxStarts]
  /\ told \in [Clients -> [what : {"none", "done", "reason", "failed"}, daemon : 0..MaxStarts]]
  /\ at \in [Calls -> {"none", "check", "load", "store", "index", "rediscover", "status",
                       "read", "size", "fill", "route", "address", "answer"}]
  /\ seen \in [Calls -> Seq(Entry)]
  /\ outcome \in [Calls -> {"ok", "refused", "error"}]
  /\ \A c \in Clients : client[c] = "wait" => at[Current(c)] # "none"

FromFile == [i \in DOMAIN ConfigPeers |->
               [id |-> ConfigPeers[i].id, name |-> ConfigPeers[i].name, by |-> None]]

Init ==
  /\ platform \in {"unix", "windows"}
  /\ phase = "off" /\ daemon = 0
  /\ rpc = "off" /\ json = "off" /\ rpcPort = 0 /\ jsonPort = 0
  /\ loop = "free" /\ passes = 0
  /\ list = <<>> /\ byName = [n \in Names |-> {}] /\ lost = FALSE
  /\ client = [c \in Clients |-> "idle"] /\ op = [c \in Clients |-> None]
  /\ url = [c \in Clients |-> 0]
  /\ try = [c \in Clients |-> 1]
  /\ told = [c \in Clients |-> [what |-> "none", daemon |-> 0]]
  /\ at = [k \in Calls |-> "none"] /\ seen = [k \in Calls |-> <<>>]
  /\ outcome = [k \in Calls |-> "ok"]

-----------------------------------------------------------------------------
(* The daemon                                                              *)

\* config.Read: of what AddPeer changed in an earlier daemon nothing is left.
StartDaemon ==
  /\ phase = "off" /\ daemon < MaxStarts
  /\ phase' = "on" /\ daemon' = daemon + 1
  /\ rpc' = "off" /\ json' = "off"
  /\ loop' = "free" /\ passes' = 0
  /\ list' = FromFile /\ byName' = TableOf(ConfigPeers) /\ lost' = FALSE
  /\ UNCHANGED <<platform, rpcPort, jsonPort, command, handlers>>

\* A socket file on unix, a port of its own on Windows, whose number goes to
\* a file that nobody removes.
ListenRpc ==
  /\ phase = "on" /\ rpc = "off"
  /\ rpc' = "listening"
  /\ rpcPort' = IF platform = "windows" THEN daemon ELSE rpcPort
  /\ UNCHANGED <<platform, process, json, jsonPort, discovery, config, command, handlers>>

ListenJson ==
  /\ phase = "on" /\ json = "off"
  /\ json' = "listening" /\ jsonPort' = daemon
  /\ UNCHANGED <<platform, process, rpc, rpcPort, discovery, config, command, handlers>>

\* A pass of discovery begins with a tick.
BeginPass ==
  /\ phase = "on" /\ loop = "free" /\ passes < MaxPasses
  /\ loop' = "busy" /\ passes' = passes + 1
  /\ UNCHANGED <<platform, process, servers, config, command, handlers>>

EndPass ==
  /\ phase # "off" /\ loop = "busy" /\ loop' = "free"
  /\ UNCHANGED <<platform, process, servers, passes, config, command, handlers>>

Cancel ==
  /\ phase = "on" /\ phase' = "cancelled"
  /\ UNCHANGED <<platform, daemon, servers, discovery, config, command, handlers>>

\* From here on p2p.Rediscover waits for ever.
LoopReturns ==
  /\ phase = "cancelled" /\ loop = "free" /\ loop' = "returned"
  /\ UNCHANGED <<platform, process, servers, passes, config, command, handlers>>

\* The listener is closed; connections it has accepted stay.
CloseRpc ==
  /\ phase = "cancelled" /\ rpc = "listening" /\ rpc' = "closed"
  /\ UNCHANGED <<platform, process, json, rpcPort, jsonPort, discovery, config, command, handlers>>

\* server.Shutdown, as well, and then waits for the requests; nobody waits
\* for it.
CloseJson ==
  /\ phase = "cancelled" /\ json = "listening" /\ json' = "closed"
  /\ UNCHANGED <<platform, process, rpc, rpcPort, jsonPort, discovery, config, command, handlers>>

Returns(c, what) ==
  /\ client' = [client EXCEPT ![c] = "told"]
  /\ told' = [told EXCEPT ![c] = [what |-> what, daemon |-> IF what = "done" THEN daemon ELSE 0]]
Nowhere == /\ at' = [k \in Calls |-> "none"] /\ seen' = [k \in Calls |-> <<>>]
           /\ outcome' = [k \in Calls |-> "ok"]

\* The process is gone, its goroutines are, and all its connections break.
Gone ==
  /\ phase' = "off" /\ rpc' = "off" /\ json' = "off"
  /\ Nowhere /\ loop' = "free" /\ passes' = 0
  /\ list' = <<>> /\ byName' = [n \in Names |-> {}] /\ lost' = FALSE
  /\ client' = [c \in Clients |-> IF client[c] = "wait" THEN "told" ELSE client[c]]
  /\ told' = [c \in Clients |-> IF client[c] = "wait"
                                THEN [what |-> "failed", daemon |-> 0] ELSE told[c]]
  /\ UNCHANGED <<platform, daemon, rpcPort, jsonPort, op, url, try>>

\* Mutant: the daemon waits for its JSON-RPC server to shut down.
EndWhenIdle ==
  /\ phase = "cancelled" /\ \A k \in Calls : at[k] # "none" => OpOf(k).via = "gob"
  /\ Gone

\* UpRun returns (on Windows: os.Exit), module Daemon and WinDaemon.
EndDaemon == phase = "cancelled" /\ Gone

Kill == phase # "off" /\ Gone

-----------------------------------------------------------------------------
(* The commands                                                            *)

\* A program that speaks JSON-RPC has its port from the port file.
Ask(c) ==
  /\ client[c] = "idle"
  /\ client' = [client EXCEPT ![c] = "dial"]
  /\ \E o \in Ops[c] : /\ op' = [op EXCEPT ![c] = o]
                       /\ url' = [url EXCEPT ![c] = IF o.via = "json" THEN jsonPort ELSE 0]
  /\ UNCHANGED <<platform, process, servers, discovery, config, try, told, handlers>>

\* Who was not told of success tries again.
Retry(c) ==
  /\ client[c] = "told" /\ told[c].what # "done" /\ try[c] < MaxTries[c]
  /\ client' = [client EXCEPT ![c] = "dial"]
  /\ try' = [try EXCEPT ![c] = @ + 1]
  /\ url' = [url EXCEPT ![c] = IF op[c].via = "json" THEN jsonPort ELSE 0]
  /\ UNCHANGED <<platform, process, servers, discovery, config, op, told, handlers>>

\* A socket file at a known place ...
ReachableUnix(c) == rpc = "listening"

\* ... a port that is read from a file, ten times, half a second apart; the
\* ports from 9000 on, tried as well, are none of the daemon's ...
ReachableWindows(c) == rpc = "listening" /\ rpcPort = daemon

\* ... and the URL the program was given.
ReachableJson(c) == json = "listening" /\ url[c] = daemon

Reachable(c) == \/ op[c].via = "json" /\ ReachableJson(c)
                \/ op[c].via = "gob" /\ platform = "unix" /\ ReachableUnix(c)
                \/ op[c].via = "gob" /\ platform = "windows" /\ ReachableWindows(c)

\* handleMethod, or net/rpc by the method's name.
First(o) == CASE o.kind = "addPeer" -> "check"
              [] o.kind = "status" -> "status"
              [] o.kind = "peers" -> IF platform = "unix" THEN "read" ELSE "size"
              [] o.kind = "route" -> "route"
              [] o.kind = "nodeIp" -> "address"

\* The connection is made and the request sent; net/rpc and net/http serve it
\* in a goroutine of its own.
Connect(c) ==
  /\ client[c] = "dial" /\ Reachable(c)
  /\ client' = [client EXCEPT ![c] = "wait"]
  /\ at' = [at EXCEPT ![Current(c)] = First(op[c])]
  /\ UNCHANGED <<platform, process, servers, discovery, config, op, url, try, told,
                 seen, outcome>>

\* At once on unix and with JSON-RPC; on Windows after five seconds, in which
\* the port file is read over and over.
DialFails(c) ==
  /\ client[c] = "dial" /\ ~Reachable(c)
  /\ Returns(c, "failed")
  /\ UNCHANGED <<platform, process, servers, discovery, config, op, url, try, handlers>>

\* The 30 seconds of the JSON-RPC client.  What takes that long is a pass of
\* slow dials, for which AddPeer waits.
Timeout(c) ==
  /\ client[c] = "wait" /\ op[c].via = "json"
  /\ at[Current(c)] = "rediscover" /\ loop # "free"
  /\ Returns(c, "failed")
  /\ UNCHANGED <<platform, process, servers, discovery, config, op, url, try, handlers>>

-----------------------------------------------------------------------------
(* The methods                                                             *)

Step(k, from, to) == at[k] = from /\ at' = [at EXCEPT ![k] = to]
same == <<platform, process, servers, command>>
Known(ps, k) == \E i \in DOMAIN ps : ps[i].id = OpOf(k).id
Named(ps, k) == \E i \in DOMAIN ps : ps[i].name = OpOf(k).name

\* Mutant: the request is compared with the peers of the file.
CheckConfigured(k) ==
  /\ \/ /\ Step(k, "check", "answer")
        /\ Known(ConfigPeers, k) \/ Named(ConfigPeers, k)
        /\ outcome' = [outcome EXCEPT ![k] = "refused"]
     \/ /\ Step(k, "check", "load")
        /\ ~Known(ConfigPeers, k) /\ ~Named(ConfigPeers, k) /\ UNCHANGED outcome
  /\ UNCHANGED <<same, discovery, config, seen>>

Check(k) ==
  /\ \/ /\ Step(k, "check", "answer")
        /\ Known(list, k) \/ Named(list, k)
        /\ outcome' = [outcome EXCEPT ![k] = "refused"]
     \/ Step(k, "check", "load") /\ ~Known(list, k) /\ ~Named(list, k) /\ UNCHANGED outcome
  /\ UNCHANGED <<same, discovery, config, seen>>

\* cfg.Peers = append(cfg.Peers, ...) reads the list and writes it, and nothing
\* keeps another AddPeer from doing so in between: its peer is lost, or a list
\* that has grown becomes short again.
LoadPeers(k) ==
  /\ Step(k, "load", "store")
  /\ seen' = [seen EXCEPT ![k] = list]
  /\ UNCHANGED <<same, discovery, config, outcome>>

StorePeers(k) ==
  /\ Step(k, "store", "index")
  /\ list' = Append(seen[k], [id |-> OpOf(k).id, name |-> OpOf(k).name, by |-> k[1]])
  /\ lost' = (lost \/ seen[k] # list)
  /\ seen' = [seen EXCEPT ![k] = <<>>]
  /\ UNCHANGED <<same, discovery, byName, outcome>>

\* The table of names; writing it while another writes or reads it may end the
\* process, which Kill stands for.
IndexName(k) ==
  /\ Step(k, "index", "rediscover")
  /\ byName' = Put(byName, OpOf(k).name, OpOf(k).id)
  /\ UNCHANGED <<same, discovery, list, lost, seen, outcome>>

\* Discover takes the request when it is at its select.
Rediscover(k) ==
  /\ Step(k, "rediscover", "answer") /\ loop = "free"
  /\ outcome' = [outcome EXCEPT ![k] = "ok"]
  /\ UNCHANGED <<same, discovery, config, seen>>

\* Status reads the list twice, and the host's connections; on Windows only
\* those.
Status(k) ==
  /\ Step(k, "status", "answer")
  /\ UNCHANGED <<same, discovery, config, seen, outcome>>

\* Peers, not on Windows: the connections, with names looked up in the list.
ReadPeers(k) ==
  /\ Step(k, "read", "answer")
  /\ UNCHANGED <<same, discovery, config, seen, outcome>>

\* On Windows: make([]PeerInfo, len(hsr.config.Peers)) ...
SizeReply(k) ==
  /\ Step(k, "size", "fill")
  /\ seen' = [seen EXCEPT ![k] = list]
  /\ UNCHANGED <<same, discovery, config, outcome>>

\* ... and a range over hsr.config.Peers, which may be longer by now.
FillReply(k) ==
  /\ Step(k, "fill", "answer") /\ Len(list) <= Len(seen[k])
  /\ UNCHANGED <<same, discovery, config, seen, outcome>>

\* An index out of range: net/http recovers and drops the connection, net/rpc
\* does not recover.
FillPanics(k) ==
  /\ at[k] = "fill" /\ Len(list) > Len(seen[k])
  /\ IF OpOf(k).via = "gob" THEN Gone
     ELSE /\ Step(k, "fill", "answer")
          /\ outcome' = [outcome EXCEPT ![k] = "error"]
          /\ UNCHANGED <<same, discovery, config, seen>>

\* Route, not on Windows: done, or an error of the lookups or of the kernel
\* (module Registry).
RouteUnix(k) ==
  /\ platform = "unix" /\ Step(k, "route", "answer")
  /\ \E result \in {"ok", "error"} : outcome' = [outcome EXCEPT ![k] = result]
  /\ UNCHANGED <<same, discovery, config, seen>>

\* On Windows show lists nothing and is refused without an argument, add makes
\* a connection and del says that it does nothing.
RouteWindows(k) ==
  /\ platform = "windows" /\ Step(k, "route", "answer")
  /\ \E result \in {"ok", "refused"} : outcome' = [outcome EXCEPT ![k] = result]
  /\ UNCHANGED <<same, discovery, config, seen>>

NodeIp(k) ==
  /\ Step(k, "address", "answer")
  /\ UNCHANGED <<same, discovery, config, seen, outcome>>

\* gob cannot encode the Err of a refusal, so net/rpc closes the connection;
\* the text of an error reaches the operator.
GobReply(result) == CASE result = "ok" -> "done"
                      [] result = "error" -> "reason"
                      [] result = "refused" -> "failed"

\* An error becomes the message "Internal error" with the text beside it, and
\* the Err of a refusal becomes {}.
JsonReply(result) == CASE result = "ok" -> "result"
                       [] result = "error" -> "message"
                       [] result = "refused" -> "{}"

\* The JSON-RPC client prints the message alone, and cannot decode {}.
Told(k) == IF OpOf(k).via = "gob" THEN GobReply(outcome[k])
           ELSE IF JsonReply(outcome[k]) = "result" THEN "done" ELSE "failed"

Waits(k) == client[k[1]] = "wait" /\ k = Current(k[1])

\* Who no longer waits does not get the answer.
Answer(k) ==
  /\ Step(k, "answer", "none")
  /\ IF Waits(k) THEN Returns(k[1], Told(k)) ELSE UNCHANGED <<client, told>>
  /\ seen' = [seen EXCEPT ![k] = <<>>] /\ outcome' = [outcome EXCEPT ![k] = "ok"]
  /\ UNCHANGED <<platform, process, servers, discovery, config, op, url, try>>

-----------------------------------------------------------------------------
Serve(k) == \/ Check(k) \/ LoadPeers(k) \/ StorePeers(k) \/ IndexName(k) \/ Rediscover(k)
            \/ Status(k) \/ ReadPeers(k) \/ SizeReply(k)
            \/ FillReply(k) \/ FillPanics(k) \/ RouteUnix(k) \/ RouteWindows(k) \/ NodeIp(k) \/ Answer(k)
Live == \/ ListenRpc \/ ListenJson \/ EndPass \/ LoopReturns
        \/ CloseRpc \/ CloseJson \/ EndDaemon
Internal == \/ Live
            \/ \E c \in Clients : Connect(c) \/ DialFails(c) \/ Timeout(c)
            \/ \E k \in Calls : Serve(k)
External == \/ StartDaemon \/ BeginPass \/ Cancel \/ Kill
            \/ \E c \in Clients : Ask(c) \/ Retry(c)
Next == Internal \/ External

Spec == Init /\ [][Next]_vars

\* Goroutines are scheduled, a pass of discovery ends, and so does a daemon
\* that was stopped.  The bounds make behaviours finite, so this is enough.
FairSpec == Spec /\ WF_vars(Internal)
-----------------------------------------------------------------------------
(* Properties                                                              *)

\* The answers of Magic DNS to a name in lower case, with and without a service
\* in front of it, lead to the peer, unless the host itself has the name and is
\* on unix.
ResolvesTo(name, p) ==
  \A service \in BOOLEAN :
    LET answer == IF platform = "unix" THEN AnswerOnUnix(name, service, byName)
                  ELSE AnswerOnWindows(name, service, byName)
    IN (platform = "unix" /\ name = Hostname) \/ Records(p, service) \subseteq answer

\* Peers that others asked to add under a name with the same key.
Rivals(c) ==
  {op[d].id : d \in {d \in Clients \ {c} :
                        /\ op[d] # None /\ op[d].kind = "addPeer"
                        /\ Lower[op[d].name] = Lower[op[c].name]}}

\* Who was told that a peer was added, over either server and by the first try
\* or a later one, finds it in DNS by its name for as long as that daemon runs,
\* or a peer that somebody else added under the name meanwhile, but never one
\* of the file nor none; and finds it in the list, unless appends met.
DoneIsDone ==
  \A c \in Clients :
    (/\ told[c].what = "done" /\ op[c].kind = "addPeer"
     /\ phase # "off" /\ told[c].daemon = daemon)
      => /\ lost \/ \E i \in DOMAIN list : list[i].id = op[c].id
         /\ \E p \in {op[c].id} \cup Rivals(c) : ResolvesTo(Lower[op[c].name], p)

\* Who did not get an answer in time and tries again does not add the peer a
\* second time, although the first request is still being served: it waits for
\* discovery after the change and not before.  Only where appends met can a
\* peer come back to a list that had lost it, and be there twice.
RetryAddsOnce ==
  lost \/ \A i, j \in DOMAIN list :
            list[i].by # None /\ list[i].by = list[j].by => i = j

\* Every command comes back: the command line has no timeout of its own, so it
\* is the daemon's end that breaks the connection of an AddPeer that waits for
\* a discovery that has returned.
CommandsEnd == \A c \in Clients : (client[c] \in {"dial", "wait"}) ~> (client[c] = "told")
=============================================================================
