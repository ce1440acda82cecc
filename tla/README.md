# Formal model of mynetwork

mynetwork is a peer-to-peer VPN (a descendant of hyprspace): a TUN interface,
libp2p streams between the nodes, a DHT and a peer exchange to find them, RPC
servers to change a running node. This directory holds TLA+ modules that model
its core, TLC configurations that check them on small instances, and TLAPS
proofs of safety properties for instances of any size.

Paths below are relative to `src/`.

## 1. The system

| Component | State | Operations | Talks to |
|---|---|---|---|
| Forwarding, `cli/up.go` | `activeStreams` (one `MuxStream` per peer), one goroutine per packet | `UpRun`'s loop, `sendPacket`, `streamHandler` | config (route lookup, known peers), libp2p streams, discovery (`go p2p.Rediscover()`) |
| Configuration registry, `config/config.go` | `Peers`, `PeerLookup.ByRoute/ByName/ByNetID` | `Read`, `AddPeer`, `FindPeer*`, `FindRouteForIP` | read by every other component, most of them through a shared pointer, some through a copy taken at start |
| RPC, `rpc/` | socket file or port files | `AddPeer`, `Route` (show, add, del), `Status`, `Peers`, `NodeIp`; the JSON-RPC server repeats them; two clients | registry, kernel routes (`tun/`), discovery |
| Discovery, `p2p/discover.go` | ticker, interval, the channel `discoverNow` | `Discover`, `Rediscover` | registry (list of peers), libp2p dials, DHT |
| Peer exchange, `p2p/pex.go` | a snapshot of the peers in `PeXRouting` | stream handler, `RequestPeX`, `PeXService`, `FindPeer` | registry, peerstore, events |
| Routing, `p2p/routing.go` | none | `ParallelRouting.FindPeer`, `RecursionGater` | DHT, peer exchange, `FindRouteForIP` |
| Node, relay, metrics, `p2p/node.go`, `relay.go`, `metrics.go` | snapshot of the peers in the relay ACL | `CreateNode` | libp2p |
| Service network, `svc/` | `activeAddrs`, `activePorts`, `listeners` | `EnsureListener`, `Register`, the handshake, `pipe` | forwarding loop, registry, netstack |
| Signals, `signals/` | lock file; on Windows a flag, two channels and a timer | SIGINT/SIGTERM, SIGUSR1, console control events | discovery, TUN, libp2p |
| Magic DNS, `dns/` | copy of the configuration | lookups | registry |
| TUN, `tun/`, `wintun/` | interface, kernel routes; on Windows the driver's adapter and session | `New`, `Up`, `Down`, `Apply`, `Read`, `Write`, `Close` | kernel, driver |

What is hard here:

* **Goroutines without locks.** Every packet has a goroutine, every RPC call
  has one; `activeStreams`, `cfg.Peers` and the lookups are shared without a
  mutex. Only the stream itself has one (`MuxStream.Lock`).
* **Check, then act.** `sendPacket` looks the stream up, waits for its mutex,
  and deletes or publishes an entry later; `AddPeer` checks for duplicates and
  appends later.
* **Two-part writes.** A frame is a length and a body in two writes; each may
  fail, in the middle too; reads are cut differently from writes.
* **Two-step changes.** Route requests change the kernel and then the table.
* **Timers.** The discovery ticker is reset by passes and by requests.
* **Snapshots.** Several components keep the peers of the start.
* **Both ends of a stream.** An exchange or a piped connection may stall, break
  or be closed at either end and at every byte, and goroutines on both nodes
  have to notice.
* **Names instead of handles.** Interface, lock file, socket and port files are
  found by name, so a daemon meets those of the one before it or beside it.
* **Shutdown.** Several goroutines take the daemon apart while others use what
  they take; each step may fail; a second request may come.

What makes each part correct: forwarding delivers only whole packets, to the
right peer, and every goroutine ends; the registry's views agree with each
other and with the kernel; discovery connects what can be connected, answers
its callers, and rests between passes; an exchange brings the whole answer or
none, and a search loses no answer; a service's bytes arrive in order and its
ends reach both applications; a clean stop leaves nothing behind and every stop
comes to an end; a command reports what is so, and comes back.

## 2. Modules

| Module | Models |
|---|---|
| `Datagram` | the abstract service of the tunnel: packets are offered, and an offered packet may be delivered to its peer any number of times |
| `Tunnel` | `sendPacket`, `activeStreams`, `streamHandler`, the hand-over in `UpRun` |
| `MCTunnel` | instances of `Tunnel` |
| `TunnelProofs` | type correctness, `NoGarbage`, `NoDeadEntry`, `AtMostTwice`, one writer per stream, refinement of `Datagram` |
| `Framing` | one stream at the level of bytes |
| `FramingProofs` | type correctness, `InOrderUnlessSplit`, `NoPanic` |
| `Registry` | configuration and the requests that change it, kernel routes |
| `MCRegistry` | instances of `Registry` |
| `RegistryProofs` | type correctness, `OnlyRequested` and the same for kernel and lookups; for requests in sequence `Distinct`, `KernelAgrees`, `LookupsAgree`, `AddedIsRouted` |
| `Discovery` | `Discover` and `Rediscover` |
| `PeerExchange` | `RequestPeX`, the handler, `PeXService`, dials and the gater: two nodes' ends of each exchange |
| `PeerFinding` | `ParallelRouting.FindPeer`, which composes an exchange of `PeerExchange` with the other routings |
| `MCPeerFinding` | instances of `PeerFinding` |
| `P2pProofs` | type correctness of `PeerFinding` and `Discovery`, `WholeAnswer`, `NothingLost`, `RestsAfterPass` |
| `ServicePipe` | one connection to a service: `RemoteServiceProxy`, `streamHandler`, `TCPServiceProxy`, two `pipe`s |
| `MCServicePipe` | instances of `ServicePipe` |
| `ServicePipeProofs` | type correctness, `InOrder`, `LeavesOnePump`, nothing dropped, backpressure |
| `Daemon` | start, shutdown, signals and shared names of several daemons on Linux |
| `DaemonProofs` | type correctness, `LeavesNothing`, `Undisturbed` |
| `WinDaemon` | the same for one daemon on Windows, with the driver's session |
| `WinDaemonProofs` | type correctness, `SessionOutlivesUse`, `ZeroIsClean` |
| `MagicDns` | the answers to questions for a name |
| `Management` | the commands: clients, servers and methods over net/rpc and JSON-RPC, across restarts |
| `MCManagement` | instances of `Management` |
| `ManagementProofs` | type correctness, `DoneIsDone`, `RetryAddsOnce` |

Each file also holds, beside some operators, a changed version marked
`Mutant:`, a bug somebody could plausibly make in that code. `PROJECT.json`
pairs each property with the mutant that must break it.

### Tunnel

A goroutine of `sendPacket` is named by its packet, and as it opens at most one
stream, so is the stream. `pc` follows the function line by line:

| `pc` | line of `cli/up.go` | actions |
|---|---|---|
| `lookup` | 283 | `Lookup` |
| `lock` | 286 | `Acquire` |
| `writeLen`, `writeBody`, `deadline` | 290, 294, 296 | `WriteLen`, `WriteBody`, `Reused`, `ReuseFails` |
| `close`, `delete` | 304, 305 | `CloseStream`, `Delete` (with the deferred unlock) |
| `open` | 312 | `OpenStream`, `OpenFails` |
| `firstDeadline`, `firstLen`, `firstBody` | 318, 325, 331 | `FirstDeadline`, `FirstLen`, `FirstBody`, `FirstFails` |
| `publish` | 339 | `Publish` |

`ms` is the copy of the map's entry; `lock[s]` is the mutex that is published
together with stream `s`. `conn[s]` is the state of the stream; `wire[s]` what
has been written and not been turned into a packet, in parts. `rx[s]` is the
peer's handler: `Accept` (374-377), `ReadLen` (382), `ReadBody` (393-407),
`ReadFails` (383, 396), `HandlerFails` (402). A read length stays on `wire`
until its body has been read, which changes nothing for the handler and makes
"the handler is in the middle of a frame" visible.

The map has no lock. `MapFatal` is the runtime's reaction when an access meets
a concurrent write; if it does not react, the accesses take effect one after
the other. After `MapFatal` the process is gone and only the remote side moves.

`NetworkReset` and `Admit` (the remote operator adds this node) are the
environment.

### Framing

A stream as bytes: `WritePacket` writes a whole frame, `WriteFails` a proper
prefix and the end of the stream. `ReadHeader` is `stream.Read(packetSize)`
with its ignored count and the buffer that keeps old bytes; `ReadBody` is one
round of the loop over `packet[plen:size]` and, with the last byte, the write
to the interface. A header may arrive in two reads. It usually does not,
because both bytes are written at once, and nothing excludes it: a muxer's send
window may have one byte left. `split` remembers that it happened, so that the
properties can say what holds until then (`InOrderUnlessSplit`, `NoPanic`,
`AllDelivered`) and what holds even afterwards (`HandlerReturns`);
`framing_split` shows that plain `InOrder` fails.
Resets, which drop bytes, are in `Tunnel`.

### Registry

A request (`Requests`) is a goroutine of the RPC server, cut at its accesses to
shared state. For `AddPeer`: `checkID`, `checkName` (`rpc/server.go` 217, 223),
`append`, `store` (the read and the write of `append` in `config.go` 251),
`index` (254-277), `last` (236), `apply4`, `apply6` (243, 253), `rediscover`
(259). For `Route`: `resolve`, `applyRoute`, `insert` (125-137), and `unroute`,
`remove` (147-156). `table`, `byName`, `byNetID` are the three lookups,
`kernel` the routes the kernel has, `warned` those for which `AddPeer` printed
a warning, `stranded` those that a failed "del" took from the kernel and could
not put back: the undo of `RemoveFails` may fail, and its error is ignored
(154).

`Init` computes the lookups as `config.Read` does, in the order of the file. The
kernel has none of the routes then, although requests are served from the
start (`cli/up.go:158`): `UpRun` reads the list of peers once more for the service
networks (`ListServices`, 191-205), and `ApplyNext` (216) gives the routes to
the kernel one after the other, first those that `pending` took from the table,
then the service networks. A route the kernel has already, because a request
came first, or any other error ends the process (`SetUpFails`). `SetUp` says that
all of this is over.

The races: an append can overwrite another one (`LoadPeers`, `StorePeers`); a
change of the trie can lose another one that runs at the same time (`Results`);
conflicting accesses to a map or to the slice can end the process
(`RaceFatal`). The sharing of one backing array by two appends is abstracted:
the later store wins as a whole.

A behaviour is either one in which a request begins when no other is in
progress, or one in which requests overlap: `serial` is chosen at the start, and
`Ops` gives the requests for each. `Distinct`, `KernelAgrees`, `LookupsAgree`
and `AddedIsRouted` are claimed of the first kind only, and `KernelAgrees` only
once the interface is set up: it compares the kernel with the table and with the
service networks.

`Forward` is the lookup of the forwarding loop, which runs after the set-up, with
more than one match, whose report panics. Names are model values with a `Lower`
function; networks are model values with the set of addresses they cover.

### Discovery

`place` is the `select`, inside a pass, or returned. `dur` and `period` are the
interval variable and what the ticker is set to (0 stands for the millisecond
of a request). Time is abstract: `Elapse` is the ticker's firing, and `arm`
tells one setting of the ticker from the next, so that fairness can say that a
setting fires *if it is left alone*. `Reset` drops a waiting tick, as the
timers of the Go version in `go.mod` do. A pass visits the peers it found at
its start (`TakeTick`, `Visit`, `VisitFails`), then `BackOff` sets the
interval. `AppendPeer` is the append of the registry, which a pass that has
begun does not see. (Names differ from those of `PeerFinding`, so that one
module can hold the proofs about both.) Callers block in `waiting`, as the
channel is unbuffered, and may ask again as often as they like: every packet
that finds no stream does. `RequestsForEver` is a stream of requests that never
ends, the one thing that keeps the loop from its passes.

### PeerExchange and PeerFinding

A request of `RequestPeX` (`pc`: open, read, ok, err) and the handler of the
peer it asks (`handler`: greet, answer, closed, reset) share a stream: `left`
are the lines still to be written, `unread` those on the way. Lines are taken
in any order, as nothing depends on theirs. `ReadFails` is every error of a
read, the deadline of ten seconds among them, and `OpenFails` one of
`NewStream`. `TakeEvent` and `Learn` are the two ends of the goroutine that
`PeXService` starts for an event. Of its goroutines one is modelled at a time;
the others would repeat it.

`Dial` is `host.Connect` with the gater's `InterceptAddrDial`. `Refuses` asks the
table (`table`, which `AddPeer` fills after the list: `AddPeer`, `InsertRoutes`)
and, not on Windows, the kernel; when `netlink.RouteGet` gives no answer the dial
passes (`routing.go:79`), so a tunnel address may be dialed. `DialEnds` is a dial
that makes no connection, for whatever reason, to a peer that is there too:
`pex.go:144` drops the error, and nobody dials again. `Incoming`, `Vanish`,
`AddPeer` and `InsertRoutes` are the environment.

`PeerFinding` adds `FindPeer` of `routing.go`: each routing searches, takes the
mutex, appends (`Load`, `Store`, so that a missing mutex would show), and arms
the cancel of half a second; `Return` waits for all of them. `PeXRouting` is
the routing whose search is the request `Find` of `PeerExchange`, over the list
of the start. `platform` selects what happens at the end: on unix the error is
always nil, on Windows an empty answer is an error.

### ServicePipe

Three hops (client's connection, stream, server's connection) with bounded
buffers, and two pipes that join them. `near` and `far` follow
`RemoteServiceProxy`'s `Handle` and the receiver's `streamHandler`: the two
bytes of the service ID, the status byte, the dial of the server. A pipe is two
pumps (`toChan`) and a loop that takes a chunk from either and writes it
(`pipe`); the loop returns at the first `nil` or failed write, and closes both
hops. Applications send, receive, close, half-close; a hop may break.

`split` remembers that the two bytes of the ID were read apart (`receiver.go:19`
takes what one `Read` returns). The wrong service is then looked for, and the
rest of the ID is taken for data.

As one loop serves both directions of a pipe, the loop of one node may wait for
room in the stream for its direction and the loop of the other node for the
other direction, each behind a pump that waits for it: `CrossBlocked`. Only a
break of the stream leads out of that state. Nobody needs to have closed
anything for it, and an application that closes afterwards is not noticed, for
both loops sit in `Write`.

### Daemon

Processes on one interface name. `main` follows `UpRun` to the loop and out of
it, `sig` the signal handler through the steps of its shutdown (host, lock file,
interface, link down, cancel), `rpc` the RPC server's socket. `lock`, `socket`
and `dev` say *whose* the files and the interface of that name are. `End` is
what the system does with an ending process: its handles are closed, with them
goes the interface, files stay. `pending` is the channel of signals, with room
for one.

The order in the code decides how a stop ends. `CloseIface` removes the
interface (the library clears the persist flag), so `Down`, which looks the
link up by name, normally fails: `log.Fatal`, exit code 1, and the RPC server
has not removed its socket. If `UpRun`'s loop sees the closed interface it waits
for the cancel. The clean end needs `Down` to succeed. `CloseHost` and `Rediscover`
(`sig` at `hostClose` and `refresh`) are calls that wait for libp2p, or for a
pass of discovery, without a time limit; they make up `Libp2p`, of which nothing
is assumed.

### WinDaemon

Threads: `UpRun` (`main`), the handler of console control events (one thread
per event), the signal handler and `performShutdown` (`sig`), the timer, and
the users of the interface, each with a packet of the driver's ring in its
hands between two calls (`Obtain`, `GiveBack`) under the read lock. `Close`
waits for the lock, ends the session and closes the adapter. `Terminate` is the
system, which ends a process after a closing event was handled. `RemoveLock` may
leave the lock file: `os.Remove`'s error is only printed, and the process exits
with 0 all the same. `ZeroIsClean` therefore speaks of session, adapter and the
users of the interface, and not of the file.

### Management and MagicDns

A command is a client's goroutine (`client`: idle, dial, wait, told) and, for
each try, the goroutine that serves it (`at`), which goes on when the client
has given up. `url` and the port files hold the *daemon* whose port they name,
so a stale file is one with a smaller number. `AddPeer` is cut at its check, the
read and the write of the list (`LoadPeers`, `StorePeers`), the write of the table
of names (`IndexName`) and its wait for discovery. So one of two appends may be
lost, and the list may become shorter; `lost` remembers that an append wrote over
a list it had not read. `byName` is a table of its own, and its order is that
of the writes to it, not that of the list. Of the other methods `Peers` on
Windows is cut at its two reads; `Status` reports numbers that nothing here
depends on, and is one step.

`GobReply` and `JsonReply` are what the encodings make of an outcome: the `Err`
of a refusal is an interface value whose type is not registered with gob, so
net/rpc closes the connection, and JSON turns it into `{}`, which the client
cannot decode; the text of an error survives net/rpc but not the JSON-RPC
client.

The daemon under them starts, listens, is cancelled, closes its listeners and
ends, or is killed, and starts again from the file (`FromFile`). `MagicDns`
holds the table `ByName`, as `config.Read` fills it (`TableOf`) and `AddPeer` writes
it (`Put`), and the answers to questions for a name as operators over it; the
copy of the configuration that the DNS server has shares that table.

## 3. Runs

| Run | Instance | Shows |
|---|---|---|
| `tunnel_safety` | 2 packets to one peer, 1 to another, 1 without a route | `NoGarbage`, `AtMostTwice`, `NoDeadEntry`, `DatagramService` |
| `tunnel_live` | 3 packets, one of them already sent | `EveryPacketSettles`, `FramesAreDelivered` |
| `framing_stream` | 3 byte values, packets up to 3 bytes, 2 packets | `InOrderUnlessSplit`, `NoPanic`, `AllDelivered`, `HandlerReturns` |
| `framing_split` | the same | **violates** `InOrder` |
| `registry` | 3 requests, in sequence from 12 or overlapping from 5 operations, and the set-up; constraint `Explored` | `TypeOK`, `Distinct`, `KernelAgrees`, `LookupsAgree`, `AddedIsRouted`, `OnlyRequested` |
| `registry_overlap` | one route that contains another | **violates** `Survives` |
| `discovery_live` | 2 peers (1 configured), 2 callers, any number of calls | `RestsAfterPass`, `CallersReturn`, `PeersAreConnected`, `RequestTriggersPass` |
| `peer_finding` | 3 peers (2 configured, 1 added), a search with 2 routings, 1 exchange beside it, 1 change by others | `WholeAnswer`, `NothingLost`, `FindReturns`, `ExchangesEnd`, `LearnedIsDialed` |
| `services` | up to 4 bytes each way, windows of 1 byte, of 2 on the stream; constraint `Explored` | `InOrder`, `LeavesOnePump`, `AllArrives`, `EndsReachBoth` |
| `lifecycle` | 2 processes, 1 SIGUSR1 | `LeavesNothing`, `Undisturbed`, `StopLeadsToEnd` |
| `windows` | 2 control events, a signal, 3 users of the interface | `SessionOutlivesUse`, `ZeroIsClean`, `StopEnds` |
| `management` | 2 commands, one of them tried twice, 2 daemons | `DoneIsDone`, `RetryAddsOnce`, `CommandsEnd` |

The runs that violate a property show a disagreement between the code and what
a comment or message in it says; each is described, with the line quoted, under
`findings` in `PROJECT.json`. More facts of that kind can be seen in the models
and have no run of their own; where a property holds only beside one of them,
its definition says so.

Forwarding:

* two goroutines of `sendPacket` that find no entry both publish a stream; the
  first one works, and is neither reused (`cli/up.go:337`) nor closed;
* the entry a goroutine deletes after a failure (`cli/up.go:305`) may be the new,
  working stream of another goroutine, which is then leaked.

Registry and requests:

* two concurrent `AddPeer` calls pass the duplicate checks
  (`rpc/server.go:216`) before either appends, so `Distinct` holds for requests
  in sequence only; one of two appends may be lost (`config/config.go:251`)
  although both report success, and the list that `status` counts may then be
  shorter than a moment before (`rpc/server.go:58`);
* a `Route` "add" and a "del" of one network that overlap may leave it in the
  kernel and not in the table, or the other way round (`rpc/server.go:152`);
* when the table refuses a "del", putting the kernel's route back may fail, and
  nobody hears of it (`rpc/server.go:154`);
* requests are served before the routes are set up (`cli/up.go:158`): a route or a
  peer that a request adds in time makes the start fail when `UpRun` comes to
  the same route, and a route of the file that requests have added and deleted by
  then is added to the kernel after all, without an entry in the table;
* `Peers[len-1]` (`rpc/server.go:236`) may be the peer of another request, and
  the kernel then gets that peer's routes;
* `AddPeer` compares names as written, while `ByName` is keyed in lower case: a
  name that differs in case takes over the key, in DNS too. `LookupsAgree` and
  `DoneIsDone` say so;
* on Windows `Peers` sizes its reply with one read of the list and fills it with
  another (`rpc/server_windows.go:124`): a peer added between them ends the
  daemon, as net/rpc does not recover from a panic;
* a refused `AddPeer` never reaches the line that prints its message
  (`cli/addpeer.go:54`): the reply cannot be encoded, and the operator reads
  "RPC call failed: unexpected EOF";
* on Windows `route del` does nothing and `route add` only connects, and the
  command line prints nothing for either, as after a success
  (`rpc/server_windows.go:52`); `status` reports 100 as the number of peers;
* what `AddPeer` added is gone after a restart; port files stay and name the
  port of a daemon that is gone.

Discovery and exchange:

* each request restarts the ticker (`p2p/discover.go:30`), so callers that keep
  coming can put a pass off for ever: `RequestTriggersPass` and
  `PeersAreConnected` are false without `RequestsForEver`;
* a dial of a peer that was learned may fail, also for a peer that is there; the
  error is dropped and nobody tries again (`p2p/pex.go:144`), so `LearnedIsDialed`
  promises a dial and not a connection;
* our handler of the exchange has no deadline: a requester that stalls keeps it
  (`p2p/pex.go:56`);
* `RequestPeX` asks the first peer only: it returns with the first answer and
  with the first error (`p2p/pex.go:84`);
* an empty answer of the exchange is an answer: it arms the cancel, and the
  slower DHT is cut off half a second later (`p2p/routing.go:44`);
* the gater looks at IPv4 addresses only (`p2p/routing.go:74`), so an IPv6 tunnel
  address that a peer told may be dialed, and it lets a dial pass when the kernel
  does not answer (`p2p/routing.go:79`).

Services:

* the end of one direction ends the other one too (`svc/pipe.go:33`), so what
  the server still sends to a client that has half-closed is cut off;
* with much traffic both ways the loops of the two nodes can wait for each other
  for ever, and then neither notices that an application has closed
  (`svc/pipe.go:33`; `CrossBlocked`, which TLC reaches with four bytes each way);
* every pipe leaves one goroutine behind (`LeavesOnePump`).

Shutdown:

* on Linux a stop usually ends with exit code 1 and leaves the RPC socket, and
  the next start fails with "address already in use", though `README.md:194`
  promises a clean-up;
* on Linux a stop never ends when `host.Close` does not return, as there is no
  timer (`signals/signals.go:38`);
* on Windows the lock file may be left with exit code 0
  (`signals/signals_windows.go:165`);
* the lock file is never looked at; after a second signal a daemon may remove
  its successor's; a daemon that is asked to stop during its start may write
  the file after it has cleaned up, over its successor's (with three processes
  on one name; `Undisturbed` says so);
* the reader of the service network panics when the interface is closed under
  it (`svc/network.go:112`), in the middle of the shutdown;
* on Windows a closing event lets the system end the process before the
  shutdown is complete.

### Bounds and why they are enough

* *Tunnel.* Three packets: one opens and publishes a stream, two contend for
  it, one of those can delete an entry while the other publishes. The safety
  properties and the refinement are proved for any number. `tunnel_live`
  starts in a reachable state, `Warm`, in which a stream is published and its
  handler has given up, so that the two remaining goroutines contend without a
  third.
* *Framing.* `MaxPackets` bounds the packets written. With a radix of 3 and an
  MTU of 3 a size takes one or two non-zero header bytes, which is what a
  swapped byte order or a stale byte needs; a second packet shows what
  a first one leaves behind. The safety properties are proved for any radix,
  MTU and packets.
* *Registry.* Three requests: two that race and one that changes what they
  look at. Operations include a peer that exists, a name that exists, an empty
  name, references by name and by ID prefix, a route that covers others, and
  removals of configured routes and of host routes. The constraint `Explored`
  stops behaviours with overlapping requests in which requests are busy before
  the set-up is over, which would multiply its steps by theirs; requests in
  sequence meet the set-up at every point, and overlapping ones start after it.
  The safety properties are proved for any files, operations and numbers of
  requests, without that constraint.
* *Discovery.* Nothing is bounded but the callers and the peers; a caller may
  ask for ever. One peer is configured and one is added during the run.
* *PeerFinding.* One search with the exchange and one other routing: two
  appends race for the mutex. One exchange of `PeXService` runs beside it;
  `MaxChanges` bounds the connections others make and the peers that are lost,
  one of which suffices to break a stream, to start an exchange with all peers,
  or to put the target out of reach. A book holds a public address, one inside
  the tunnel, or nothing. The safety properties are proved for any sizes.
* *ServicePipe.* `Total` bounds the bytes, `Window` what a hop takes. Four bytes
  each way fill the stream's window of two, a loop and a pump, in both
  directions at once, which is what it takes for the loops to block each other.
  The constraint `Explored` lets connections stay open with all of that
  traffic; ends and breaks are explored at every point with up to two bytes up
  and one down, and in every state in which the loops block each other.
  The safety properties are proved for any numbers of bytes and any windows
  (two bytes or more on the stream, which take a service ID).
* *Daemon.* Two processes meet as predecessor and successor or side by side;
  the stop that needs a third (see the facts above) was found by the proof,
  which holds for any number. `MaxHups` bounds SIGUSR1, which only leads back
  to the `select`.
* *WinDaemon.* One user of the interface of each kind; two control events, of
  which one lets the system end the process, and a signal are all that can meet
  in the two channels. The safety properties are proved for any number.
* *Management.* Two commands, one over JSON-RPC that is tried again, cover an
  answer that is late, two clients at one server whose appends meet, under names
  that differ in case, and one client at two servers. `MaxStarts` bounds the
  daemons: the second one meets the port files of the first. `MaxPasses` bounds
  the passes of discovery that an `AddPeer` can wait for.

`tunnel_safety` and `registry` check no liveness and use the symmetry of packets
of one flow and of requests.

`CHECK_DEADLOCK FALSE` is set where the modelled part may come to rest: all
packets settled, all requests answered, the stream over, the loop returned,
the processes ended.

### Fairness

* *Tunnel*: weak fairness of each goroutine and each handler. The Go scheduler
  runs what can run; a write does not block beyond the deadline armed before
  it (25 s), so a step that can fail instead of waiting is always enabled. A
  goroutine at the mutex gets it when it is free and stays free; with other
  contenders, each of whom takes it once, weak fairness suffices.
  `HandlerFails`, `NetworkReset`, `Admit` and `MapFatal` are never required.
* *Framing*: weak fairness of the handler's goroutine.
* *PeerFinding*, *ServicePipe*, *Daemon*, *Management*: the bounds make every
  behaviour finite but for repetitions of nothing, so one weak fairness
  condition, `WF_vars(Internal)`, says as much as one for each goroutine: as
  long as a goroutine, a timer or a dial that ends can take a step, some step
  is taken. Left out of `Internal` is what nothing obliges to happen: in
  `PeerFinding` the handler at the other node and the network, so that a peer
  may stall for ever; in `ServicePipe` what applications send and close, and
  breaks; in `Daemon` signals, kills and starts, and the calls into libp2p
  (`Libp2p`), so that `StopLeadsToEnd` promises an end only to a stop whose
  `host.Close` returns (`Returns`); in `Management` that a daemon
  starts, is stopped or killed, that a pass of discovery begins, and what
  operators type.
* *WinDaemon*: weak fairness of the signal handler, of the timer, and of each
  control event's thread. `CloseHost` has none: `host.Close` may take for ever,
  and the timer then ends the process. The users of the interface have none
  either: a goroutine that keeps the read lock is ended by the timer too.
* *Discovery*: weak fairness of the loop and of each setting of the ticker;
  strong fairness of the two kinds of ready cases of the `select`, which
  chooses at random, and of each waiting caller, as channel senders are queued;
  strong fairness of a successful dial: a peer that is there whenever it is
  dialed is connected to in the end, though a single dial may fail (transport
  back-off).

## 4. Proofs

Every safety property of the runs is proved for all values of the constants
that satisfy the named assumptions. Each inductive invariant (`IInv`) was
checked by TLC on the instances of section 3 before it was proved.

`TunnelProofs` proves, from `DstAssumption` (the routing function has values
among the peers and "no route") and `DistinctAssumption` (the special values
are not packets or peers), for every set of packets and peers:

* `TypeCorrect`: `[]TypeOK`; `Framing`: `[]NoGarbage`; `NoDeadEntries`:
  `[]NoDeadEntry`; `TwiceAtMost`: `[]AtMostTwice`;
* `OneWriter`: `[]MutexTells`: the mutex of a stream says exactly who is in the
  locked section, so that no goroutine waits for one that has returned.
  This is the safety part of `EveryPacketSettles`;
* `Refinement`: `Spec => DatagramService`, with `offered` mapped to the packets
  whose goroutine has been started.

`NoGarbage` is not inductive: that the next two parts on a wire are one frame
depends on all writes that came before. `IInv` therefore says

* `Framed`: lengths and bodies alternate on every wire, pairwise of one packet;
* `Writing`: who is between its two writes has its length at the end;
* `Whole`: a stream that still works and is in nobody's hands ends with a whole
  frame, so the next holder of the mutex starts a new one;
* `Copies`, `Entries`: a stream in the map or in a goroutine's copy has been
  published by its opener, which is done with it, so the mutex is enough to be
  alone (`WriterAlone`);
* `Opening`: before that the opener is alone, and the stream unknown to others;
* `Addressed`, `Routed`: what is on a wire was offered and is for its peer.

`NoDeadEntry` needs `Copies` and `Opening`: only the holder of the mutex closes
a published stream, and it is then at `delete`.

The argument for `Whole` is where the order in the code matters: on a failed
write `Close` comes before the deferred `Unlock`, so a stream with half a frame
is no longer `open` when the mutex becomes free.

`AtMostTwice` is a count over the whole life of a packet, and a goroutine that
has failed on a shared stream writes the packet again to its own, though the
first body may be on its way. `Placed` says where bodies of a packet can be (its
own stream and the one its goroutine took from the map, once on each), and
`Budget` that those delivered, those on the way and the writes still to come
are two at most; every step moves one unit from one summand to another, or
drops it.

`FramingProofs` proves, from `FramingAssumption`, for any radix, MTU and packets:

* `TypeCorrect`: `[]TypeOK`; `Ordered`: `[]InOrderUnlessSplit`; `InBounds`:
  `[]NoPanic`.

The handler knows nothing of frames: it cuts bytes by the sizes it has read. The
invariant says what the bytes are. `Synced` claims a function `start` that gives
each frame its place on the wire (negative for one partly read), such that every
byte on the wire is the one its frame has there (`Cut`), and the handler is at a
frame's beginning, or inside the frame of the header it has read (`At`). A write
extends `start` at its end; a read moves all of it. `Size` of the header gives
the length back because a length is below the square of the radix.

`RegistryProofs` proves, from `RegistryAssumption`, for any file, peers, networks,
operations and numbers of requests:

* `TypeCorrect`: `[]TypeOK`, and `RoutedAsRequested`: `[]OnlyRequested`, however
  requests overlap;
* `KernelRequested`: `[]KernelAsRequested`, `LookupsRequested`:
  `[]LookupsAsRequested`, the same claim about the routes of the kernel, the
  service networks and what `UpRun` has still to add included, and about the
  tables `ByName` and `ByNetID`. Here overlapping requests may lose entries, and
  leave table and kernel different, but make none up;
* `AddedOnce`: `[]Distinct`; `KernelFollows`: `[]KernelAgrees`; `LookupsFollow`:
  `[]LookupsAgree`; `AddedReached`: `[]AddedIsRouted`, for requests in sequence.
  `KernelFollows` holds from the end of the set-up on, whatever requests came
  during it; its exceptions are routes of the file that were deleted before
  `UpRun` came to add them, those that were warned of, and those stranded by a
  failed undo.

`OnlyRequested` speaks of the table, but a lost append, or the last peer of
another request, brings values into it from elsewhere: `Sourced` follows all
that a list, a half-finished append or a target may hold back to the file or to
a request that has passed its checks. `GivenMeant` does so for the kernel,
including the route that a failed "del" puts back, `Keyed` for the lookups. For
requests in sequence, `Alone` is the
reason why what a request has checked stays true (`Checked`), why the last of the
list is its own peer (`Stored`), and why table and kernel differ by its own half
step only (`Matched`). `Found` is `LookupsAgree` but for a peer that is not
indexed yet: the last of those that share a key has it.

`P2pProofs` proves, from `DiscoveryAssumption` (the configured peers are among
the peers), for every set of peers and of callers, who may ask without end:

* `DiscoveryTypeCorrect`: `[]DiscoveryTypeOK`, which is inductive as it stands;
  it bounds the interval, because doubling (lemma `Intervals`) stays in the list
  of intervals until it is cut at a minute;
* `Rests`: `RestsAfterPass`. Only `BackOff` leads from a pass to the `select`,
  and it sets the ticker, which drops a waiting tick, to an interval that
  `DiscoveryTypeOK` and `Intervals` keep at two seconds or more.

and, from `PeerExchangeAssumption` (list, books and special requests are of the
right kind) and `RoutingAssumption`, for every set of peers, books, requests and
routings:

* `TypeCorrect`: `[]TypeOK`, in it that the routing that appends has the mutex;
* `Whole`: `[]WholeAnswer`; `NoneLost`: `[]NothingLost`.

`Exchange` carries the first: while the handler answers, every line of its book
is left, on the way, or read, and nothing remains on the way when our end has
given up; so a `closed` stream that is empty means the whole book. `Searching`
and `Appended` carry the second: between `Load` and `Store` the mutex keeps
`loaded = info` true, so nothing appended is overwritten, and the search
returns when all routings are done.

`ServicePipeProofs` proves, from `PipeAssumption`, for any numbers of bytes and
any windows:

* `TypeCorrect`: `[]TypeOK`; `ReceivedInOrder`: `[]InOrder`; `OnePumpLeft`:
  `[]LeavesOnePump`;
* `NothingDropped`: `[]NoneMissing`, while nothing is closed the bytes received
  and those under way are all that were written, each once (the safety part of
  `AllArrives`); `WriterWaits`: `[]Ahead`, an application is ahead of the other's
  reads by no more than the three windows and four chunks, a bound that TLC finds
  reached.

What an application receives depends on all the places a byte passes. `UnderWay`
strings them together, from the last byte received back to the first one
written: received, last hop, loop and pump of a pipe, stream, loop and pump of
the other pipe, first hop. Bytes that move leave the string as it is (`Moved`).
What breaks it is a hop that takes no more bytes: what it held is dropped and
writes to it vanish. `Ordered` therefore claims the string only up to the first
such hop from the receiver's side (`Arriving`, `Halfway`, `UnderWay`); nobody
asks for what is behind it, since a hop that was closed stays so (`Shrinks`).
`Handshake` says what else is on the stream: nothing but the two bytes of the ID
before the far end has read them, and one status byte in front of the server's
bytes, which the near end takes off. `Sides` is why the data cannot start before:
a pipe runs only behind its end of the handshake. `Pumps` gives `LeavesOnePump`:
pipes start with two pumps, and the only step that ends one ends the loop.

`DaemonProofs` proves, from `DaemonAssumption`, for any number of processes:

* `TypeCorrect`, `CleanStop`: `[]LeavesNothing`, `Unharmed`: `[]Undisturbed`.

`Stopping` follows a daemon that was asked once, while it forwarded, through
its shutdown: until it closes the interface it holds it, and from the removal
of the lock file on the file is not its own. `Locked` is `Undisturbed` from the
line that writes the file; another process at that line, or at the one that
removes the file, would hold the interface too (`Unasked`, `Stopping`), which
has one holder (`TypeOK`). That argument fails for a process asked to stop
during its start, and so does the property: the exception in `Undisturbed`
comes from there.

`WinDaemonProofs` proves, from `WinDaemonAssumption`, for any control events and
stream handlers:

* `TypeCorrect`, `OutlivesUse`: `[]SessionOutlivesUse`, `CleanExit`:
  `[]ZeroIsClean`.

`InUse` (a packet in use means an open session) is kept by `EndSession`, which
waits for all users; nothing opens a session behind it, because the signal
handler starts after the session (`Order`). `Closed` says what has been done at
each step of the shutdown, and `Zero` that exit code 0 comes from its last step,
whatever else wanted to end the process.

`ManagementProofs` proves, from `ManagementAssumption` and `MagicDnsAssumption`
(`Lower` is idempotent), for any clients, requests, tries, daemons and peers:

* `TypeCorrect`: `[]TypeOK`; `Kept`: `[]DoneIsDone`; `AddsOnce`:
  `[]RetryAddsOnce`.

Appends are not atomic, so both claims about the list hold until appends have
met (`lost`), and the claim about the name however they meet. `Attended` is why a
retry is harmless: a client gives up only on a request that waits for
discovery, so the list has the peer by then, and the check of the next try,
which finds what the client added (`Added`, `Fits`), is refused. `Done` follows an
`AddPeer` from its append over its write of the table (`Granted`) to the answer
and past it: while nothing is lost the list only grows as long as a daemon
runs, an answer is by the daemon that the request went to (`Asked`), and a name's
entry in the table is overwritten only by one who asked for a name with the same
key (`Leads`), which `Rivals` counts in. That the table of the file has entries of
the right type needs that a nonempty set of positions has a last one (`LastOf`).

Model-checked only: the liveness properties, which need fairness and ENABLED and
are outside the prover's reach, and those of the two runs that violate theirs.

## 5. Not modelled, and the plan

Not modelled, as `PROJECT.json` lists with reasons: node construction, the relay
ACL and route metrics (`p2p/node.go`, `relay.go`, `metrics.go`); the hashing of
IDs to addresses (two IDs may hash to one address; `config/idhash.go:12`); the
third-party network stack; the command line, key handling and generated code;
the example client. Of modelled components: `EnsureListener` and `ProxyTo` of
the service network, `FindRoute`, questions to DNS by peer ID, `AddPeerWithTUN`
(which nothing calls), Darwin, addresses and `netsh`, malformed parameters, the
text of messages.

Hazards without a model: packets of one flow are sent by different goroutines
without a limit and may overtake each other (`cli/up.go:275`), which `Datagram`
allows; the zero proxy of an unknown network ID (`svc/network.go:60`).

Next, in this order:

1. Proofs: the safety parts of the remaining liveness properties
   (`EndsReachBoth`, `FramesAreDelivered`).
2. `EnsureListener` with `Register` and its cases of an unknown network ID.
3. Compositions: `Tunnel` with `Registry` (routes that change under packets,
   `cli/up.go:253`), `Registry` with `Discovery` (an `AddPeer` that waits in
   `Rediscover`, abstract in `Management`).
4. Membership: which components see a peer added at run time (relay ACL, DNS by
   ID and service-network routes hold the list of the start).
