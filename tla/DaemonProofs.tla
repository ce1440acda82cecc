---------------------------- MODULE DaemonProofs ----------------------------
(***************************************************************************)
(* Proofs about Daemon, for any number of processes on one interface name: *)
(* what a clean stop leaves behind, and that a daemon nobody asked to stop *)
(* keeps its lock file and its socket.                                     *)
(***************************************************************************)
EXTENDS Daemon, TLAPS

\* Signal handler and RPC server run between CreateNode and the end.
Started ==
  \A p \in Procs :
    /\ main[p] \in {"off", "device", "node", "ended"} =>
         sig[p] = "off" /\ rpc[p] = "off" /\ ~ctxDone[p] /\ ~pending[p]
    /\ main[p] \in {"off", "device", "ended"} => ~iface[p]

\* A process nobody asked to stop holds its interface.
Unasked ==
  \A p \in Procs :
    asked[p] = "never" =>
      /\ ~pending[p] /\ ~ctxDone[p]
      /\ sig[p] \in {"off", "notify", "select", "refresh"}
      /\ main[p] # "closed"
      /\ main[p] \in {"node", "lock", "up", "routes", "loop"} => iface[p]

\* After one request to a daemon that forwards: before the shutdown, before
\* and after the lock file is removed, after the cancel.
Stopping ==
  \A p \in Procs :
    asked[p] = "running" =>
      /\ main[p] \in {"loop", "closed", "ended"}
      /\ main[p] = "ended" \/
           \/ sig[p] \in {"select", "refresh"} /\ pending[p] /\ iface[p] /\ ~ctxDone[p]
           \/ sig[p] \in {"hostClose", "unlock"} /\ ~pending[p] /\ iface[p] /\ ~ctxDone[p]
           \/ sig[p] = "ifaceClose" /\ ~pending[p] /\ iface[p] /\ ~ctxDone[p] /\ lock # p
           \/ sig[p] \in {"down", "cancel"} /\ ~pending[p] /\ ~ctxDone[p] /\ lock # p
           \/ sig[p] \in {"select", "refresh", "returned"} /\ ~pending[p] /\ ctxDone[p] /\ lock # p

\* Who accepts has its socket, who has closed it has none.
Sockets ==
  \A p \in Procs : /\ rpc[p] = "accept" => socket = p
                   /\ rpc[p] = "done" => socket # p

\* Undisturbed, from the line that writes the lock file.
Orderly == \A p \in Procs : asked[p] \in {"never", "running"}
Locked ==
  Orderly => \A p \in Procs :
               (main[p] \in {"up", "routes", "loop"} /\ asked[p] = "never") => lock = p

IInv == TypeOK /\ Started /\ Unasked /\ Stopping /\ Sockets /\ Locked /\ LeavesNothing

\* Before the first process starts there is nothing.
LEMMA Initially == Init => IInv
<1> SUFFICES ASSUME Init PROVE IInv
  OBVIOUS
<1>1. TypeOK
  <2>1. /\ ctxDone \in [Procs -> BOOLEAN] /\ iface \in [Procs -> BOOLEAN]
        /\ pending \in [Procs -> BOOLEAN]
    BY ZenonT(30) DEF Init
  <2>2. hups \in 0..MaxHups BY DaemonAssumption DEF Init
  <2>3. \A p \in Procs : (exit[p] # "none" <=> main[p] = "ended") /\ ~iface[p]
    BY DEF Init
  <2>4. devUp = FALSE /\ {lock, socket, dev} \subseteq Procs \cup {None}
    BY DEF Init
  <2>5. /\ main = [p \in Procs |-> "off"] /\ sig = [p \in Procs |-> "off"]
        /\ rpc = [p \in Procs |-> "off"] /\ exit = [p \in Procs |-> "none"]
        /\ asked = [p \in Procs |-> "never"]
    BY DEF Init
  <2> QED BY <2>1, <2>2, <2>3, <2>4, <2>5 DEF TypeOK
<1>2. Started /\ Unasked /\ Sockets /\ LeavesNothing
  BY DEF Init, Started, Unasked, Sockets, LeavesNothing
<1>3. Stopping /\ Locked BY DEF Init, Stopping, Locked, Orderly
<1> QED BY <1>1, <1>2, <1>3 DEF IInv

\* A process that ends takes its interface with it and leaves its files.
LEMMA EndInv ==
  ASSUME IInv, NEW p \in Procs, NEW how \in {"clean", "failed"}, End(p, how),
         UNCHANGED files, main[p] # "ended",
         asked' \in [Procs -> {"never", "starting", "running", "again"}],
         \A q \in Procs : asked'[q] = asked[q] \/ q = p,
         asked[p] # "never" => asked'[p] \in {asked[p], "again"},
         asked'[p] = "running" => main[p] \in {"loop", "closed"},
         UNCHANGED hups,
         (how = "clean" /\ asked'[p] = "running") => p \notin {lock, socket}
  PROVE  IInv'
<1> USE DaemonAssumption DEF End, IInv, files
<1>1. TypeOK'
  <2>1. /\ main' \in [Procs -> {"off", "device", "node", "lock", "up", "routes", "loop",
                               "closed", "ended"}]
        /\ sig' \in [Procs -> {"off", "notify", "select", "refresh", "hostClose",
                              "unlock", "ifaceClose", "down", "cancel", "returned"}]
        /\ rpc' \in [Procs -> {"off", "listen", "accept", "done"}]
        /\ exit' \in [Procs -> {"none", "clean", "failed"}]
    BY DEF TypeOK
  <2>2. /\ ctxDone' \in [Procs -> BOOLEAN] /\ iface' \in [Procs -> BOOLEAN]
        /\ pending' \in [Procs -> BOOLEAN]
    BY DEF TypeOK
  <2>3. /\ {lock', socket', dev'} \subseteq Procs \cup {None}
        /\ devUp' \in BOOLEAN /\ (devUp' => dev' # None)
    <3>1. {lock', socket'} \subseteq Procs \cup {None} BY DEF TypeOK
    <3>2. dev' \in Procs \cup {None} BY DEF TypeOK
    <3>3. devUp' \in BOOLEAN /\ (devUp' => dev' # None) BY DEF TypeOK
    <3> QED BY <3>1, <3>2, <3>3
  <2>4. \A q \in Procs : /\ (exit'[q] # "none") <=> (main'[q] = "ended")
                         /\ iface'[q] => dev' = q
    BY DEF TypeOK
  <2> QED BY <2>1, <2>2, <2>3, <2>4 DEF TypeOK
<1>2. Started' BY DEF TypeOK, Started
<1>3. Unasked' BY DEF TypeOK, Unasked
<1>4. Stopping' BY DEF TypeOK, Stopping
<1>5. Sockets' BY DEF TypeOK, Sockets
<1>6. Locked' BY DEF TypeOK, Locked, Orderly
<1>7. LeavesNothing' BY DEF TypeOK, LeavesNothing
<1> QED BY <1>1, <1>2, <1>3, <1>4, <1>5, <1>6, <1>7

LEMMA DiesInv ==
  ASSUME IInv, NEW p \in Procs, NEW how \in {"clean", "failed"}, Dies(p, how),
         main[p] # "ended",
         (how = "clean" /\ asked[p] = "running") => p \notin {lock, socket}
  PROVE  IInv'
BY EndInv DEF Dies, sent, IInv, TypeOK, Stopping

\* UpRun: the interface is there before the lock file is written.
LEMMA MainInv ==
  ASSUME IInv, NEW p \in Procs, Main(p) \/ Start(p) \/ ReaderPanics(p) \/ Kill(p)
  PROVE  IInv'
<1> USE DaemonAssumption
    DEF MainAt, MainTo, goroutines, inner, sent, files, device
<1>1. CASE Start(p)
  BY <1>1 DEF Start, IInv, TypeOK, Started, Unasked, Stopping, Sockets, Locked, LeavesNothing, Orderly
<1>2. CASE NewTun(p)
  BY <1>2 DEF NewTun, IInv, TypeOK, Started, Unasked, Stopping, Sockets, Locked, LeavesNothing, Orderly
<1>3. CASE CreateNode(p)
  BY <1>3 DEF CreateNode, IInv, TypeOK, Started, Unasked, Stopping, Sockets, Locked, LeavesNothing, Orderly
<1>4. CASE WriteLock(p)
  BY <1>4 DEF WriteLock, IInv, TypeOK, Started, Unasked, Stopping, Sockets, Locked, LeavesNothing, Orderly
<1>5. CASE Up(p)
  BY <1>5 DEF Up, IInv, TypeOK, Started, Unasked, Stopping, Sockets, Locked, LeavesNothing, Orderly
<1>6. CASE ApplyRoutes(p)
  BY <1>6 DEF ApplyRoutes, IInv, TypeOK, Started, Unasked, Stopping, Sockets, Locked, LeavesNothing, Orderly
<1>7. CASE SeeClosed(p)
  BY <1>7 DEF SeeClosed, IInv, TypeOK, Started, Unasked, Stopping, Sockets, Locked, LeavesNothing, Orderly
<1>8. CASE StartFails(p) BY <1>8, DiesInv DEF StartFails
<1>9. CASE ReaderPanics(p) BY <1>9, DiesInv DEF ReaderPanics
<1>10. CASE Kill(p) BY <1>10, DiesInv DEF Kill, Alive
<1>11. CASE Return(p)
  <2>1. asked[p] = "running" => p \notin {lock, socket}
    BY <1>11 DEF Return, IInv, Stopping, Sockets
  <2> QED BY <1>11, <2>1, DiesInv DEF Return
<1> QED BY <1>1, <1>2, <1>3, <1>4, <1>5, <1>6, <1>7, <1>8, <1>9, <1>10, <1>11 DEF Main

\* The signal handler: it removes a lock file only after a request, and while
\* its own process still holds the interface.
LEMMA SignalsInv ==
  ASSUME IInv, NEW p \in Procs,
         Signals(p) \/ CloseHost(p) \/ Rediscover(p) \/ TakeUsr1(p)
  PROVE  IInv'
<1> USE DaemonAssumption
    DEF SigAt, SigTo, others, inner, sent, files, device
<1>1. CASE Notify(p)
  BY <1>1 DEF Notify, IInv, TypeOK, Started, Unasked, Stopping, Sockets, Locked, LeavesNothing, Orderly
<1>2. CASE TakeUsr1(p)
  BY <1>2 DEF TakeUsr1, IInv, TypeOK, Started, Unasked, Stopping, Sockets, Locked, LeavesNothing, Orderly
<1>3. CASE Rediscover(p)
  BY <1>3 DEF Rediscover, IInv, TypeOK, Started, Unasked, Stopping, Sockets, Locked, LeavesNothing, Orderly
<1>4. CASE TakeExit(p)
  BY <1>4 DEF TakeExit, IInv, TypeOK, Started, Unasked, Stopping, Sockets, Locked, LeavesNothing, Orderly
<1>5. CASE CloseHost(p)
  BY <1>5 DEF CloseHost, IInv, TypeOK, Started, Unasked, Stopping, Sockets, Locked, LeavesNothing, Orderly
<1>6. CASE RemoveLock(p)
  BY <1>6 DEF RemoveLock, IInv, TypeOK, Started, Unasked, Stopping, Sockets, Locked, LeavesNothing, Orderly
<1>7. CASE CloseIface(p)
  <2>1. TypeOK'
    <3>1. dev' \in Procs \cup {None} /\ devUp' \in BOOLEAN /\ (devUp' => dev' # None)
      BY <1>7 DEF CloseIface, IInv, TypeOK
    <3>2. \A q \in Procs : iface'[q] => dev' = q
      BY <1>7, DaemonAssumption DEF CloseIface, IInv, TypeOK
    <3>3. iface' \in [Procs -> BOOLEAN] BY <1>7 DEF CloseIface, IInv, TypeOK
    <3> QED BY <1>7, <3>1, <3>2, <3>3 DEF CloseIface, IInv, TypeOK
  <2>2. Started' BY <1>7 DEF CloseIface, IInv, TypeOK, Started
  <2>3. Unasked' BY <1>7 DEF CloseIface, IInv, TypeOK, Unasked
  <2>4. Stopping' BY <1>7 DEF CloseIface, IInv, TypeOK, Stopping
  <2>5. Sockets' BY <1>7 DEF CloseIface, IInv, TypeOK, Sockets
  <2>6. Locked' BY <1>7 DEF CloseIface, IInv, TypeOK, Unasked, Stopping, Locked, Orderly
  <2>7. LeavesNothing' BY <1>7 DEF CloseIface, IInv, TypeOK, Started, LeavesNothing
  <2> QED BY <2>1, <2>2, <2>3, <2>4, <2>5, <2>6, <2>7 DEF IInv
<1>8. CASE Down(p)
  <2>1. TypeOK' BY <1>8 DEF Down, IInv, TypeOK
  <2>2. Started' BY <1>8 DEF Down, IInv, TypeOK, Started
  <2>3. Unasked' BY <1>8 DEF Down, IInv, TypeOK, Unasked
  <2>4. Stopping' BY <1>8 DEF Down, IInv, TypeOK, Stopping
  <2>5. Sockets' BY <1>8 DEF Down, IInv, TypeOK, Sockets
  <2>6. Locked' BY <1>8 DEF Down, IInv, TypeOK, Unasked, Stopping, Locked, Orderly
  <2>7. LeavesNothing' BY <1>8 DEF Down, IInv, TypeOK, Started, LeavesNothing
  <2> QED BY <2>1, <2>2, <2>3, <2>4, <2>5, <2>6, <2>7 DEF IInv
<1>9. CASE Cancel(p)
  BY <1>9 DEF Cancel, IInv, TypeOK, Started, Unasked, Stopping, Sockets, Locked, LeavesNothing, Orderly
<1>10. CASE SigReturn(p)
  BY <1>10 DEF SigReturn, IInv, TypeOK, Started, Unasked, Stopping, Sockets, Locked, LeavesNothing, Orderly
<1>11. CASE StopFails(p)
  <2>1. main[p] # "ended" BY <1>11 DEF StopFails, IInv, TypeOK, Started
  <2> QED BY <1>11, <2>1, DiesInv DEF StopFails
<1> QED BY <1>1, <1>2, <1>3, <1>4, <1>5, <1>6, <1>7, <1>8, <1>9, <1>10, <1>11 DEF Signals

\* The RPC server: a socket file that is there is somebody's, or left over.
LEMMA ServerInv ==
  ASSUME IInv, NEW p \in Procs, Server(p)
  PROVE  IInv'
<1> USE DaemonAssumption DEF inner, sent, device
<1>1. CASE RpcListen(p)
  BY <1>1 DEF RpcListen, IInv, TypeOK, Started, Unasked, Stopping, Sockets, Locked, LeavesNothing, Orderly
<1>2. CASE RpcListenFails(p)
  <2>1. main[p] # "ended" BY <1>2 DEF RpcListenFails, IInv, TypeOK, Started
  <2> QED BY <1>2, <2>1, DiesInv DEF RpcListenFails
<1>3. CASE RpcClose(p)
  BY <1>3 DEF RpcClose, IInv, TypeOK, Started, Unasked, Stopping, Sockets, Locked, LeavesNothing, Orderly
<1> QED BY <1>1, <1>2, <1>3 DEF Server

\* A request to stop; before signal.Notify it ends the process.
LEMMA StopInv ==
  ASSUME IInv, NEW p \in Procs, Stop(p)
  PROVE  IInv'
<1> USE DaemonAssumption
<1>1. /\ asked' \in [Procs -> {"never", "starting", "running", "again"}]
      /\ \A q \in Procs : asked'[q] = asked[q] \/ q = p
      /\ asked'[p] # "never" /\ asked[p] # "never" => asked'[p] = "again"
      /\ asked'[p] = "running" => main[p] = "loop" /\ asked[p] = "never"
  BY DEF Stop, IInv, TypeOK
<1>2. CASE sig[p] \in {"off", "notify"}
  BY <1>1, <1>2, EndInv DEF Stop, Alive
<1>3. CASE sig[p] \notin {"off", "notify"}
  <2>1. TypeOK'
    <3>1. /\ pending' = [pending EXCEPT ![p] = TRUE]
          /\ UNCHANGED <<main, sig, rpc, ctxDone, iface, hups, exit, lock, socket, dev, devUp>>
      BY <1>3 DEF Stop, goroutines, files, device
    <3>2. pending' \in [Procs -> BOOLEAN] BY <3>1 DEF IInv, TypeOK
    <3> QED BY <1>1, <3>1, <3>2 DEF IInv, TypeOK
  <2>2. Started' BY <1>1, <1>3 DEF Stop, Alive, goroutines, files, device, IInv, TypeOK, Started
  <2>3. Unasked' BY <1>1, <1>3 DEF Stop, Alive, goroutines, files, device, IInv, TypeOK, Unasked
  <2>4. Stopping'
    <3>1. /\ pending' = [pending EXCEPT ![p] = TRUE]
          /\ UNCHANGED <<main, sig, rpc, ctxDone, iface, lock>>
      BY <1>3 DEF Stop, goroutines, files, device
    <3>2. asked'[p] = "running" => /\ main[p] = "loop" /\ asked[p] = "never"
                                   /\ sig[p] \in {"select", "refresh"}
                                   /\ iface[p] /\ ~ctxDone[p]
      BY <1>1, <1>3 DEF IInv, Unasked
    <3>3. asked'[p] = "running" => pending'[p]
      BY <3>1 DEF IInv, TypeOK
    <3> QED BY <1>1, <3>1, <3>2, <3>3 DEF IInv, TypeOK, Stopping
  <2>5. Sockets' BY <1>1, <1>3 DEF Stop, Alive, goroutines, files, device, IInv, TypeOK, Sockets
  <2>6. Locked' BY <1>1, <1>3 DEF Stop, Alive, goroutines, files, device, IInv, TypeOK, Unasked, Stopping, Locked, Orderly
  <2>7. LeavesNothing' BY <1>1, <1>3 DEF Stop, Alive, goroutines, files, device, IInv, TypeOK, Started, LeavesNothing
  <2> QED BY <2>1, <2>2, <2>3, <2>4, <2>5, <2>6, <2>7 DEF IInv
<1> QED BY <1>2, <1>3

\* Nobody who accepts loses the socket file to a clean-up.
LEMMA CleanInv == ASSUME IInv, Clean PROVE IInv'
BY DaemonAssumption
DEF Clean, Alive, goroutines, inner, sent, device,
    IInv, TypeOK, Started, Unasked, Stopping, Sockets, Locked, LeavesNothing, Orderly

\* IInv is inductive.
THEOREM Invariance == Spec => []IInv
<1>1. IInv /\ [Next]_vars => IInv'
  <2> SUFFICES ASSUME IInv, [Next]_vars PROVE IInv'
    OBVIOUS
  <2>1. CASE UNCHANGED vars
    BY <2>1 DEF vars, goroutines, inner, sent, files, device, IInv, TypeOK, Started,
       Unasked, Stopping, Sockets, Locked, LeavesNothing, Orderly
  <2>2. CASE Next
    BY <2>2, MainInv, SignalsInv, ServerInv, StopInv, CleanInv DEF Next, Internal, Libp2p, External
  <2> QED BY <2>1, <2>2
<1> QED BY <1>1, Initially, PTL DEF Spec

\* Type correctness; in it, that an open interface is one's own.
THEOREM TypeCorrect == Spec => []TypeOK
BY Invariance, PTL DEF IInv

\* A clean stop of a forwarding daemon leaves no file and no interface
\* (signals/signals.go:43, rpc/server.go:302), whatever else was started,
\* killed or stopped on that name.
THEOREM CleanStop == Spec => []LeavesNothing
BY Invariance, PTL DEF IInv

\* A forwarding daemon keeps its lock file and its socket.
THEOREM Unharmed == Spec => []Undisturbed
<1>1. IInv => Undisturbed
  BY DEF IInv, TypeOK, Sockets, Locked, Orderly, Undisturbed
<1> QED BY <1>1, Invariance, PTL
=============================================================================
