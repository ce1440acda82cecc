------------------------------- MODULE Daemon -------------------------------
(***************************************************************************)
(* Starting, running and stopping "mynetwork up" on one interface name:    *)
(* UpRun (cli/up.go), the signal handler (signals/signals.go), the two RPC *)
(* servers' lifetimes (rpc/server.go, rpc/jsonrpc_server.go) and what they *)
(* share with the daemon that runs before or after them: the interface     *)
(* (tun/tun_linux.go), the lock file, the RPC server's socket file and the *)
(* JSON-RPC server's port file.  A member of Procs is one process; several *)
(* may be started, by an init system or by mistake, while one still runs.  *)
(***************************************************************************)
EXTENDS Naturals

CONSTANTS Procs, None,   \* processes, numbered in the order they start
          MaxHups   \* bound: SIGUSR1 signals

ASSUME DaemonAssumption == Procs \subseteq Nat /\ None \notin Procs /\ MaxHups \in Nat

VARIABLES
  main,      \* UpRun
  sig,       \* SignalHandler
  rpc,       \* RpcServer
  ctxDone,   \* ctxCancel has been called
  iface,     \* tunDev.Iface is open
  pending,   \* a signal is in exitCh
  asked,     \* when it was sent SIGINT or SIGTERM
  hups,      \* SIGUSR1 signals sent
  exit,      \* how a process ended
  lock, socket,  \* the files: who wrote them, or None
  dev, devUp \* the interface of this name: who made it, or None

goroutines == <<sig, rpc>>
inner == <<ctxDone, iface, pending>>
sent == <<asked, hups>>
files == <<lock, socket>>
device == <<dev, devUp>>
vars == <<main, goroutines, inner, sent, exit, files, device>>

TypeOK ==
  /\ main \in [Procs -> {"off", "device", "node", "lock", "up", "routes", "loop",
                         "closed", "ended"}]
  /\ sig \in [Procs -> {"off", "notify", "select", "refresh", "hostClose",
                        "unlock", "ifaceClose", "down", "cancel", "returned"}]
  /\ rpc \in [Procs -> {"off", "listen", "accept", "done"}]
  /\ ctxDone \in [Procs -> BOOLEAN] /\ iface \in [Procs -> BOOLEAN]
  /\ pending \in [Procs -> BOOLEAN]
  /\ asked \in [Procs -> {"never", "starting", "running", "again"}]
  /\ hups \in 0..MaxHups
  /\ exit \in [Procs -> {"none", "clean", "failed"}]
  /\ {lock, socket, dev} \subseteq Procs \cup {None}
  /\ devUp \in BOOLEAN /\ (devUp => dev # None)
  /\ \A p \in Procs : /\ (exit[p] # "none") <=> (main[p] = "ended")
                      /\ iface[p] => dev = p

Init ==
  /\ main = [p \in Procs |-> "off"]
  /\ sig = [p \in Procs |-> "off"] /\ rpc = [p \in Procs |-> "off"]
  /\ ctxDone = [p \in Procs |-> FALSE] /\ iface = [p \in Procs |-> FALSE]
  /\ pending = [p \in Procs |-> FALSE]
  /\ asked = [p \in Procs |-> "never"] /\ hups = 0
  /\ exit = [p \in Procs |-> "none"]
  /\ lock = None /\ socket = None
  /\ dev = None /\ devUp = FALSE

-----------------------------------------------------------------------------
Alive(p) == main[p] \notin {"off", "ended"}
MainAt(p, from) == main[p] = from
MainTo(p, to) == main' = [main EXCEPT ![p] = to]

\* A process ends, by returning from main, by log.Fatal (checkErr), a panic
\* or a signal: its goroutines are gone, its handle on the interface is
\* closed, and with it goes the interface.  Its files stay.
End(p, how) ==
  /\ main' = [main EXCEPT ![p] = "ended"]
  /\ exit' = [exit EXCEPT ![p] = how]
  /\ sig' = [sig EXCEPT ![p] = "off"] /\ rpc' = [rpc EXCEPT ![p] = "off"]
  /\ ctxDone' = [ctxDone EXCEPT ![p] = FALSE]
  /\ iface' = [iface EXCEPT ![p] = FALSE]
  /\ pending' = [pending EXCEPT ![p] = FALSE]
  /\ dev' = IF dev = p THEN None ELSE dev
  /\ devUp' = (dev # p /\ devUp)

Dies(p, how) == End(p, how) /\ UNCHANGED <<files, sent>>

-----------------------------------------------------------------------------
(* UpRun                                                                   *)

\* config.Read changes nothing outside.
Start(p) == /\ MainAt(p, "off") /\ MainTo(p, "device")
            /\ \A q \in Procs : q < p => main[q] # "off"
            /\ UNCHANGED <<goroutines, inner, sent, exit, files, device>>

\* tun.New: the kernel refuses a name another process has open.
NewTun(p) == /\ MainAt(p, "device") /\ dev = None /\ MainTo(p, "node")
             /\ dev' = p
             /\ iface' = [iface EXCEPT ![p] = TRUE]
             /\ UNCHANGED <<goroutines, ctxDone, pending, sent, exit, files, devUp>>

\* CreateNode, then the go statements from Discover to the DNS server.
CreateNode(p) == /\ MainAt(p, "node") /\ MainTo(p, "lock")
                 /\ sig' = [sig EXCEPT ![p] = "notify"]
                 /\ rpc' = [rpc EXCEPT ![p] = "listen"]
                 /\ UNCHANGED <<inner, sent, exit, files, device>>

\* NewServiceNetwork and its reader, the services, then os.WriteFile(lockPath):
\* whatever is there is overwritten.
WriteLock(p) == /\ MainAt(p, "lock") /\ MainTo(p, "up")
                /\ lock' = p
                /\ UNCHANGED <<goroutines, inner, sent, exit, socket, device>>

\* Up and Apply look the interface up by its name.
Up(p) == /\ MainAt(p, "up") /\ dev # None /\ MainTo(p, "routes")
         /\ devUp' = TRUE
         /\ UNCHANGED <<goroutines, inner, sent, exit, files, dev>>

ApplyRoutes(p) == /\ MainAt(p, "routes") /\ devUp /\ MainTo(p, "loop")
                  /\ UNCHANGED <<goroutines, inner, sent, exit, files, device>>

\* checkErr: each of these steps may fail, which ends the process.
StartFails(p) ==
  /\ main[p] \in {"device", "node", "lock", "up", "routes"}
  /\ Dies(p, "failed")

\* The loop: a read of a closed interface is the sign to wait for the
\* cancelled context and to return, a second later.
SeeClosed(p) == /\ MainAt(p, "loop") /\ ~iface[p] /\ MainTo(p, "closed")
                /\ UNCHANGED <<goroutines, inner, sent, exit, files, device>>

\* Mutant: return without the second's sleep.
ReturnAtOnce(p) == MainAt(p, "closed") /\ ctxDone[p] /\ Dies(p, "clean")

\* Assumed of the second: the RPC server's goroutine, which nothing else
\* holds up, has run by then.
Return(p) == MainAt(p, "closed") /\ ctxDone[p] /\ rpc[p] = "done" /\ Dies(p, "clean")

\* The service network's reader panics when it cannot write a packet, as
\* after the interface has been closed.
ReaderPanics(p) ==
  /\ main[p] \in {"lock", "up", "routes", "loop", "closed"}
  /\ ~iface[p]
  /\ Dies(p, "failed")

-----------------------------------------------------------------------------
(* SignalHandler                                                           *)

SigAt(p, from) == sig[p] = from
SigTo(p, to) == sig' = [sig EXCEPT ![p] = to]
others == <<main, rpc, sent, exit>>

Notify(p) == /\ SigAt(p, "notify") /\ SigTo(p, "select")
             /\ UNCHANGED <<others, inner, files, device>>

\* SIGUSR1, which nothing else waits for: sent and taken.
TakeUsr1(p) == /\ SigAt(p, "select") /\ hups < MaxHups /\ SigTo(p, "refresh")
               /\ hups' = hups + 1
               /\ UNCHANGED <<main, rpc, asked, exit, inner, files, device>>

\* ForceRefresh, if it ends, then Rediscover, which returns when Discover takes
\* the request (module Discovery); the context is not cancelled meanwhile.
Rediscover(p) == /\ SigAt(p, "refresh") /\ SigTo(p, "select")
                 /\ UNCHANGED <<others, inner, files, device>>

TakeExit(p) == /\ SigAt(p, "select") /\ pending[p] /\ SigTo(p, "hostClose")
               /\ pending' = [pending EXCEPT ![p] = FALSE]
               /\ UNCHANGED <<others, ctxDone, iface, files, device>>

\* host.Close has returned.
CloseHost(p) == /\ SigAt(p, "hostClose") /\ SigTo(p, "unlock")
                /\ UNCHANGED <<others, inner, files, device>>

\* os.Remove(lockPath) fails when there is no such file.
RemoveLock(p) == /\ SigAt(p, "unlock") /\ lock # None /\ SigTo(p, "ifaceClose")
                 /\ lock' = None
                 /\ UNCHANGED <<others, inner, socket, device>>

\* The interface goes with its last handle; whether its name is gone by the
\* next line is the kernel's affair.
CloseIface(p) == /\ SigAt(p, "ifaceClose") /\ SigTo(p, "down")
                 /\ iface' = [iface EXCEPT ![p] = FALSE]
                 /\ \/ dev' = IF dev = p THEN None ELSE dev
                    \/ UNCHANGED dev
                 /\ devUp' = (devUp /\ dev' # None)
                 /\ UNCHANGED <<others, ctxDone, pending, files>>

\* tunDev.Down() looks the interface up by its name, too.
Down(p) == /\ SigAt(p, "down") /\ dev # None /\ SigTo(p, "cancel")
           /\ devUp' = FALSE
           /\ UNCHANGED <<others, inner, files, dev>>

\* Mutant: the handler returns where it should end the process.
StopGivesUp(p) == /\ sig[p] \in {"hostClose", "unlock", "down"} /\ SigTo(p, "returned")
                  /\ UNCHANGED <<others, inner, files, device>>

\* log.Fatal after each of these calls.
StopFails(p) == /\ sig[p] \in {"hostClose", "unlock", "down"}
                /\ Dies(p, "failed")

\* Mutant: the lock file is removed last.
CancelAndUnlock(p) == /\ SigAt(p, "cancel") /\ SigTo(p, "select")
                      /\ ctxDone' = [ctxDone EXCEPT ![p] = TRUE]
                      /\ lock' = None
                      /\ UNCHANGED <<others, iface, pending, socket, device>>

Cancel(p) == /\ SigAt(p, "cancel") /\ SigTo(p, "select")
             /\ ctxDone' = [ctxDone EXCEPT ![p] = TRUE]
             /\ UNCHANGED <<others, iface, pending, files, device>>

SigReturn(p) == /\ SigAt(p, "select") /\ ctxDone[p] /\ SigTo(p, "returned")
                /\ UNCHANGED <<others, inner, files, device>>

-----------------------------------------------------------------------------
(* The other goroutines                                                    *)

\* A socket file that is there, whoever left it, makes Listen fail.
RpcListen(p) == /\ rpc[p] = "listen" /\ socket = None /\ ~ctxDone[p]
                /\ rpc' = [rpc EXCEPT ![p] = "accept"]
                /\ socket' = p
                /\ UNCHANGED <<main, sig, inner, sent, exit, lock, device>>

RpcListenFails(p) == rpc[p] = "listen" /\ Dies(p, "failed")

\* l.Close() removes the file.
RpcClose(p) == /\ rpc[p] = "accept" /\ ctxDone[p]
               /\ rpc' = [rpc EXCEPT ![p] = "done"]
               /\ socket' = None
               /\ UNCHANGED <<main, sig, inner, sent, exit, lock, device>>

-----------------------------------------------------------------------------
(* Outside                                                                 *)

\* SIGINT or SIGTERM: until signal.Notify it kills; then it waits in a
\* channel with room for one.
Stop(p) ==
  /\ Alive(p) /\ asked[p] # "again"
  /\ asked' = [asked EXCEPT ![p] = IF @ # "never" THEN "again"
                                  ELSE IF main[p] = "loop" THEN "running"
                                  ELSE "starting"]
  /\ UNCHANGED hups
  /\ IF sig[p] \in {"off", "notify"}
     THEN End(p, "failed") /\ UNCHANGED files
     ELSE /\ pending' = [pending EXCEPT ![p] = TRUE]
          /\ UNCHANGED <<main, goroutines, ctxDone, iface, exit, files, device>>

\* SIGKILL, or a failure of the runtime.
Kill(p) == Alive(p) /\ Dies(p, "failed")

\* Somebody removes the socket file of a process that is gone.
Clean == /\ socket # None /\ ~Alive(socket)
         /\ socket' = None
         /\ UNCHANGED <<main, goroutines, inner, sent, exit, lock, device>>

Main(p) == \/ NewTun(p) \/ CreateNode(p) \/ WriteLock(p) \/ Up(p)
           \/ ApplyRoutes(p) \/ StartFails(p) \/ SeeClosed(p) \/ Return(p)
Signals(p) == \/ Notify(p) \/ TakeExit(p) \/ RemoveLock(p) \/ CloseIface(p)
              \/ Down(p) \/ StopFails(p) \/ Cancel(p) \/ SigReturn(p)
Server(p) == RpcListen(p) \/ RpcListenFails(p) \/ RpcClose(p)
Internal == \E p \in Procs : Main(p) \/ Signals(p) \/ Server(p)
\* Calls of the signal handler into libp2p, which have no time limit.
Libp2p == \E p \in Procs : CloseHost(p) \/ Rediscover(p)
External == \E p \in Procs : Start(p) \/ Stop(p) \/ TakeUsr1(p) \/ Kill(p) \/ ReaderPanics(p)

Next == Internal \/ Libp2p \/ External \/ Clean

Spec == Init /\ [][Next]_vars

\* Signals and processes are finite, so every behaviour is; weak fairness of
\* the processes' own steps together is that each runs as far as it can.
\* Nothing is assumed of the calls into libp2p.
FairSpec == Spec /\ WF_vars(Internal)
-----------------------------------------------------------------------------
(* Properties                                                              *)

\* Of a daemon that was stopped while it forwarded and returned from main
\* nothing is left that the next one would trip over: no lock file, no
\* socket file, no interface (signals.go:43, server.go:302).
LeavesNothing ==
  \A p \in Procs : (exit[p] = "clean" /\ asked[p] = "running") =>
                     p \notin {lock, socket, dev}

\* A daemon that forwards, and that nobody asked to stop, is not disturbed by
\* those that end before it or are started beside it: lock file and socket
\* are its own.  Two kinds of stops can take the lock file of a successor: a
\* second signal to a stopping daemon makes it remove the file, and one that
\* was asked to stop during its start may write it after it has cleaned up.
Undisturbed ==
  \A p \in Procs :
    (main[p] = "loop" /\ asked[p] = "never") =>
      /\ lock = p \/ \E q \in Procs : asked[q] \in {"again", "starting"}
      /\ rpc[p] = "accept" => socket = p

\* A daemon that was asked to stop, whatever it was doing, comes to its end,
\* unless host.Close, or a refresh that SIGUSR1 began before, never returns:
\* there is no timer here, and the handler serves nothing else meanwhile.
Returns(p) == /\ []<>(sig[p] # "hostClose")
              /\ []<>(sig[p] # "refresh")
StopLeadsToEnd ==
  \A p \in Procs : Returns(p) => (pending[p] ~> (main[p] = "ended"))
=============================================================================
