----------------------------- MODULE WinDaemon -----------------------------
(***************************************************************************)
(* The daemon on Windows, from the creation of the Wintun adapter to       *)
(* os.Exit: the console control handler, the signal handler and its        *)
(* shutdown sequence (signals/signals_windows.go), the session and the     *)
(* read-write mutex around it (wintun/wintun.go), and the three kinds of    *)
(* goroutines that use the interface: UpRun's loop, the handlers of        *)
(* incoming streams and the service network's reader (cli/up.go,           *)
(* svc/network.go).                                                        *)
(***************************************************************************)
CONSTANTS
  Events,     \* console control events
  Closing,    \* those of closing the window, logging off, shutting down
  Streams,    \* goroutines of streamHandler
  Loop, Svc   \* UpRun's loop, the reader of the service network

Users == {Loop, Svc} \cup Streams

ASSUME WinDaemonAssumption ==
  /\ Closing \subseteq Events
  /\ Loop # Svc /\ {Loop, Svc} \cap Streams = {}

VARIABLES
  main,          \* UpRun
  adapter, session,  \* NativeTun: "none", "open", "closed"
  at,            \* what a user of the interface is doing
  event,         \* the thread the system runs a control event in
  sig,           \* SignalHandler, then performShutdown
  exitCh, shutdownCh,  \* the channels, with room for one, are full
  shutdownInProgress,
  timer,         \* the timer of five seconds: "off", "on", "stopped"
  lock,          \* the lock file is there
  exit           \* exit code, or how the process ended

tun == <<adapter, session, at>>
request == <<event, exitCh, shutdownCh, shutdownInProgress>>
vars == <<main, tun, request, sig, timer, lock, exit>>

TypeOK ==
  /\ main \in {"adapter", "luid", "session", "readWait", "go", "lock", "up", "loop"}
  /\ adapter \in {"none", "open", "closed"} /\ session \in {"none", "open", "closed"}
  /\ at \in [Users -> {"out", "wait", "locked", "packet"}]
  /\ event \in [Events -> {"none", "check", "send", "mark", "handled"}]
  /\ sig \in {"off", "hook", "select", "unhook", "timer", "cancel", "host",
              "close", "closing", "unlock", "stopTimer", "exit"}
  /\ {exitCh, shutdownCh, shutdownInProgress, lock} \subseteq BOOLEAN
  /\ timer \in {"off", "on", "stopped"}
  /\ exit \in {"none", "0", "1", "fatal", "panic", "killed"}
  /\ session = "open" => adapter = "open"

Init ==
  /\ main = "adapter"
  /\ adapter = "none" /\ session = "none"
  /\ at = [u \in Users |-> "out"]
  /\ event = [e \in Events |-> "none"]
  /\ sig = "off" /\ exitCh = FALSE /\ shutdownCh = FALSE
  /\ shutdownInProgress = FALSE
  /\ timer = "off" /\ lock = FALSE /\ exit = "none"

Alive == exit = "none"
Ends(how) == /\ exit' = how
             /\ UNCHANGED <<main, tun, request, sig, timer, lock>>

-----------------------------------------------------------------------------
(* UpRun: wintun.CreateTUN, then as on other systems                       *)

MainStep(from, to) == Alive /\ main = from /\ main' = to

CreateAdapter == /\ MainStep("adapter", "luid") /\ adapter' = "open"
                 /\ UNCHANGED <<session, at, request, sig, timer, lock, exit>>

GetLUID == /\ MainStep("luid", "session")
           /\ UNCHANGED <<tun, request, sig, timer, lock, exit>>

StartSession == /\ MainStep("session", "readWait") /\ session' = "open"
                /\ UNCHANGED <<adapter, at, request, sig, timer, lock, exit>>

GetReadWaitEvent == /\ MainStep("readWait", "go")
                    /\ UNCHANGED <<tun, request, sig, timer, lock, exit>>

\* CreateNode sets the stream handler; the go statements; the service network.
StartGoroutines == /\ MainStep("go", "lock") /\ sig' = "hook"
                   /\ UNCHANGED <<tun, request, timer, lock, exit>>

WriteLock == /\ MainStep("lock", "up") /\ lock' = TRUE
             /\ UNCHANGED <<tun, request, sig, timer, exit>>

\* Up sets the addresses, Apply the routes: both change the system only.
Up == /\ MainStep("up", "loop")
      /\ UNCHANGED <<tun, request, sig, timer, lock, exit>>

\* wintun.dll is missing (a panic), or an error that checkErr makes fatal.
StartFails == /\ Alive /\ main # "loop"
              /\ \E how \in {"fatal", "panic"} : Ends(how)

-----------------------------------------------------------------------------
(* The interface.  Read and Write hold the read lock, Close the write      *)
(* lock; while a writer waits, readers have to wait as well.               *)

Running(u) == Alive /\ (u = Loop => main = "loop")
                    /\ (u # Loop => main \in {"lock", "up", "loop"})
Move(u, from, to) == at[u] = from /\ at' = [at EXCEPT ![u] = to]
rest == <<main, adapter, session, request, sig, timer, lock, exit>>

Call(u) == /\ Running(u) /\ Move(u, "out", "wait") /\ UNCHANGED rest

RLock(u) == /\ Running(u) /\ sig # "closing" /\ Move(u, "wait", "locked") /\ UNCHANGED rest

\* WintunReceivePacket or WintunAllocateSendPacket gives a packet of the ring.
Obtain(u) == /\ Running(u) /\ session = "open" /\ Move(u, "locked", "packet")
             /\ UNCHANGED rest

\* The session is closed, nothing to receive, or no room to send: Read and
\* Write return.  The loop goes on, a stream's handler as well or it ends; the
\* service network's reader panics.
Refused(u) ==
  /\ Running(u) /\ at[u] = "locked"
  /\ IF u = Svc THEN Ends("panic")
     ELSE Move(u, "locked", "out") /\ UNCHANGED rest

\* WintunReleaseReceivePacket, for a packet that is too large as well, or
\* WintunSendPacket; the lock is released.
GiveBack(u) == /\ Running(u) /\ Move(u, "packet", "out") /\ UNCHANGED rest

-----------------------------------------------------------------------------
(* Requests to stop                                                        *)

\* A signal that Go delivers; before signal.Notify it ends the process.
Signal ==
  /\ Alive /\ ~exitCh /\ sig \in {"off", "hook", "select"}
  /\ IF sig = "off" THEN Ends("killed")
     ELSE /\ exitCh' = TRUE
          /\ UNCHANGED <<main, tun, event, shutdownCh, shutdownInProgress,
                         sig, timer, lock, exit>>

others == <<main, tun, sig, timer, lock, exit>>

\* consoleCtrlHandler; the system runs each event in a thread of its own.
Event(e) == /\ Alive /\ event[e] = "none" /\ sig \notin {"off", "hook"}
            /\ event' = [event EXCEPT ![e] = "check"]
            /\ UNCHANGED <<others, exitCh, shutdownCh, shutdownInProgress>>

Check(e) == /\ Alive /\ event[e] = "check"
            /\ event' = [event EXCEPT ![e] = IF shutdownInProgress THEN "handled" ELSE "send"]
            /\ UNCHANGED <<others, exitCh, shutdownCh, shutdownInProgress>>

\* A full channel is left as it is.
Send(e) == /\ Alive /\ event[e] = "send"
           /\ event' = [event EXCEPT ![e] = IF shutdownCh THEN "handled" ELSE "mark"]
           /\ shutdownCh' = TRUE
           /\ UNCHANGED <<others, exitCh, shutdownInProgress>>

Mark(e) == /\ Alive /\ event[e] = "mark"
           /\ event' = [event EXCEPT ![e] = "handled"]
           /\ shutdownInProgress' = TRUE
           /\ UNCHANGED <<others, exitCh, shutdownCh>>

\* When the handler of one of these events has returned, the system may end
\* the process at any time.
Terminate(e) == Alive /\ e \in Closing /\ event[e] = "handled" /\ Ends("killed")

-----------------------------------------------------------------------------
(* SignalHandler and performShutdown                                       *)

SigStep(from, to) == Alive /\ sig = from /\ sig' = to
kept == <<main, event, shutdownInProgress, exit>>

\* If SetConsoleCtrlHandler fails, only Go's signals are left.
Hook == /\ SigStep("hook", "select")
        /\ UNCHANGED <<kept, tun, exitCh, shutdownCh, timer, lock>>

TakeSignal == /\ SigStep("select", "unhook") /\ exitCh /\ exitCh' = FALSE
              /\ UNCHANGED <<kept, tun, shutdownCh, timer, lock>>

TakeEvent == /\ SigStep("select", "unhook") /\ shutdownCh /\ shutdownCh' = FALSE
             /\ UNCHANGED <<kept, tun, exitCh, timer, lock>>

Unhook == /\ SigStep("unhook", "timer")
          /\ UNCHANGED <<kept, tun, exitCh, shutdownCh, timer, lock>>

\* Mutant: the timer is stopped as soon as it is started.
StartNoTimer == /\ SigStep("timer", "cancel") /\ timer' = "stopped"
                /\ UNCHANGED <<kept, tun, exitCh, shutdownCh, lock>>

StartTimer == /\ SigStep("timer", "cancel") /\ timer' = "on"
              /\ UNCHANGED <<kept, tun, exitCh, shutdownCh, lock>>

\* ctxCancel, a tenth of a second.
Cancel == /\ SigStep("cancel", "host")
          /\ UNCHANGED <<kept, tun, exitCh, shutdownCh, timer, lock>>

\* host.Close may fail, which is reported, or take for ever.
CloseHost == /\ SigStep("host", "close")
             /\ UNCHANGED <<kept, tun, exitCh, shutdownCh, timer, lock>>

\* NativeTun.Close: Lock announces itself, then waits for the readers.
Lock == /\ SigStep("close", "closing")
        /\ UNCHANGED <<kept, tun, exitCh, shutdownCh, timer, lock>>

\* Mutant: Close does not wait for the lock.
EndSessionAtOnce == /\ SigStep("closing", "unlock")
                    /\ session' = "closed" /\ adapter' = "closed"
                    /\ UNCHANGED <<kept, at, exitCh, shutdownCh, timer, lock>>

\* Mutant: a lock that is held is not waited for.
EndSessionIfFree ==
  /\ SigStep("closing", "unlock")
  /\ IF \A u \in Users : at[u] \notin {"locked", "packet"}
     THEN session' = "closed" /\ adapter' = "closed"
     ELSE UNCHANGED <<session, adapter>>
  /\ UNCHANGED <<kept, at, exitCh, shutdownCh, timer, lock>>

EndSession == /\ SigStep("closing", "unlock")
              /\ \A u \in Users : at[u] \notin {"locked", "packet"}
              /\ session' = "closed" /\ adapter' = "closed"
              /\ UNCHANGED <<kept, at, exitCh, shutdownCh, timer, lock>>

\* os.Stat, os.Remove: either may fail, which is at most printed, and the
\* file is left.
RemoveLock == /\ SigStep("unlock", "stopTimer") /\ lock' \in {lock, FALSE}
              /\ UNCHANGED <<kept, tun, exitCh, shutdownCh, timer>>

StopTimer == /\ SigStep("stopTimer", "exit") /\ timer' = "stopped"
             /\ UNCHANGED <<kept, tun, exitCh, shutdownCh, lock>>

Exit == Alive /\ sig = "exit" /\ Ends("0")

Timeout == Alive /\ timer = "on" /\ Ends("1")

-----------------------------------------------------------------------------
Main == \/ CreateAdapter \/ GetLUID \/ StartSession \/ GetReadWaitEvent
        \/ StartGoroutines \/ WriteLock \/ Up \/ StartFails
Use(u) == RLock(u) \/ Obtain(u) \/ Refused(u) \/ GiveBack(u)
Handle(e) == Check(e) \/ Send(e) \/ Mark(e)
Shutdown == \/ Hook \/ TakeSignal \/ TakeEvent \/ Unhook \/ StartTimer \/ Cancel
            \/ Lock \/ EndSession \/ RemoveLock \/ StopTimer \/ Exit

Next == \/ Main \/ Shutdown \/ CloseHost \/ Timeout \/ Signal
        \/ \E u \in Users : Call(u) \/ Use(u)
        \/ \E e \in Events : Event(e) \/ Handle(e) \/ Terminate(e)

Spec == Init /\ [][Next]_vars

\* Every goroutine and thread that can run does; host.Close need not return.
Fairness == /\ WF_vars(Shutdown) /\ WF_vars(Timeout)
            /\ \A e \in Events : WF_vars(Handle(e))

FairSpec == Spec /\ Fairness
-----------------------------------------------------------------------------
(* Properties                                                              *)

\* The driver is called only with a session that has not ended, and every
\* packet of its ring is given back before the session ends
\* (wintun.go:327, 365, 400).
SessionOutlivesUse ==
  \A u \in Users : (Alive /\ at[u] = "packet") => session = "open"

\* Exit code 0 means that the interface was closed as the driver wants it: after
\* the session has ended no packet of its ring is held, and the adapter is
\* closed, although the timer and the system race with the shutdown.  It means
\* nothing of the lock file, whose removal may have failed.
ZeroIsClean ==
  exit = "0" => /\ session = "closed" /\ adapter = "closed"
                /\ \A u \in Users : at[u] # "packet"

\* However requests to stop meet (two events, an event and a signal, one
\* during the shutdown) and whether or not host.Close returns, the process
\* ends.
StopEnds == /\ exitCh ~> exit # "none"
            /\ \A e \in Events : (event[e] = "handled") ~> exit # "none"
=============================================================================
