-------------------------- MODULE WinDaemonProofs --------------------------
(***************************************************************************)
(* Proofs about WinDaemon, for any control events, any of which may be     *)
(* closing ones, and any number of stream handlers: the driver's session   *)
(* outlives the use of its packets, and exit code 0 means a clean end.     *)
(***************************************************************************)
EXTENDS WinDaemon, TLAPS

\* Packets of the ring are in use only under an open session.
InUse == \A u \in Users : at[u] = "packet" => session = "open"

\* The signal handler is started when the session is there, so nothing opens
\* it again behind a shutdown.
Order ==
  /\ sig # "off" => main \in {"lock", "up", "loop"}
  /\ main \in {"luid", "session"} => adapter = "open"

\* What the shutdown has done by the step it is at.
Closed == sig \in {"unlock", "stopTimer", "exit"} =>
            session = "closed" /\ adapter = "closed"
Zero == exit = "0" => sig = "exit"

IInv == TypeOK /\ InUse /\ Order /\ Closed /\ Zero

\* The start: nothing is open, nobody has asked.
LEMMA Initially == Init => IInv
BY WinDaemonAssumption
DEF Init, IInv, TypeOK, InUse, Order, Closed, Zero, Users

LEMMA EndsInv ==
  ASSUME IInv, NEW how \in {"1", "fatal", "panic", "killed"}, Ends(how)
  PROVE  IInv'
BY DEF Ends, tun, request, IInv, TypeOK, InUse, Order, Closed, Zero

\* The start opens adapter and session before there is a signal handler.
LEMMA MainInv ==
  ASSUME IInv, Main
  PROVE  IInv'
<1> USE DEF IInv, TypeOK, InUse, Order, Closed, Zero,
            MainStep, Alive, tun, request
<1>1. CASE CreateAdapter BY <1>1 DEF CreateAdapter
<1>2. CASE GetLUID BY <1>2 DEF GetLUID
<1>3. CASE StartSession BY <1>3 DEF StartSession
<1>4. CASE GetReadWaitEvent BY <1>4 DEF GetReadWaitEvent
<1>5. CASE StartGoroutines BY <1>5 DEF StartGoroutines
<1>6. CASE WriteLock BY <1>6 DEF WriteLock
<1>7. CASE Up BY <1>7 DEF Up
<1>8. CASE StartFails BY <1>8, EndsInv DEF StartFails
<1> QED BY <1>1, <1>2, <1>3, <1>4, <1>5, <1>6, <1>7, <1>8 DEF Main

\* A user of the interface gets a packet only while the session is open.
LEMMA UseInv ==
  ASSUME IInv, NEW u \in Users, Call(u) \/ Use(u)
  PROVE  IInv'
<1> USE DEF IInv, TypeOK, InUse, Order, Closed, Zero,
            Move, rest, tun, request
<1>1. CASE Call(u) BY <1>1 DEF Call
<1>2. CASE RLock(u) BY <1>2 DEF RLock
<1>3. CASE Obtain(u) BY <1>3 DEF Obtain
<1>4. CASE Refused(u)
  <2>1. CASE Ends("panic") BY <2>1, EndsInv
  <2>2. CASE Move(u, "locked", "out") /\ UNCHANGED rest BY <2>2
  <2> QED BY <1>4, <2>1, <2>2 DEF Refused
<1>5. CASE GiveBack(u) BY <1>5 DEF GiveBack
<1> QED BY <1>1, <1>2, <1>3, <1>4, <1>5 DEF Use

\* Requests to stop touch neither the interface nor the shutdown.
LEMMA RequestInv ==
  ASSUME IInv, Signal \/ \E e \in Events : Event(e) \/ Handle(e) \/ Terminate(e)
  PROVE  IInv'
<1> USE DEF IInv, TypeOK, InUse, Order, Closed, Zero,
            others, tun, Alive
<1>1. CASE Signal
  <2>1. CASE Ends("killed") BY <2>1, EndsInv
  <2>2. CASE sig # "off" BY <1>1, <2>2 DEF Signal
  <2> QED BY <1>1, <2>1, <2>2 DEF Signal
<1>2. ASSUME NEW e \in Events, Event(e) PROVE IInv'
  BY <1>2 DEF Event
<1>3. ASSUME NEW e \in Events, Check(e) PROVE IInv'
  BY <1>3 DEF Check
<1>4. ASSUME NEW e \in Events, Send(e) PROVE IInv'
  <2>1. event' \in [Events -> {"none", "check", "send", "mark", "handled"}]
    BY <1>4 DEF Send
  <2> QED BY <1>4, <2>1 DEF Send
<1>5. ASSUME NEW e \in Events, Mark(e) PROVE IInv'
  BY <1>5 DEF Mark
<1>6. ASSUME NEW e \in Events, Terminate(e) PROVE IInv'
  BY <1>6, EndsInv DEF Terminate
<1> QED BY <1>1, <1>2, <1>3, <1>4, <1>5, <1>6 DEF Handle

\* The shutdown: the session is closed when no packet is in use.
LEMMA ShutdownInv ==
  ASSUME IInv, Shutdown \/ CloseHost \/ Timeout
  PROVE  IInv'
<1> USE DEF IInv, TypeOK, InUse, Order, Closed, Zero,
            SigStep, Alive, kept, tun
<1>1. CASE Hook BY <1>1 DEF Hook
<1>2. CASE TakeSignal BY <1>2 DEF TakeSignal
<1>3. CASE TakeEvent BY <1>3 DEF TakeEvent
<1>4. CASE Unhook BY <1>4 DEF Unhook
<1>5. CASE StartTimer BY <1>5 DEF StartTimer
<1>6. CASE Cancel BY <1>6 DEF Cancel
<1>7. CASE CloseHost BY <1>7 DEF CloseHost
<1>8. CASE Lock BY <1>8 DEF Lock
<1>9. CASE EndSession BY <1>9 DEF EndSession
<1>10. CASE RemoveLock BY <1>10 DEF RemoveLock
<1>11. CASE StopTimer BY <1>11 DEF StopTimer
<1>12. CASE Exit BY <1>12 DEF Exit, Ends, request
<1>13. CASE Timeout BY <1>13, EndsInv DEF Timeout
<1> QED BY <1>1, <1>2, <1>3, <1>4, <1>5, <1>6, <1>7, <1>8, <1>9, <1>10, <1>11,
           <1>12, <1>13 DEF Shutdown

\* IInv is inductive.
THEOREM Invariance == Spec => []IInv
<1>1. IInv /\ [Next]_vars => IInv'
  <2> SUFFICES ASSUME IInv, [Next]_vars PROVE IInv'
    OBVIOUS
  <2>1. CASE UNCHANGED vars
    BY <2>1 DEF vars, tun, request, IInv, TypeOK, InUse, Order, Closed, Zero
  <2>2. CASE Next
    BY <2>2, MainInv, UseInv, RequestInv, ShutdownInv DEF Next
  <2> QED BY <2>1, <2>2
<1> QED BY <1>1, Initially, PTL DEF Spec

\* Type correctness; in it, that an open session has its adapter.
THEOREM TypeCorrect == Spec => []TypeOK
BY Invariance, PTL DEF IInv

\* No goroutine ever holds a packet of a session that has ended
\* (wintun/wintun.go:400), however many there are.
THEOREM OutlivesUse == Spec => []SessionOutlivesUse
<1>1. IInv => SessionOutlivesUse
  BY DEF IInv, InUse, SessionOutlivesUse
<1> QED BY <1>1, Invariance, PTL

\* Exit code 0: session and adapter are closed and no packet is held, with any
\* number of users, whatever else wanted to end the process.
THEOREM CleanExit == Spec => []ZeroIsClean
<1>1. IInv => ZeroIsClean
  BY DEF IInv, InUse, Closed, Zero, ZeroIsClean
<1> QED BY <1>1, Invariance, PTL
=============================================================================
