------------------------ MODULE DriverLifecycleProofs ------------------------
(***************************************************************************)
(* Proofs about DriverLifecycle, for every set of calls and any number of   *)
(* signals, kills and failures.                                             *)
(***************************************************************************)
EXTENDS DriverLifecycle, TLAPS

Counted == {"spawned", "accepting", "leaving"}

\* Which goroutines there are at each step of main, and what wg counts.
GoroutineInv ==
  /\ main \in {"setup", "listen", "exited"} =>
       serve = "none" /\ stopper = "none" /\ ~failed
  /\ main \in {"wait", "return"} => serve # "none"
  /\ main = "return" => serve = "ended"
  /\ wg = IF serve \in Counted THEN 1 ELSE 0
  /\ failed => serve = "ended"
  /\ stopper \in {"drained", "ended"} => serve # "accepting"

\* A call runs only while the server accepts or drains, unless Serve has ended
\* by itself.
CallInv(c) ==
  /\ call[c] # "dropped"
  /\ call[c] = "running" =>
       \/ failed
       \/ serve \in {"accepting", "leaving"} /\ stopper \notin {"drained", "ended"}

IInv ==
  /\ TypeOK
  /\ GoroutineInv
  /\ \A c \in Calls : CallInv(c)

\* The end of the process ends all goroutines.  Calls that still run are cut
\* off; none was dropped, for main returns after the server has drained.
LEMMA ExitInv ==
  ASSUME IInv, NEW how, Exit(how), disruptions' \in 0 .. MaxDisruptions,
         how = "returned" => main = "return"
  PROVE  IInv'
  <1>1. TypeOK'
    <2>1. call' \in [Calls -> {"idle", "running", "answered", "cut", "dropped"}]
      BY Zenon DEF IInv, TypeOK, Exit
    <2>2. QED
      BY Zenon, <2>1 DEF IInv, TypeOK, Exit
  <1>2. GoroutineInv'
    BY Zenon DEF Exit, GoroutineInv, Counted
  <1>3. ASSUME NEW c \in Calls
        PROVE  CallInv(c)'
    <2>1. CallInv(c)
      BY Zenon DEF IInv
    <2>2. ~(call[c] = "running" /\ how = "returned" /\ ~failed)
      BY Zenon, <2>1 DEF IInv, GoroutineInv, CallInv
    <2>3. call'[c] \notin {"running", "dropped"}
      BY Zenon, <2>1, <2>2 DEF Exit, CallInv
    <2>4. QED
      BY Zenon, <2>3 DEF CallInv
  <1>4. QED
    BY Zenon, <1>1, <1>2, <1>3 DEF IInv

\* The initial states satisfy the invariant.
LEMMA InitIInv == Init => IInv
  <1> SUFFICES ASSUME Init PROVE IInv
    OBVIOUS
  <1>1. TypeOK
    <2>1. disruptions \in 0 .. MaxDisruptions
      BY LifecycleAssumption DEF Init
    <2>2. wg \in {0, 1} /\ {ctxDone, closed, failed} \subseteq BOOLEAN
      BY Zenon DEF Init
    <2>3. QED
      BY Zenon, <2>1, <2>2 DEF Init, TypeOK
  <1>2. GoroutineInv
    BY Zenon DEF Init, GoroutineInv, Counted
  <1>3. \A c \in Calls : CallInv(c)
    BY Zenon DEF Init, CallInv
  <1>4. QED
    BY Zenon, <1>1, <1>2, <1>3 DEF IInv

\* Every step preserves the invariant.
LEMMA NextIInv == IInv /\ [Next]_vars => IInv'
  <1> SUFFICES ASSUME IInv, [Next]_vars PROVE IInv'
    OBVIOUS
  <1> USE DEF IInv, goroutines
  <1>d. disruptions \in 0 .. MaxDisruptions /\ (Disrupt => disruptions' \in 0 .. MaxDisruptions)
    BY LifecycleAssumption DEF TypeOK, Disrupt
  <1>1. CASE RemoveUnixSocket
    BY Zenon, <1>1 DEF RemoveUnixSocket, TypeOK, GoroutineInv, CallInv
  <1>2. CASE Listen
    BY <1>2 DEF Listen, TypeOK, GoroutineInv, CallInv, Counted
  <1>3. CASE WaitEnds
    BY <1>3 DEF WaitEnds, CloseListener, TypeOK, GoroutineInv, CallInv, Counted
  <1>4. CASE RunFails \/ MainReturns \/ ManagerFails \/ Kill
    BY Zenon, <1>4, <1>d, ExitInv DEF RunFails, MainReturns, ManagerFails, Kill
  <1>5. CASE Serve
    <2>1. TypeOK'
      <3>1. wg' \in {0, 1}
        BY <1>5 DEF Serve, TypeOK, GoroutineInv, Counted
      <3>2. {ctxDone', closed', failed'} \subseteq BOOLEAN
        BY Zenon, <1>5 DEF Serve, CloseListener, TypeOK
      <3>3. QED
        BY <1>5, <3>1, <3>2 DEF Serve, CloseListener, TypeOK
    <2>2. GoroutineInv' /\ \A c \in Calls : CallInv(c)'
      BY <1>5 DEF Serve, Stopping, GoroutineInv, CallInv, Counted
    <2>3. QED
      BY Zenon, <2>1, <2>2
  <1>6. CASE ServeStops
    BY Zenon, <1>6 DEF ServeStops, Stopping, TypeOK, GoroutineInv, CallInv, Counted
  <1>7. CASE ServeReturns
    BY <1>7 DEF ServeReturns, TypeOK, GoroutineInv, CallInv, Counted
  <1>8. CASE AcceptFails
    BY <1>8, <1>d DEF AcceptFails, CloseListener, TypeOK, GoroutineInv, CallInv, Counted
  <1>9. CASE GracefulStop
    BY <1>9 DEF GracefulStop, CloseListener, TypeOK, GoroutineInv, CallInv
  <1>10. CASE Drained
    BY <1>10 DEF Drained, TypeOK, GoroutineInv, CallInv
  <1>11. CASE StopEnds
    BY Zenon, <1>11 DEF StopEnds, CloseListener, TypeOK, GoroutineInv, CallInv
  <1>12. CASE ManagerStep
    BY <1>12 DEF ManagerStep, ManagerStarts, ManagerEnds, TypeOK, GoroutineInv, CallInv
  <1>13. ASSUME NEW c \in Calls, Begin(c)
         PROVE  IInv'
    BY Zenon, <1>13 DEF Begin, TypeOK, GoroutineInv, CallInv
  <1>14. ASSUME NEW c \in Calls, End(c)
         PROVE  IInv'
    BY <1>14 DEF End, TypeOK, GoroutineInv, CallInv
  <1>15. CASE Signal
    <2>1. CASE ctxDone
      BY Zenon, <1>15, <1>d, <2>1, ExitInv DEF Signal
    <2>2. CASE ~ctxDone
      <3>1. /\ ctxDone' = TRUE /\ disruptions' \in 0 .. MaxDisruptions
            /\ UNCHANGED <<main, serve, stopper, manager, wg, closed, failed, file, call>>
        BY Zenon, <1>15, <1>d, <2>2 DEF Signal
      <3>2. QED
        BY <3>1 DEF TypeOK, GoroutineInv, CallInv
    <2>3. QED
      BY Zenon, <2>1, <2>2
  <1>16. CASE Restart
    BY Zenon, <1>16 DEF Restart, TypeOK, GoroutineInv, CallInv
  <1>17. CASE UNCHANGED vars
    BY <1>17 DEF vars, TypeOK, GoroutineInv, CallInv
  <1>18. QED
    BY Zenon, <1>1, <1>2, <1>3, <1>4, <1>5, <1>6, <1>7, <1>8, <1>9, <1>10, <1>11, <1>12, <1>13,
       <1>14, <1>15, <1>16, <1>17 DEF Next, MainStep, ServeStep, StopperStep

\* IInv is an invariant.
THEOREM Inductive == Spec => []IInv
  BY InitIInv, NextIInv, PTL DEF Spec

\* The server's variables always have their types: wg never counts below zero
\* (where wg.Done would panic) nor beyond its one goroutine.
THEOREM TypeCorrect == Spec => []TypeOK
  <1>1. IInv => TypeOK
    BY Zenon DEF IInv
  <1>2. QED
    BY <1>1, Inductive, PTL

\* A stop drops no call, however signals, kills, failures of Accept and the
\* goroutines of Start, Stop and Wait interleave, and however many calls run.
THEOREM StopKeepsCalls == Spec => []NoCallDropped
  <1>1. IInv => NoCallDropped
    BY Zenon DEF IInv, CallInv, NoCallDropped
  <1>2. QED
    BY <1>1, Inductive, PTL
=============================================================================
