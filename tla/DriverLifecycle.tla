--------------------------- MODULE DriverLifecycle ---------------------------
(***************************************************************************)
(* A CSI plugin process from its start to its end and over its restarts     *)
(* (cmd/csiplugin/main.go, internal/csi/driver.go, pkg/server/server.go):   *)
(* the main goroutine, the goroutine that serves gRPC, the one that stops   *)
(* the server when the context is done, the manager's, and the calls.       *)
(***************************************************************************)
EXTENDS Integers

CONSTANTS
  Calls,           \* gRPC calls of the kubelet and of the provisioner
  MaxDisruptions   \* bound of signals, kills and failures

ASSUME LifecycleAssumption == MaxDisruptions \in Nat

VARIABLES
  main,         \* the main goroutine: main, Driver.Run, server.Wait
  serve,        \* the goroutine of server.Start
  stopper,      \* the goroutine of Driver.Run
  manager,      \* the goroutine that runs mgr.Start
  wg,           \* server.wg
  ctxDone,      \* the signal handler has cancelled the context
  closed,       \* server.listener is closed, by gRPC or by closeListener
  failed,       \* Serve ended without being stopped
  file,         \* the socket's file: left by a dead process, or of this one
  call,
  disruptions

goroutines == <<main, serve, stopper, manager, wg>>
vars == <<goroutines, ctxDone, closed, failed, file, call, disruptions>>

TypeOK ==
  /\ main \in {"setup", "listen", "wait", "return", "exited"}
  /\ serve \in {"none", "spawned", "accepting", "leaving", "ended"}
  /\ stopper \in {"none", "waiting", "draining", "drained", "ended"}
  /\ manager \in {"none", "starting", "running", "ended"}
  /\ wg \in {0, 1}
  /\ {ctxDone, closed, failed} \subseteq BOOLEAN
  /\ file \in {"absent", "stale", "bound"}
  /\ call \in [Calls -> {"idle", "running", "answered", "cut", "dropped"}]
  /\ disruptions \in 0 .. MaxDisruptions

Init ==
  /\ main = "setup" /\ serve = "none" /\ stopper = "none" /\ manager = "starting"
  /\ wg = 0
  /\ ctxDone = FALSE /\ closed = FALSE /\ failed = FALSE
  /\ file \in {"absent", "stale"}
  /\ call = [c \in Calls |-> "idle"]
  /\ disruptions = 0

Disrupt ==
  /\ disruptions < MaxDisruptions
  /\ disruptions' = disruptions + 1

\* The process is gone with all its goroutines; a socket it had not closed
\* stays behind.  A call still running then was dropped, when main had just
\* returned after a stop, or cut off.
Exit(how) ==
  /\ main # "exited"
  /\ main' = "exited" /\ serve' = "none" /\ stopper' = "none" /\ manager' = "none"
  /\ wg' = 0
  /\ ctxDone' = FALSE /\ closed' = FALSE /\ failed' = FALSE
  /\ file' = IF file = "bound" THEN "stale" ELSE file
  /\ call' = [c \in Calls |-> IF call[c] # "running" THEN call[c]
                              ELSE IF how = "returned" /\ ~failed THEN "dropped" ELSE "cut"]

\* Closing a listener removes its file, the first time.
CloseListener ==
  /\ closed' = TRUE
  /\ file' = IF closed THEN file ELSE "absent"
-----------------------------------------------------------------------------
(* The main goroutine. *)

\* Slip: what is at the socket's path is left there.
KeepSocket ==
  /\ main = "setup"
  /\ main' = "listen"
  /\ UNCHANGED <<serve, stopper, manager, wg, ctxDone, closed, failed, file, call, disruptions>>

\* Run up to createListener, which first removes what a dead process left.
RemoveUnixSocket ==
  /\ main = "setup"
  /\ main' = "listen"
  /\ file' = "absent"
  /\ UNCHANGED <<serve, stopper, manager, wg, ctxDone, closed, failed, call, disruptions>>

\* Slip: no wg.Add.
ListenUncounted ==
  /\ main = "listen" /\ file = "absent"
  /\ main' = "wait" /\ serve' = "spawned" /\ stopper' = "waiting"
  /\ file' = "bound"
  /\ UNCHANGED <<manager, wg, ctxDone, closed, failed, call, disruptions>>

\* net.Listen, the two go statements, and on to Wait.
Listen ==
  /\ main = "listen" /\ file = "absent"
  /\ main' = "wait" /\ serve' = "spawned" /\ stopper' = "waiting"
  /\ wg' = wg + 1
  /\ file' = "bound"
  /\ UNCHANGED <<manager, ctxDone, closed, failed, call, disruptions>>

\* No node ID, a socket that cannot be removed, or one that cannot be bound.
RunFails ==
  /\ main \in {"setup", "listen"}
  /\ \/ Disrupt
     \/ main = "listen" /\ file # "absent" /\ UNCHANGED disruptions
  /\ Exit("failed")

\* server.Wait.
WaitEnds ==
  /\ main = "wait" /\ wg = 0
  /\ main' = "return"
  /\ CloseListener
  /\ UNCHANGED <<serve, stopper, manager, wg, ctxDone, failed, call, disruptions>>

MainReturns ==
  /\ main = "return"
  /\ Exit("returned")
  /\ UNCHANGED disruptions
-----------------------------------------------------------------------------
(* The goroutine of Start; gRPC's Serve. *)

Stopping == stopper \in {"draining", "drained", "ended"}

\* Serve closes the listener and returns at once when the server was stopped.
Serve ==
  /\ serve = "spawned"
  /\ \/ /\ ~Stopping
        /\ serve' = "accepting"
        /\ UNCHANGED <<wg, closed, file>>
     \/ /\ Stopping
        /\ serve' = "ended" /\ wg' = wg - 1
        /\ CloseListener
  /\ UNCHANGED <<main, stopper, manager, ctxDone, failed, call, disruptions>>

\* Accept fails because of the stop; Serve then waits for the end of the stop.
ServeStops ==
  /\ serve = "accepting" /\ Stopping
  /\ serve' = "leaving"
  /\ UNCHANGED <<main, stopper, manager, wg, ctxDone, closed, failed, file, call, disruptions>>

ServeReturns ==
  /\ serve = "leaving" /\ stopper \in {"drained", "ended"}
  /\ serve' = "ended" /\ wg' = wg - 1
  /\ UNCHANGED <<main, stopper, manager, ctxDone, closed, failed, file, call, disruptions>>

\* Accept fails by itself: Serve closes the listener and returns, calls or not.
AcceptFails ==
  /\ serve = "accepting" /\ ~Stopping
  /\ Disrupt
  /\ serve' = "ended" /\ wg' = wg - 1
  /\ CloseListener
  /\ failed' = TRUE
  /\ UNCHANGED <<main, stopper, manager, ctxDone, call>>
-----------------------------------------------------------------------------
(* The goroutine that calls Stop when the context is done. *)

\* Slip: Stop waits for the serving goroutine before it stops the server.
WaitThenStop ==
  /\ stopper = "waiting" /\ ctxDone /\ wg = 0
  /\ stopper' = "draining"
  /\ CloseListener
  /\ UNCHANGED <<main, serve, manager, wg, ctxDone, failed, call, disruptions>>

\* GracefulStop closes the listener it serves and refuses new calls ...
GracefulStop ==
  /\ stopper = "waiting" /\ ctxDone
  /\ stopper' = "draining"
  /\ \/ serve = "accepting" /\ CloseListener
     \/ serve # "accepting" /\ UNCHANGED <<closed, file>>
  /\ UNCHANGED <<main, serve, manager, wg, ctxDone, failed, call, disruptions>>

\* Slip: ForceStop, which does not wait for the handlers.
ForceStop ==
  /\ stopper = "draining" /\ serve # "accepting"
  /\ stopper' = "drained"
  /\ UNCHANGED <<main, serve, manager, wg, ctxDone, closed, failed, file, call, disruptions>>

\* ... and ends when the accept loop and all handlers have.
Drained ==
  /\ stopper = "draining" /\ serve # "accepting"
  /\ \A c \in Calls : call[c] # "running"
  /\ stopper' = "drained"
  /\ UNCHANGED <<main, serve, manager, wg, ctxDone, closed, failed, file, call, disruptions>>

\* The rest of Stop: wg.Wait and closeListener.
StopEnds ==
  /\ stopper = "drained" /\ wg = 0
  /\ stopper' = "ended"
  /\ CloseListener
  /\ UNCHANGED <<main, serve, manager, wg, ctxDone, failed, call, disruptions>>
-----------------------------------------------------------------------------
(* The manager, the calls, and what happens to the process. *)

ManagerStarts ==
  /\ manager = "starting"
  /\ manager' = "running"
  /\ UNCHANGED <<main, serve, stopper, wg, ctxDone, closed, failed, file, call, disruptions>>

\* mgr.Start returns nil after the context is done ...
ManagerEnds ==
  /\ manager \in {"starting", "running"} /\ ctxDone
  /\ manager' = "ended"
  /\ UNCHANGED <<main, serve, stopper, wg, ctxDone, closed, failed, file, call, disruptions>>

\* ... or an error, at which its goroutine exits the process.
ManagerFails ==
  /\ manager \in {"starting", "running"}
  /\ Disrupt
  /\ Exit("failed")

\* A client finds the socket and its call is accepted.  A call on a connection
\* from before GracefulStop, which gRPC drains like the others, is left out.
Begin(c) ==
  /\ call[c] = "idle" /\ serve = "accepting" /\ file = "bound"
  /\ call' = [call EXCEPT ![c] = "running"]
  /\ UNCHANGED <<goroutines, ctxDone, closed, failed, file, disruptions>>

\* The handler returns, with an error when the manager's caches are not up.
End(c) ==
  /\ call[c] = "running"
  /\ call' = [call EXCEPT ![c] = "answered"]
  /\ UNCHANGED <<goroutines, ctxDone, closed, failed, file, disruptions>>

\* SetupSignalHandler: the first signal cancels the context, a second exits.
Signal ==
  /\ main # "exited"
  /\ Disrupt
  /\ \/ /\ ~ctxDone
        /\ ctxDone' = TRUE
        /\ UNCHANGED <<goroutines, closed, failed, file, call>>
     \/ ctxDone /\ Exit("failed")

Kill ==
  /\ Disrupt
  /\ Exit("killed")

\* The kubelet starts the container again.
Restart ==
  /\ main = "exited"
  /\ main' = "setup" /\ manager' = "starting"
  /\ UNCHANGED <<serve, stopper, wg, ctxDone, closed, failed, file, call, disruptions>>

MainStep == RemoveUnixSocket \/ Listen \/ RunFails \/ WaitEnds \/ MainReturns
ServeStep == Serve \/ ServeStops \/ ServeReturns
StopperStep == GracefulStop \/ Drained \/ StopEnds
ManagerStep == ManagerStarts \/ ManagerEnds

Next ==
  \/ MainStep \/ ServeStep \/ AcceptFails \/ StopperStep
  \/ ManagerStep \/ ManagerFails
  \/ \E c \in Calls : Begin(c) \/ End(c)
  \/ Signal \/ Kill \/ Restart

\* Every goroutine that can go on does, every handler ends (its requests to the
\* API server have deadlines; kadmin has none and is taken to exit), and the
\* kubelet restarts the container.  Nothing is assumed of clients, signals and
\* failures.
Fairness ==
  /\ WF_vars(MainStep) /\ WF_vars(ServeStep) /\ WF_vars(StopperStep) /\ WF_vars(ManagerStep)
  /\ \A c \in Calls : WF_vars(End(c))
  /\ WF_vars(Restart)

Spec == Init /\ [][Next]_vars /\ Fairness
-----------------------------------------------------------------------------
(***************************************************************************)
(* Properties.                                                             *)
(***************************************************************************)

\* "Stop Stops the service gracefully": main returns only after every call
\* that was accepted has been answered, although main waits for the serving
\* goroutine and not for the one that drains the server.
NoCallDropped == \A c \in Calls : call[c] # "dropped"

\* After a signal the process ends, wherever it was: main waits for wg, the
\* serving goroutine for the stopper, and the stopper for both the calls and wg.
StopsOnSignal == ctxDone ~> main = "exited"

\* After any sequence of signals, crashes and failures the plugin comes to
\* serve on its socket for good: a file that a killed process left at the
\* socket's path does not keep its successors from binding it.
ServesAgain == <>[](serve = "accepting" /\ file = "bound" /\ manager = "running")
=============================================================================
