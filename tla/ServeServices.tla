--------------------------- MODULE ServeServices ---------------------------
(***************************************************************************)
(* runServeServices: it starts the gateway, waits until that is ready,     *)
(* starts the HTTP server, and when one of them ends or the process is     *)
(* told to stop, stops and awaits both.  Of the gateway it knows what      *)
(* ReadyService says, of the HTTP server what Service says, and no more.   *)
(*                                                                         *)
(*   pc: awaiting (first select), stopping (the gateway is told to stop    *)
(*     before it was ready), serving (second select), collectFirst,        *)
(*     collectSecond (receives from results), returned                     *)
(***************************************************************************)
EXTENDS Sequences, Naturals

VARIABLES
    pc,
    ctxDone,       \* the signal context is done
    runCanceled,   \* cancel of runCtx was called
    timer,         \* start-up timer: "running", "fired", "seen" or "stopped"
    gatewayReady,  \* gateway.Ready() is closed
    gateway,       \* what the gateway does: "running", "nil", "error", "canceled"
    http,          \* the same of the HTTP server, "off" before it is started
    results,       \* the results channel, of capacity 2
    first,         \* the result received first of the two, and
    parentStopped, \*   whether ctx was done by then
    exit           \* the failures joined in the error that is returned

serviceVars == <<gatewayReady, gateway, http, results>>
localVars == <<timer, first, parentStopped, exit>>
vars == <<pc, ctxDone, runCanceled, serviceVars, localVars>>

\* runCtx is derived from ctx.
RunDone == ctxDone \/ runCanceled

Gateway == INSTANCE ReadyService WITH
    announced <- gatewayReady, canceled <- RunDone, outcome <- gateway
Http == INSTANCE Service WITH
    canceled <- RunDone, outcome <- http

Names == {"QQ gateway", "HTTP server"}
Outcomes == {"nil", "error", "canceled"}
ServiceResult == [name : Names, err : Outcomes]
NoResult == [name |-> "QQ gateway", err |-> "nil"]
NotReady == [name |-> "QQ gateway", err |-> "late"]

\* context.Canceled is no failure of a service that was told to stop.
shutdownError(result) == IF result.err = "error" THEN {result} ELSE {}

\* A service that ends without being told to has failed, whatever it returns.
serviceFailure(result) == {result}
-----------------------------------------------------------------------------
Init ==
    /\ pc = "awaiting"
    /\ ctxDone = FALSE
    /\ runCanceled = FALSE
    /\ timer = "running"
    /\ gatewayReady = FALSE
    /\ gateway = "running"
    /\ http = "off"
    /\ results = <<>>
    /\ first = NoResult
    /\ parentStopped = FALSE
    /\ exit = {}

Receive(result) ==
    /\ results # <<>>
    /\ result = Head(results)
    /\ results' = Tail(results)
    /\ UNCHANGED <<gatewayReady, gateway, http>>

\* return, and the deferred cancel
Return(failures) ==
    /\ pc' = "returned"
    /\ exit' = failures
    /\ runCanceled' = TRUE

\* case <-gateway.Ready(), and go runHTTP
ReadySeen ==
    /\ pc = "awaiting"
    /\ gatewayReady
    /\ timer' = "stopped"
    /\ http' = "running"
    /\ pc' = "serving"
    /\ UNCHANGED <<ctxDone, runCanceled, gatewayReady, gateway, results>>
    /\ UNCHANGED <<first, parentStopped, exit>>

\* case result := <-results
GatewayEndsEarly ==
    /\ pc = "awaiting"
    /\ \E r \in ServiceResult :
        /\ Receive(r)
        /\ Return(IF ctxDone THEN shutdownError(r) ELSE serviceFailure(r))
    /\ UNCHANGED <<ctxDone, timer, first, parentStopped>>

\* Bug: two results are awaited although the HTTP server was not started.
InterruptedEarlyAwaitsBoth ==
    /\ pc = "awaiting"
    /\ ctxDone
    /\ pc' = "collectFirst"
    /\ runCanceled' = TRUE
    /\ UNCHANGED <<ctxDone, serviceVars, localVars>>

\* case <-ctx.Done()
InterruptedEarly ==
    /\ pc = "awaiting"
    /\ ctxDone
    /\ pc' = "stopping"
    /\ runCanceled' = TRUE
    /\ UNCHANGED <<ctxDone, serviceVars, localVars>>

\* Bug: the gateway is not awaited after the timeout.
TimedOutReturns ==
    /\ pc = "awaiting"
    /\ timer = "fired"
    /\ timer' = "seen"
    /\ Return({NotReady})
    /\ UNCHANGED <<ctxDone, serviceVars, first, parentStopped>>

\* case <-timer.C
TimedOut ==
    /\ pc = "awaiting"
    /\ timer = "fired"
    /\ timer' = "seen"
    /\ pc' = "stopping"
    /\ runCanceled' = TRUE
    /\ UNCHANGED <<ctxDone, serviceVars, first, parentStopped, exit>>

\* The receive in the two cases above.
StoppedEarly ==
    /\ pc = "stopping"
    /\ \E r \in ServiceResult :
        /\ Receive(r)
        /\ Return(shutdownError(r) \cup (IF timer = "seen" THEN {NotReady} ELSE {}))
    /\ UNCHANGED <<ctxDone, timer, first, parentStopped>>
-----------------------------------------------------------------------------
\* case <-ctx.Done() of the second select, and the first receive
Interrupted ==
    /\ pc = "serving"
    /\ ctxDone
    /\ pc' = "collectFirst"
    /\ runCanceled' = TRUE
    /\ UNCHANGED <<ctxDone, serviceVars, localVars>>

CollectFirst ==
    /\ pc = "collectFirst"
    /\ Receive(first')
    /\ parentStopped' = TRUE
    /\ pc' = "collectSecond"
    /\ UNCHANGED <<ctxDone, runCanceled, timer, exit>>

\* Bug: the end of a service always counts as unexpected.
ServiceEndsUnexpectedly ==
    /\ pc = "serving"
    /\ results # <<>>
    /\ first' = Head(results)
    /\ results' = Tail(results)
    /\ parentStopped' = FALSE
    /\ runCanceled' = TRUE
    /\ pc' = "collectSecond"
    /\ UNCHANGED <<ctxDone, timer, exit, gatewayReady, gateway, http>>

\* Bug: the peer of a service that ended is not told to stop.
ServiceEndsAlone ==
    /\ pc = "serving"
    /\ results # <<>>
    /\ first' = Head(results)
    /\ results' = Tail(results)
    /\ parentStopped' = ctxDone
    /\ pc' = "collectSecond"
    /\ UNCHANGED <<ctxDone, runCanceled, timer, exit, gatewayReady, gateway, http>>

\* case first := <-results
ServiceEnds ==
    /\ pc = "serving"
    /\ Receive(first')
    /\ parentStopped' = ctxDone
    /\ runCanceled' = TRUE
    /\ pc' = "collectSecond"
    /\ UNCHANGED <<ctxDone, timer, exit>>

CollectSecond ==
    /\ pc = "collectSecond"
    /\ \E second \in ServiceResult :
        /\ Receive(second)
        /\ Return(shutdownError(second) \cup
                  (IF parentStopped THEN shutdownError(first) ELSE serviceFailure(first)))
    /\ UNCHANGED <<ctxDone, timer, first, parentStopped>>
-----------------------------------------------------------------------------
\* The services, by the contract of each.
AnnounceReady ==
    /\ UNCHANGED <<pc, ctxDone, runCanceled, http, results, localVars>>
    /\ Gateway!Announce

GatewayReturns ==
    /\ UNCHANGED <<pc, ctxDone, runCanceled, gatewayReady, http, localVars>>
    /\ Gateway!Return
    /\ results' = Append(results, [name |-> "QQ gateway", err |-> gateway'])

HttpReturns ==
    /\ UNCHANGED <<pc, ctxDone, runCanceled, gatewayReady, gateway, localVars>>
    /\ Http!Return
    /\ results' = Append(results, [name |-> "HTTP server", err |-> http'])

\* SIGINT or SIGTERM
Signal ==
    /\ ~ctxDone
    /\ ctxDone' = TRUE
    /\ UNCHANGED <<pc, runCanceled, serviceVars, localVars>>

\* gatewayReadyTimeout elapses.
TimerFires ==
    /\ timer = "running"
    /\ pc = "awaiting"
    /\ timer' = "fired"
    /\ UNCHANGED <<pc, ctxDone, runCanceled, serviceVars, first, parentStopped, exit>>

Step ==
    \/ ReadySeen \/ GatewayEndsEarly \/ InterruptedEarly \/ TimedOut \/ StoppedEarly
    \/ Interrupted \/ CollectFirst \/ ServiceEnds \/ CollectSecond

Serving == Step \/ AnnounceReady \/ GatewayReturns \/ HttpReturns \/ TimerFires
-----------------------------------------------------------------------------
\* The command returns only when no service is running any more, whichever of
\* its seven ways out it takes.
NothingLeftBehind ==
    pc = "returned" => gateway # "running" /\ http # "running"

\* A service that ends takes the other one with it: no HTTP server accepts
\* alerts for a gateway that is gone, for long.
ServicesEndTogether ==
    gateway # "running" \/ http \in Outcomes ~> pc = "returned"
=============================================================================
