----------------------------- MODULE HTTPServer -----------------------------
(***************************************************************************)
(* server.Run as the serve command runs it: the HTTP server in front of    *)
(* AlertHandler, its graceful shutdown, and the delivery context, which    *)
(* outlives the service's and ends when Run has returned.                  *)
(*                                                                         *)
(* Each alert comes over a connection of its own.  net/http is modelled by *)
(* what Run uses of it: Serve accepts until the listener is closed or      *)
(* fails, Shutdown closes the listener and waits for the connections that  *)
(* carry a request, Close cuts them.                                       *)
(*                                                                         *)
(*   serverPC: entry, listening (net.Listen), serving (select), draining   *)
(*     (Shutdown), awaitServe (receive from errCh after it), returned      *)
(*     (cancelDeliveries is next), ended                                   *)
(*   conn[a]: none, open (no request yet), active, left (by the client     *)
(*     while the handler works), answered, gone (the handler has answered  *)
(*     a client that left), closed (by Shutdown, without a request), cut   *)
(*     (with one)                                                          *)
(***************************************************************************)
EXTENDS AlertHandler

VARIABLES
    serverPC,
    serveErr,      \* errCh: "empty", "closed" (ErrServerClosed) or "error"
    serverResult,  \* what Run returns: "none", "nil", "error" or "forced"
    runDone,       \* the service's context, runCtx, is done
    conn

serverVars == <<serverPC, serveErr, serverResult, runDone, conn>>
allServerVars == <<allVars, serverVars>>

\* The connections Shutdown waits for: those with a handler at work, even if
\* nobody waits for its answer.
Busy == {a \in Alerts : conn[a] \in {"active", "left"}}
-----------------------------------------------------------------------------
ServerInit ==
    /\ HInit
    /\ serverPC = "entry"
    /\ serveErr = "empty"
    /\ serverResult = "none"
    /\ runDone = FALSE
    /\ conn = [a \in Alerts |-> "none"]

ServerAt(l) == serverPC' = l /\ UNCHANGED serverResult
ServerReturn(result) == serverPC' = "returned" /\ serverResult' = result

\* if ctx.Err() != nil { return nil }
ServerBegin ==
    /\ serverPC = "entry"
    /\ IF runDone THEN ServerReturn("nil") ELSE ServerAt("listening")
    /\ UNCHANGED <<allVars, serveErr, runDone, conn>>

\* net.Listen, and go httpServer.Serve
Listen ==
    /\ serverPC = "listening"
    /\ ServerReturn("error") \/ ServerAt("serving")
    /\ UNCHANGED <<allVars, serveErr, runDone, conn>>

\* Serve returns an error of the listener.
ServeFails ==
    /\ serverPC = "serving"
    /\ serveErr = "empty"
    /\ serveErr' = "error"
    /\ UNCHANGED <<allVars, serverPC, serverResult, runDone, conn>>

\* case err := <-errCh.  Before Shutdown it is not ErrServerClosed.
SelectServeErr ==
    /\ serverPC = "serving"
    /\ serveErr = "error"
    /\ serveErr' = "empty"
    /\ ServerReturn("error")
    /\ UNCHANGED <<allVars, runDone, conn>>

\* case <-ctx.Done(): Shutdown closes the listener, hence Serve returns.
SelectRunDone ==
    /\ serverPC = "serving"
    /\ runDone
    /\ ServerAt("draining")
    /\ serveErr' = IF serveErr = "empty" THEN "closed" ELSE serveErr
    /\ UNCHANGED <<allVars, runDone, conn>>

\* Bug: Close instead of Shutdown.
DrainedAtOnce ==
    /\ serverPC = "draining"
    /\ ServerAt("awaitServe")
    /\ conn' = [a \in Alerts |-> IF a \in Busy THEN "cut" ELSE conn[a]]
    /\ UNCHANGED <<allVars, serveErr, runDone>>

\* Shutdown has seen every connection without a request under way.
Drained ==
    /\ serverPC = "draining"
    /\ Busy = {}
    /\ ServerAt("awaitServe")
    /\ conn' = [a \in Alerts |-> IF conn[a] = "open" THEN "closed" ELSE conn[a]]
    /\ UNCHANGED <<allVars, serveErr, runDone>>

\* Bug: the shutdown has no timeout.
DrainTimesOutNever == FALSE /\ UNCHANGED allServerVars

\* shutdownTimeout elapses (or Shutdown fails otherwise): Close.
DrainTimesOut ==
    /\ serverPC = "draining"
    /\ ServerReturn("forced")
    /\ conn' = [a \in Alerts |-> CASE a \in Busy       -> "cut"
                                   [] conn[a] = "open" -> "closed"
                                   [] OTHER            -> conn[a]]
    /\ UNCHANGED <<allVars, serveErr, runDone>>

\* err := <-errCh after a graceful shutdown
AwaitServe ==
    /\ serverPC = "awaitServe"
    /\ serveErr # "empty"
    /\ serveErr' = "empty"
    /\ ServerReturn(IF serveErr = "closed" THEN "nil" ELSE "error")
    /\ UNCHANGED <<allVars, runDone, conn>>

\* defer cancelDeliveries()
EndDeliveries ==
    /\ serverPC = "returned"
    /\ CancelDeliveries
    /\ ServerAt("ended")
    /\ UNCHANGED <<handlerVars, serveErr, runDone, conn>>
-----------------------------------------------------------------------------
Accept(a) ==
    /\ serverPC = "serving"
    /\ serveErr = "empty"
    /\ conn[a] = "none"
    /\ conn' = [conn EXCEPT ![a] = "open"]
    /\ UNCHANGED <<allVars, serverPC, serveErr, serverResult, runDone>>

\* The request of a connection arrives, perhaps when Shutdown has begun.
Request(a, r) ==
    /\ conn[a] = "open"
    /\ Receive(a, r)
    /\ conn' = [conn EXCEPT ![a] = "active"]
    /\ UNCHANGED <<serverPC, serveErr, serverResult, runDone>>

\* The client goes away.  The context of its request ends, but the delivery has
\* one of its own, so nothing else changes.
Leave(a) ==
    /\ conn[a] = "active"
    /\ conn' = [conn EXCEPT ![a] = "left"]
    /\ UNCHANGED <<allVars, serverPC, serveErr, serverResult, runDone>>

\* The handler's steps.  Its answer reaches a client whose connection lives.
Handle(a) ==
    /\ \/ Forward(a) /\ UNCHANGED conn
       \/ /\ Dismiss(a) \/ Respond(a)
          /\ conn' = [conn EXCEPT ![a] = CASE @ = "active" -> "answered"
                                            [] @ = "left"   -> "gone"
                                            [] OTHER        -> @]
    /\ UNCHANGED <<serverPC, serveErr, serverResult, runDone>>

\* Bug: the delivery context is derived from the service's own.
StopServiceAndDeliveries ==
    /\ ~runDone
    /\ runDone' = TRUE
    /\ IF serviceDone THEN UNCHANGED vars ELSE CancelDeliveries
    /\ UNCHANGED <<handlerVars, serverPC, serveErr, serverResult, conn>>

\* newDeliveryContext: WithoutCancel keeps the deliveries' context alive when
\* the service's ends.
StopService ==
    /\ ~runDone
    /\ runDone' = TRUE
    /\ UNCHANGED <<allVars, serverPC, serveErr, serverResult, conn>>

\* The command may end, and the process with it.
ServerEnded == serverPC = "ended" /\ UNCHANGED allServerVars

ServerStep ==
    \/ ServerBegin \/ Listen \/ SelectServeErr \/ SelectRunDone
    \/ Drained \/ DrainTimesOut \/ AwaitServe \/ EndDeliveries

ServerNext ==
    \/ ServerStep \/ ServeFails
    \/ StopService
    \/ \E a \in Alerts :
        \/ Accept(a)
        \/ \E r \in Requests : Request(a, r)
        \/ Leave(a)
        \/ Handle(a)
        \/ (Step(a) \/ PostReturns(a) \/ Expire(a)) /\ UNCHANGED <<handlerVars, serverVars>>
    \/ ServerEnded

ServerSpec == ServerInit /\ [][ServerNext]_allServerVars

\* Run's goroutine runs and the timer of the shutdown fires.  No fairness is
\* needed of the handlers: Shutdown does not wait for them without a limit.
ServerFairSpec == ServerSpec /\ WF_allServerVars(ServerStep)
-----------------------------------------------------------------------------
\* A graceful shutdown cuts nobody off: once Run has returned nil, every request
\* that reached the handler has its answer, unless its client has left, and the
\* deliveries have come to their own end (TestRunGracefullyDrainsActiveHandler,
\* for every interleaving of accepting, handling, leaving and stopping).
DrainIsComplete ==
    serverResult = "nil" =>
        /\ \A a \in Alerts : request[a] # NoRequest => conn[a] \in {"answered", "gone"}
        /\ Admitted = {}

\* Neither the end of the service nor that of the client cuts a delivery short:
\* it is canceled only if the drain timed out or the listener failed
\* (TestDeliveryContextOutlivesServiceUntilExplicitlyStopped,
\* TestDeliveryOutlivesRequestButStopsWithService).
OnlyForcedEndCancels ==
    \A a \in Alerts : ctx[a] = "canceled" => serverResult \in {"forced", "error"}

\* Handlers that outlive Run stop forwarding: once the deliveries are canceled,
\* no further target is posted to.
NothingPostedAfterEnd == [][serviceDone => UNCHANGED tried]_allServerVars

\* The contract of the orchestrator.
ServerOutcome ==
    CASE serverPC # "ended"                     -> "running"
      [] serverPC = "ended" /\ serverResult = "nil" -> "nil"
      [] OTHER                                  -> "error"

Http == INSTANCE Service WITH canceled <- runDone, outcome <- ServerOutcome

\* The HTTP server returns nil only when told to stop, and returns then, however
\* long its handlers take.
ImplementsService == Http!ServiceSpec
=============================================================================
