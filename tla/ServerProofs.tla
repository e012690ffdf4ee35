---------------------------- MODULE ServerProofs ----------------------------
(***************************************************************************)
(* The safety of the HTTP server's life, for every set of alerts and       *)
(* requests.  The server takes the handler's steps and Sender's, so their  *)
(* invariants hold here too; ServerInv adds what a connection's state says *)
(* of its request, and what the place Run has reached says of both.        *)
(***************************************************************************)
EXTENDS HTTPServer, AlertProofs

ServerPlaces == {"entry", "listening", "serving", "draining", "awaitServe", "returned", "ended"}
ConnStates == {"none", "open", "active", "left", "answered", "gone", "closed", "cut"}

ServerRanges ==
    /\ serverPC \in ServerPlaces
    /\ serveErr \in {"empty", "closed", "error"}
    /\ serverResult \in {"none", "nil", "error", "forced"}
    /\ runDone \in BOOLEAN
    /\ conn \in [Alerts -> ConnStates]

\* Shutdown has seen every connection idle, or the server was never reached.
Settled == serverPC = "awaitServe" \/ serverResult = "nil"

\* A connection knows whether its request has come and has been answered, and
\* none is alive once the server has settled.
ConnInv(a) ==
    /\ conn[a] \in {"none", "open", "closed"} <=> request[a] = NoRequest
    /\ conn[a] \in {"active", "left"} => response[a] = Unanswered
    /\ conn[a] \in {"answered", "gone"} => response[a] # Unanswered
    /\ serverPC \in {"entry", "listening"} => conn[a] = "none"
    /\ Settled => conn[a] \in {"none", "closed", "answered", "gone"}
    /\ conn[a] = "cut" => serverResult = "forced"

RunInv ==
    /\ serviceDone <=> serverPC = "ended"
    /\ serverResult # "none" <=> serverPC \in {"returned", "ended"}
    /\ serverPC \in {"draining", "awaitServe"} \/ serverResult = "nil" => runDone

ServerInv ==
    /\ ServerRanges
    /\ RunInv
    /\ \A a \in Alerts : ConnInv(a)
    /\ OnlyForcedEndCancels

\* What holds of the handler and of Send below the server.
Below == IInv /\ HandlerInv /\ ContextsFollow
-----------------------------------------------------------------------------
\* Every step of the server is one of the handler, or none.
LEMMA ServerStepsAreHandled == [ServerNext]_allServerVars => [HNext]_allVars
BY DEF ServerNext, ServerStep, ServerBegin, Listen, SelectServeErr, SelectRunDone, Drained,
       DrainTimesOut, AwaitServe, EndDeliveries, ServeFails, StopService, Accept, Request,
       Leave, Handle, ServerEnded, allServerVars, HNext

\* The server serves the endpoint: it adds no way to be answered or delivered.
THEOREM ServerIsHandler == ServerSpec => HSpec
<1>1. ServerInit => HInit
  BY DEF ServerInit
<1> QED
  BY <1>1, ServerStepsAreHandled, PTL DEF ServerSpec, HSpec

LEMMA BelowAlways == ServerSpec => []Below
BY ServerIsHandler, HandlerIsSender, AnswersFollow, SideFacts, PTL DEF Below
-----------------------------------------------------------------------------
\* A request is under way as long as its call is, and it has no answer then.
LEMMA CallsHaveRequests ==
    ASSUME Below, NEW a \in Alerts, pc[a] \notin {"idle", "returned"}
    PROVE  request[a] # NoRequest /\ response[a] = Unanswered
BY DEF Below, HandlerInv, AnswerInv

\* When the server has settled no call of Send is under way.
LEMMA SettledIsQuiet ==
    ASSUME Below, ServerInv, Settled, NEW a \in Alerts
    PROVE  /\ pc[a] \in {"idle", "returned"}
           /\ request[a] # NoRequest => response[a] # Unanswered
<1>1. ConnInv(a)
  BY DEF ServerInv
<1>2. request[a] # NoRequest => response[a] # Unanswered
  BY <1>1 DEF ConnInv
<1> QED
  BY <1>2, CallsHaveRequests

\* The steps of Run that touch neither a connection nor a delivery.
LEMMA RunSteps ==
    ASSUME ServerInv,
           \/ ServerBegin \/ Listen \/ ServeFails \/ SelectServeErr \/ SelectRunDone
           \/ AwaitServe \/ StopService
    PROVE  ServerInv'
<1> USE DEF ServerInv, ServerRanges, RunInv, ServerBegin, Listen, ServeFails, SelectServeErr,
            SelectRunDone, AwaitServe, StopService, ServerAt, ServerReturn
<1>1. UNCHANGED <<serviceDone, ctx, request, response, conn>>
  BY DEF allVars, vars, handlerVars
<1>2. ServerRanges'
  BY <1>1 DEF ServerPlaces
<1>3. RunInv'
  BY <1>1
<1>4. /\ Settled' => Settled \/ serverPC = "entry"
      /\ serverPC' \in {"entry", "listening"} => serverPC \in {"entry", "listening"}
      /\ serverResult # "none" => serverResult' = serverResult
  BY DEF Settled
<1>5. ASSUME NEW a \in Alerts PROVE ConnInv(a)'
  <2>1. ConnInv(a)
    OBVIOUS
  <2> QED
    BY <1>1, <1>4, <2>1 DEF ConnInv
<1>6. OnlyForcedEndCancels'
  BY <1>1 DEF OnlyForcedEndCancels
<1> QED
  BY <1>2, <1>3, <1>5, <1>6

\* Shutdown is over: the idle connections are closed, and, if it is over by its
\* timeout, the busy ones cut.
LEMMA DrainSteps ==
    ASSUME ServerInv, Drained \/ DrainTimesOut
    PROVE  ServerInv'
<1> USE DEF ServerInv, ServerRanges, RunInv, Drained, DrainTimesOut, ServerAt, ServerReturn
<1>1. UNCHANGED <<serviceDone, ctx, request, response, serveErr, runDone>>
  BY DEF allVars, vars, handlerVars
<1>2. ServerRanges' /\ RunInv'
  <2>1. conn' \in [Alerts -> ConnStates]
    BY DEF ConnStates
  <2> QED
    BY <1>1, <2>1 DEF ServerPlaces
<1>3. ASSUME NEW a \in Alerts PROVE ConnInv(a)'
  <2>1. ConnInv(a) /\ serverResult = "none"
    OBVIOUS
  <2>2. \/ conn'[a] = conn[a]
        \/ conn[a] = "open" /\ conn'[a] = "closed"
        \/ conn[a] \in {"active", "left"} /\ conn'[a] = "cut"
    BY DEF Busy
  <2>3. CASE Drained
    <3>1. conn[a] \notin {"active", "left"} /\ conn'[a] # "open" /\ conn[a] # "cut"
      <4>1. a \notin Busy
        BY <2>3
      <4> QED
        BY <2>1, <2>3, <4>1 DEF Busy, ConnInv
    <3> QED
      BY <1>1, <2>1, <2>2, <2>3, <3>1 DEF ConnInv, ConnStates
  <2>4. CASE DrainTimesOut
    <3>1. ~Settled' /\ serverPC' = "returned"
      BY <2>4 DEF Settled
    <3> QED
      BY <1>1, <2>1, <2>2, <3>1 DEF ConnInv
  <2> QED
    BY <2>3, <2>4
<1>4. OnlyForcedEndCancels'
  BY <1>1 DEF OnlyForcedEndCancels
<1> QED
  BY <1>2, <1>3, <1>4

\* The deliveries are canceled: none is under way unless Run was cut short.
LEMMA EndStep ==
    ASSUME Below, ServerInv, EndDeliveries
    PROVE  ServerInv'
<1> USE DEF EndDeliveries, ServerAt
<1>1. ServerRanges' /\ RunInv' /\ Settled' = Settled
  BY DEF CancelDeliveries, ServerInv, ServerRanges, RunInv, ServerPlaces, Settled
<1>2. ASSUME NEW a \in Alerts PROVE ConnInv(a)'
  BY <1>1 DEF ServerInv, ConnInv, handlerVars
<1>3. ASSUME NEW a \in Alerts, ctx'[a] = "canceled"
      PROVE  serverResult' \in {"forced", "error"}
  <2>1. CASE ctx[a] = "canceled"
    BY <2>1 DEF ServerInv, OnlyForcedEndCancels
  <2>2. CASE ctx[a] # "canceled"
    <3>1. ctx[a] = "live" /\ pc[a] # "returned"
      BY <1>3, <2>2 DEF CancelDeliveries, Below, IInv, RangesOK
    <3>2. pc[a] \notin {"idle", "returned"}
      BY <3>1 DEF Below, ContextsFollow
    <3>3. ~Settled
      BY <3>2, SettledIsQuiet
    <3> QED
      BY <3>3 DEF ServerInv, ServerRanges, RunInv, Settled
  <2> QED
    BY <2>1, <2>2
<1> QED
  BY <1>1, <1>2, <1>3 DEF ServerInv, OnlyForcedEndCancels

\* Clients come, ask and go away.
LEMMA ClientSteps ==
    ASSUME Below, ServerInv, NEW a \in Alerts,
           Accept(a) \/ (\E r \in Requests : Request(a, r)) \/ Leave(a)
    PROVE  ServerInv'
<1> USE DEF ServerInv, ServerRanges
<1>1. UNCHANGED <<serviceDone, ctx, response, serverPC, serveErr, serverResult, runDone>>
  BY DEF Accept, Request, Receive, Leave, allVars, vars, handlerVars
<1>2. \A b \in Alerts \ {a} : conn'[b] = conn[b] /\ request'[b] = request[b]
  BY DEF Accept, Request, Receive, Leave, allVars, handlerVars, Below, HandlerInv
<1>3. ServerRanges' /\ RunInv' /\ Settled' = Settled
  <2>1. conn' \in [Alerts -> ConnStates]
    BY DEF Accept, Request, Leave, ConnStates
  <2> QED
    BY <1>1, <2>1 DEF RunInv, Settled
<1>4. ASSUME NEW b \in Alerts \ {a} PROVE ConnInv(b)'
  <2>1. ConnInv(b)
    OBVIOUS
  <2> QED
    BY <1>1, <1>2, <1>3, <2>1 DEF ConnInv
<1>5. ConnInv(a)'
  <2>1. ConnInv(a) /\ ~Settled
    <3>1. ConnInv(a)
      OBVIOUS
    <3>2. CASE Accept(a)
      BY <3>2 DEF Accept, Settled, RunInv
    <3>3. CASE (\E r \in Requests : Request(a, r)) \/ Leave(a)
      BY <3>1, <3>3 DEF Request, Leave, ConnInv
    <3> QED
      BY <3>1, <3>2, <3>3
  <2>2. CASE Accept(a)
    <3>1. conn[a] = "none" /\ conn'[a] = "open" /\ serverPC = "serving" /\ request' = request
      BY <2>2 DEF Accept, allVars, handlerVars
    <3> QED
      BY <1>1, <1>3, <2>1, <3>1 DEF ConnInv
  <2>3. ASSUME NEW r \in Requests, Request(a, r) PROVE ConnInv(a)'
    <3>1. conn[a] = "open" /\ conn'[a] = "active" /\ request'[a] = r /\ r # NoRequest
      BY <2>3, NoRequestAssumption, RequestsAssumption DEF Request, Receive, Below, HandlerInv
    <3>2. response[a] = Unanswered
      <4>1. AnswerInv(a) /\ request[a] = NoRequest
        BY <2>1, <3>1 DEF ConnInv, Below, HandlerInv
      <4> QED
        BY <4>1 DEF AnswerInv
    <3> QED
      BY <1>1, <1>3, <2>1, <3>1, <3>2 DEF ConnInv
  <2>4. CASE Leave(a)
    <3>1. conn[a] = "active" /\ conn'[a] = "left" /\ request' = request
      BY <2>4 DEF Leave, allVars, handlerVars
    <3> QED
      BY <1>1, <1>3, <2>1, <3>1 DEF ConnInv
  <2> QED
    BY <2>2, <2>3, <2>4
<1>6. OnlyForcedEndCancels'
  BY <1>1 DEF OnlyForcedEndCancels
<1> QED
  BY <1>3, <1>4, <1>5, <1>6

\* The handler forwards an alert or answers its client.  Nothing is left to
\* forward once the server has settled.
LEMMA HandleStep ==
    ASSUME Below, ServerInv, NEW a \in Alerts, Handle(a)
    PROVE  ServerInv'
<1> USE DEF ServerInv, ServerRanges
<1>1. UNCHANGED <<serviceDone, request, serverPC, serveErr, serverResult, runDone>>
  BY DEF Handle, Forward, Call, Dismiss, Respond, vars, handlerVars
<1>2. \A b \in Alerts \ {a} : /\ conn'[b] = conn[b] /\ response'[b] = response[b]
                              /\ ctx'[b] = ctx[b]
  BY DEF Handle, Forward, Call, Dismiss, Respond, vars, handlerVars, Below, HandlerInv, IInv,
         RangesOK
<1>3. ServerRanges' /\ RunInv' /\ Settled' = Settled
  <2>1. conn' \in [Alerts -> ConnStates]
    BY DEF Handle, ConnStates
  <2> QED
    BY <1>1, <2>1 DEF RunInv, Settled
<1>4. ASSUME NEW b \in Alerts \ {a} PROVE ConnInv(b)'
  <2>1. ConnInv(b)
    OBVIOUS
  <2> QED
    BY <1>1, <1>2, <1>3, <2>1 DEF ConnInv
<1>5. ConnInv(a) /\ AnswerInv(a) /\ request[a] # NoRequest /\ response[a] = Unanswered
  <2>1. ConnInv(a) /\ AnswerInv(a)
    BY DEF Below, HandlerInv
  <2> QED
    BY <2>1 DEF Handle, Forward, Dismiss, Respond, Screened, AnswerInv
<1>6. CASE Forward(a) /\ UNCHANGED conn
  <2> USE <1>6 DEF Forward, Call
  <2>1. ConnInv(a)' /\ ~Settled
    BY <1>1, <1>3, <1>5 DEF ConnInv, handlerVars
  <2>2. serviceDone => serverResult \in {"forced", "error"}
    BY <2>1 DEF RunInv, Settled
  <2>3. ctx'[a] = "canceled" => serviceDone
    BY DEF Below, IInv, RangesOK
  <2>4. OnlyForcedEndCancels'
    BY <1>1, <1>2, <2>2, <2>3 DEF OnlyForcedEndCancels
  <2> QED
    BY <1>3, <1>4, <2>1, <2>4
<1>7. CASE Dismiss(a) \/ Respond(a)
  <2>1. UNCHANGED ctx
    BY <1>7 DEF Dismiss, Respond, vars
  <2>2. response'[a] # Unanswered
    <3>1. CASE Dismiss(a)
      BY <3>1 DEF Dismiss, Below, HandlerInv
    <3>2. CASE Respond(a)
      BY <3>2, SendCodes DEF Respond, Below, HandlerInv, StatusCodes, Refusals, Unanswered
    <3> QED
      BY <1>7, <3>1, <3>2
  <2>3. \/ conn[a] = "active" /\ conn'[a] = "answered"
        \/ conn[a] = "left" /\ conn'[a] = "gone"
        \/ conn[a] \notin {"active", "left"} /\ conn'[a] = conn[a]
    BY <1>7 DEF Handle, Forward, Call, Dismiss, Respond, handlerVars, vars, Below, HandlerInv
  <2>4. ConnInv(a)'
    BY <1>1, <1>3, <1>5, <2>2, <2>3 DEF ConnInv
  <2>5. OnlyForcedEndCancels'
    BY <1>1, <2>1 DEF OnlyForcedEndCancels
  <2> QED
    BY <1>3, <1>4, <2>4, <2>5
<1> QED
  BY <1>6, <1>7 DEF Handle

\* The deliveries go on under the server.
LEMMA SendSteps ==
    ASSUME Below, ServerInv, NEW a \in Alerts,
           Step(a) \/ PostReturns(a) \/ Expire(a), UNCHANGED <<handlerVars, serverVars>>
    PROVE  ServerInv'
<1>1. UNCHANGED <<serviceDone, request, response, serverPC, serveErr, serverResult, runDone, conn>>
  BY DEF Step, Enter, Admit, AdmitDone, Refuse, TakeGate, GateDone, CheckGated, FinishLoop,
         BreakLoop, StartPost, ReleaseGate, ReleaseAdmission, PostReturns, PostOK, PostFail,
         Expire, handlerVars, serverVars
<1>2. ASSUME NEW b \in Alerts, ctx'[b] = "canceled" PROVE ctx[b] = "canceled"
  BY <1>2 DEF Step, Enter, Admit, AdmitDone, Refuse, TakeGate, GateDone, CheckGated, FinishLoop,
         BreakLoop, StartPost, ReleaseGate, ReleaseAdmission, PostReturns, PostOK, PostFail,
         Expire, Below, IInv, RangesOK
<1>3. ServerRanges' /\ RunInv' /\ Settled' = Settled
  BY <1>1 DEF ServerInv, ServerRanges, RunInv, Settled
<1>4. ASSUME NEW b \in Alerts PROVE ConnInv(b)'
  BY <1>1, <1>3 DEF ServerInv, ConnInv
<1> QED
  BY <1>1, <1>2, <1>3, <1>4 DEF ServerInv, OnlyForcedEndCancels

LEMMA ServerInvStep ==
    ASSUME Below, ServerInv, [ServerNext]_allServerVars
    PROVE  ServerInv'
<1>1. CASE UNCHANGED allServerVars
  BY <1>1 DEF allServerVars, allVars, vars, handlerVars, serverVars, ServerInv, ServerRanges,
              RunInv, ConnInv, Settled, OnlyForcedEndCancels
<1> QED
  BY <1>1, RunSteps, DrainSteps, EndStep, ClientSteps, HandleStep, SendSteps
  DEF ServerNext, ServerStep, ServerEnded

\* The connections, the requests and the place of Run always fit together.
THEOREM ServerKeepsItsBooks == ServerSpec => [](Below /\ ServerInv)
<1>1. ServerInit => ServerInv
  BY DEF ServerInit, HInit, Init, ServerInv, ServerRanges, RunInv, ConnInv, Settled,
         OnlyForcedEndCancels, ServerPlaces, ConnStates
<1>2. Below /\ ServerInv /\ [ServerNext]_allServerVars => ServerInv'
  BY ServerInvStep
<1> QED
  BY <1>1, <1>2, BelowAlways, PTL DEF ServerSpec
-----------------------------------------------------------------------------
(* What follows from the invariant. *)

\* A graceful shutdown cuts nobody off and leaves no delivery behind.
THEOREM GracefulDrain == ServerSpec => []DrainIsComplete
<1>1. ASSUME Below, ServerInv, serverResult = "nil", NEW a \in Alerts
      PROVE  /\ request[a] # NoRequest => conn[a] \in {"answered", "gone"}
             /\ a \notin Admitted
  <2>1. Settled /\ ConnInv(a)
    BY <1>1 DEF Settled, ServerInv
  <2>2. pc[a] \in {"idle", "returned"}
    BY <1>1, <2>1, SettledIsQuiet
  <2> QED
    BY <2>1, <2>2 DEF ConnInv, Admitted, AdmittedAt, GateHeldAt
<1>2. Below /\ ServerInv => DrainIsComplete
  <2> SUFFICES ASSUME Below, ServerInv, serverResult = "nil"
               PROVE  /\ \A a \in Alerts : request[a] # NoRequest => conn[a] \in {"answered", "gone"}
                      /\ Admitted = {}
    BY DEF DrainIsComplete
  <2> QED
    BY <1>1 DEF Admitted
<1> QED
  BY <1>2, ServerKeepsItsBooks, PTL

\* A delivery is canceled only if the drain timed out or the listener failed.
THEOREM OnlyForceCancels == ServerSpec => []OnlyForcedEndCancels
BY ServerKeepsItsBooks, PTL DEF ServerInv

\* Behind the server, too, 202 says exactly that every target has the alert.
THEOREM ServedMeansDelivered == ServerSpec => []AcceptedIsDelivered
BY ServerIsHandler, AcceptedMeansDelivered, PTL

\* Once the deliveries are canceled no further target is posted to.
THEOREM EndIsQuiet == ServerSpec => NothingPostedAfterEnd
<1>1. ASSUME Below, [HNext]_allVars, serviceDone
      PROVE  UNCHANGED tried
  <2>1. [Next]_vars
    BY <1>1, HandlerStepsAreSends
  <2>2. ASSUME NEW a \in Alerts PROVE ~StartPost(a)
    BY <1>1 DEF StartPost, Done, Below, ContextsFollow, IInv, RangesOK, CtxStates
  <2> QED
    BY <2>1, <2>2 DEF Next, Call, Step, Enter, Admit, AdmitDone, Refuse, TakeGate, GateDone,
         CheckGated, FinishLoop, BreakLoop, ReleaseGate, ReleaseAdmission, PostReturns, PostOK,
         PostFail, Expire, CancelDeliveries, Finished, vars
<1>2. Below /\ [ServerNext]_allServerVars => [serviceDone => UNCHANGED tried]_allServerVars
  BY <1>1, ServerStepsAreHandled
<1> QED
  BY <1>2, BelowAlways, PTL DEF ServerSpec, NothingPostedAfterEnd

\* The server keeps the safety of the orchestrator's contract: it returns once,
\* and nil only when told to stop.
THEOREM ServerIsService == ServerSpec => Http!ServiceSafety
<1>1. ServerInit => Http!ServiceInit
  BY DEF ServerInit, Http!ServiceInit, ServerOutcome
<1>2. ASSUME ServerInv, [ServerNext]_allServerVars
      PROVE  [Http!ServiceNext]_(Http!serviceVars)
  <2>1. CASE StopService
    BY <2>1 DEF StopService, ServerOutcome, Http!ServiceNext, Http!Cancel
  <2>2. CASE EndDeliveries
    <3>1. ServerOutcome = "running" /\ runDone' = runDone /\ serverResult' = serverResult
      BY <2>2 DEF EndDeliveries, ServerOutcome, ServerAt
    <3>2. ServerOutcome' = IF serverResult = "nil" THEN "nil" ELSE "error"
      BY <2>2 DEF EndDeliveries, ServerOutcome, ServerAt
    <3>3. serverResult = "nil" => runDone
      BY <1>2 DEF ServerInv, RunInv
    <3> QED
      BY <3>1, <3>2, <3>3 DEF Http!ServiceNext, Http!Return
  <2>3. CASE ~StopService /\ ~EndDeliveries
    <3>1. runDone' = runDone
      BY <1>2, <2>3
      DEF ServerNext, ServerStep, ServerBegin, Listen, SelectServeErr, SelectRunDone, Drained,
          DrainTimesOut, AwaitServe, ServeFails, Accept, Request, Leave, Handle, ServerEnded,
          allServerVars, serverVars
    <3>2. \/ serverPC # "ended" /\ serverPC' # "ended"
          \/ serverPC' = serverPC /\ serverResult' = serverResult
      BY <1>2, <2>3
      DEF ServerNext, ServerStep, ServerBegin, Listen, SelectServeErr, SelectRunDone, Drained,
          DrainTimesOut, AwaitServe, ServeFails, Accept, Request, Leave, Handle, ServerEnded,
          allServerVars, serverVars, ServerAt, ServerReturn
    <3>3. ServerOutcome' = ServerOutcome
      BY <3>2 DEF ServerOutcome
    <3> QED
      BY <3>1, <3>3 DEF Http!serviceVars
  <2> QED
    BY <2>1, <2>2, <2>3
<1> QED
  BY <1>1, <1>2, ServerKeepsItsBooks, PTL DEF ServerSpec, Http!ServiceSafety
=============================================================================
