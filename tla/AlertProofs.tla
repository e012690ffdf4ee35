----------------------------- MODULE AlertProofs -----------------------------
(***************************************************************************)
(* The safety of the alert endpoint, for every set of requests and alerts. *)
(* The handler only ever takes Sender's own steps, so what is proved of    *)
(* Sender holds here; AnswerInv ties each response to its request or to    *)
(* the report of Send, whichever decided it.                               *)
(***************************************************************************)
EXTENDS AlertHandler, SenderProofs

USE NoRequestAssumption, RequestsAssumption, TokenAssumption

\* What the handler has decided for one alert.
AnswerInv(a) ==
    /\ pc[a] # "idle" => request[a] # NoRequest /\ Screen(request[a]) = Unanswered
    /\ response[a] # Unanswered =>
        \/ /\ pc[a] = "idle" /\ request[a] # NoRequest
           /\ response[a] = Screen(request[a])
        \/ pc[a] = "returned" /\ response[a] = SendStatus(errs[a])

HandlerInv ==
    /\ request \in [Alerts -> Requests \cup {NoRequest}]
    /\ response \in [Alerts -> StatusCodes \cup {Unanswered}]
    /\ \A a \in Alerts : AnswerInv(a)
-----------------------------------------------------------------------------
(* The two tables of status codes. *)

\* Screening refuses with a code of its own, and tells a client without the
\* token about the path and the method at most.
LEMMA ScreenCodes ==
    ASSUME NEW r \in RequestType
    PROVE  /\ Screen(r) \in Refusals \cup {Unanswered}
           /\ TokenConfigured /\ r.token = "wrong" => Screen(r) \in {401, 404, 405}
BY DEF RequestType, Screen, authorized, BodyStatus, writeDecodeError, Refusals, Unanswered

\* 202 is for a report without errors, 503 for one of a full queue, and neither
\* is a code of screening.
LEMMA SendCodes ==
    ASSUME NEW kinds
    PROVE  /\ SendStatus(kinds) \in StatusCodes \ Refusals
           /\ SendStatus(kinds) = 202 <=> kinds = {}
           /\ SendStatus(kinds) = 503 => "queueFull" \in kinds
BY DEF SendStatus, StatusCodes, Refusals
-----------------------------------------------------------------------------
\* Every step of the handler is one of Sender, or none.
LEMMA HandlerStepsAreSends == [HNext]_allVars => [Next]_vars
BY DEF HNext, Receive, Dismiss, Forward, Respond, HFinished, allVars, Next

\* The endpoint hands each alert to Send at most once and leaves the rest to it.
THEOREM HandlerIsSender == HSpec => Spec
<1>1. HInit => Init
  BY DEF HInit
<1> QED
  BY <1>1, HandlerStepsAreSends, PTL DEF HSpec, Spec

\* A step of Sender's own disturbs no answer: a call that is over stays so.
LEMMA SendsKeepAnswers ==
    ASSUME IInv, HandlerInv, NEW a \in Alerts,
           Step(a) \/ PostReturns(a) \/ Expire(a), UNCHANGED handlerVars
    PROVE  HandlerInv'
<1> USE DEF IInv, RangesOK, HandlerInv
<1>1. UNCHANGED <<request, response>>
  BY DEF handlerVars
<1>2. ASSUME NEW b \in Alerts \ {a}
      PROVE  pc'[b] = pc[b] /\ errs'[b] = errs[b]
  BY DEF Step, Enter, Admit, AdmitDone, Refuse, TakeGate, GateDone, CheckGated,
         FinishLoop, BreakLoop, StartPost, ReleaseGate, ReleaseAdmission, PostReturns,
         PostOK, PostFail, Expire, Goto, Report
<1>3. \/ pc[a] \notin {"idle", "returned"}
      \/ pc'[a] = pc[a] /\ errs'[a] = errs[a]
  BY DEF Step, Enter, Admit, AdmitDone, Refuse, TakeGate, GateDone, CheckGated,
         FinishLoop, BreakLoop, StartPost, ReleaseGate, ReleaseAdmission, PostReturns,
         PostOK, PostFail, Expire
<1>4. ASSUME NEW b \in Alerts, pc'[b] = pc[b], errs'[b] = errs[b]
      PROVE  AnswerInv(b)'
  <2>1. AnswerInv(b)
    OBVIOUS
  <2> QED
    BY <1>1, <1>4, <2>1 DEF AnswerInv
<1>5. ASSUME pc[a] \notin {"idle", "returned"}
      PROVE  AnswerInv(a)'
  <2>1. AnswerInv(a)
    OBVIOUS
  <2> QED
    BY <1>1, <1>5, <2>1 DEF AnswerInv
<1>6. \A b \in Alerts : AnswerInv(b)'
  BY <1>2, <1>3, <1>4, <1>5
<1> QED
  BY <1>1, <1>6

\* The handler's own steps: a request, its dismissal, its call, its answer.
LEMMA HandlerSteps ==
    ASSUME IInv, HandlerInv, NEW a \in Alerts,
           (\E r \in Requests : Receive(a, r)) \/ Dismiss(a) \/ Forward(a) \/ Respond(a)
    PROVE  HandlerInv'
<1> USE DEF IInv, RangesOK, HandlerInv
<1>0. AnswerInv(a)
  OBVIOUS
<1>1. ASSUME \A b \in Alerts \ {a} :
                 /\ pc'[b] = pc[b] /\ errs'[b] = errs[b]
                 /\ request'[b] = request[b] /\ response'[b] = response[b],
             AnswerInv(a)'
      PROVE  \A b \in Alerts : AnswerInv(b)'
  <2>1. ASSUME NEW b \in Alerts \ {a} PROVE AnswerInv(b)'
    <3>1. AnswerInv(b)
      OBVIOUS
    <3> QED
      BY <1>1, <3>1 DEF AnswerInv
  <2> QED
    BY <1>1, <2>1
<1>2. ASSUME NEW r \in Requests, Receive(a, r) PROVE HandlerInv'
  <2> USE <1>2 DEF Receive, vars
  <2>1. request' \in [Alerts -> Requests \cup {NoRequest}]
    OBVIOUS
  <2>2. pc[a] = "idle" /\ response[a] = Unanswered
    BY <1>0 DEF AnswerInv
  <2>3. AnswerInv(a)'
    BY <2>2 DEF AnswerInv
  <2> QED
    BY <1>1, <2>1, <2>3
<1>3. CASE Dismiss(a)
  <2> USE <1>3 DEF Dismiss, Screened, vars
  <2>1. request[a] \in RequestType
    OBVIOUS
  <2>2. response' \in [Alerts -> StatusCodes \cup {Unanswered}]
    BY <2>1, ScreenCodes DEF StatusCodes
  <2>3. response'[a] = Screen(request[a]) /\ pc'[a] = "idle" /\ request' = request
    OBVIOUS
  <2>4. AnswerInv(a)'
    BY <2>3 DEF AnswerInv
  <2> QED
    BY <1>1, <2>2, <2>4
<1>4. CASE Forward(a)
  <2> USE <1>4 DEF Forward, Screened, Call, Goto, handlerVars
  <2>1. AnswerInv(a)'
    BY DEF AnswerInv
  <2> QED
    BY <1>1, <2>1
<1>5. CASE Respond(a)
  <2> USE <1>5 DEF Respond, vars
  <2>1. response' \in [Alerts -> StatusCodes \cup {Unanswered}]
    BY SendCodes
  <2>2. response'[a] = SendStatus(errs[a]) /\ pc'[a] = "returned" /\ errs' = errs /\ request' = request
    OBVIOUS
  <2>3. AnswerInv(a)'
    BY <1>0, <2>2 DEF AnswerInv
  <2> QED
    BY <1>1, <2>1, <2>3
<1> QED
  BY <1>2, <1>3, <1>4, <1>5

LEMMA HandlerInvStep ==
    ASSUME IInv, HandlerInv, [HNext]_allVars
    PROVE  HandlerInv'
<1>1. CASE (CancelDeliveries /\ UNCHANGED handlerVars) \/ UNCHANGED allVars
  <2>1. UNCHANGED <<pc, errs, request, response>>
    BY <1>1 DEF CancelDeliveries, allVars, handlerVars, vars
  <2>2. ASSUME NEW b \in Alerts PROVE AnswerInv(b)'
    <3>1. AnswerInv(b)
      BY DEF HandlerInv
    <3> QED
      BY <2>1, <3>1 DEF AnswerInv
  <2> QED
    BY <2>1, <2>2 DEF HandlerInv
<1> QED
  BY <1>1, HandlerSteps, SendsKeepAnswers DEF HNext, HFinished

\* Every answer is the one its request or its delivery calls for.
THEOREM AnswersFollow == HSpec => [](IInv /\ HandlerInv)
<1>1. HInit => HandlerInv
  BY DEF HInit, Init, HandlerInv, AnswerInv
<1>2. IInv /\ HandlerInv /\ [HNext]_allVars => HandlerInv'
  BY HandlerInvStep
<1> QED
  BY <1>1, <1>2, HandlerIsSender, Bookkeeping, PTL DEF HSpec
-----------------------------------------------------------------------------
(* What follows from the invariant. *)

\* 202 says exactly that every target has the alert.
LEMMA AnswersTell == IInv /\ HandlerInv => AcceptedIsDelivered
<1> SUFFICES ASSUME IInv, HandlerInv, NEW a \in Alerts, response[a] # Unanswered
             PROVE  response[a] = 202 <=> acked[a] = Targets
  BY DEF AcceptedIsDelivered
<1>1. AnswerInv(a) /\ ReportSoFar(a)
  BY DEF HandlerInv, IInv
<1>2. CASE pc[a] = "idle"
  <2>1. response[a] # 202
    BY <1>1, <1>2, ScreenCodes DEF AnswerInv, HandlerInv, Refusals, Unanswered
  <2>2. acked[a] # Targets
    BY <1>1, <1>2, SomeTarget DEF ReportSoFar, BeforeLoop
  <2> QED
    BY <2>1, <2>2
<1>3. CASE pc[a] = "returned"
  BY <1>1, <1>3, SendCodes DEF AnswerInv, ReportSoFar, AfterLoop
<1> QED
  BY <1>1, <1>2, <1>3 DEF AnswerInv

THEOREM AcceptedMeansDelivered == HSpec => []AcceptedIsDelivered
BY AnswersFollow, AnswersTell, PTL

\* An alert refused by screening or by the full queue has posted nothing.
THEOREM SafeRetry == HSpec => []RetryIsSafe
<1>1. ASSUME IInv, HandlerInv, RefusedUntried, NEW a \in Alerts,
             response[a] \in Refusals \cup {503}
      PROVE  tried[a] = 0 /\ pc[a] \in {"idle", "returned"}
  <2>1. AnswerInv(a) /\ ReportSoFar(a)
    BY <1>1 DEF HandlerInv, IInv
  <2>2. response[a] # Unanswered
    BY <1>1 DEF Refusals, Unanswered
  <2>3. CASE pc[a] = "idle"
    BY <2>1, <2>3 DEF ReportSoFar, BeforeLoop
  <2>4. CASE pc[a] = "returned"
    <3>1. response[a] = SendStatus(errs[a])
      BY <2>1, <2>2, <2>4 DEF AnswerInv
    <3>2. "queueFull" \in errs[a]
      BY <1>1, <3>1, SendCodes
    <3> QED
      BY <1>1, <3>2 DEF RefusedUntried
  <2> QED
    BY <2>1, <2>2, <2>3, <2>4 DEF AnswerInv
<1>2. IInv /\ HandlerInv /\ RefusedUntried => RetryIsSafe
  BY <1>1 DEF RetryIsSafe
<1> QED
  BY <1>2, AnswersFollow, HandlerIsSender, SideFacts, PTL

\* A client without the token learns nothing about its body or content type.
THEOREM NothingForUnauthorized == HSpec => []UnauthorizedLearnsNothing
<1>1. ASSUME IInv, HandlerInv, NEW a \in Alerts, response[a] # Unanswered,
             TokenConfigured, request[a].token = "wrong"
      PROVE  response[a] \in {401, 404, 405}
  <2>1. AnswerInv(a) /\ request[a] # NoRequest /\ pc[a] \in {"idle", "returned"}
    BY <1>1 DEF HandlerInv, AnswerInv
  <2>2. Screen(request[a]) \in {401, 404, 405}
    BY <1>1, <2>1, ScreenCodes DEF HandlerInv
  <2>3. pc[a] = "idle"
    BY <2>1, <2>2 DEF AnswerInv, Unanswered
  <2> QED
    BY <1>1, <2>1, <2>2, <2>3 DEF AnswerInv
<1>2. IInv /\ HandlerInv => UnauthorizedLearnsNothing
  BY <1>1 DEF UnauthorizedLearnsNothing
<1> QED
  BY <1>2, AnswersFollow, PTL
=============================================================================
