----------------------------- MODULE ServeProofs -----------------------------
(***************************************************************************)
(* The safety of the serve command, over any gateway and HTTP server that  *)
(* keep their contracts and for every set of configuration files.          *)
(*                                                                         *)
(* ServicesInv is the inductive invariant of runServeServices: Pending     *)
(* says which results are in the channel and which have been received, so  *)
(* that no receive takes one service for the other; Stops says what the    *)
(* place reached tells of why the services were stopped; and Verdict, what *)
(* the joined error tells.                                                 *)
(***************************************************************************)
EXTENDS ServeCommand, SequenceTheorems, TLAPS

Places == {"awaiting", "stopping", "serving", "collectFirst", "collectSecond", "returned"}

ServiceRanges ==
    /\ pc \in Places
    /\ ctxDone \in BOOLEAN
    /\ runCanceled \in BOOLEAN
    /\ parentStopped \in BOOLEAN
    /\ timer \in {"running", "fired", "seen", "stopped"}
    /\ gateway \in {"running"} \cup Outcomes
    /\ http \in {"off", "running"} \cup Outcomes

GatewayResult == [name |-> "QQ gateway", err |-> gateway]
HttpResult == [name |-> "HTTP server", err |-> http]

GatewayRuns == gateway = "running"
HttpRuns == http = "running"

\* The results of the services that have ended, but for those received.
AlonePending ==
    /\ http = "off"
    /\ \/ GatewayRuns /\ results = <<>>
       \/ ~GatewayRuns /\ results = <<GatewayResult>>

BothPending ==
    /\ http # "off"
    /\ \/ GatewayRuns /\ HttpRuns /\ results = <<>>
       \/ ~GatewayRuns /\ HttpRuns /\ results = <<GatewayResult>>
       \/ GatewayRuns /\ ~HttpRuns /\ results = <<HttpResult>>
       \/ ~GatewayRuns /\ ~HttpRuns /\ results = <<GatewayResult, HttpResult>>
       \/ ~GatewayRuns /\ ~HttpRuns /\ results = <<HttpResult, GatewayResult>>

HttpLast ==
    /\ ~GatewayRuns /\ first = GatewayResult
    /\ \/ HttpRuns /\ results = <<>>
       \/ ~HttpRuns /\ results = <<HttpResult>>

GatewayLast ==
    /\ ~HttpRuns /\ first = HttpResult
    /\ \/ GatewayRuns /\ results = <<>>
       \/ ~GatewayRuns /\ results = <<GatewayResult>>

Pending ==
    /\ pc \in {"awaiting", "stopping"} => AlonePending
    /\ pc \in {"serving", "collectFirst"} => BothPending
    /\ pc = "collectSecond" => http # "off" /\ (HttpLast \/ GatewayLast)
    /\ pc = "returned" => ~GatewayRuns /\ ~HttpRuns

Stops ==
    /\ gateway \in {"nil", "canceled"} \/ http \in {"nil", "canceled"} => RunDone
    /\ pc \in {"awaiting", "serving"} => ~runCanceled
    /\ pc = "collectFirst" => ctxDone
    /\ pc = "stopping" /\ timer # "seen" => ctxDone
    /\ pc = "collectSecond" /\ parentStopped => ctxDone
    /\ pc = "collectSecond" /\ ~parentStopped => first.err = "error"
    /\ timer = "seen" => pc \in {"stopping", "returned"}

Verdict ==
    pc = "returned" =>
        /\ exit = {} <=> gateway # "error" /\ http # "error" /\ timer # "seen"
        /\ exit = {} => ctxDone

ServicesInv == ServiceRanges /\ Pending /\ Stops /\ Verdict

\* The calls of RunE before the services are started.
StartPhases == {"loading", "validating", "logging", "connecting", "authenticating"}

CommandInv ==
    /\ ServicesInv
    /\ phase \in StartPhases \cup {"serving", "exited"}
    /\ phase \in StartPhases => pc = "awaiting"
    /\ phase = "exited" =>
        \/ pc = "awaiting" /\ exitCode = 1
        \/ pc = "returned" /\ exitCode = (IF exit # {} THEN 1 ELSE 0)

\* What the command has asked of the file by the time of each phase.
FileInv ==
    /\ file \in Files
    /\ phase \in (StartPhases \ {"loading"}) \cup {"serving"} => ~LoadFails(file)
    /\ phase \in (StartPhases \ {"loading", "validating"}) \cup {"serving"} =>
           ValidateServe(cfg) = {}
-----------------------------------------------------------------------------
(* The results channel. *)

\* It holds two results at most and gives them back in order.
LEMMA ShortQueues ==
    ASSUME NEW x, NEW y
    PROVE  /\ Append(<<>>, x) = <<x>> /\ Append(<<x>>, y) = <<x, y>>
           /\ Head(<<x>>) = x /\ Tail(<<x>>) = <<>>
           /\ Head(<<x, y>>) = x /\ Tail(<<x, y>>) = <<y>>
           /\ <<x>> # <<>> /\ <<x, y>> # <<>>
<1>1. Append(<<>>, x) = <<x>>
  OBVIOUS
<1>2. Append(<<x>>, y) = <<x, y>>
  <2>1. <<x>> \in Seq({x, y}) /\ <<x, y>> \in Seq({x, y})
    OBVIOUS
  <2>2. Append(<<x>>, y) \in Seq({x, y}) /\ Len(Append(<<x>>, y)) = 2
    BY <2>1, AppendProperties
  <2>3. Append(<<x>>, y)[1] = x /\ Append(<<x>>, y)[2] = y
    BY <2>1, AppendProperties
  <2>4. Len(<<x, y>>) = 2 /\ <<x, y>>[1] = x /\ <<x, y>>[2] = y
    OBVIOUS
  <2>5. \A i \in 1..2 : i = 1 \/ i = 2
    OBVIOUS
  <2>6. \A i \in 1..Len(Append(<<x>>, y)) : Append(<<x>>, y)[i] = <<x, y>>[i]
    BY <2>2, <2>3, <2>4, <2>5
  <2> QED
    BY <2>1, <2>2, <2>4, <2>6, SeqEqual
<1>3. Head(<<x>>) = x /\ Head(<<x, y>>) = x
  OBVIOUS
<1>4. Tail(<<x>>) = <<>>
  OBVIOUS
<1>5. Tail(<<x, y>>) = <<y>>
  OBVIOUS
<1>6. <<x>> # <<>> /\ <<x, y>> # <<>>
  OBVIOUS
<1> QED
  BY <1>1, <1>2, <1>3, <1>4, <1>5, <1>6

LEMMA SameContext ==
    ASSUME ctxDone' = ctxDone, runCanceled' = runCanceled
    PROVE  RunDone' <=> RunDone
BY DEF RunDone

LEMMA ResultErrors == GatewayResult.err = gateway /\ HttpResult.err = http
BY DEF GatewayResult, HttpResult

\* Before the HTTP server is started only the gateway's result can arrive.
LEMMA ReceiveAlone ==
    ASSUME AlonePending, NEW r, Receive(r)
    PROVE  r = GatewayResult /\ ~GatewayRuns /\ results' = <<>>
BY ShortQueues DEF AlonePending, Receive

\* The first of two receives leaves the other service's result to come ...
LEMMA ReceiveFirst ==
    ASSUME BothPending, Receive(first')
    PROVE  (HttpLast \/ GatewayLast)' /\ http' # "off"
<1>1. UNCHANGED <<gateway, http>> /\ first' = Head(results) /\ results' = Tail(results) /\ results # <<>>
  BY DEF Receive
<1>2. GatewayRuns' = GatewayRuns /\ HttpRuns' = HttpRuns
      /\ GatewayResult' = GatewayResult /\ HttpResult' = HttpResult
  BY <1>1 DEF GatewayRuns, HttpRuns, GatewayResult, HttpResult
<1>3. http' # "off"
  BY <1>1 DEF BothPending
<1>4. \/ ~GatewayRuns /\ HttpRuns /\ first' = GatewayResult /\ results' = <<>>
      \/ GatewayRuns /\ ~HttpRuns /\ first' = HttpResult /\ results' = <<>>
      \/ ~GatewayRuns /\ ~HttpRuns /\ first' = GatewayResult /\ results' = <<HttpResult>>
      \/ ~GatewayRuns /\ ~HttpRuns /\ first' = HttpResult /\ results' = <<GatewayResult>>
  BY <1>1, ShortQueues DEF BothPending
<1> QED
  BY <1>2, <1>3, <1>4 DEF HttpLast, GatewayLast

\* ... and the second one gets it.
LEMMA ReceiveLast ==
    ASSUME HttpLast \/ GatewayLast, NEW r, Receive(r)
    PROVE  /\ ~GatewayRuns /\ ~HttpRuns
           /\ \/ first = GatewayResult /\ r = HttpResult
              \/ first = HttpResult /\ r = GatewayResult
BY ShortQueues DEF HttpLast, GatewayLast, Receive

\* A service that was not told to stop has ended with an error.
LEMMA UntoldIsError ==
    ASSUME ServiceRanges, Stops, ~RunDone
    PROVE  /\ ~GatewayRuns => gateway = "error"
           /\ ~HttpRuns => http \in {"off", "error"}
BY DEF ServiceRanges, Stops, GatewayRuns, HttpRuns, Outcomes
-----------------------------------------------------------------------------
(* The steps of runServeServices. *)

\* What the end of a service contributes to the joined error.
LEMMA Failures ==
    ASSUME NEW r
    PROVE  /\ shutdownError(r) = {} <=> r.err # "error"
           /\ serviceFailure(r) # {}
BY DEF shutdownError, serviceFailure

LEMMA ReadySeenKeeps ==
    ASSUME ServicesInv, ReadySeen
    PROVE  ServicesInv'
<1> USE DEF ReadySeen, ServicesInv
<1>1. UNCHANGED <<ctxDone, runCanceled, gateway, results, first, parentStopped, exit>>
  OBVIOUS
<1>2. ServiceRanges'
  BY <1>1 DEF ServiceRanges, Places
<1>3. Pending'
  BY <1>1 DEF Pending, AlonePending, BothPending, GatewayRuns, HttpRuns, GatewayResult
<1>4. Stops' /\ Verdict'
  BY <1>1 DEF Stops, Verdict, RunDone
<1> QED
  BY <1>2, <1>3, <1>4

\* Told to stop before the gateway was ready.
LEMMA StopEarlyKeeps ==
    ASSUME ServicesInv, InterruptedEarly \/ TimedOut
    PROVE  ServicesInv'
<1> USE DEF InterruptedEarly, TimedOut, ServicesInv
<1>1. /\ UNCHANGED <<ctxDone, gateway, http, results, first, parentStopped, exit>>
      /\ pc = "awaiting" /\ pc' = "stopping" /\ runCanceled' = TRUE
      /\ (timer' = timer /\ ctxDone) \/ timer' = "seen"
  BY DEF serviceVars, localVars
<1>2. ServiceRanges'
  BY <1>1 DEF ServiceRanges, Places
<1>3. Pending'
  BY <1>1 DEF Pending, AlonePending, GatewayRuns, GatewayResult
<1>4. Stops' /\ Verdict'
  BY <1>1 DEF Stops, Verdict, RunDone
<1> QED
  BY <1>2, <1>3, <1>4

\* The gateway ended, or was awaited, before the HTTP server was started.
LEMMA EndEarlyKeeps ==
    ASSUME ServicesInv, GatewayEndsEarly \/ StoppedEarly
    PROVE  ServicesInv'
<1> USE DEF GatewayEndsEarly, StoppedEarly, ServicesInv, Return
<1>1. /\ UNCHANGED <<ctxDone, timer, first, parentStopped, gateway, http>>
      /\ pc \in {"awaiting", "stopping"} /\ pc' = "returned" /\ runCanceled' = TRUE
  BY DEF Receive
<1>2. AlonePending
  BY <1>1 DEF Pending
<1>3. ~GatewayRuns /\ ~HttpRuns
  BY <1>2, ReceiveAlone DEF AlonePending, HttpRuns
<1>4. ServiceRanges'
  BY <1>1 DEF ServiceRanges, Places
<1>5. Pending'
  BY <1>1, <1>3 DEF Pending, GatewayRuns, HttpRuns
<1>6. Stops'
  BY <1>1 DEF Stops, RunDone
<1>7. Verdict'
  <2>1. /\ exit' = {} <=> gateway # "error" /\ timer # "seen"
        /\ exit' = {} => ctxDone
    <3>1. CASE GatewayEndsEarly
      <4>1. exit' = IF ctxDone THEN shutdownError(GatewayResult) ELSE serviceFailure(GatewayResult)
        BY <1>2, <3>1, ReceiveAlone
      <4>2. timer # "seen"
        BY <3>1 DEF Stops
      <4>3. ~ctxDone => gateway = "error"
        BY <1>3, <3>1, UntoldIsError DEF Stops, RunDone
      <4> QED
        BY <4>1, <4>2, <4>3, Failures, ResultErrors
    <3>2. CASE StoppedEarly
      <4>1. exit' = shutdownError(GatewayResult) \cup (IF timer = "seen" THEN {NotReady} ELSE {})
        BY <1>2, <3>2, ReceiveAlone
      <4>2. exit' = {} <=> shutdownError(GatewayResult) = {} /\ timer # "seen"
        BY <4>1
      <4>3. timer # "seen" => ctxDone
        BY <3>2 DEF Stops
      <4> QED
        BY <4>2, <4>3, Failures, ResultErrors
    <3> QED
      BY <3>1, <3>2
  <2>2. http # "error"
    BY <1>2 DEF AlonePending
  <2> QED
    BY <1>1, <2>1, <2>2 DEF Verdict
<1> QED
  BY <1>4, <1>5, <1>6, <1>7

LEMMA InterruptedKeeps ==
    ASSUME ServicesInv, Interrupted
    PROVE  ServicesInv'
<1> USE DEF Interrupted, ServicesInv
<1>1. UNCHANGED <<ctxDone, gateway, http, results, timer, first, parentStopped, exit>>
  BY DEF serviceVars, localVars
<1>2. ServiceRanges'
  BY <1>1 DEF ServiceRanges, Places
<1>3. Pending'
  BY <1>1 DEF Pending, BothPending, GatewayRuns, HttpRuns, GatewayResult, HttpResult
<1>4. Stops' /\ Verdict'
  BY <1>1 DEF Stops, Verdict, RunDone
<1> QED
  BY <1>2, <1>3, <1>4

\* The first of the two results.
LEMMA FirstKeeps ==
    ASSUME ServicesInv, CollectFirst \/ ServiceEnds
    PROVE  ServicesInv'
<1> USE DEF CollectFirst, ServiceEnds, ServicesInv
<1>1. /\ UNCHANGED <<ctxDone, gateway, http, timer, exit>>
      /\ pc \in {"serving", "collectFirst"} /\ pc' = "collectSecond"
      /\ Receive(first') /\ parentStopped' \in {ctxDone, TRUE}
  BY DEF Receive
<1>2. (HttpLast \/ GatewayLast)' /\ http' # "off"
  BY <1>1, ReceiveFirst DEF Pending
<1>3. runCanceled' \in BOOLEAN /\ (RunDone => RunDone')
  BY DEF ServiceRanges, RunDone
<1>4. ServiceRanges'
  BY <1>1, <1>3 DEF ServiceRanges, Places
<1>5. Pending'
  BY <1>1, <1>2 DEF Pending
<1>6. parentStopped' => ctxDone
  BY <1>1 DEF Stops, ServiceRanges
<1>7. ~parentStopped' => first'.err = "error"
  <2> SUFFICES ASSUME ~parentStopped' PROVE first'.err = "error"
    OBVIOUS
  <2>1. pc = "serving" /\ ~ctxDone /\ ~runCanceled
    BY DEF Stops
  <2>2. (~GatewayRuns => gateway = "error") /\ (~HttpRuns => http \in {"off", "error"})
    BY <2>1, UntoldIsError DEF RunDone
  <2> QED
    <3>1. \/ ~GatewayRuns' /\ first' = GatewayResult'
          \/ ~HttpRuns' /\ first' = HttpResult'
      BY <1>2 DEF HttpLast, GatewayLast
    <3>2. GatewayResult'.err = gateway /\ HttpResult'.err = http
      BY <1>1 DEF GatewayResult, HttpResult
    <3>3. (~GatewayRuns' => ~GatewayRuns) /\ (~HttpRuns' => ~HttpRuns) /\ http # "off"
      BY <1>1, <1>2 DEF GatewayRuns, HttpRuns
    <3> QED
      BY <2>2, <3>1, <3>2, <3>3
<1>8. Stops' /\ Verdict'
  BY <1>1, <1>3, <1>6, <1>7 DEF Stops, Verdict
<1> QED
  BY <1>4, <1>5, <1>8

\* The second one, and the verdict over both.
LEMMA SecondKeeps ==
    ASSUME ServicesInv, CollectSecond
    PROVE  ServicesInv'
<1> USE DEF CollectSecond, ServicesInv, Return
<1>1. /\ UNCHANGED <<ctxDone, timer, first, parentStopped, gateway, http>>
      /\ pc' = "returned" /\ runCanceled' = TRUE
  BY DEF Receive
<1>2. PICK second \in ServiceResult :
        /\ Receive(second)
        /\ exit' = shutdownError(second) \cup
                   (IF parentStopped THEN shutdownError(first) ELSE serviceFailure(first))
  OBVIOUS
<1>3. /\ ~GatewayRuns /\ ~HttpRuns
      /\ \/ first = GatewayResult /\ second = HttpResult
         \/ first = HttpResult /\ second = GatewayResult
  BY <1>2, ReceiveLast DEF Pending
<1>4. ServiceRanges'
  BY <1>1 DEF ServiceRanges, Places
<1>5. Pending'
  BY <1>1, <1>3 DEF Pending, GatewayRuns, HttpRuns
<1>6. Stops'
  BY <1>1 DEF Stops, RunDone
<1>7. Verdict'
  <2>1. exit' = {} <=> second.err # "error" /\ parentStopped /\ first.err # "error"
    BY <1>2, Failures
  <2>2. (parentStopped => ctxDone) /\ (~parentStopped => first.err = "error") /\ timer # "seen"
    BY DEF Stops
  <2> QED
    <3>1. exit' = {} <=> gateway # "error" /\ http # "error" /\ timer # "seen"
      BY <1>3, <2>1, <2>2, ResultErrors
    <3>2. exit' = {} => ctxDone
      BY <2>1, <2>2
    <3> QED
      BY <1>1, <3>1, <3>2 DEF Verdict
<1> QED
  BY <1>4, <1>5, <1>6, <1>7
-----------------------------------------------------------------------------
(* The steps of the services and of the world outside. *)

\* Why the services are stopped does not depend on what they do about it.
LEMMA StopsStill ==
    ASSUME Stops,
           UNCHANGED <<pc, ctxDone, runCanceled, timer, first, parentStopped>>,
           (gateway' \in {"nil", "canceled"} \/ http' \in {"nil", "canceled"}) => RunDone'
    PROVE  Stops'
BY DEF Stops

LEMMA GatewayReturnKeeps ==
    ASSUME ServicesInv, GatewayReturns
    PROVE  ServicesInv'
<1> USE DEF GatewayReturns, ServicesInv
<1>1. /\ UNCHANGED <<pc, ctxDone, runCanceled, http, timer, first, parentStopped, exit>>
      /\ GatewayRuns /\ gateway' \in Outcomes /\ ~GatewayRuns'
      /\ gateway' \in {"nil", "canceled"} => RunDone
      /\ results' = Append(results, GatewayResult')
  BY DEF localVars, Gateway!Return, GatewayRuns, GatewayResult, Outcomes
<1>2. (HttpRuns' <=> HttpRuns) /\ (RunDone' <=> RunDone) /\ HttpResult' = HttpResult
  <2>1. (HttpRuns' <=> HttpRuns) /\ HttpResult' = HttpResult
    BY <1>1 DEF HttpRuns, HttpResult
  <2>2. RunDone' <=> RunDone
    BY <1>1, SameContext
  <2> QED
    BY <2>1, <2>2
<1>3. ServiceRanges'
  BY <1>1 DEF ServiceRanges
<1>4. Pending'
  <2>1. AlonePending => AlonePending'
    BY <1>1, <1>2, ShortQueues DEF AlonePending
  <2>2. BothPending => BothPending'
    BY <1>1, <1>2, ShortQueues DEF BothPending
  <2>3. HttpLast \/ GatewayLast => GatewayLast'
    BY <1>1, <1>2, ShortQueues DEF HttpLast, GatewayLast
  <2> QED
    BY <1>1, <2>1, <2>2, <2>3 DEF Pending
<1>5. Verdict'
  BY <1>1 DEF Verdict, Pending
<1>6. Stops'
  <2>1. (gateway' \in {"nil", "canceled"} \/ http' \in {"nil", "canceled"}) => RunDone'
    BY <1>1, <1>2 DEF Stops
  <2> QED
    BY <1>1, <2>1, StopsStill
<1> QED
  BY <1>3, <1>4, <1>5, <1>6

LEMMA HttpReturnKeeps ==
    ASSUME ServicesInv, HttpReturns
    PROVE  ServicesInv'
<1> USE DEF HttpReturns, ServicesInv
<1>1. /\ UNCHANGED <<pc, ctxDone, runCanceled, gateway, timer, first, parentStopped, exit>>
      /\ HttpRuns /\ http' \in Outcomes /\ ~HttpRuns' /\ http # "off" /\ http' # "off"
      /\ http' \in {"nil", "canceled"} => RunDone
      /\ results' = Append(results, HttpResult')
  BY DEF localVars, Http!Return, HttpRuns, HttpResult, Outcomes
<1>2. (GatewayRuns' <=> GatewayRuns) /\ (RunDone' <=> RunDone) /\ GatewayResult' = GatewayResult
  <2>1. (GatewayRuns' <=> GatewayRuns) /\ GatewayResult' = GatewayResult
    BY <1>1 DEF GatewayRuns, GatewayResult
  <2>2. RunDone' <=> RunDone
    BY <1>1, SameContext
  <2> QED
    BY <2>1, <2>2
<1>3. ServiceRanges'
  BY <1>1 DEF ServiceRanges
<1>4. Pending'
  <2>1. ~AlonePending
    BY <1>1 DEF AlonePending
  <2>2. BothPending => BothPending'
    BY <1>1, <1>2, ShortQueues DEF BothPending
  <2>3. HttpLast \/ GatewayLast => HttpLast'
    BY <1>1, <1>2, ShortQueues DEF HttpLast, GatewayLast
  <2> QED
    BY <1>1, <2>1, <2>2, <2>3 DEF Pending
<1>5. Verdict'
  BY <1>1 DEF Verdict, Pending
<1>6. Stops'
  <2>1. (gateway' \in {"nil", "canceled"} \/ http' \in {"nil", "canceled"}) => RunDone'
    BY <1>1, <1>2 DEF Stops
  <2> QED
    BY <1>1, <2>1, StopsStill
<1> QED
  BY <1>3, <1>4, <1>5, <1>6

\* The announcement, the timer, the signal, or nothing of the services.
LEMMA OutsideKeeps ==
    ASSUME ServicesInv, AnnounceReady \/ TimerFires \/ Signal \/ UNCHANGED vars
    PROVE  ServicesInv'
<1> USE DEF AnnounceReady, TimerFires, Signal, ServicesInv
<1>1. /\ UNCHANGED <<pc, runCanceled, gateway, http, results, first, parentStopped, exit>>
      /\ timer' = timer \/ (pc = "awaiting" /\ timer = "running" /\ timer' = "fired")
      /\ ctxDone' = ctxDone \/ ctxDone' = TRUE
  BY DEF vars, serviceVars, localVars, Gateway!Announce, Gateway!serviceVars
<1>2. ServiceRanges'
  BY <1>1 DEF ServiceRanges
<1>3. Pending'
  BY <1>1 DEF Pending, AlonePending, BothPending, HttpLast, GatewayLast, GatewayRuns, HttpRuns,
              GatewayResult, HttpResult
<1>4. Stops' /\ Verdict'
  BY <1>1 DEF Stops, Verdict, RunDone
<1> QED
  BY <1>2, <1>3, <1>4

LEMMA ServicesStep ==
    ASSUME ServicesInv, Serving \/ Signal \/ UNCHANGED vars
    PROVE  ServicesInv'
BY ReadySeenKeeps, StopEarlyKeeps, EndEarlyKeeps, InterruptedKeeps, FirstKeeps, SecondKeeps,
   GatewayReturnKeeps, HttpReturnKeeps, OutsideKeeps
DEF Serving, Step
-----------------------------------------------------------------------------
(* The steps of the command. *)

LEMMA ServicesInit == Init => ServicesInv
<1> SUFFICES ASSUME Init PROVE ServicesInv
  OBVIOUS
<1> USE DEF Init
<1>1. ServiceRanges
  BY DEF ServiceRanges, Places
<1>2. Pending
  BY DEF Pending, AlonePending, GatewayRuns
<1>3. Stops /\ Verdict
  BY DEF Stops, Verdict
<1> QED
  BY <1>1, <1>2, <1>3 DEF ServicesInv

LEMMA CommandStep ==
    ASSUME CommandInv, [CommandNext]_allVars
    PROVE  CommandInv'
<1>1. CASE UNCHANGED allVars
  <2>1. ServicesInv'
    BY <1>1, ServicesStep DEF CommandInv, allVars
  <2> QED
    BY <1>1, <2>1 DEF CommandInv, allVars, commandVars, vars, localVars
<1>2. CASE StartUp \/ Authenticate
  <2>1. /\ UNCHANGED vars /\ phase \in StartPhases /\ pc = "awaiting"
        /\ \/ phase' = "exited" /\ exitCode' = 1
           \/ phase' \in StartPhases \cup {"serving"}
    BY <1>2 DEF StartUp, Authenticate, LoadConfig, Validate, NewLogger, Connect, Call, StartPhases,
                CommandInv
  <2>2. ServicesInv' /\ pc' = "awaiting"
    BY <2>1, ServicesStep DEF CommandInv, vars
  <2> QED
    BY <2>1, <2>2 DEF CommandInv, StartPhases
<1>3. CASE Serve
  <2>1. ServicesInv' /\ phase = "serving" /\ phase' = "serving"
    BY <1>3, ServicesStep DEF Serve, WhileServing, CommandInv, commandVars
  <2> QED
    BY <2>1 DEF CommandInv, StartPhases
<1>4. CASE Exit
  <2>1. /\ UNCHANGED vars /\ pc = "returned" /\ phase' = "exited"
        /\ exitCode' = IF exit # {} THEN 1 ELSE 0
    BY <1>4 DEF Exit, Call
  <2>2. ServicesInv' /\ pc' = "returned" /\ exit' = exit
    BY <2>1, ServicesStep DEF CommandInv, vars, localVars
  <2> QED
    BY <2>1, <2>2 DEF CommandInv, StartPhases
<1>5. CASE SignalCommand
  <2>1. phase # "exited" /\ UNCHANGED <<phase, pc>> /\ ServicesInv'
    BY <1>5, ServicesStep DEF SignalCommand, Signal, commandVars, CommandInv
  <2> QED
    BY <2>1 DEF CommandInv
<1> QED
  BY <1>1, <1>2, <1>3, <1>4, <1>5 DEF CommandNext, Exited

\* The results received are those of the services that ended, and the joined
\* error says whether the command ended as requested.
THEOREM ServicesAccounted == CommandSpec => []CommandInv
<1>1. CommandInit => CommandInv
  BY ServicesInit DEF CommandInit, CommandInv, StartPhases, Init
<1> QED
  BY <1>1, CommandStep, PTL DEF CommandSpec

\* The command returns only when no service is running any more.
THEOREM AllAwaited == CommandSpec => []NothingLeftBehind
<1>1. CommandInv => NothingLeftBehind
  BY DEF CommandInv, ServicesInv, Pending, GatewayRuns, HttpRuns, NothingLeftBehind
<1> QED
  BY <1>1, ServicesAccounted, PTL

\* The exit status is 0 exactly if the command ran, was told to stop, and
\* nothing failed.
THEOREM TruthfulExit == CommandSpec => []ExitStatusIsTruthful
<1>1. CommandInv => ExitStatusIsTruthful
  BY DEF CommandInv, ServicesInv, Verdict, ExitStatusIsTruthful
<1> QED
  BY <1>1, ServicesAccounted, PTL
-----------------------------------------------------------------------------
(* What the services are started with. *)

\* A list is accepted only if each target is good and none is given twice.
LEMMA GoodTargets ==
    ASSUME NEW targets \in Seq(TargetConfig), validateTargets(targets) = {}
    PROVE  /\ \A i \in DOMAIN targets : validateTarget(targets[i]) = {}
           /\ IsInjective([i \in DOMAIN targets |-> TargetKey(targets[i])])
<1>1. \A i \in DOMAIN targets :
        validateTarget(targets[i]) = {} /\ TargetKey(targets[i]) \notin seen(targets, i)
  BY DEF validateTargets, Fault
<1>2. DOMAIN targets = 1..Len(targets) /\ Len(targets) \in Nat
  OBVIOUS
<1>3. ASSUME NEW i \in DOMAIN targets, NEW j \in DOMAIN targets, j < i
      PROVE  TargetKey(targets[i]) # TargetKey(targets[j])
  <2>1. j \in 1..(i - 1) /\ validateTarget(targets[j]) = {}
    BY <1>1, <1>2, <1>3
  <2>2. TargetKey(targets[j]) \in seen(targets, i)
    BY <2>1 DEF seen
  <2> QED
    BY <1>1, <2>2
<1>4. ASSUME NEW i \in DOMAIN targets, NEW j \in DOMAIN targets,
             TargetKey(targets[i]) = TargetKey(targets[j])
      PROVE  i = j
  BY <1>2, <1>3, <1>4
<1> QED
  BY <1>1, <1>4 DEF IsInjective

\* Trimming takes white space away and leaves the rest.
LEMMA TrimmedStays ==
    ASSUME NEW t \in Text
    PROVE  /\ TrimSpace(t).padded = FALSE
           /\ ~t.padded => TrimSpace(t) = t
BY DEF TrimSpace, Text

\* A good target names a scene and a destination.
LEMMA GoodTarget ==
    ASSUME NEW t \in TargetConfig, validateTarget(t) = {}
    PROVE  t.type \in {"channel", "group", "user"} /\ t.id # Empty /\ ~t.id.padded
<1>1. t.type \in {"channel", "group", "user"} /\ validateText("id", t.id) = {} /\ t.id \in Text
  BY DEF validateTarget, Fault, TargetConfig
<1>2. TrimSpace(t.id) # Empty /\ t.id = TrimSpace(t.id)
  BY <1>1 DEF validateText, Fault
<1>3. TrimSpace(t.id).padded = FALSE
  BY <1>1 DEF TrimSpace, Text
<1> QED
  BY <1>1, <1>2, <1>3

\* A duration that validation lets through is not cut to zero.
LEMMA GoodDuration ==
    ASSUME NEW d \in Duration, ~positiveDuration(d).err
    PROVE  positiveDuration(d).value > 0
BY DEF positiveDuration, Duration

\* What validation of the server's part leaves.
LEMMA AcceptedPort ==
    ASSUME NEW c, validateServer(c) = {}, c.port \in Int
    PROVE  1 <= c.port /\ c.port <= 65535
<1>1. "server.port" \notin validateServer(c)
  OBVIOUS
<1>2. 1 <= c.port
  BY <1>1 DEF validateServer, Fault
<1>3. c.port <= 65535
  BY <1>1 DEF validateServer, Fault
<1> QED
  BY <1>2, <1>3

LEMMA AcceptedServer ==
    ASSUME NEW c, validateServer(c) = {}, c.max_body_bytes \in Int,
           c.shutdown_timeout \in Duration, c.auth_token \in Text
    PROVE  /\ c.max_body_bytes > 0
           /\ ShutdownTimeout(c).value > 0
           /\ validHTTPPath(c.alert_path)
           /\ c.auth_token = Empty => c.address.word \in LoopbackHosts
<1>1. c.max_body_bytes > 0
  <2>1. "server.max_body_bytes" \notin validateServer(c)
    OBVIOUS
  <2> QED
    BY <2>1 DEF validateServer, Fault
<1>2. ShutdownTimeout(c).value > 0
  <2>1. "server.shutdown_timeout" \notin validateServer(c)
    OBVIOUS
  <2>2. ~ShutdownTimeout(c).err
    BY <2>1 DEF validateServer, Fault
  <2> QED
    BY <2>2, GoodDuration DEF ShutdownTimeout
<1>3. validHTTPPath(c.alert_path)
  <2>1. "server.alert_path" \notin validateServer(c)
    OBVIOUS
  <2> QED
    BY <2>1 DEF validateServer, Fault
<1>4. c.auth_token = Empty => c.address.word \in LoopbackHosts
  <2> HAVE c.auth_token = Empty
  <2>1. Empty.padded = FALSE
    BY DEF Empty, Plain
  <2>2. TrimSpace(c.auth_token) = Empty
    BY <2>1, TrimmedStays
  <2>3. "server.auth_token" \notin validateServer(c)
    OBVIOUS
  <2>4. isLoopbackAddress(c.address)
    BY <2>2, <2>3 DEF validateServer, Fault
  <2> QED
    BY <2>4 DEF isLoopbackAddress
<1> QED
  BY <1>1, <1>2, <1>3, <1>4

\* What that of the delivery's part leaves.
LEMMA AcceptedDelivery ==
    ASSUME NEW c, validateDelivery(c) = {}, c.max_pending_alerts \in Int, c.max_length \in Int,
           c.request_timeout \in Duration, c.delivery_timeout \in Duration,
           c.gateway_ready_timeout \in Duration
    PROVE  /\ c.max_pending_alerts \in 0..maxPendingAlerts
           /\ c.max_length >= 64
           /\ RequestTimeout(c).value > 0
           /\ DeliveryTimeout(c).value > 0
           /\ GatewayReadyTimeout(c).value > 0
<1>1. c.max_pending_alerts \in 0..maxPendingAlerts
  <2>1. "qq.max_pending_alerts" \notin validateDelivery(c) /\ maxPendingAlerts \in Int
    BY DEF maxPendingAlerts
  <2>2. c.max_pending_alerts >= 0
    BY <2>1 DEF validateDelivery, Fault
  <2>3. ~(c.max_pending_alerts > maxPendingAlerts)
    BY <2>1 DEF validateDelivery, Fault
  <2> QED
    BY <2>1, <2>2, <2>3
<1>2. c.max_length >= 64
  <2>1. "message.max_length" \notin validateDelivery(c)
    OBVIOUS
  <2> QED
    BY <2>1 DEF validateDelivery, Fault
<1>3. RequestTimeout(c).value > 0
  <2>1. "qq.request_timeout" \notin validateDelivery(c)
    OBVIOUS
  <2>2. ~RequestTimeout(c).err
    BY <2>1 DEF validateDelivery, Fault
  <2> QED
    BY <2>2, GoodDuration DEF RequestTimeout
<1>4. DeliveryTimeout(c).value > 0
  <2>1. "qq.delivery_timeout" \notin validateDelivery(c)
    OBVIOUS
  <2>2. ~DeliveryTimeout(c).err
    BY <2>1 DEF validateDelivery, Fault
  <2> QED
    BY <2>2, GoodDuration DEF DeliveryTimeout
<1>5. GatewayReadyTimeout(c).value > 0
  <2>1. "qq.gateway_ready_timeout" \notin validateDelivery(c)
    OBVIOUS
  <2>2. ~GatewayReadyTimeout(c).err
    BY <2>1 DEF validateDelivery, Fault
  <2> QED
    BY <2>2, GoodDuration DEF GatewayReadyTimeout
<1> QED
  BY <1>1, <1>2, <1>3, <1>4, <1>5

\* A target of an accepted list is good.
LEMMA AcceptedTargets ==
    ASSUME NEW targets \in Seq(TargetConfig), validateTargets(targets) = {},
           NEW t \in ToSet(targets)
    PROVE  t.type \in {"channel", "group", "user"} /\ t.id # Empty /\ ~t.id.padded
<1>1. PICK i \in DOMAIN targets : t = targets[i]
  BY DEF ToSet
<1>2. i \in 1..Len(targets)
  BY LenProperties
<1>3. t \in TargetConfig
  BY <1>1, <1>2, ElementOfSeq
<1> QED
  BY <1>1, <1>3, GoodTargets, GoodTarget

\* The options are what the configuration says.
LEMMA OptionsOf ==
    /\ options.targets = cfg.targets /\ options.maxPending = cfg.max_pending_alerts
    /\ options.maxLength = cfg.max_length /\ options.maxBodyBytes = cfg.max_body_bytes
    /\ options.port = cfg.port /\ options.alertPath = cfg.alert_path
    /\ options.token = cfg.auth_token /\ options.host = cfg.address.word
    /\ options.requestTimeout = RequestTimeout(cfg).value
    /\ options.deliveryTimeout = DeliveryTimeout(cfg).value
    /\ options.readyTimeout = GatewayReadyTimeout(cfg).value
    /\ options.shutdownTimeout = ShutdownTimeout(cfg).value
BY DEF options

\* An accepted configuration makes usable options.
LEMMA AcceptedIsUsable ==
    ASSUME cfg \in Config, ValidateServe(cfg) = {}
    PROVE  StartedIsUsable
<1>1. /\ cfg.port \in Int /\ cfg.max_body_bytes \in Int /\ cfg.max_pending_alerts \in Int
      /\ cfg.max_length \in Int /\ cfg.auth_token \in Text
      /\ cfg.shutdown_timeout \in Duration /\ cfg.request_timeout \in Duration
      /\ cfg.delivery_timeout \in Duration /\ cfg.gateway_ready_timeout \in Duration
      /\ cfg.targets \in Seq(TargetConfig)
  BY DEF Config
<1>2. /\ validateServer(cfg) = {} /\ validateDelivery(cfg) = {}
      /\ validateTargets(cfg.targets) = {}
  BY DEF ValidateServe
<1>3. cfg.targets # <<>>
  BY DEF ValidateServe, Fault
<1>4. /\ 1 <= options.port /\ options.port <= 65535
      /\ options.maxBodyBytes > 0 /\ options.shutdownTimeout > 0
      /\ validHTTPPath(options.alertPath)
      /\ options.token = Empty => options.host \in LoopbackHosts
  BY <1>1, <1>2, OptionsOf, AcceptedPort, AcceptedServer
<1>5. /\ options.maxPending \in 0..maxPendingAlerts
      /\ options.maxLength >= 64
      /\ options.requestTimeout > 0 /\ options.deliveryTimeout > 0 /\ options.readyTimeout > 0
  BY <1>1, <1>2, OptionsOf, AcceptedDelivery
<1>6. options.targets # <<>>
  BY <1>3, OptionsOf
<1>7. IsInjective([i \in DOMAIN options.targets |-> TargetKey(options.targets[i])])
  BY <1>1, <1>2, OptionsOf, GoodTargets
<1>8. \A t \in ToSet(options.targets) :
         t.type \in {"channel", "group", "user"} /\ t.id # Empty /\ ~t.id.padded
  BY <1>1, <1>2, OptionsOf, AcceptedTargets
<1>9. ServesRequests(options.alertPath)
  BY <1>4 DEF validHTTPPath, ServesRequests
<1>10. \A d \in {options.requestTimeout, options.deliveryTimeout,
                 options.readyTimeout, options.shutdownTimeout} : d > 0
  BY <1>4, <1>5
<1> QED
  BY <1>4, <1>5, <1>6, <1>7, <1>8, <1>9, <1>10, PTL DEF StartedIsUsable

LEMMA FileStep ==
    ASSUME FileInv, [CommandNext]_allVars
    PROVE  FileInv'
<1> USE DEF StartPhases, FileInv
<1>1. file' = file
  BY DEF CommandNext, StartUp, LoadConfig, Validate, NewLogger, Connect, Authenticate, Serve,
         WhileServing, Exit, Call, SignalCommand, Exited, allVars, commandVars
<1>2. cfg' = cfg
  BY <1>1 DEF cfg
<1>3. \/ phase' = phase \/ phase' = "exited"
      \/ phase = "loading" /\ ~LoadFails(file) /\ phase' = "validating"
      \/ phase = "validating" /\ ValidateServe(cfg) = {} /\ phase' = "logging"
      \/ phase = "logging" /\ phase' = "connecting"
      \/ phase = "connecting" /\ phase' = "authenticating"
      \/ phase = "authenticating" /\ phase' = "serving"
  BY DEF CommandNext, StartUp, LoadConfig, Validate, NewLogger, Connect, Authenticate, Serve,
         WhileServing, Exit, Call, SignalCommand, Exited, allVars, commandVars
<1> QED
  BY <1>1, <1>2, <1>3

\* Services are started only with options they can work with.
THEOREM UsableStart == CommandSpec => []StartedIsUsable
<1>1. CommandInit => FileInv
  BY DEF CommandInit, FileInv, StartPhases
<1>2. FileInv => StartedIsUsable
  <2>1. ASSUME FileInv, phase = "serving" PROVE StartedIsUsable
    <3>1. ValidateServe(cfg) = {} /\ ~LoadFails(file) /\ file \in Files
      BY <2>1 DEF FileInv
    <3>2. cfg \in Config
      BY <3>1, FilesAssumption DEF cfg
    <3> QED
      BY <3>1, <3>2, AcceptedIsUsable
  <2>2. ~(phase = "serving") => StartedIsUsable
    BY PTL DEF StartedIsUsable
  <2> QED
    BY <2>1, <2>2
<1> QED
  BY <1>1, <1>2, FileStep, PTL DEF CommandSpec
=============================================================================
