------------------------------- MODULE Sender -------------------------------
(***************************************************************************)
(* qqbot.Sender: the bounded admission queue in front of the one active    *)
(* delivery, and the delivery loop over the configured targets.            *)
(*                                                                         *)
(* Each alert is one call of Send in a goroutine of its own.  pc[a] is the *)
(* statement that goroutine executes next; between two steps of a call the *)
(* other calls, the deadline timer and the service shutdown may run.       *)
(*                                                                         *)
(*   entry      ctx.Err() at the top of Send                               *)
(*   admission  select over the admission slot, ctx.Done and default       *)
(*   waiting    select over the gate and ctx.Done                          *)
(*   gated      ctx.Err() once the gate is held                            *)
(*   loop       head of the loop over the targets                          *)
(*   posting    inside the API call for target tried[a]                    *)
(*   freeGate, freeAdmission   the two deferred releases, last one first   *)
(***************************************************************************)
EXTENDS Naturals, FiniteSets

CONSTANTS
    Alerts,           \* the alerts handed to Send, each exactly once
    NumTargets,       \* len(s.targets)
    MaxPendingAlerts  \* qq.max_pending_alerts

ASSUME AlertsAssumption == IsFiniteSet(Alerts)
\* config.ValidateServe refuses an empty target list and a negative limit.
ASSUME NumTargetsAssumption == NumTargets \in Nat \ {0}
ASSUME MaxPendingAssumption == MaxPendingAlerts \in Nat

VARIABLES
    pc,           \* program counter of each call
    admission,    \* number of values in the admission channel
    gate,         \* number of values in the gate channel
    ctx,          \* delivery context of each call
    tried,        \* number of targets whose API call was started
    acked,        \* targets whose API call returned no error
    errs,         \* kinds of the errors the call reports
    serviceDone   \* HandlerOptions.DeliveryContext is canceled

vars == <<pc, admission, gate, ctx, tried, acked, errs, serviceDone>>
-----------------------------------------------------------------------------
Targets == 1..NumTargets

Locations == {"idle", "entry", "admission", "waiting", "gated", "loop",
              "posting", "freeGate", "freeAdmission", "returned"}

\* context.Context.Err() of a call's context; "live" is nil.
CtxErrors == {"deadline", "canceled"}
CtxStates == {"none", "live"} \cup CtxErrors

\* What errors.Is tells apart: ErrQueueFull, the two context errors (the
\* API's own request timeout is a deadline error too), any other API error.
ErrorKinds == {"queueFull", "api"} \cup CtxErrors

\* Bugs: a channel one place too large.
AdmissionCapOffByOne == MaxPendingAlerts + 2
GateCapTwo == 2

AdmissionCap == MaxPendingAlerts + 1
GateCap == 1

Done(a) == ctx[a] \in CtxErrors

GateHeldAt == {"gated", "loop", "posting", "freeGate"}
AdmittedAt == GateHeldAt \cup {"waiting", "freeAdmission"}

GateHolders == {a \in Alerts : pc[a] \in GateHeldAt}
Admitted    == {a \in Alerts : pc[a] \in AdmittedAt}
Waiting     == {a \in Alerts : pc[a] = "waiting"}

Goto(a, l) == pc' = [pc EXCEPT ![a] = l]
Report(a, kinds) == errs' = [errs EXCEPT ![a] = @ \cup kinds]
-----------------------------------------------------------------------------
Init ==
    /\ pc = [a \in Alerts |-> "idle"]
    /\ admission = 0
    /\ gate = 0
    /\ ctx = [a \in Alerts |-> "none"]
    /\ tried = [a \in Alerts |-> 0]
    /\ acked = [a \in Alerts |-> {}]
    /\ errs = [a \in Alerts |-> {}]
    /\ serviceDone = FALSE

\* Bug: the delivery context is not derived from the service's.
CallDetached(a) ==
    /\ pc[a] = "idle"
    /\ Goto(a, "entry")
    /\ ctx' = [ctx EXCEPT ![a] = "live"]
    /\ UNCHANGED <<admission, gate, tried, acked, errs, serviceDone>>

\* The HTTP handler derives the delivery context from the service's and calls
\* Send.
Call(a) ==
    /\ pc[a] = "idle"
    /\ Goto(a, "entry")
    /\ ctx' = [ctx EXCEPT ![a] = IF serviceDone THEN "canceled" ELSE "live"]
    /\ UNCHANGED <<admission, gate, tried, acked, errs, serviceDone>>

\* if err := ctx.Err(); err != nil { return err }
Enter(a) ==
    /\ pc[a] = "entry"
    /\ \/ /\ ~Done(a)
          /\ Goto(a, "admission")
          /\ UNCHANGED errs
       \/ /\ Done(a)
          /\ Goto(a, "returned")
          /\ Report(a, {ctx[a]})
    /\ UNCHANGED <<admission, gate, ctx, tried, acked, serviceDone>>

\* case s.admission <- struct{}{}
Admit(a) ==
    /\ pc[a] = "admission"
    /\ admission < AdmissionCap
    /\ admission' = admission + 1
    /\ Goto(a, "waiting")
    /\ UNCHANGED <<gate, ctx, tried, acked, errs, serviceDone>>

\* case <-ctx.Done() of the admission select, also possible when a slot is free
AdmitDone(a) ==
    /\ pc[a] = "admission"
    /\ Done(a)
    /\ Goto(a, "returned")
    /\ Report(a, {ctx[a]})
    /\ UNCHANGED <<admission, gate, ctx, tried, acked, serviceDone>>

\* Bug: the waiting alerts are compared with the limit before one is active.
RefuseTooEarly(a) ==
    /\ pc[a] = "admission"
    /\ admission >= MaxPendingAlerts
    /\ ~Done(a)
    /\ Goto(a, "returned")
    /\ Report(a, {"queueFull"})
    /\ UNCHANGED <<admission, gate, ctx, tried, acked, serviceDone>>

\* default of the admission select: taken when no other case is ready
Refuse(a) ==
    /\ pc[a] = "admission"
    /\ admission = AdmissionCap
    /\ ~Done(a)
    /\ Goto(a, "returned")
    /\ Report(a, {"queueFull"})
    /\ UNCHANGED <<admission, gate, ctx, tried, acked, serviceDone>>

\* case s.gate <- struct{}{}
TakeGate(a) ==
    /\ pc[a] = "waiting"
    /\ gate < GateCap
    /\ gate' = gate + 1
    /\ Goto(a, "gated")
    /\ UNCHANGED <<admission, ctx, tried, acked, errs, serviceDone>>

\* Bug: the admission slot is given back only at the end of the function, not
\* deferred.
GateDoneLeaks(a) ==
    /\ pc[a] = "waiting"
    /\ Done(a)
    /\ Goto(a, "returned")
    /\ Report(a, {ctx[a]})
    /\ UNCHANGED <<admission, gate, ctx, tried, acked, serviceDone>>

\* Bug: the release of the gate is deferred before the select that takes it.
GateDoneReleasesGate(a) ==
    /\ pc[a] = "waiting"
    /\ Done(a)
    /\ gate' = gate - 1
    /\ Goto(a, "freeAdmission")
    /\ Report(a, {ctx[a]})
    /\ UNCHANGED <<admission, ctx, tried, acked, serviceDone>>

\* case <-ctx.Done() of the gate select
GateDone(a) ==
    /\ pc[a] = "waiting"
    /\ Done(a)
    /\ Goto(a, "freeAdmission")
    /\ Report(a, {ctx[a]})
    /\ UNCHANGED <<admission, gate, ctx, tried, acked, serviceDone>>

\* The select may take the gate although ctx is done: Send looks once more.
CheckGated(a) ==
    /\ pc[a] = "gated"
    /\ \/ /\ ~Done(a)
          /\ Goto(a, "loop")
          /\ UNCHANGED errs
       \/ /\ Done(a)
          /\ Goto(a, "freeGate")
          /\ Report(a, {ctx[a]})
    /\ UNCHANGED <<admission, gate, ctx, tried, acked, serviceDone>>
-----------------------------------------------------------------------------
\* The loop head finds no target left.
FinishLoop(a) ==
    /\ pc[a] = "loop"
    /\ tried[a] = NumTargets
    /\ Goto(a, "freeGate")
    /\ UNCHANGED <<admission, gate, ctx, tried, acked, errs, serviceDone>>

\* Bug: the loop breaks without appending the context's error.
BreakLoopSilently(a) ==
    /\ pc[a] = "loop"
    /\ tried[a] < NumTargets
    /\ Done(a)
    /\ Goto(a, "freeGate")
    /\ UNCHANGED <<admission, gate, ctx, tried, acked, errs, serviceDone>>

\* ctx is done at the head of an iteration: append its error and break.
BreakLoop(a) ==
    /\ pc[a] = "loop"
    /\ tried[a] < NumTargets
    /\ Done(a)
    /\ Goto(a, "freeGate")
    /\ Report(a, {ctx[a]})
    /\ UNCHANGED <<admission, gate, ctx, tried, acked, serviceDone>>

\* Call the API for the next target; ctx may be done before it answers.
StartPost(a) ==
    /\ pc[a] = "loop"
    /\ tried[a] < NumTargets
    /\ ~Done(a)
    /\ Goto(a, "posting")
    /\ tried' = [tried EXCEPT ![a] = @ + 1]
    /\ UNCHANGED <<admission, gate, ctx, acked, errs, serviceDone>>

\* Bug: one error variable for the whole loop, which a success clears.
PostOKForgetsErrors(a) ==
    /\ pc[a] = "posting"
    /\ Goto(a, "loop")
    /\ acked' = [acked EXCEPT ![a] = @ \cup {tried[a]}]
    /\ errs' = [errs EXCEPT ![a] = {}]
    /\ UNCHANGED <<admission, gate, ctx, tried, serviceDone>>

PostOK(a) ==
    /\ pc[a] = "posting"
    /\ Goto(a, "loop")
    /\ acked' = [acked EXCEPT ![a] = @ \cup {tried[a]}]
    /\ UNCHANGED <<admission, gate, ctx, tried, errs, serviceDone>>

\* Bug: the first failing target ends the delivery.
PostFailGivesUp(a, kind) ==
    /\ pc[a] = "posting"
    /\ kind = "canceled" => ctx[a] = "canceled"
    /\ Goto(a, "freeGate")
    /\ Report(a, {kind})
    /\ UNCHANGED <<admission, gate, ctx, tried, acked, serviceDone>>

\* The API returns an error of the given kind.  The loop goes on with the next
\* target, unless ctx is done by now: then its error is appended too.
PostFail(a, kind) ==
    /\ pc[a] = "posting"
    /\ kind = "canceled" => ctx[a] = "canceled"
    /\ \/ /\ ~Done(a)
          /\ Goto(a, "loop")
          /\ Report(a, {kind})
       \/ /\ Done(a)
          /\ Goto(a, "freeGate")
          /\ Report(a, {kind, ctx[a]})
    /\ UNCHANGED <<admission, gate, ctx, tried, acked, serviceDone>>

\* The deferred receives run in reverse order: the gate first.
ReleaseGate(a) ==
    /\ pc[a] = "freeGate"
    /\ gate' = gate - 1
    /\ Goto(a, "freeAdmission")
    /\ UNCHANGED <<admission, ctx, tried, acked, errs, serviceDone>>

ReleaseAdmission(a) ==
    /\ pc[a] = "freeAdmission"
    /\ admission' = admission - 1
    /\ Goto(a, "returned")
    /\ UNCHANGED <<gate, ctx, tried, acked, errs, serviceDone>>
-----------------------------------------------------------------------------
\* Bug: the delivery context has no timeout.
ExpireNever(a) == FALSE /\ ctx[a] = "live" /\ UNCHANGED vars

\* The delivery_timeout of a call elapses.
Expire(a) ==
    /\ ctx[a] = "live"
    /\ pc[a] # "returned"
    /\ ctx' = [ctx EXCEPT ![a] = "deadline"]
    /\ UNCHANGED <<pc, admission, gate, tried, acked, errs, serviceDone>>

\* cancelDeliveries: the service's delivery context ends, and every context
\* derived from it that is still live.  (A call that has returned has detached
\* its own with the handler's deferred cancel.)
CancelDeliveries ==
    /\ ~serviceDone
    /\ serviceDone' = TRUE
    /\ ctx' = [a \in Alerts |-> IF ctx[a] = "live" /\ pc[a] # "returned"
                               THEN "canceled" ELSE ctx[a]]
    /\ UNCHANGED <<pc, admission, gate, tried, acked, errs>>

\* Every call has returned and no context can change any more.
Finished ==
    /\ \A a \in Alerts : pc[a] = "returned"
    /\ serviceDone
    /\ UNCHANGED vars

\* The steps the goroutine of a call takes by itself.
Step(a) ==
    \/ Enter(a) \/ Admit(a) \/ AdmitDone(a) \/ Refuse(a)
    \/ TakeGate(a) \/ GateDone(a) \/ CheckGated(a)
    \/ FinishLoop(a) \/ BreakLoop(a) \/ StartPost(a)
    \/ ReleaseGate(a) \/ ReleaseAdmission(a)

PostReturns(a) == PostOK(a) \/ \E kind \in ErrorKinds \ {"queueFull"} : PostFail(a, kind)

Next ==
    \/ \E a \in Alerts : Call(a) \/ Step(a) \/ PostReturns(a) \/ Expire(a)
    \/ CancelDeliveries
    \/ Finished

Spec == Init /\ [][Next]_vars

\* The Go scheduler runs every goroutine that can run, the timer of a delivery
\* context fires, and the API client gives up a request whose context is done.
\* An API call whose context is live may last for ever.
Fairness ==
    \A a \in Alerts :
        /\ WF_vars(Step(a))
        /\ WF_vars(Expire(a))
        /\ WF_vars(Done(a) /\ PostReturns(a))
-----------------------------------------------------------------------------
(***************************************************************************)
(* Properties.                                                             *)
(***************************************************************************)
\* The channels never exceed their capacities and the bookkeeping of each call
\* stays in range.
TypeOK ==
    /\ pc \in [Alerts -> Locations]
    /\ admission \in 0..AdmissionCap
    /\ gate \in 0..GateCap
    /\ ctx \in [Alerts -> CtxStates]
    /\ tried \in [Alerts -> 0..NumTargets]
    /\ acked \in [Alerts -> SUBSET Targets]
    /\ errs \in [Alerts -> SUBSET ErrorKinds]
    /\ serviceDone \in BOOLEAN

\* Alerts are delivered one at a time: the posts of two alerts never overlap
\* (TestSenderSerializesConcurrentAlerts, for every interleaving).
OneActiveDelivery ==
    \A a, b \in Alerts : pc[a] \in GateHeldAt /\ pc[b] \in GateHeldAt => a = b

\* While a delivery is active, at most max_pending_alerts others wait for it:
\* the admission channel bounds the queue although it also counts the active
\* delivery and the calls that are just leaving.
PendingBound == GateHolders # {} => Cardinality(Waiting) <= MaxPendingAlerts

\* The channels hold one value for every call that still has to give it back:
\* no exit path of Send leaks a slot or releases one it does not hold.
SlotsMatch ==
    /\ admission = Cardinality(Admitted)
    /\ gate = Cardinality(GateHolders)

\* Send returns nil exactly if every target acknowledged the message: a failure
\* of one target is not lost when a later one succeeds, and running out of
\* time before the last target is never reported as success.
ReportIsExact ==
    \A a \in Alerts : pc[a] = "returned" => (errs[a] = {} <=> acked[a] = Targets)

\* One failing target does not keep the others from being tried: a call whose
\* context was live to the end has tried every target, unless it was refused.
EveryTargetTried ==
    \A a \in Alerts :
        pc[a] = "returned" /\ ctx[a] = "live" /\ "queueFull" \notin errs[a]
            => tried[a] = NumTargets

\* config.example.toml on max_pending_alerts: "Waiting alerts only; the one
\* active delivery is not counted."  Hence an alert would be refused only while
\* max_pending_alerts others wait.
RefusedOnlyWhenPendingFull ==
    [][\A a \in Alerts : Refuse(a) => Cardinality(Waiting) >= MaxPendingAlerts]_vars
=============================================================================
