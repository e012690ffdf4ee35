----------------------- MODULE SenderRefinementProofs -----------------------
(***************************************************************************)
(* Send implements the delivery queue, for every set of alerts, number of  *)
(* targets and queue limit: every step of Sender is a step of              *)
(* DeliveryQueue or leaves its variables alone.                            *)
(***************************************************************************)
EXTENDS SenderRefinement, SenderProofs

\* Where an alert is in the queue, by the place its call has reached.
LEMMA Phases ==
    ASSUME NEW a \in Alerts
    PROVE  /\ pc[a] \in {"idle", "entry", "admission"} => PhaseOf(a) = "out"
           /\ pc[a] = "waiting" => PhaseOf(a) = "inside"
           /\ pc[a] \in GateHeldAt => PhaseOf(a) = "served"
           /\ pc[a] = "freeAdmission" => PhaseOf(a) = "leaving"
           /\ pc[a] = "returned" => PhaseOf(a) = "gone"
BY DEF PhaseOf, GateHeldAt

LEMMA PhasesInverse ==
    ASSUME RangesOK, NEW a \in Alerts
    PROVE  /\ PhaseOf(a) = "served" <=> a \in GateHolders
           /\ PhaseOf(a) \in {"inside", "served", "leaving"} <=> a \in Admitted
<1>1. pc[a] \in {"idle", "entry", "admission", "waiting", "freeAdmission", "returned"} \cup GateHeldAt
  BY DEF RangesOK, Locations, GateHeldAt
<1> QED
  BY <1>1, Phases DEF GateHolders, Admitted, AdmittedAt, GateHeldAt

\* The room is what the admission channel counts.
LEMMA RoomIsAdmitted ==
    ASSUME IInv
    PROVE  Queue!Cardinality(Queue!Room) = admission
<1>1. Queue!Room = Admitted
  BY PhasesInverse DEF IInv, Queue!Room, Admitted
<1>2. Queue!Cardinality(Admitted) = Cardinality(Admitted)
  BY DEF Queue!Cardinality, Cardinality
<1> QED
  BY <1>1, <1>2 DEF IInv, SlotsMatch

\* The queue's phase and verdict of every alert.
phaseMap == [a \in Alerts |-> PhaseOf(a)]
verdictMap == [a \in Alerts |-> VerdictOf(a)]

\* A step of one call changes the phase and the verdict of its alert only.
LEMMA OneMoves ==
    ASSUME RangesOK, NEW a \in Alerts, NEW l, Goto(a, l),
           \A b \in Alerts \ {a} : errs'[b] = errs[b]
    PROVE  /\ Queue!Become(a, PhaseOf(a)')
           /\ Queue!Decide(a, VerdictOf(a)')
           /\ PhaseOf(a)' = PhaseOf(a) => UNCHANGED phaseMap
           /\ VerdictOf(a)' = VerdictOf(a) => UNCHANGED verdictMap
<1>1. \A b \in Alerts \ {a} : PhaseOf(b)' = PhaseOf(b) /\ VerdictOf(b)' = VerdictOf(b)
  BY DEF RangesOK, Goto, PhaseOf, VerdictOf
<1> QED
  BY <1>1 DEF Queue!Become, Queue!Decide, phaseMap, verdictMap

\* Nothing is decided before a call leaves; then the errors decide.
LEMMA Verdicts ==
    ASSUME NEW a \in Alerts
    PROVE  /\ pc[a] \notin {"freeAdmission", "returned"} => VerdictOf(a) = "none"
           /\ pc[a] \in {"freeAdmission", "returned"} =>
                /\ errs[a] = {} => VerdictOf(a) = "sent"
                /\ errs[a] = {"queueFull"} => VerdictOf(a) = "refused"
                /\ errs[a] \notin {{}, {"queueFull"}} => VerdictOf(a) = "failed"
BY DEF VerdictOf
-----------------------------------------------------------------------------
\* A step before or inside the room that changes neither phase nor verdict.
Inner(a) ==
    \/ Call(a) \/ CheckGated(a) \/ FinishLoop(a) \/ BreakLoop(a) \/ StartPost(a)
    \/ \E kind \in ErrorKinds \ {"queueFull"} : PostFail(a, kind)

LEMMA InnerStutters ==
    ASSUME IInv, NEW a \in Alerts, Inner(a)
    PROVE  UNCHANGED Queue!vars
<1>1. PICK l \in Locations : Goto(a, l)
  BY DEF Inner, Call, CheckGated, FinishLoop, BreakLoop, StartPost, PostFail, Locations
<1>2. \A b \in Alerts \ {a} : errs'[b] = errs[b]
  BY DEF IInv, RangesOK, Inner, Call, CheckGated, FinishLoop, BreakLoop, StartPost, PostFail, Report
<1>3. acked' = acked
  BY DEF Inner, Call, CheckGated, FinishLoop, BreakLoop, StartPost, PostFail
<1>4. \/ pc[a] = "idle" /\ l = "entry"
      \/ pc[a] \in GateHeldAt /\ l \in GateHeldAt
  BY <1>1 DEF IInv, RangesOK, Inner, Call, CheckGated, FinishLoop, BreakLoop, StartPost, PostFail,
              Goto, GateHeldAt
<1>5. pc'[a] = l
  BY <1>1 DEF IInv, RangesOK, Goto
<1>6. PhaseOf(a)' = PhaseOf(a) /\ VerdictOf(a)' = VerdictOf(a)
  BY <1>4, <1>5 DEF PhaseOf, VerdictOf, GateHeldAt
<1> QED
  BY <1>1, <1>2, <1>3, <1>6, OneMoves DEF IInv, Queue!vars, phaseMap, verdictMap

\* A live context lets a call go on to the door; a done one sends it home.
LEMMA EnterImplements ==
    ASSUME IInv, NEW a \in Alerts, Enter(a)
    PROVE  Queue!GiveUp(a) \/ UNCHANGED Queue!vars
<1> USE DEF Enter, IInv, RangesOK
<1>1. \A b \in Alerts \ {a} : errs'[b] = errs[b]
  BY DEF Report
<1>2. pc[a] = "entry" /\ PhaseOf(a) = "out" /\ VerdictOf(a) = "none" /\ acked' = acked
  BY Phases, Verdicts
<1>3. CASE ~Done(a)
  <2>1. Goto(a, "admission") /\ pc'[a] = "admission"
    BY <1>3 DEF Goto
  <2>2. PhaseOf(a)' = "out" /\ VerdictOf(a)' = "none"
    BY <2>1 DEF PhaseOf, VerdictOf, GateHeldAt
  <2> QED
    BY <1>1, <1>2, <2>1, <2>2, OneMoves DEF Queue!vars, phaseMap, verdictMap
<1>4. CASE Done(a)
  <2>1. Goto(a, "returned") /\ pc'[a] = "returned" /\ ctx[a] \in errs'[a] /\ ctx[a] # "queueFull"
    BY <1>4 DEF Goto, Report, Done, CtxErrors
  <2>2. PhaseOf(a)' = "gone" /\ VerdictOf(a)' = "failed"
    BY <2>1 DEF PhaseOf, VerdictOf, GateHeldAt
  <2>3. Queue!Become(a, "gone") /\ Queue!Decide(a, "failed")
    BY <1>1, <2>1, <2>2, OneMoves
  <2> QED
    BY <1>2, <2>3 DEF Queue!GiveUp
<1> QED
  BY <1>3, <1>4

\* A done context: the call gives up at the door ...
LEMMA AdmitDoneImplements ==
    ASSUME IInv, NEW a \in Alerts, AdmitDone(a)
    PROVE  Queue!GiveUp(a)
<1> USE DEF AdmitDone, IInv, RangesOK
<1>1. \A b \in Alerts \ {a} : errs'[b] = errs[b]
  BY DEF Report
<1>2. PhaseOf(a) = "out" /\ acked' = acked
  BY Phases
<1>3. Goto(a, "returned") /\ pc'[a] = "returned" /\ ctx[a] \in errs'[a] /\ ctx[a] # "queueFull"
  BY DEF Goto, Report, Done, CtxErrors
<1>4. PhaseOf(a)' = "gone" /\ VerdictOf(a)' = "failed"
  BY <1>3 DEF PhaseOf, VerdictOf, GateHeldAt
<1>5. Queue!Become(a, "gone") /\ Queue!Decide(a, "failed")
  BY <1>1, <1>3, <1>4, OneMoves
<1> QED
  BY <1>2, <1>5 DEF Queue!GiveUp

\* ... or in the waiting room.
LEMMA GateDoneImplements ==
    ASSUME IInv, NEW a \in Alerts, GateDone(a)
    PROVE  Queue!GiveUp(a)
<1> USE DEF GateDone, IInv, RangesOK
<1>1. \A b \in Alerts \ {a} : errs'[b] = errs[b]
  BY DEF Report
<1>2. PhaseOf(a) = "inside" /\ acked' = acked
  BY Phases
<1>3. Goto(a, "freeAdmission") /\ pc'[a] = "freeAdmission" /\ ctx[a] \in errs'[a] /\ ctx[a] # "queueFull"
  BY DEF Goto, Report, Done, CtxErrors
<1>4. PhaseOf(a)' = "leaving" /\ VerdictOf(a)' = "failed"
  BY <1>3 DEF PhaseOf, VerdictOf, GateHeldAt
<1>5. Queue!Become(a, "leaving") /\ Queue!Decide(a, "failed")
  BY <1>1, <1>3, <1>4, OneMoves
<1> QED
  BY <1>2, <1>5 DEF Queue!GiveUp

\* A free slot is room for the alert; without one it is turned away.
LEMMA AdmitImplements ==
    ASSUME IInv, NEW a \in Alerts, Admit(a)
    PROVE  Queue!Join(a)
<1> USE DEF Admit, IInv, RangesOK
<1>1. Queue!Cardinality(Queue!Room) < AdmissionCap
  BY RoomIsAdmitted
<1>2. PhaseOf(a) = "out" /\ VerdictOf(a) = "none" /\ acked' = acked /\ errs' = errs
  BY Phases, Verdicts
<1>3. Goto(a, "waiting") /\ pc'[a] = "waiting"
  BY DEF Goto
<1>4. PhaseOf(a)' = "inside" /\ VerdictOf(a)' = "none"
  BY <1>3 DEF PhaseOf, VerdictOf, GateHeldAt
<1>5. Queue!Become(a, "inside") /\ UNCHANGED verdictMap
  BY <1>2, <1>3, <1>4, OneMoves
<1> QED
  BY <1>1, <1>2, <1>5 DEF Queue!Join, verdictMap

LEMMA RefuseImplements ==
    ASSUME IInv, NEW a \in Alerts, Refuse(a)
    PROVE  Queue!TurnAway(a)
<1> USE DEF Refuse, IInv, RangesOK
<1>1. Queue!Cardinality(Queue!Room) = AdmissionCap
  BY RoomIsAdmitted
<1>2. PhaseOf(a) = "out" /\ acked' = acked /\ errs[a] = {}
  BY Phases, ReportSoFar(a) DEF ReportSoFar, BeforeLoop
<1>3. Goto(a, "returned") /\ pc'[a] = "returned" /\ errs'[a] = {"queueFull"}
  BY <1>2 DEF Goto, Report
<1>4. PhaseOf(a)' = "gone" /\ VerdictOf(a)' = "refused"
  BY <1>3 DEF PhaseOf, VerdictOf, GateHeldAt
<1>5. \A b \in Alerts \ {a} : errs'[b] = errs[b]
  BY DEF Report
<1>6. Queue!Become(a, "gone") /\ Queue!Decide(a, "refused")
  BY <1>3, <1>4, <1>5, OneMoves
<1> QED
  BY <1>1, <1>2, <1>6 DEF Queue!TurnAway

\* The gate is free only if nobody is served.
LEMMA TakeGateImplements ==
    ASSUME IInv, NEW a \in Alerts, TakeGate(a)
    PROVE  Queue!Serve(a)
<1> USE DEF TakeGate, IInv, RangesOK
<1>1. \A b \in Alerts : PhaseOf(b) # "served"
  BY HoldersCounted, PhasesInverse DEF GateCap, GateHolders
<1>2. PhaseOf(a) = "inside" /\ VerdictOf(a) = "none" /\ acked' = acked /\ errs' = errs
  BY Phases, Verdicts
<1>3. Goto(a, "gated") /\ pc'[a] = "gated"
  BY DEF Goto
<1>4. PhaseOf(a)' = "served" /\ VerdictOf(a)' = "none"
  BY <1>3 DEF PhaseOf, VerdictOf, GateHeldAt
<1>5. Queue!Become(a, "served") /\ UNCHANGED verdictMap
  BY <1>2, <1>3, <1>4, OneMoves
<1> QED
  BY <1>1, <1>2, <1>5 DEF Queue!Serve, verdictMap

\* An API call without an error delivers to the next target in order.
LEMMA PostOKImplements ==
    ASSUME IInv, NEW a \in Alerts, PostOK(a)
    PROVE  \E t \in Queue!Targets : Queue!Deliver(a, t)
<1> USE DEF PostOK, IInv, RangesOK
<1>1. tried[a] \in Queue!Targets /\ \A u \in acked[a] : u < tried[a]
  BY ReportSoFar(a) DEF ReportSoFar, Queue!Targets
<1>2. PhaseOf(a) = "served" /\ VerdictOf(a) = "none" /\ errs' = errs
  BY Phases, Verdicts DEF GateHeldAt
<1>3. Goto(a, "loop") /\ pc'[a] = "loop"
  BY DEF Goto
<1>4. PhaseOf(a)' = "served" /\ VerdictOf(a)' = "none"
  BY <1>3 DEF PhaseOf, VerdictOf, GateHeldAt
<1>5. UNCHANGED <<phaseMap, verdictMap>>
  BY <1>2, <1>3, <1>4, OneMoves
<1>6. Queue!Deliver(a, tried[a])
  BY <1>1, <1>2, <1>5 DEF Queue!Deliver, phaseMap, verdictMap
<1> QED
  BY <1>1, <1>6

\* When the loop is over the errors tell whether every target has the alert.
LEMMA ReleaseGateImplements ==
    ASSUME IInv, RefusedUntried, NEW a \in Alerts, ReleaseGate(a)
    PROVE  Queue!Complete(a)
<1> USE DEF ReleaseGate, IInv, RangesOK
<1>1. errs' = errs /\ acked' = acked /\ PhaseOf(a) = "served"
  BY Phases DEF GateHeldAt
<1>2. errs[a] = {} <=> acked[a] = Targets
  BY ReportSoFar(a) DEF ReportSoFar, AfterLoop
<1>3. errs[a] # {"queueFull"}
  BY DEF RefusedUntried
<1>4. Goto(a, "freeAdmission") /\ pc'[a] = "freeAdmission"
  BY DEF Goto
<1>5. PhaseOf(a)' = "leaving" /\ VerdictOf(a)' = IF acked[a] = Targets THEN "sent" ELSE "failed"
  BY <1>1, <1>2, <1>3, <1>4 DEF PhaseOf, VerdictOf, GateHeldAt
<1>6. VerdictOf(a)' = Queue!Verdict(a)
  BY <1>5 DEF Queue!Verdict, Queue!Targets, Targets
<1>7. Queue!Become(a, "leaving") /\ Queue!Decide(a, Queue!Verdict(a))
  BY <1>1, <1>4, <1>5, <1>6, OneMoves
<1> QED
  BY <1>1, <1>7 DEF Queue!Complete

LEMMA ReleaseAdmissionImplements ==
    ASSUME IInv, NEW a \in Alerts, ReleaseAdmission(a)
    PROVE  Queue!Leave(a)
<1> USE DEF ReleaseAdmission, IInv, RangesOK
<1>1. errs' = errs /\ acked' = acked /\ PhaseOf(a) = "leaving"
  BY Phases
<1>2. Goto(a, "returned") /\ pc'[a] = "returned"
  BY DEF Goto
<1>3. PhaseOf(a)' = "gone" /\ VerdictOf(a)' = VerdictOf(a)
  BY <1>1, <1>2 DEF PhaseOf, VerdictOf, GateHeldAt
<1>4. Queue!Become(a, "gone") /\ UNCHANGED verdictMap
  BY <1>1, <1>2, <1>3, OneMoves
<1> QED
  BY <1>1, <1>4 DEF Queue!Leave, verdictMap

\* Deadlines and the shutdown move no alert.
LEMMA ContextsStutter ==
    ASSUME (\E a \in Alerts : Expire(a)) \/ CancelDeliveries \/ UNCHANGED vars
    PROVE  UNCHANGED Queue!vars
<1>1. UNCHANGED <<pc, acked, errs>>
  BY DEF Expire, CancelDeliveries, vars
<1> QED
  BY <1>1 DEF Queue!vars, PhaseOf, VerdictOf
-----------------------------------------------------------------------------
LEMMA InitImplements == Init => Queue!Init
<1> SUFFICES ASSUME Init PROVE Queue!Init
  OBVIOUS
<1>1. \A a \in Alerts : PhaseOf(a) = "out" /\ VerdictOf(a) = "none"
  BY Phases, Verdicts DEF Init
<1>2. acked = [a \in Alerts |-> {}]
  BY DEF Init
<1> QED
  BY <1>1, <1>2 DEF Queue!Init

\* Every step of Sender is one the queue may take.
LEMMA StepImplements ==
    ASSUME IInv, RefusedUntried, [Next]_vars
    PROVE  [Queue!Next]_(Queue!vars)
<1>1. CASE (\E a \in Alerts : Expire(a)) \/ CancelDeliveries \/ UNCHANGED vars
  BY <1>1, ContextsStutter
<1>2. ASSUME NEW a \in Alerts, Call(a) \/ Step(a) \/ PostReturns(a)
      PROVE  [Queue!Next]_(Queue!vars)
  <2>1. CASE Inner(a)
    BY <2>1, InnerStutters
  <2>2. CASE Enter(a) \/ AdmitDone(a) \/ GateDone(a)
    BY <2>2, EnterImplements, AdmitDoneImplements, GateDoneImplements DEF Queue!Next
  <2>3. CASE Admit(a) \/ Refuse(a) \/ TakeGate(a)
    BY <2>3, AdmitImplements, RefuseImplements, TakeGateImplements DEF Queue!Next
  <2>4. CASE PostOK(a)
    BY <2>4, PostOKImplements DEF Queue!Next
  <2>5. CASE ReleaseGate(a) \/ ReleaseAdmission(a)
    BY <2>5, ReleaseGateImplements, ReleaseAdmissionImplements DEF Queue!Next
  <2> QED
    BY <1>2, <2>1, <2>2, <2>3, <2>4, <2>5 DEF Step, PostReturns, Inner
<1> QED
  BY <1>1, <1>2 DEF Next, Finished

\* Send implements the delivery queue: it serves one alert at a time, each
\* target in order and at most once, refuses only when the room is full, and
\* its verdict is the truth.
THEOREM SendImplementsQueue == Spec => ImplementsQueue
<1>1. IInv /\ RefusedUntried /\ [Next]_vars => [Queue!Next]_(Queue!vars)
  BY StepImplements
<1> QED
  BY <1>1, InitImplements, Bookkeeping, SideFacts, PTL
  DEF Spec, ImplementsQueue, Queue!Spec
=============================================================================
