---------------------------- MODULE SenderProofs ----------------------------
(***************************************************************************)
(* The safety of Sender for every set of alerts, number of targets and     *)
(* queue limit.  IInv is the inductive invariant: the channels hold exactly *)
(* the slots of the calls inside (SlotsMatch), and the errors collected so *)
(* far tell which of the targets tried so far acknowledged (ReportSoFar).  *)
(***************************************************************************)
EXTENDS Sender, FiniteSetTheorems, TLAPS

USE AlertsAssumption, NumTargetsAssumption, MaxPendingAssumption

BeforeLoop == {"idle", "entry", "admission", "waiting", "gated"}
AfterLoop == {"freeGate", "freeAdmission", "returned"}

\* The report of one call, by the place it has reached.
ReportSoFar(a) ==
    /\ pc[a] \in BeforeLoop => tried[a] = 0 /\ acked[a] = {} /\ errs[a] = {}
    /\ pc[a] = "loop" =>
        /\ acked[a] \subseteq 1..tried[a]
        /\ errs[a] = {} <=> acked[a] = 1..tried[a]
    /\ pc[a] = "posting" =>
        /\ tried[a] \in 1..NumTargets
        /\ acked[a] \subseteq 1..(tried[a] - 1)
        /\ errs[a] = {} <=> acked[a] = 1..(tried[a] - 1)
    /\ pc[a] \in AfterLoop =>
        /\ errs[a] = {} <=> acked[a] = Targets
        /\ ctx[a] = "live" /\ "queueFull" \notin errs[a] => tried[a] = NumTargets

\* The part of the type invariant that needs no counting.
RangesOK ==
    /\ pc \in [Alerts -> Locations]
    /\ admission \in Nat
    /\ gate \in Nat
    /\ ctx \in [Alerts -> CtxStates]
    /\ tried \in [Alerts -> 0..NumTargets]
    /\ acked \in [Alerts -> SUBSET Targets]
    /\ errs \in [Alerts -> SUBSET ErrorKinds]
    /\ serviceDone \in BOOLEAN

WithinCaps == admission <= AdmissionCap /\ gate <= GateCap

IInv ==
    /\ RangesOK
    /\ WithinCaps
    /\ SlotsMatch
    /\ \A a \in Alerts : ReportSoFar(a)

-----------------------------------------------------------------------------
(* Counting. *)

\* Every set of calls is finite, so it has a cardinality.
LEMMA CallsAreFinite ==
    ASSUME NEW S \in SUBSET Alerts
    PROVE  IsFiniteSet(S) /\ Cardinality(S) \in Nat
  BY FS_Subset, FS_CardinalityType

\* A step that moves a call between two places of the same kind leaves the
\* channels' bookkeeping alone.
LEMMA SlotsUntouched ==
    ASSUME RangesOK, WithinCaps, SlotsMatch, NEW a \in Alerts, NEW l \in Locations,
           Goto(a, l), UNCHANGED <<admission, gate>>,
           pc[a] \in GateHeldAt <=> l \in GateHeldAt,
           pc[a] \in AdmittedAt <=> l \in AdmittedAt
    PROVE  WithinCaps' /\ SlotsMatch'
  <1>1. Admitted' = Admitted /\ GateHolders' = GateHolders
    BY DEF RangesOK, Goto, Admitted, GateHolders
  <1>2. QED
    BY <1>1 DEF SlotsMatch, WithinCaps, AdmissionCap, GateCap

\* The same for a step that moves no call.
LEMMA SlotsStill ==
    ASSUME WithinCaps, SlotsMatch, UNCHANGED <<pc, admission, gate>>
    PROVE  WithinCaps' /\ SlotsMatch'
  BY DEF WithinCaps, SlotsMatch, AdmissionCap, GateCap, Admitted, GateHolders

\* A call inside has left a value in the admission channel, a call that holds
\* the gate one in the gate channel.
LEMMA HoldersCounted ==
    ASSUME SlotsMatch, NEW a \in Alerts
    PROVE  /\ pc[a] \in AdmittedAt => admission # 0
           /\ pc[a] \in GateHeldAt => gate # 0
  <1>1. pc[a] \in AdmittedAt => Admitted # {}
    BY DEF Admitted
  <1>2. pc[a] \in GateHeldAt => GateHolders # {}
    BY DEF GateHolders
  <1>3. IsFiniteSet(Admitted) /\ IsFiniteSet(GateHolders)
    BY CallsAreFinite DEF Admitted, GateHolders
  <1>4. QED
    BY <1>1, <1>2, <1>3, FS_EmptySet DEF SlotsMatch
-----------------------------------------------------------------------------
(* The invariant is inductive: one lemma per group of steps. *)

\* What a call has reported changes only by its own steps.
LEMMA ReportsElsewhere ==
    ASSUME RangesOK, \A b \in Alerts : ReportSoFar(b), NEW a \in Alerts,
           \A b \in Alerts \ {a} :
              /\ pc'[b] = pc[b] /\ tried'[b] = tried[b] /\ acked'[b] = acked[b]
              /\ errs'[b] = errs[b]
              /\ ctx'[b] = "live" => ctx[b] = "live",
           ReportSoFar(a)'
    PROVE  \A b \in Alerts : ReportSoFar(b)'
  <1>1. ASSUME NEW b \in Alerts \ {a} PROVE ReportSoFar(b)'
    BY <1>1, ReportSoFar(b) DEF ReportSoFar
  <1>2. QED
    BY <1>1

\* There is a first target, and the last one is a target.
LEMMA SomeTarget == 1 \in Targets /\ NumTargets \in Targets
  BY DEF Targets

\* The steps that neither take nor give back a slot.
LEMMA InnerSteps ==
    ASSUME IInv, NEW a \in Alerts,
           \/ Call(a) \/ Enter(a) \/ AdmitDone(a) \/ Refuse(a) \/ GateDone(a)
           \/ CheckGated(a) \/ FinishLoop(a) \/ BreakLoop(a) \/ StartPost(a)
           \/ PostReturns(a)
    PROVE  IInv'
  <1> USE DEF IInv
  <1>1. CASE Call(a)
    <2> USE <1>1 DEF Call
    <2>1. RangesOK'
      BY DEF RangesOK, Goto, Report, Locations, CtxStates, CtxErrors, ErrorKinds, Done, Targets
    <2>2. WithinCaps' /\ SlotsMatch'
      BY SlotsUntouched DEF Locations, GateHeldAt, AdmittedAt
    <2>3. ReportSoFar(a)'
      BY ReportSoFar(a)
      DEF RangesOK, ReportSoFar, Goto, Report, Done, Targets, BeforeLoop, AfterLoop, CtxErrors
    <2>4. \A b \in Alerts : ReportSoFar(b)'
      BY <2>3, ReportsElsewhere DEF RangesOK, Goto, Report
    <2>5. QED
      BY <2>1, <2>2, <2>4
  <1>2. CASE Enter(a)
    <2> USE <1>2 DEF Enter
    <2>1. RangesOK'
      BY DEF RangesOK, Goto, Report, Locations, CtxStates, CtxErrors, ErrorKinds, Done, Targets
    <2>2. WithinCaps' /\ SlotsMatch'
      BY SlotsUntouched DEF Locations, GateHeldAt, AdmittedAt
    <2>3. ReportSoFar(a)'
      <3>1. acked[a] # Targets
        BY SomeTarget, ReportSoFar(a) DEF ReportSoFar, BeforeLoop
      <3>2. CASE pc'[a] \in BeforeLoop \cup {"loop"}
        BY <3>2, ReportSoFar(a)
        DEF RangesOK, ReportSoFar, Goto, Report, Done, Targets, BeforeLoop, AfterLoop, CtxErrors
      <3>3. CASE errs' = [errs EXCEPT ![a] = @ \cup {ctx[a]}] /\ pc'[a] \in AfterLoop
        <4>1. errs'[a] # {} /\ pc'[a] \notin BeforeLoop \cup {"loop", "posting"}
          BY <3>3 DEF RangesOK, BeforeLoop, AfterLoop
        <4>2. ctx'[a] = "live" => "queueFull" \in errs'[a]
          BY <3>3 DEF RangesOK, Done, CtxErrors, Goto, AfterLoop
        <4>3. QED
          BY <3>1, <4>1, <4>2 DEF ReportSoFar, Targets
      <3>4. QED
        BY <3>2, <3>3 DEF RangesOK, Goto, Report, BeforeLoop, AfterLoop
    <2>4. \A b \in Alerts : ReportSoFar(b)'
      BY <2>3, ReportsElsewhere DEF RangesOK, Goto, Report
    <2>5. QED
      BY <2>1, <2>2, <2>4
  <1>3. CASE AdmitDone(a)
    <2> USE <1>3 DEF AdmitDone
    <2>1. RangesOK'
      BY DEF RangesOK, Goto, Report, Locations, CtxStates, CtxErrors, ErrorKinds, Done, Targets
    <2>2. WithinCaps' /\ SlotsMatch'
      BY SlotsUntouched DEF Locations, GateHeldAt, AdmittedAt
    <2>3. ReportSoFar(a)'
      <3>1. acked[a] # Targets
        BY SomeTarget, ReportSoFar(a) DEF ReportSoFar, BeforeLoop
      <3>2. CASE pc'[a] \in BeforeLoop \cup {"loop"}
        BY <3>2, ReportSoFar(a)
        DEF RangesOK, ReportSoFar, Goto, Report, Done, Targets, BeforeLoop, AfterLoop, CtxErrors
      <3>3. CASE errs' = [errs EXCEPT ![a] = @ \cup {ctx[a]}] /\ pc'[a] \in AfterLoop
        <4>1. errs'[a] # {} /\ pc'[a] \notin BeforeLoop \cup {"loop", "posting"}
          BY <3>3 DEF RangesOK, BeforeLoop, AfterLoop
        <4>2. ctx'[a] = "live" => "queueFull" \in errs'[a]
          BY <3>3 DEF RangesOK, Done, CtxErrors, Goto, AfterLoop
        <4>3. QED
          BY <3>1, <4>1, <4>2 DEF ReportSoFar, Targets
      <3>4. QED
        BY <3>2, <3>3 DEF RangesOK, Goto, Report, BeforeLoop, AfterLoop
    <2>4. \A b \in Alerts : ReportSoFar(b)'
      BY <2>3, ReportsElsewhere DEF RangesOK, Goto, Report
    <2>5. QED
      BY <2>1, <2>2, <2>4
  <1>4. CASE Refuse(a)
    <2> USE <1>4 DEF Refuse
    <2>1. RangesOK'
      BY DEF RangesOK, Goto, Report, Locations, CtxStates, CtxErrors, ErrorKinds, Done, Targets
    <2>2. WithinCaps' /\ SlotsMatch'
      BY SlotsUntouched DEF Locations, GateHeldAt, AdmittedAt
    <2>3. ReportSoFar(a)'
      <3>1. acked[a] # Targets
        BY SomeTarget, ReportSoFar(a) DEF ReportSoFar, BeforeLoop
      <3>2. CASE pc'[a] \in BeforeLoop \cup {"loop"}
        BY <3>2, ReportSoFar(a)
        DEF RangesOK, ReportSoFar, Goto, Report, Done, Targets, BeforeLoop, AfterLoop, CtxErrors
      <3>3. CASE errs' = [errs EXCEPT ![a] = @ \cup {"queueFull"}] /\ pc'[a] \in AfterLoop
        <4>1. errs'[a] # {} /\ pc'[a] \notin BeforeLoop \cup {"loop", "posting"}
          BY <3>3 DEF RangesOK, BeforeLoop, AfterLoop
        <4>2. ctx'[a] = "live" => "queueFull" \in errs'[a]
          BY <3>3 DEF RangesOK, Done, CtxErrors, Goto, AfterLoop
        <4>3. QED
          BY <3>1, <4>1, <4>2 DEF ReportSoFar, Targets
      <3>4. QED
        BY <3>2, <3>3 DEF RangesOK, Goto, Report, BeforeLoop, AfterLoop
    <2>4. \A b \in Alerts : ReportSoFar(b)'
      BY <2>3, ReportsElsewhere DEF RangesOK, Goto, Report
    <2>5. QED
      BY <2>1, <2>2, <2>4
  <1>5. CASE GateDone(a)
    <2> USE <1>5 DEF GateDone
    <2>1. RangesOK'
      BY DEF RangesOK, Goto, Report, Locations, CtxStates, CtxErrors, ErrorKinds, Done, Targets
    <2>2. WithinCaps' /\ SlotsMatch'
      BY SlotsUntouched DEF Locations, GateHeldAt, AdmittedAt
    <2>3. ReportSoFar(a)'
      <3>1. acked[a] # Targets
        BY SomeTarget, ReportSoFar(a) DEF ReportSoFar, BeforeLoop
      <3>2. CASE pc'[a] \in BeforeLoop \cup {"loop"}
        BY <3>2, ReportSoFar(a)
        DEF RangesOK, ReportSoFar, Goto, Report, Done, Targets, BeforeLoop, AfterLoop, CtxErrors
      <3>3. CASE errs' = [errs EXCEPT ![a] = @ \cup {ctx[a]}] /\ pc'[a] \in AfterLoop
        <4>1. errs'[a] # {} /\ pc'[a] \notin BeforeLoop \cup {"loop", "posting"}
          BY <3>3 DEF RangesOK, BeforeLoop, AfterLoop
        <4>2. ctx'[a] = "live" => "queueFull" \in errs'[a]
          BY <3>3 DEF RangesOK, Done, CtxErrors, Goto, AfterLoop
        <4>3. QED
          BY <3>1, <4>1, <4>2 DEF ReportSoFar, Targets
      <3>4. QED
        BY <3>2, <3>3 DEF RangesOK, Goto, Report, BeforeLoop, AfterLoop
    <2>4. \A b \in Alerts : ReportSoFar(b)'
      BY <2>3, ReportsElsewhere DEF RangesOK, Goto, Report
    <2>5. QED
      BY <2>1, <2>2, <2>4
  <1>6. CASE CheckGated(a)
    <2> USE <1>6 DEF CheckGated
    <2>1. RangesOK'
      BY DEF RangesOK, Goto, Report, Locations, CtxStates, CtxErrors, ErrorKinds, Done, Targets
    <2>2. WithinCaps' /\ SlotsMatch'
      BY SlotsUntouched DEF Locations, GateHeldAt, AdmittedAt
    <2>3. ReportSoFar(a)'
      <3>1. acked[a] # Targets
        BY SomeTarget, ReportSoFar(a) DEF ReportSoFar, BeforeLoop
      <3>2. CASE pc'[a] \in BeforeLoop \cup {"loop"}
        BY <3>2, ReportSoFar(a)
        DEF RangesOK, ReportSoFar, Goto, Report, Done, Targets, BeforeLoop, AfterLoop, CtxErrors
      <3>3. CASE errs' = [errs EXCEPT ![a] = @ \cup {ctx[a]}] /\ pc'[a] \in AfterLoop
        <4>1. errs'[a] # {} /\ pc'[a] \notin BeforeLoop \cup {"loop", "posting"}
          BY <3>3 DEF RangesOK, BeforeLoop, AfterLoop
        <4>2. ctx'[a] = "live" => "queueFull" \in errs'[a]
          BY <3>3 DEF RangesOK, Done, CtxErrors, Goto, AfterLoop
        <4>3. QED
          BY <3>1, <4>1, <4>2 DEF ReportSoFar, Targets
      <3>4. QED
        BY <3>2, <3>3 DEF RangesOK, Goto, Report, BeforeLoop, AfterLoop
    <2>4. \A b \in Alerts : ReportSoFar(b)'
      BY <2>3, ReportsElsewhere DEF RangesOK, Goto, Report
    <2>5. QED
      BY <2>1, <2>2, <2>4
  <1>7. CASE FinishLoop(a)
    <2> USE <1>7 DEF FinishLoop
    <2>1. RangesOK'
      BY DEF RangesOK, Goto, Report, Locations, CtxStates, CtxErrors, ErrorKinds, Done, Targets
    <2>2. WithinCaps' /\ SlotsMatch'
      BY SlotsUntouched DEF Locations, GateHeldAt, AdmittedAt
    <2>3. ReportSoFar(a)'
      BY ReportSoFar(a)
      DEF RangesOK, ReportSoFar, Goto, Report, Done, Targets, BeforeLoop, AfterLoop, CtxErrors
    <2>4. \A b \in Alerts : ReportSoFar(b)'
      BY <2>3, ReportsElsewhere DEF RangesOK, Goto, Report
    <2>5. QED
      BY <2>1, <2>2, <2>4
  <1>8. CASE BreakLoop(a)
    <2> USE <1>8 DEF BreakLoop
    <2>1. RangesOK'
      BY DEF RangesOK, Goto, Report, Locations, CtxStates, CtxErrors, ErrorKinds, Done, Targets
    <2>2. WithinCaps' /\ SlotsMatch'
      BY SlotsUntouched DEF Locations, GateHeldAt, AdmittedAt
    <2>3. ReportSoFar(a)'
      <3>1. acked[a] # Targets
        BY SomeTarget, ReportSoFar(a) DEF ReportSoFar, RangesOK
      <3>2. errs'[a] # {} /\ pc'[a] = "freeGate" /\ acked'[a] = acked[a] /\ ctx'[a] # "live"
        BY DEF RangesOK, Goto, Report, Done, CtxErrors
      <3>3. QED
        BY <3>1, <3>2 DEF ReportSoFar, BeforeLoop, AfterLoop, Targets
    <2>4. \A b \in Alerts : ReportSoFar(b)'
      BY <2>3, ReportsElsewhere DEF RangesOK, Goto, Report
    <2>5. QED
      BY <2>1, <2>2, <2>4
  <1>9. CASE StartPost(a)
    <2> USE <1>9 DEF StartPost
    <2>1. RangesOK'
      BY DEF RangesOK, Goto, Report, Locations, CtxStates, CtxErrors, ErrorKinds, Done, Targets
    <2>2. WithinCaps' /\ SlotsMatch'
      BY SlotsUntouched DEF Locations, GateHeldAt, AdmittedAt
    <2>3. ReportSoFar(a)'
      BY ReportSoFar(a)
      DEF RangesOK, ReportSoFar, Goto, Report, Done, Targets, BeforeLoop, AfterLoop, CtxErrors
    <2>4. \A b \in Alerts : ReportSoFar(b)'
      BY <2>3, ReportsElsewhere DEF RangesOK, Goto, Report
    <2>5. QED
      BY <2>1, <2>2, <2>4
  <1>10. CASE PostOK(a)
    <2> USE <1>10 DEF PostOK
    <2>1. RangesOK'
      BY ReportSoFar(a) DEF RangesOK, ReportSoFar, Goto, Report, Locations, CtxStates, CtxErrors, ErrorKinds, Done, Targets
    <2>2. WithinCaps' /\ SlotsMatch'
      BY SlotsUntouched DEF Locations, GateHeldAt, AdmittedAt
    <2>3. ReportSoFar(a)'
      <3>1. acked'[a] = acked[a] \cup {tried[a]} /\ acked[a] \subseteq 1..(tried[a] - 1)
        BY ReportSoFar(a) DEF RangesOK, ReportSoFar
      <3>2. tried[a] \in 1..NumTargets /\ 1..tried[a] = 1..(tried[a] - 1) \cup {tried[a]}
        BY ReportSoFar(a) DEF ReportSoFar
      <3>3. acked'[a] \subseteq 1..tried[a]
        BY <3>1, <3>2
      <3>4. tried[a] \notin 1..(tried[a] - 1)
        BY <3>2
      <3>5. acked'[a] = 1..tried[a] <=> acked[a] = 1..(tried[a] - 1)
        BY <3>1, <3>2, <3>4
      <3>6. pc'[a] = "loop" /\ errs'[a] = errs[a] /\ tried'[a] = tried[a]
        BY DEF RangesOK, Goto
      <3>7. QED
        BY <3>3, <3>5, <3>6, ReportSoFar(a) DEF ReportSoFar, BeforeLoop, AfterLoop
    <2>4. \A b \in Alerts : ReportSoFar(b)'
      BY <2>3, ReportsElsewhere DEF RangesOK, Goto, Report
    <2>5. QED
      BY <2>1, <2>2, <2>4
  <1>11. ASSUME NEW kind \in ErrorKinds \ {"queueFull"}, PostFail(a, kind) PROVE IInv'
    <2> USE <1>11 DEF PostFail
    <2>1. RangesOK'
      BY DEF RangesOK, Goto, Report, Locations, CtxStates, CtxErrors, ErrorKinds, Done, Targets
    <2>2. WithinCaps' /\ SlotsMatch'
      BY SlotsUntouched DEF Locations, GateHeldAt, AdmittedAt
    <2>3. ReportSoFar(a)'
      <3>1. acked'[a] \subseteq 1..(tried[a] - 1) /\ tried[a] \in 1..NumTargets
        BY ReportSoFar(a) DEF RangesOK, ReportSoFar
      <3>2. /\ acked'[a] \subseteq 1..tried[a]
            /\ tried[a] \notin acked'[a] /\ tried[a] \in 1..tried[a]
        BY <3>1
      <3>3. acked'[a] # 1..tried[a] /\ acked'[a] # Targets
        BY <3>1, <3>2 DEF Targets
      <3>4. errs'[a] # {} /\ tried'[a] = tried[a]
        BY DEF RangesOK, Report
      <3>5. pc'[a] = "loop" \/ (pc'[a] = "freeGate" /\ ctx'[a] # "live")
        BY DEF RangesOK, Goto, Done, CtxErrors
      <3>6. QED
        BY <3>2, <3>3, <3>4, <3>5 DEF ReportSoFar, BeforeLoop, AfterLoop, Targets
    <2>4. \A b \in Alerts : ReportSoFar(b)'
      BY <2>3, ReportsElsewhere DEF RangesOK, Goto, Report
    <2>5. QED
      BY <2>1, <2>2, <2>4
  <1>12. QED
    BY <1>1, <1>2, <1>3, <1>4, <1>5, <1>6, <1>7, <1>8, <1>9, <1>10, <1>11 DEF PostReturns

\* The steps that take or give back a slot: the set of holders changes by the
\* call, and its cardinality by one.
LEMMA SlotSteps ==
    ASSUME IInv, NEW a \in Alerts,
           Admit(a) \/ TakeGate(a) \/ ReleaseGate(a) \/ ReleaseAdmission(a)
    PROVE  IInv'
  <1> USE DEF IInv
  <1> DEFINE Counted(S) == IsFiniteSet(S) /\ Cardinality(S) \in Nat
  <1>0. Counted(Admitted) /\ Counted(GateHolders)
    BY CallsAreFinite DEF Admitted, GateHolders
  <1>1. CASE Admit(a)
    <2> USE <1>1 DEF Admit
    <2>1. RangesOK'
      BY HoldersCounted DEF RangesOK, Goto, Locations, AdmittedAt, GateHeldAt
    <2>2. Admitted' = Admitted \cup {a} /\ GateHolders' = GateHolders
      BY DEF RangesOK, Goto, Admitted, GateHolders, AdmittedAt, GateHeldAt
    <2>3. Cardinality(Admitted \cup {a}) = Cardinality(Admitted) + 1
      BY <1>0, FS_AddElement, FS_RemoveElement
      DEF Admitted, GateHolders, AdmittedAt, GateHeldAt
    <2>4. SlotsMatch'
      BY <1>0, <2>2, <2>3 DEF SlotsMatch
    <2>5. WithinCaps'
      BY DEF WithinCaps, RangesOK, AdmissionCap, GateCap
    <2>6. ReportSoFar(a)'
      BY ReportSoFar(a)
      DEF RangesOK, ReportSoFar, Goto, BeforeLoop, AfterLoop
    <2>7. \A b \in Alerts : ReportSoFar(b)'
      BY <2>6, ReportsElsewhere DEF RangesOK, Goto
    <2>8. QED
      BY <2>1, <2>4, <2>5, <2>7
  <1>2. CASE TakeGate(a)
    <2> USE <1>2 DEF TakeGate
    <2>1. RangesOK'
      BY HoldersCounted DEF RangesOK, Goto, Locations, AdmittedAt, GateHeldAt
    <2>2. Admitted' = Admitted /\ GateHolders' = GateHolders \cup {a}
      BY DEF RangesOK, Goto, Admitted, GateHolders, AdmittedAt, GateHeldAt
    <2>3. Cardinality(GateHolders \cup {a}) = Cardinality(GateHolders) + 1
      BY <1>0, FS_AddElement, FS_RemoveElement
      DEF Admitted, GateHolders, AdmittedAt, GateHeldAt
    <2>4. SlotsMatch'
      BY <1>0, <2>2, <2>3 DEF SlotsMatch
    <2>5. WithinCaps'
      BY DEF WithinCaps, RangesOK, AdmissionCap, GateCap
    <2>6. ReportSoFar(a)'
      BY ReportSoFar(a)
      DEF RangesOK, ReportSoFar, Goto, BeforeLoop, AfterLoop
    <2>7. \A b \in Alerts : ReportSoFar(b)'
      BY <2>6, ReportsElsewhere DEF RangesOK, Goto
    <2>8. QED
      BY <2>1, <2>4, <2>5, <2>7
  <1>3. CASE ReleaseGate(a)
    <2> USE <1>3 DEF ReleaseGate
    <2>1. RangesOK'
      BY HoldersCounted DEF RangesOK, Goto, Locations, AdmittedAt, GateHeldAt
    <2>2. Admitted' = Admitted /\ GateHolders' = GateHolders \ {a}
      BY DEF RangesOK, Goto, Admitted, GateHolders, AdmittedAt, GateHeldAt
    <2>3. Cardinality(GateHolders \ {a}) = Cardinality(GateHolders) - 1
      BY <1>0, FS_AddElement, FS_RemoveElement
      DEF Admitted, GateHolders, AdmittedAt, GateHeldAt
    <2>4. SlotsMatch'
      BY <1>0, <2>2, <2>3 DEF SlotsMatch
    <2>5. WithinCaps'
      BY DEF WithinCaps, RangesOK, AdmissionCap, GateCap
    <2>6. ReportSoFar(a)'
      BY ReportSoFar(a)
      DEF RangesOK, ReportSoFar, Goto, BeforeLoop, AfterLoop
    <2>7. \A b \in Alerts : ReportSoFar(b)'
      BY <2>6, ReportsElsewhere DEF RangesOK, Goto
    <2>8. QED
      BY <2>1, <2>4, <2>5, <2>7
  <1>4. CASE ReleaseAdmission(a)
    <2> USE <1>4 DEF ReleaseAdmission
    <2>1. RangesOK'
      BY HoldersCounted DEF RangesOK, Goto, Locations, AdmittedAt, GateHeldAt
    <2>2. Admitted' = Admitted \ {a} /\ GateHolders' = GateHolders
      BY DEF RangesOK, Goto, Admitted, GateHolders, AdmittedAt, GateHeldAt
    <2>3. Cardinality(Admitted \ {a}) = Cardinality(Admitted) - 1
      BY <1>0, FS_AddElement, FS_RemoveElement
      DEF Admitted, GateHolders, AdmittedAt, GateHeldAt
    <2>4. SlotsMatch'
      BY <1>0, <2>2, <2>3 DEF SlotsMatch
    <2>5. WithinCaps'
      BY DEF WithinCaps, RangesOK, AdmissionCap, GateCap
    <2>6. ReportSoFar(a)'
      BY ReportSoFar(a)
      DEF RangesOK, ReportSoFar, Goto, BeforeLoop, AfterLoop
    <2>7. \A b \in Alerts : ReportSoFar(b)'
      BY <2>6, ReportsElsewhere DEF RangesOK, Goto
    <2>8. QED
      BY <2>1, <2>4, <2>5, <2>7
  <1>5. QED
    BY <1>1, <1>2, <1>3, <1>4

\* The timer and the shutdown only end contexts.
LEMMA ContextSteps ==
    ASSUME IInv,
           (\E a \in Alerts : Expire(a)) \/ CancelDeliveries \/ UNCHANGED vars
    PROVE  IInv'
  <1> USE DEF IInv
  <1>1. UNCHANGED <<pc, admission, gate, tried, acked, errs>>
    BY DEF Expire, CancelDeliveries, vars
  <1>2. RangesOK'
    BY <1>1 DEF Expire, CancelDeliveries, vars, RangesOK, CtxStates, CtxErrors
  <1>3. WithinCaps' /\ SlotsMatch'
    BY <1>1, SlotsStill
  <1>4. ASSUME NEW a \in Alerts PROVE ReportSoFar(a)'
    <2>1. ctx'[a] = "live" => ctx[a] = "live"
      BY DEF Expire, CancelDeliveries, vars, RangesOK
    <2>2. QED
      BY <1>1, <2>1, ReportSoFar(a) DEF ReportSoFar
  <1>5. QED
    BY <1>2, <1>3, <1>4

LEMMA InitInvariant == Init => IInv
  <1> SUFFICES ASSUME Init PROVE IInv
    OBVIOUS
  <1> USE DEF Init
  <1>1. RangesOK /\ WithinCaps
    <2>1. 0 \in 0..NumTargets
      OBVIOUS
    <2>2. RangesOK
      BY <2>1 DEF RangesOK, Locations, CtxStates
    <2>3. WithinCaps
      BY DEF WithinCaps, AdmissionCap, GateCap
    <2>4. QED
      BY <2>2, <2>3
  <1>2. Admitted = {} /\ GateHolders = {}
    BY DEF Admitted, GateHolders, AdmittedAt, GateHeldAt
  <1>3. SlotsMatch
    BY <1>2, FS_EmptySet DEF SlotsMatch
  <1>4. \A a \in Alerts : ReportSoFar(a)
    BY DEF ReportSoFar, BeforeLoop, AfterLoop
  <1>5. QED
    BY <1>1, <1>3, <1>4 DEF IInv

\* The bookkeeping of Send is an invariant: no leak of a slot, no lost error.
THEOREM Bookkeeping == Spec => []IInv
  <1>1. IInv /\ [Next]_vars => IInv'
    BY InnerSteps, SlotSteps, ContextSteps DEF Next, Step, Finished
  <1>2. QED
    BY InitInvariant, <1>1, PTL DEF Spec
-----------------------------------------------------------------------------
(* Two facts on the side, each inductive given the bookkeeping. *)

\* A call turned away by the full queue is over and has posted nothing.
RefusedUntried ==
    \A a \in Alerts : "queueFull" \in errs[a] => pc[a] = "returned" /\ tried[a] = 0

\* A call has a context from its first statement on, and none that is live
\* once the service has ended, unless it was over before.
ContextsFollow ==
    \A a \in Alerts :
        /\ pc[a] = "idle" <=> ctx[a] = "none"
        /\ serviceDone /\ pc[a] # "returned" => ctx[a] # "live"

LEMMA RefusedUntriedStep ==
    ASSUME IInv, RefusedUntried, [Next]_vars
    PROVE  RefusedUntried'
  <1> USE DEF IInv, RangesOK, RefusedUntried
  <1>1. CASE (\E a \in Alerts : Expire(a)) \/ CancelDeliveries \/ UNCHANGED vars
    BY <1>1 DEF Expire, CancelDeliveries, vars
  <1>2. ASSUME NEW a \in Alerts, Refuse(a)
        PROVE  RefusedUntried'
    <2>1. tried[a] = 0
      BY <1>2, ReportSoFar(a) DEF Refuse, ReportSoFar, BeforeLoop
    <2>2. QED
      BY <1>2, <2>1 DEF Refuse, Goto, Report
  <1>3. ASSUME NEW a \in Alerts, Call(a) \/ Step(a) \/ PostReturns(a), ~Refuse(a)
        PROVE  RefusedUntried'
    <2>1. ASSUME NEW b \in Alerts \ {a}
          PROVE  pc'[b] = pc[b] /\ errs'[b] = errs[b] /\ tried'[b] = tried[b]
      BY <1>3 DEF Call, Step, Enter, Admit, AdmitDone, TakeGate, GateDone, CheckGated,
                  FinishLoop, BreakLoop, StartPost, ReleaseGate, ReleaseAdmission, PostReturns,
                  PostOK, PostFail, Goto, Report
    <2>2. pc[a] # "returned"
      BY <1>3 DEF Call, Step, Enter, Admit, AdmitDone, TakeGate, GateDone, CheckGated,
                  FinishLoop, BreakLoop, StartPost, ReleaseGate, ReleaseAdmission, PostReturns,
                  PostOK, PostFail
    <2>3. "queueFull" \notin errs'[a]
      BY <1>3, <2>2
      DEF Call, Step, Enter, Admit, AdmitDone, TakeGate, GateDone, CheckGated,
          FinishLoop, BreakLoop, StartPost, ReleaseGate, ReleaseAdmission, PostReturns,
          PostOK, PostFail, Report, Done, CtxErrors
    <2>4. QED
      BY <2>1, <2>3
  <1>4. QED
    BY <1>1, <1>2, <1>3 DEF Next, Finished

LEMMA ContextsFollowStep ==
    ASSUME IInv, ContextsFollow, [Next]_vars
    PROVE  ContextsFollow'
  <1> USE DEF IInv, RangesOK, ContextsFollow
  <1>1. CASE (\E a \in Alerts : Expire(a)) \/ CancelDeliveries \/ UNCHANGED vars
    BY <1>1 DEF Expire, CancelDeliveries, vars
  <1>2. ASSUME NEW a \in Alerts, Call(a)
        PROVE  ContextsFollow'
    BY <1>2 DEF Call, Goto
  <1>3. ASSUME NEW a \in Alerts, Step(a) \/ PostReturns(a)
        PROVE  ContextsFollow'
    <2>1. PICK l \in Locations \ {"idle"} : Goto(a, l)
      BY <1>3 DEF Step, Enter, Admit, AdmitDone, Refuse, TakeGate, GateDone, CheckGated,
                  FinishLoop, BreakLoop, StartPost, ReleaseGate, ReleaseAdmission, PostReturns,
                  PostOK, PostFail, Locations
    <2>2. pc[a] \notin {"idle", "returned"} /\ UNCHANGED <<ctx, serviceDone>>
      BY <1>3 DEF Step, Enter, Admit, AdmitDone, Refuse, TakeGate, GateDone, CheckGated,
                  FinishLoop, BreakLoop, StartPost, ReleaseGate, ReleaseAdmission, PostReturns,
                  PostOK, PostFail
    <2>3. QED
      BY <2>1, <2>2 DEF Goto
  <1>4. QED
    BY <1>1, <1>2, <1>3 DEF Next, Finished

LEMMA SideFacts == Spec => [](RefusedUntried /\ ContextsFollow)
  <1>1. Init => RefusedUntried /\ ContextsFollow
    BY DEF Init, RefusedUntried, ContextsFollow
  <1>2. IInv /\ RefusedUntried /\ ContextsFollow /\ [Next]_vars => (RefusedUntried /\ ContextsFollow)'
    BY RefusedUntriedStep, ContextsFollowStep
  <1>3. QED
    BY <1>1, <1>2, Bookkeeping, PTL DEF Spec
-----------------------------------------------------------------------------
(* What follows from the invariant. *)

\* The channels never exceed their capacities.
THEOREM TypeCorrect == Spec => []TypeOK
  <1>1. IInv => TypeOK
    BY DEF IInv, RangesOK, WithinCaps, TypeOK, AdmissionCap, GateCap
  <1>2. QED
    BY Bookkeeping, <1>1, PTL

\* No exit path of Send leaks a slot or releases one it does not hold.
THEOREM SlotsAreReturned == Spec => []SlotsMatch
  <1>1. IInv => SlotsMatch
    BY DEF IInv
  <1>2. QED
    BY Bookkeeping, <1>1, PTL

\* Alerts are delivered one at a time.
THEOREM MutualExclusion == Spec => []OneActiveDelivery
  <1>1. ASSUME IInv, NEW a \in Alerts, NEW b \in Alerts,
               pc[a] \in GateHeldAt, pc[b] \in GateHeldAt, a # b
        PROVE  FALSE
    <2>1. {a, b} \subseteq GateHolders /\ IsFiniteSet(GateHolders)
      BY <1>1, CallsAreFinite DEF GateHolders
    <2>2. IsFiniteSet({a}) /\ Cardinality({a}) = 1
      BY FS_Singleton
    <2>3. Cardinality({a, b}) = 2
      <3>1. {a, b} = {a} \cup {b} /\ b \notin {a}
        BY <1>1
      <3>2. QED
        BY <2>2, <3>1, FS_AddElement
    <2>4. 2 <= Cardinality(GateHolders)
      BY <2>1, <2>3, FS_Subset
    <2>5. Cardinality(GateHolders) <= 1
      BY <1>1 DEF IInv, SlotsMatch, WithinCaps, GateCap
    <2>6. QED
      BY <2>1, <2>4, <2>5, FS_CardinalityType
  <1>2. IInv => OneActiveDelivery
    BY <1>1 DEF OneActiveDelivery
  <1>3. QED
    BY Bookkeeping, <1>2, PTL

\* At most max_pending_alerts alerts wait for the active one.
THEOREM QueueIsBounded == Spec => []PendingBound
  <1>1. ASSUME IInv, NEW a \in GateHolders
        PROVE  Cardinality(Waiting) <= MaxPendingAlerts
    <2>1. Waiting \cup {a} \subseteq Admitted /\ a \notin Waiting
      BY <1>1 DEF Waiting, Admitted, GateHolders, AdmittedAt, GateHeldAt
    <2>2. IsFiniteSet(Waiting) /\ IsFiniteSet(Admitted) /\ Cardinality(Waiting) \in Nat
      BY CallsAreFinite DEF Waiting, Admitted
    <2>3. Cardinality(Waiting) + 1 <= Cardinality(Admitted)
      <3>1. Cardinality(Waiting \cup {a}) = Cardinality(Waiting) + 1
        BY <2>1, <2>2, FS_AddElement
      <3>2. Cardinality(Waiting \cup {a}) <= Cardinality(Admitted)
        BY <2>1, <2>2, FS_Subset
      <3>3. QED
        BY <3>1, <3>2
    <2>4. Cardinality(Admitted) <= MaxPendingAlerts + 1
      BY <1>1 DEF IInv, SlotsMatch, WithinCaps, AdmissionCap
    <2>5. QED
      BY <2>2, <2>3, <2>4, FS_CardinalityType
  <1>2. IInv => PendingBound
    BY <1>1 DEF PendingBound
  <1>3. QED
    BY Bookkeeping, <1>2, PTL

\* Send returns nil exactly if every target acknowledged the message.
THEOREM ExactReport == Spec => []ReportIsExact
  <1>1. IInv => ReportIsExact
    BY DEF IInv, ReportSoFar, ReportIsExact, AfterLoop
  <1>2. QED
    BY Bookkeeping, <1>1, PTL

\* A failing target does not keep the others from being tried.
THEOREM NoTargetSkipped == Spec => []EveryTargetTried
  <1>1. IInv => EveryTargetTried
    BY DEF IInv, ReportSoFar, EveryTargetTried, AfterLoop
  <1>2. QED
    BY Bookkeeping, <1>1, PTL
=============================================================================
