----------------------------- MODULE AuthProofs -----------------------------
(* The auth command with any number of QR codes. *)
EXTENDS AuthCommand, TLAPS

Waiting == {"polling", "asking", "pausing"}
Locations == {"entry", "creating", "showing", "returned"} \cup Waiting
Results == {"none", "canceled", "createFailed", "badReply", "undecryptable", "credentials"}
Statuses == {"none", "pending", "completed", "expired"}

BindingTypeOK ==
    /\ pc \in Locations
    /\ ctxDone \in BOOLEAN
    /\ task \in 0..MaxTasks
    /\ shown \in 0..MaxTasks
    /\ result \in Results
    /\ portal \in [Tasks -> Statuses]
    /\ portalKey \in [Tasks -> Nat]

\* The key in use is that of the current task, and the portal has it.
KeysMatch == key = task /\ \A t \in Tasks : t <= task => portalKey[t] = t

\* Earlier codes have expired; so has the current one when it is to be replaced.
EarlierExpired ==
    \A t \in Tasks :
        t < task \/ (pc = "creating" /\ t = task) => portal[t] = "expired"

\* Polls are for the code on the screen.
OnScreen ==
    /\ pc = "entry" => task = 0
    /\ pc \in {"showing"} \cup Waiting => task > 0
    /\ pc \in Waiting => shown = task

\* Credentials come from the scanned code on the screen.
ResultIsSound ==
    /\ result # "undecryptable"
    /\ pc # "returned" => result = "none"
    /\ result = "credentials" => shown > 0 /\ portal[shown] = "completed"

\* What has been written, at each stage of the command.
WrittenSoFar ==
    /\ phase \in {"binding", "writing", "writingUser", "exited"}
    /\ phase = "binding" => written = {}
    /\ phase # "binding" => pc = "returned"
    /\ phase \in {"writing", "writingUser"} => result = "credentials"
    /\ phase = "writingUser" => "credentials" \in written
    /\ phase = "exited" /\ exitCode = 0 => "credentials" \in written /\ result = "credentials"
    /\ phase = "exited" /\ written = {} => exitCode = 1

BindingInv == BindingTypeOK /\ KeysMatch /\ EarlierExpired /\ OnScreen /\ ResultIsSound

IInv == BindingInv /\ WrittenSoFar
-----------------------------------------------------------------------------
\* What the outcome of a poll tells of the portal.
LEMMA OutcomesTell ==
    /\ "expired" \in Outcomes => portal[task] = "expired"
    /\ "credentials" \in Outcomes => portal[task] = "completed"
    /\ key = portalKey[task] => "undecryptable" \notin Outcomes
<1>1. ASSUME NEW r \in Replies(task)
      PROVE  /\ Outcome(r, portalKey[task]) = "expired" => portal[task] = "expired"
             /\ Outcome(r, portalKey[task]) = "credentials" => portal[task] = "completed"
             /\ key = portalKey[task] => Outcome(r, portalKey[task]) # "undecryptable"
  <2>0. /\ r.status \in {"missing", "none", "pending", "completed", "expired", "unknown"}
        /\ PollError(r) \/ r.status = portal[task] \/ r.status \in {"none", "unknown"}
    BY <1>1 DEF Replies, PollReply
  <2>1. CASE PollError(r)
    <3>1. Outcome(r, portalKey[task]) = "error"
      BY <2>1 DEF Outcome
    <3> QED
      BY <3>1
  <2>2. CASE ~PollError(r) /\ r.status = "expired"
    <3>1. Outcome(r, portalKey[task]) = "expired"
      BY <2>2 DEF Outcome
    <3> QED
      BY <2>0, <2>2, <3>1
  <2>3. CASE ~PollError(r) /\ r.status \in {"none", "pending", "unknown"}
    <3>1. Outcome(r, portalKey[task]) = "again"
      BY <2>3 DEF Outcome
    <3> QED
      BY <3>1
  <2>4. CASE ~PollError(r) /\ r.status = "completed"
    <3>1. Outcome(r, portalKey[task]) =
              IF r.appID = "blank" THEN "badReply" ELSE decryptBindSecret(r.secret, portalKey[task])
      BY <2>4 DEF Outcome
    <3> QED
      BY <2>0, <2>4, <3>1 DEF decryptBindSecret
  <2> QED
    BY <2>0, <2>1, <2>2, <2>3, <2>4 DEF PollError
<1> QED
  BY <1>1 DEF Outcomes

LEMMA BindingStarts == Init => BindingInv
<1> SUFFICES ASSUME Init PROVE BindingInv
  OBVIOUS
<1>1. BindingTypeOK
  <2>1. task \in 0..MaxTasks /\ shown \in 0..MaxTasks
    BY MaxTasksAssumption DEF Init
  <2>2. portal \in [Tasks -> Statuses]
    BY DEF Init, Statuses
  <2>3. portalKey \in [Tasks -> Nat]
    BY DEF Init
  <2>4. pc \in Locations /\ ctxDone \in BOOLEAN /\ result \in Results
    BY DEF Init, Locations, Results
  <2> QED
    BY <2>1, <2>2, <2>3, <2>4 DEF BindingTypeOK
<1>2. KeysMatch /\ EarlierExpired
  BY DEF Init, KeysMatch, EarlierExpired, Tasks
<1>3. OnScreen /\ ResultIsSound
  BY DEF Init, OnScreen, ResultIsSound, Waiting
<1> QED
  BY <1>1, <1>2, <1>3 DEF BindingInv

\* Each step of the binding keeps its invariant, and a new task is created only
\* when those before have expired.
LEMMA BindingStep ==
    ASSUME BindingInv, Step \/ PortalAnswers \/ (\E t \in Tasks : Scan(t) \/ Expire(t)) \/ Cancel
    PROVE  /\ BindingInv'
           /\ task' # task => \A t \in Tasks : t <= task => portal[t] = "expired"
           /\ pc # "returned" \/ (pc' = pc /\ result' = result)
<1> USE MaxTasksAssumption
    DEF BindingInv, BindingTypeOK, KeysMatch, EarlierExpired, OnScreen, ResultIsSound,
        Tasks, Locations, Results, Statuses, Waiting
<1>1. CASE Begin
  BY <1>1 DEF Begin, Goto, Return, portalVars
<1>2. CASE Show
  BY <1>2 DEF Show, Goto, portalVars
<1>3. CASE Ask
  BY <1>3 DEF Ask, Goto, Return, portalVars
<1>4. CASE PauseOver \/ PauseCanceled
  BY <1>4 DEF PauseOver, PauseCanceled, Goto, Return, portalVars
<1>5. CASE Create
  BY <1>5 DEF Create, Goto
<1>6. CASE CreateFails
  BY <1>6 DEF CreateFails, Return, portalVars
<1>7. CASE PollFails \/ PollPending
  BY <1>7 DEF PollFails, PollPending, Goto, Return, portalVars
<1>8. CASE PollExpired
  <2>1. portal[task] = "expired"
    BY <1>8, OutcomesTell DEF PollExpired
  <2> QED
    BY <1>8, <2>1 DEF PollExpired, Goto, portalVars
<1>9. CASE PollCompleted
  <2>1. key = portalKey[task]
    BY <1>9 DEF PollCompleted
  <2>2. PICK o \in Outcomes \cap {"credentials", "badReply", "undecryptable"} : Return(o)
    BY <1>9 DEF PollCompleted
  <2>3. o # "undecryptable" /\ (o = "credentials" => portal[task] = "completed")
    BY <2>1, <2>2, OutcomesTell
  <2> QED
    BY <1>9, <2>2, <2>3 DEF PollCompleted, Return, portalVars
<1>10. CASE \E t \in Tasks : Scan(t) \/ Expire(t)
  BY <1>10 DEF Scan, Expire, localVars
<1>11. CASE Cancel
  BY <1>11 DEF Cancel, localVars, portalVars
<1> QED
  BY <1>1, <1>2, <1>3, <1>4, <1>5, <1>6, <1>7, <1>8, <1>9, <1>10, <1>11 DEF Step, PortalAnswers
-----------------------------------------------------------------------------
\* The inductive invariant of the auth command: the key in use is the current
\* task's, earlier codes have expired, and what is written matches the stage.
THEOREM AuthBookkeeping == AuthSpec => []IInv
<1>1. AuthInit => IInv
  <2>1. AuthInit => BindingInv
    BY BindingStarts DEF AuthInit
  <2> QED
    BY <2>1 DEF AuthInit, IInv, WrittenSoFar
<1>2. IInv /\ [AuthNext]_allVars => IInv'
  <2> SUFFICES ASSUME IInv, [AuthNext]_allVars PROVE IInv'
    OBVIOUS
  <2>1. CASE Binding
    <3>1. BindingInv' /\ (pc # "returned" \/ (pc' = pc /\ result' = result))
      BY <2>1, BindingStep DEF Binding, IInv
    <3>2. WrittenSoFar'
      BY <2>1, <3>1 DEF Binding, authVars, IInv, WrittenSoFar, BindingInv, ResultIsSound
    <3> QED
      BY <3>1, <3>2 DEF IInv
  <2>2. ASSUME UNCHANGED vars PROVE BindingInv'
    BY <2>2 DEF IInv, BindingInv, BindingTypeOK, KeysMatch, EarlierExpired, OnScreen, ResultIsSound,
       vars, localVars, portalVars
  <2>3. CASE Bound
    BY <2>2, <2>3 DEF Bound, ExitWith, IInv, WrittenSoFar, vars, localVars
  <2>4. CASE WriteCredentials
    BY <2>2, <2>4 DEF WriteCredentials, ExitWith, IInv, WrittenSoFar, vars, localVars
  <2>5. CASE WriteUser
    BY <2>2, <2>5 DEF WriteUser, ExitWith, IInv, WrittenSoFar, vars, localVars
  <2>6. CASE UNCHANGED allVars
    BY <2>2, <2>6 DEF allVars, authVars, IInv, WrittenSoFar, vars, localVars
  <2> QED
    BY <2>1, <2>3, <2>4, <2>5, <2>6 DEF AuthNext, AuthStep, Exited
<1> QED
  BY <1>1, <1>2, PTL DEF AuthSpec

\* The code on the screen is the one polled for, and its secret can be decrypted,
\* after any number of replacements.
THEOREM ScansSucceed == AuthSpec => []ScanCanSucceed
<1>1. IInv => ScanCanSucceed
  BY DEF IInv, BindingInv, OnScreen, ResultIsSound, ScanCanSucceed, Waiting
<1> QED
  BY <1>1, AuthBookkeeping, PTL

\* Status 0 means that the credentials of the scanned code are written.
THEOREM ReportsAreTrue == AuthSpec => []SuccessIsWritten
<1>1. IInv => SuccessIsWritten
  BY DEF IInv, BindingInv, ResultIsSound, WrittenSoFar, SuccessIsWritten
<1> QED
  BY <1>1, AuthBookkeeping, PTL

\* A code is replaced only when no code can be scanned any more.
THEOREM NoScanAbandoned == AuthSpec => ScanIsNotAbandoned
<1>1. IInv /\ [AuthNext]_allVars
      => [task' # task => \A t \in Tasks : t <= task => portal[t] = "expired"]_vars
  <2> SUFFICES ASSUME IInv, AuthNext, ~UNCHANGED vars
               PROVE  task' # task => \A t \in Tasks : t <= task => portal[t] = "expired"
    BY DEF allVars
  <2>1. CASE Binding
    BY <2>1, BindingStep DEF Binding, IInv
  <2>2. CASE AuthStep \/ Exited
    BY <2>2 DEF AuthStep, Bound, WriteCredentials, WriteUser, Exited, allVars
  <2> QED
    BY <2>1, <2>2 DEF AuthNext
<1> QED
  BY <1>1, AuthBookkeeping, PTL DEF AuthSpec, ScanIsNotAbandoned
=============================================================================
