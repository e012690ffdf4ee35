---------------------------- MODULE GatewayProofs ----------------------------
(***************************************************************************)
(* The gateway with any number of attempts and events and any recovery     *)
(* timeout: its invariants, what its steps may never do, and that every    *)
(* step is one ReadyService allows.                                        *)
(***************************************************************************)
EXTENDS GatewayRefinement, TLAPS

Attempting == {"connecting", "handshaking", "listening", "broken"}
Between == {"off", "starting", "waiting", "notifying"}

\* Which attempt the connection state knows, and whether it is open.
AttemptInv ==
    /\ currentSession = attempt
    /\ supPC \in Attempting => currentSessionOpen
    /\ supPC \in Between => ~currentSessionOpen
    /\ supPC \in {"off", "starting"} => attempt = 0
    /\ attempt = 0 => ~currentSessionOpen
    /\ fatalError => supPC \in {"notifying", "exited"} /\ ~currentSessionOpen

\* An outage is counted while the connection is down, and there are no more
\* outages than attempts that failed.
OutageInv ==
    /\ DownIsRecovering
    /\ recoveryGeneration <= attempt
    /\ currentSessionOpen => recoveryGeneration < attempt
    /\ ~recovering => outage = 0
    /\ attempt = 0 => ~recovering

\* Attempt n listens to a QQ session if it got past the handshake: its own or
\* an earlier one.  Only sessions that some attempt created have events.
SourceInv ==
    \A n \in Attempts :
        /\ n > attempt => source[n] = NoSession
        /\ n = attempt /\ supPC \in {"connecting", "handshaking"} => source[n] = NoSession
        /\ source[n] <= n
        /\ source[n] # n => handled[n] = 0

\* Between attempts and until the handshake of the next one is sent the resume
\* point is the supervisor's ...
HandedOver ==
    /\ supPC \in Between \cup {"connecting", "handshaking"} => resume = supResume
    /\ supPC \in Attempting => supResume.id < attempt
    /\ currentSessionOpen /\ source[attempt] = NoSession => resume = supResume

\* ... and then it follows what the attempt reads.
Followed ==
    currentSessionOpen /\ source[attempt] # NoSession =>
        IF AwaitsReady(attempt)
        THEN resume.id = NoSession /\ handled[attempt] = 0
        ELSE resume.id = source[attempt] /\ resume.seq = read[attempt]

\* The resume point names the accepted events of a session some attempt created.
ResumeInv ==
    /\ ResumeIsExact
    /\ resume.id <= attempt
    /\ resume.id # NoSession => source[resume.id] = resume.id

\* Refused sessions are of attempts that have failed since.
InvalidInv ==
    /\ InvalidSessionIsForgotten
    /\ \A n \in invalid : n <= attempt
    /\ currentSessionOpen => attempt \notin invalid

\* The timer Run last set, or has just seen fire, is that of an outage no later
\* than the present one, and if it is this outage's, in step with it.
TimerInv ==
    /\ timerGen <= recoveryGeneration
    /\ recovering /\ timerArmed /\ timerGen = recoveryGeneration
          => timerLeft + outage = RecoveryTimeout
    /\ byTimer /\ runPC \in {"checking", "reading"} =>
          /\ ~timerArmed
          /\ recovering /\ timerGen = recoveryGeneration => outage = RecoveryTimeout
    /\ OutageIsWatched

\* Why Run and the supervisor stop.
ResultInv ==
    /\ managerCanceled => ctxDone \/ runPC = "done"
    /\ errCh = "nil" => ManagerDone
    /\ errCh # "empty" => supPC = "exited"
    /\ runPC = "stopping" => ctxDone
    /\ runPC \in {"idle", "starting"} => supPC = "off"
    /\ StopsOnlyOnRequest

SessionInv ==
    /\ AttemptInv /\ OutageInv
    /\ SourceInv /\ HandedOver /\ Followed /\ ResumeInv /\ InvalidInv

IInv == TypeOK /\ SessionInv /\ TimerInv /\ ResultInv
-----------------------------------------------------------------------------
(* Frames: what the parts of the invariant depend on. *)

sessionState ==
    <<sessionVars, resume, recoveryVars, fatalError, supPC, attempt, supResume,
      source, read, handled, invalid>>

LEMMA SessionFrame == SessionInv /\ UNCHANGED sessionState => SessionInv'
BY DEF SessionInv, AttemptInv, OutageInv, SourceInv, HandedOver, Followed, ResumeInv,
       InvalidInv, DownIsRecovering, ResumeIsExact, InvalidSessionIsForgotten,
       AwaitsReady, sessionState, sessionVars, recoveryVars

\* Run, its caller and the clock leave the session alone, except that Run starts
\* the supervisor and that outages grow older.
LEMMA RunKeepsSession ==
    ASSUME RunStep \/ Cancel, ~StartManager
    PROVE  UNCHANGED sessionState
<1> USE DEF sessionState, sessionVars, recoveryVars, connVars, supVars, eventVars, others,
            vars
<1>1. Begin \/ StartupFails \/ SelectDone \/ SelectErr => UNCHANGED sessionState
  BY DEF Begin, StartupFails, SelectDone, SelectErr
<1>2. SelectState \/ SelectTimer \/ CheckContext => UNCHANGED sessionState
  BY DEF SelectState, SelectTimer, CheckContext
<1>3. ReadState \/ ReturnDecision \/ FinishStopping \/ Cancel => UNCHANGED sessionState
  BY DEF ReadState, ReturnDecision, FinishStopping, Cancel
<1> QED
  BY <1>1, <1>2, <1>3 DEF RunStep

\* What follows an event's critical section leaves it alone as well.
LEMMA HandlerKeepsSession ==
    ASSUME NEW n \in Attempts, HandlerStep(n)
    PROVE  UNCHANGED sessionState
BY DEF HandlerStep, NotifyRecovered, CloseReady, notifyStateChanged, sessionState,
       sessionVars, recoveryVars, connVars, supVars
-----------------------------------------------------------------------------
(* The session's part of the invariant, one step per action. *)

\* A step of the supervisor that only moves on or exits, without a session
\* being opened or closed.
Moves(from, to) ==
    /\ supPC \in from /\ supPC' \in to
    /\ UNCHANGED <<connVars, attempt, supResume, eventVars, invalid>>

LEMMA MoveKeepsSessionInv ==
    ASSUME TypeOK, SessionInv,
           \/ Moves({"starting"}, {"waiting", "exited"})
           \/ Moves({"off"}, {"starting"})
           \/ Moves({"waiting"}, {"exited"})
           \/ Moves({"connecting"}, {"handshaking", "broken", "exited"})
           \/ Moves({"handshaking", "listening"}, {"broken", "exited"})
           \/ Moves({"broken"}, {"exited"})
    PROVE  SessionInv'
<1> USE DEF Moves, connVars, sessionVars, recoveryVars, eventVars, Attempting, Between,
            AwaitsReady, NoSession
<1>1. AttemptInv' /\ OutageInv'
  BY DEF SessionInv, AttemptInv, OutageInv, DownIsRecovering
<1>2. SourceInv'
  BY DEF SessionInv, SourceInv, Attempts
<1>3. HandedOver' /\ Followed'
  BY DEF SessionInv, HandedOver, Followed
<1>4. ResumeInv' /\ InvalidInv'
  BY DEF SessionInv, ResumeInv, InvalidInv, ResumeIsExact, InvalidSessionIsForgotten
<1> QED
  BY <1>1, <1>2, <1>3, <1>4 DEF SessionInv

\* A new attempt starts where the supervisor was told to.
LEMMA BeginAttemptKeepsSessionInv ==
    ASSUME TypeOK, SessionInv, BeginAttempt
    PROVE  SessionInv'
<1> USE MaxAttemptsAssumption
    DEF BeginAttempt, WaitIsOver, sessionStarted, sessionVars, recoveryVars, eventVars,
        Attempting, Between, AwaitsReady, NoSession, Attempts,
        TypeOK, SupTypeOK, ConnTypeOK, SessionIDs, ResumePoints
<1>1. AttemptInv' /\ OutageInv'
  BY DEF SessionInv, AttemptInv, OutageInv, DownIsRecovering
<1>2. SourceInv'
  BY DEF SessionInv, SourceInv
<1>3. HandedOver' /\ Followed'
  BY DEF SessionInv, AttemptInv, HandedOver, Followed, SourceInv, ResumeInv
<1>4. resume' \in {resume, supResume} /\ supResume = resume /\ attempt' = attempt + 1
  BY DEF SessionInv, HandedOver
<1>5. ResumeInv'
  BY <1>4 DEF SessionInv, ResumeInv, ResumeIsExact
<1>6. InvalidInv'
  BY <1>4 DEF SessionInv, InvalidInv, InvalidSessionIsForgotten
<1> QED
  BY <1>1, <1>2, <1>3, <1>5, <1>6 DEF SessionInv

\* The handshake binds the attempt to the QQ session it resumes or creates.
LEMMA HandshakeSentKeepsSessionInv ==
    ASSUME TypeOK, SessionInv, HandshakeSent
    PROVE  SessionInv'
<1>1. CASE ManagerDone
  <2>1. Moves({"handshaking", "listening"}, {"broken", "exited"})
    BY <1>1 DEF HandshakeSent, Exit, Moves
  <2> QED
    BY <2>1, MoveKeepsSessionInv
<1>2. CASE ~ManagerDone
  <2> USE <1>2, MaxAttemptsAssumption
      DEF HandshakeSent, Proceed, connVars, sessionVars, recoveryVars, cancelVars,
          Attempting, Between, NoSession, Attempts,
          TypeOK, SupTypeOK, ConnTypeOK, SessionIDs, ResumePoints
  <2> DEFINE s == IF supResume.id # NoSession THEN supResume.id ELSE attempt
  <2>0. /\ currentSessionOpen /\ attempt \in Attempts /\ resume = supResume
        /\ source[attempt] = NoSession /\ supResume.id < attempt
        /\ s \in Attempts /\ s <= attempt
    BY DEF SessionInv, AttemptInv, HandedOver, SourceInv
  <2>1. /\ source'[attempt] = s
        /\ \A n \in Attempts : n # attempt => source'[n] = source[n]
    BY <2>0
  <2>2. /\ read'[attempt] = IF supResume.id # NoSession THEN supResume.seq ELSE 0
        /\ handled' = handled /\ attempt' = attempt /\ supPC' = "listening"
    BY <2>0
  <2>3. AttemptInv' /\ OutageInv'
    BY DEF SessionInv, AttemptInv, OutageInv, DownIsRecovering
  <2>4. SourceInv'
    <3> SUFFICES ASSUME NEW n \in Attempts
                 PROVE  /\ n > attempt => source'[n] = NoSession
                        /\ source'[n] <= n
                        /\ source'[n] # n => handled[n] = 0
      BY <2>2 DEF SourceInv
    <3>1. CASE n = attempt
      BY <3>1, <2>0, <2>1 DEF SessionInv, SourceInv
    <3>2. CASE n # attempt
      BY <3>2, <2>1 DEF SessionInv, SourceInv
    <3> QED
      BY <3>1, <3>2
  <2>5. HandedOver'
    BY <2>0, <2>1, <2>2 DEF SessionInv, HandedOver
  <2>6. Followed'
    BY <2>0, <2>1, <2>2 DEF SessionInv, Followed, SourceInv, ResumeInv, ResumeIsExact, AwaitsReady
  <2>7. ResumeInv' /\ InvalidInv'
    BY <2>0, <2>1, <2>2 DEF SessionInv, ResumeInv, InvalidInv, ResumeIsExact, InvalidSessionIsForgotten
  <2> QED
    BY <2>3, <2>4, <2>5, <2>6, <2>7 DEF SessionInv
<1> QED
  BY <1>1, <1>2

\* A failure is of the current attempt: it closes it, and the supervisor takes
\* the resume point back, or none if the server refused the session.
LEMMA ReportFailureKeepsSessionInv ==
    ASSUME TypeOK, SessionInv,
           NEW cannotResume \in BOOLEAN, NEW cannotIdentify \in BOOLEAN,
           ReportFailure(cannotResume, cannotIdentify)
    PROVE  SessionInv'
<1> USE DEF ReportFailure, sessionFailed, isCurrent, sessionVars, recoveryVars, cancelVars,
            eventVars, Attempting, Between, AwaitsReady, NoSession, NoResume, Attempts,
            TypeOK, SupTypeOK, ConnTypeOK, SessionIDs, ResumePoints
<1>1. isCurrent(attempt) /\ attempt \in Attempts /\ ~recovering => outage = 0
  BY DEF SessionInv, AttemptInv, OutageInv
<1>2. /\ attempt' = attempt /\ supPC' = "notifying" /\ ~currentSessionOpen'
      /\ supResume' = resume' /\ resume' = IF cannotResume THEN NoResume ELSE resume
  BY DEF SessionInv, AttemptInv
<1>3. AttemptInv' /\ OutageInv'
  BY <1>1, <1>2 DEF SessionInv, AttemptInv, OutageInv, DownIsRecovering
<1>4. SourceInv'
  BY <1>2 DEF SessionInv, SourceInv
<1>5. HandedOver' /\ Followed'
  BY <1>2 DEF HandedOver, Followed
<1>6. ResumeInv'
  BY <1>2 DEF SessionInv, ResumeInv, ResumeIsExact
<1>7. InvalidInv'
  <2>1. source[attempt] <= attempt /\ supResume.id <= attempt
    BY DEF SessionInv, AttemptInv, SourceInv, HandedOver
  <2>2. \A n \in invalid' : n <= attempt
    BY <2>1 DEF SessionInv, InvalidInv
  <2>3. resume'.id \notin invalid'
    BY <1>2 DEF SessionInv, InvalidInv, InvalidSessionIsForgotten
  <2> QED
    BY <1>2, <2>2, <2>3 DEF InvalidInv, InvalidSessionIsForgotten
<1> QED
  BY <1>3, <1>4, <1>5, <1>6, <1>7 DEF SessionInv

\* The supervisor goes on waiting or, after a fatal error, exits.
LEMMA NotifyFailureKeepsSessionInv ==
    ASSUME TypeOK, SessionInv, NotifyFailure
    PROVE  SessionInv'
<1> USE DEF NotifyFailure, Exit, Proceed, sessionVars, recoveryVars, cancelVars,
            eventVars, Attempting, Between, AwaitsReady, NoSession
<1>1. AttemptInv' /\ OutageInv'
  BY DEF SessionInv, AttemptInv, OutageInv, DownIsRecovering
<1>2. SourceInv' /\ HandedOver' /\ Followed'
  BY DEF SessionInv, SourceInv, HandedOver, Followed, Attempts
<1>3. ResumeInv' /\ InvalidInv'
  BY DEF SessionInv, ResumeInv, InvalidInv, ResumeIsExact, InvalidSessionIsForgotten
<1> QED
  BY <1>1, <1>2, <1>3 DEF SessionInv

\* An event that is not accepted is only read.
LEMMA IgnoredEventKeepsSessionInv ==
    ASSUME TypeOK, SessionInv, NEW n \in Attempts, NEW seq, ~acceptEvent(n),
           UNCHANGED <<connVars, supVars, source, handled, invalid>>,
           read' = [read EXCEPT ![n] = seq] \/ read' = read
    PROVE  SessionInv'
<1> USE DEF connVars, sessionVars, recoveryVars, supVars
<1>1. AttemptInv' /\ OutageInv' /\ SourceInv' /\ HandedOver'
  BY DEF SessionInv, AttemptInv, OutageInv, SourceInv, HandedOver, DownIsRecovering
<1>2. currentSessionOpen => attempt # n
  BY DEF SessionInv, AttemptInv, acceptEvent, isCurrent
<1>3. currentSessionOpen => attempt \in Attempts
  BY DEF SessionInv, AttemptInv, TypeOK, SupTypeOK, Attempts
<1>4. Followed'
  BY <1>2, <1>3 DEF SessionInv, Followed, AwaitsReady, TypeOK, SupTypeOK
<1>5. ResumeInv' /\ InvalidInv'
  BY DEF SessionInv, ResumeInv, InvalidInv, ResumeIsExact, InvalidSessionIsForgotten
<1> QED
  BY <1>1, <1>4, <1>5 DEF SessionInv

\* An event that is accepted was read from the current attempt, whose session
\* is the one the resume point names; it ends the outage, if there is one.
LEMMA AcceptedEventIsCurrent ==
    ASSUME TypeOK, SessionInv, NEW n \in Attempts, acceptEvent(n)
    PROVE  /\ n = attempt /\ n = currentSession /\ currentSessionOpen
           /\ supPC \in {"connecting", "handshaking", "listening", "broken", "exited"}
BY DEF SessionInv, AttemptInv, acceptEvent, isCurrent, Between, TypeOK, SupTypeOK, SupLocations

\* An event moves the resume point within its session.
LEMMA ResumePointMoves ==
    ASSUME resume \in ResumePoints, NEW n, NEW seq \in Nat, observeEvent(n, seq)
    PROVE  resume'.id = resume.id /\ resume'.seq = IF seq > 0 THEN seq ELSE resume.seq
BY DEF ResumePoints, observeEvent, recordSequence

LEMMA DispatchReadyKeepsSessionInv ==
    ASSUME TypeOK, SessionInv, NEW n \in Attempts, DispatchReady(n)
    PROVE  SessionInv'
<1>1. CASE ~acceptEvent(n)
  BY <1>1, IgnoredEventKeepsSessionInv DEF DispatchReady
<1>2. CASE acceptEvent(n)
  <2> USE MaxSeqAssumption
      DEF sessionVars, recoveryVars, supVars, cancelVars, NoSession, Attempts,
          TypeOK, SupTypeOK, ConnTypeOK
  <2>1. /\ n = attempt /\ currentSession = n /\ currentSessionOpen
        /\ supPC \notin Between \cup {"connecting", "handshaking"}
    BY <1>2, AcceptedEventIsCurrent DEF DispatchReady, CanDispatch, SessionInv, SourceInv, Between
  <2>2. /\ source[n] = n /\ read[n] = 0
        /\ resume.id = NoSession /\ handled[n] = 0
    BY <2>1 DEF DispatchReady, AwaitsReady, SessionInv, Followed
  <2>3. /\ resume' = [id |-> n, seq |-> 1] /\ read'[n] = 1 /\ handled'[n] = 1
        /\ \A m \in Attempts : m # n => handled'[m] = handled[m]
        /\ UNCHANGED <<sessionVars, supVars, fatalError, source, invalid, recoveryGeneration>>
        /\ ~recovering' /\ outage' = 0
    <3>1. /\ resume' = [id |-> n, seq |-> 1]
          /\ UNCHANGED <<sessionVars, supVars, fatalError, source, invalid, recoveryGeneration>>
          /\ ~recovering' /\ outage' = 0
      BY <1>2 DEF DispatchReady, markReady, EndOutage, recordSequence
    <3>2. read' = [read EXCEPT ![n] = 1] /\ handled' = [handled EXCEPT ![n] = @ + 1]
      BY <1>2 DEF DispatchReady
    <3> QED
      BY <2>2, <3>1, <3>2
  <2>4. AttemptInv' /\ OutageInv'
    BY <2>1, <2>3 DEF SessionInv, AttemptInv, OutageInv, DownIsRecovering
  <2>5. SourceInv'
    <3> SUFFICES ASSUME NEW m \in Attempts
                 PROVE  /\ m > attempt => source[m] = NoSession
                        /\ source[m] <= m
                        /\ source[m] # m => handled'[m] = 0
      BY <2>1, <2>3 DEF SourceInv
    <3> QED
      BY <2>2, <2>3 DEF SessionInv, SourceInv
  <2>6. HandedOver' /\ Followed'
    BY <2>1, <2>2, <2>3 DEF SessionInv, HandedOver, Followed, AwaitsReady
  <2>7. ResumeInv'
    BY <2>1, <2>2, <2>3 DEF SessionInv, ResumeInv, ResumeIsExact
  <2>8. InvalidInv'
    BY <2>1, <2>3 DEF SessionInv, InvalidInv, InvalidSessionIsForgotten
  <2> QED
    BY <2>4, <2>5, <2>6, <2>7, <2>8 DEF SessionInv
<1> QED
  BY <1>1, <1>2

LEMMA DispatchEventKeepsSessionInv ==
    ASSUME TypeOK, SessionInv, NEW n \in Attempts, NEW fresh \in BOOLEAN,
           DispatchEvent(n, fresh)
    PROVE  SessionInv'
<1>1. CASE ~acceptEvent(n)
  BY <1>1, IgnoredEventKeepsSessionInv DEF DispatchEvent
<1>2. CASE acceptEvent(n)
  <2> USE MaxSeqAssumption
      DEF sessionVars, recoveryVars, supVars, cancelVars, NoSession, Attempts,
          TypeOK, SupTypeOK, ConnTypeOK, SessionIDs, ResumePoints
  <2> DEFINE s == source[n]
  <2>1. /\ n = attempt /\ currentSession = n /\ currentSessionOpen
        /\ supPC \notin Between \cup {"connecting", "handshaking"}
    BY <1>2, AcceptedEventIsCurrent DEF DispatchEvent, CanDispatch, SessionInv, SourceInv, Between
  <2>2. /\ s \in Attempts /\ source[s] = s /\ ~AwaitsReady(n)
        /\ resume.id = s /\ resume.seq = read[n] /\ resume.seq = handled[s]
    BY <2>1 DEF DispatchEvent, CanDispatch, SessionInv, Followed, ResumeInv, ResumeIsExact
  <2>3. /\ UNCHANGED <<sessionVars, supVars, fatalError, source, invalid, recoveryGeneration>>
        /\ ~recovering' /\ outage' = 0
    BY <1>2 DEF DispatchEvent, observeEvent, EndOutage
  <2>4. /\ resume'.id = s /\ resume'.seq = read'[n] /\ resume'.seq = handled'[s]
        /\ \A m \in Attempts : m # s => handled'[m] = handled[m]
        /\ source[n] = n => read'[n] # 0
    <3> HIDE DEF ResumePoints
    <3>0. resume \in ResumePoints /\ read[n] \in Nat
      BY DEF ResumePoints
    <3>1. CASE fresh
      <4>1. observeEvent(n, read[n] + 1)
        BY <1>2, <3>1 DEF DispatchEvent
      <4>2. resume'.id = s /\ resume'.seq = read[n] + 1
        BY <2>2, <3>0, <4>1, ResumePointMoves
      <4>3. read' = [read EXCEPT ![n] = @ + 1] /\ handled' = [handled EXCEPT ![s] = @ + 1]
        BY <1>2, <3>1 DEF DispatchEvent
      <4>4. /\ read'[n] = read[n] + 1 /\ handled'[s] = handled[s] + 1
            /\ \A m \in Attempts : m # s => handled'[m] = handled[m]
        BY <2>2, <4>3
      <4>5. read[n] = handled[s] /\ read'[n] # 0
        BY <2>2, <3>0, <4>4
      <4> QED
        BY <4>2, <4>4, <4>5
    <3>2. CASE ~fresh
      <4>1. observeEvent(n, 0)
        BY <1>2, <3>2 DEF DispatchEvent
      <4>2. resume'.id = s /\ resume'.seq = resume.seq
        BY <2>2, <3>0, <4>1, ResumePointMoves
      <4>3. read' = read /\ handled' = handled
        BY <1>2, <3>2 DEF DispatchEvent
      <4> QED
        BY <2>2, <4>2, <4>3 DEF AwaitsReady
    <3> QED
      BY <3>1, <3>2
  <2>5. AttemptInv' /\ OutageInv'
    BY <2>1, <2>3 DEF SessionInv, AttemptInv, OutageInv, DownIsRecovering
  <2>6. SourceInv'
    BY <2>1, <2>2, <2>3, <2>4 DEF SessionInv, SourceInv
  <2>7. HandedOver' /\ Followed'
    BY <2>1, <2>2, <2>3, <2>4 DEF SessionInv, HandedOver, Followed, AwaitsReady
  <2>8. ResumeInv'
    BY <2>1, <2>2, <2>3, <2>4 DEF SessionInv, ResumeInv, ResumeIsExact
  <2>9. InvalidInv'
    BY <2>2, <2>3, <2>4 DEF SessionInv, InvalidInv, InvalidSessionIsForgotten, ResumeInv
  <2> QED
    BY <2>5, <2>6, <2>7, <2>8, <2>9 DEF SessionInv
<1> QED
  BY <1>1, <1>2

\* An outage grows older.
LEMMA TickKeepsSessionInv == TypeOK /\ SessionInv /\ Tick => SessionInv'
BY DEF Tick, AgeOutage, sessionVars, recoveryVars, supVars, eventVars, cancelVars,
       SessionInv, AttemptInv, OutageInv, SourceInv, HandedOver, Followed, ResumeInv,
       InvalidInv, DownIsRecovering, ResumeIsExact, InvalidSessionIsForgotten, AwaitsReady

LEMMA SessionStep ==
    ASSUME TypeOK, SessionInv, [Next]_vars
    PROVE  SessionInv'
<1>1. CASE UNCHANGED vars
  BY <1>1, SessionFrame DEF vars, connVars, supVars, eventVars, sessionState, sessionVars
<1>2. CASE RunStep \/ Cancel
  <2>1. CASE StartManager
    <3>1. Moves({"off"}, {"starting"})
      BY <2>1 DEF StartManager, Moves
    <3> QED
      BY <3>1, MoveKeepsSessionInv
  <2> QED
    BY <1>2, <2>1, RunKeepsSession, SessionFrame
<1>3. CASE Preflight
  <2>1. Moves({"starting"}, {"waiting", "exited"})
    BY <1>3 DEF Preflight, Exit, Proceed, Moves
  <2> QED
    BY <2>1, MoveKeepsSessionInv
<1>4. CASE StopWaiting \/ NoClient
  <2>1. Moves({"waiting"}, {"exited"})
    BY <1>4 DEF StopWaiting, NoClient, WaitIsOver, Exit, Moves
  <2> QED
    BY <2>1, MoveKeepsSessionInv
<1>5. CASE Connected
  <2>1. Moves({"connecting"}, {"handshaking", "broken", "exited"})
    BY <1>5 DEF Connected, Exit, Proceed, Moves
  <2> QED
    BY <2>1, MoveKeepsSessionInv
<1>6. CASE AttemptBreaks \/ StopListening
  <2>1. \/ Moves({"connecting"}, {"handshaking", "broken", "exited"})
        \/ Moves({"handshaking", "listening"}, {"broken", "exited"})
    BY <1>6 DEF AttemptBreaks, StopListening, Exit, Proceed, Moves
  <2> QED
    BY <2>1, MoveKeepsSessionInv
<1>7. CASE StopBroken
  <2>1. Moves({"broken"}, {"exited"})
    BY <1>7 DEF StopBroken, Exit, Moves
  <2> QED
    BY <2>1, MoveKeepsSessionInv
<1>8. CASE \E n \in Attempts : HandlerStep(n) \/ Dispatch(n)
  BY <1>8, HandlerKeepsSession, SessionFrame, DispatchReadyKeepsSessionInv,
     DispatchEventKeepsSessionInv DEF Dispatch
<1> QED
  BY <1>1, <1>2, <1>3, <1>4, <1>5, <1>6, <1>7, <1>8, BeginAttemptKeepsSessionInv,
     HandshakeSentKeepsSessionInv, ReportFailureKeepsSessionInv,
     NotifyFailureKeepsSessionInv, TickKeepsSessionInv
  DEF Next, SupNext, SupStep, NetworkStep, Finished
-----------------------------------------------------------------------------
(* Types, part by part. *)

StartTypeOK ==
    /\ supPC \in SupLocations
    /\ attempt \in 0..MaxAttempts
    /\ supResume \in ResumePoints
    /\ errCh \in {"empty", "nil", "err"}
    /\ ctxDone \in BOOLEAN
    /\ managerCanceled \in BOOLEAN
    /\ invalid \subseteq Attempts

EventTypeOK ==
    /\ source \in [Attempts -> SessionIDs]
    /\ read \in [Attempts -> 0..MaxSeq]
    /\ handlerPC \in [Attempts -> HandlerLocations]
    /\ ready \in BOOLEAN
    /\ handled \in [Attempts -> 0..MaxSeq]

RunTypeOK ==
    /\ runPC \in RunLocations
    /\ runResult \in Results
    /\ byTimer \in BOOLEAN
    /\ timerArmed \in BOOLEAN
    /\ timerLeft \in 0..RecoveryTimeout
    /\ timerGen \in 0..MaxAttempts

\* ConnTypeOK, its ranges and its flags.
ConnRanges ==
    /\ currentSession \in 0..MaxAttempts
    /\ resume \in ResumePoints
    /\ recoveryGeneration \in 0..MaxAttempts
    /\ outage \in 0..RecoveryTimeout

ConnFlags ==
    /\ currentSessionOpen \in BOOLEAN
    /\ recovering \in BOOLEAN
    /\ fatalError \in BOOLEAN
    /\ stateChanged \in BOOLEAN

LEMMA ConnTypeParts == ConnTypeOK <=> ConnRanges /\ ConnFlags
BY DEF ConnTypeOK, ConnRanges, ConnFlags, SessionIDs

LEMMA TypeParts == TypeOK <=> ConnTypeOK /\ StartTypeOK /\ EventTypeOK /\ RunTypeOK
BY DEF TypeOK, SupTypeOK, StartTypeOK, EventTypeOK, RunTypeOK

LEMMA ConnTypeStep ==
    ASSUME TypeOK, SessionInv, [Next]_vars
    PROVE  ConnTypeOK'
<1> USE MaxAttemptsAssumption, MaxSeqAssumption, RecoveryTimeoutAssumption
    DEF connVars, sessionVars, recoveryVars, ConnRanges, ConnFlags, Attempts
<1>0. ConnRanges /\ ConnFlags /\ StartTypeOK /\ EventTypeOK
  BY TypeParts, ConnTypeParts
<1> SUFFICES ConnRanges' /\ ConnFlags'
  BY ConnTypeParts, PTL
<1>1. CASE UNCHANGED connVars
  BY <1>0, <1>1
<1>2. CASE BeginAttempt
  <2>1. attempt' \in 0..MaxAttempts /\ currentSession' \in {currentSession, attempt'}
    BY <1>0, <1>2 DEF BeginAttempt, sessionStarted, StartTypeOK
  <2>2. resume' \in {resume, supResume} /\ UNCHANGED recoveryVars
    BY <1>2 DEF BeginAttempt, sessionStarted
  <2>3. ConnRanges'
    BY <1>0, <2>1, <2>2 DEF StartTypeOK
  <2>4. ConnFlags'
    BY <1>0, <1>2 DEF BeginAttempt, sessionStarted
  <2> QED
    BY <2>3, <2>4
<1>3. ASSUME NEW a \in BOOLEAN, NEW b \in BOOLEAN, ReportFailure(a, b)
      PROVE  ConnRanges' /\ ConnFlags'
  <2>1. recovering \/ recoveryGeneration < MaxAttempts
    BY <1>0, <1>3 DEF ReportFailure, SessionInv, AttemptInv, OutageInv, Attempting, StartTypeOK
  <2>2. resume' \in {resume, NoResume} /\ NoResume \in ResumePoints /\ currentSession' = currentSession
    BY <1>3 DEF ReportFailure, sessionFailed, NoResume, NoSession, ResumePoints, SessionIDs
  <2>3. outage' \in {outage, 0} /\ recoveryGeneration' \in 0..MaxAttempts
    BY <1>0, <1>3, <2>1 DEF ReportFailure, sessionFailed
  <2>4. ConnRanges'
    BY <1>0, <2>2, <2>3
  <2>5. ConnFlags'
    BY <1>0, <1>3 DEF ReportFailure, sessionFailed
  <2> QED
    BY <2>4, <2>5
<1>4. CASE NotifyFailure \/ \E n \in Attempts : NotifyRecovered(n)
  BY <1>0, <1>4 DEF NotifyFailure, NotifyRecovered, notifyStateChanged
<1>5. ASSUME NEW n \in Attempts, DispatchReady(n)
      PROVE  ConnRanges' /\ ConnFlags'
  <2>1. CASE UNCHANGED connVars
    BY <1>1, <2>1
  <2>2. CASE markReady(n, n, 1)
    <3>1. resume' \in ResumePoints
      BY <2>2 DEF markReady, recordSequence, ResumePoints, SessionIDs
    <3>2. ConnRanges'
      BY <1>0, <2>2, <3>1 DEF markReady, EndOutage
    <3>3. ConnFlags'
      BY <1>0, <2>2 DEF markReady, EndOutage
    <3> QED
      BY <3>2, <3>3
  <2> QED
    BY <1>5, <2>1, <2>2 DEF DispatchReady
<1>6. ASSUME NEW n \in Attempts, NEW fresh \in BOOLEAN, DispatchEvent(n, fresh)
      PROVE  ConnRanges' /\ ConnFlags'
  <2> DEFINE seq == IF fresh THEN read[n] + 1 ELSE 0
  <2>1. CASE UNCHANGED connVars
    BY <1>1, <2>1
  <2>2. CASE observeEvent(n, seq)
    <3>1. read[n] \in 0..MaxSeq /\ (fresh => read[n] < MaxSeq)
      BY <1>0, <1>6 DEF DispatchEvent, EventTypeOK
    <3>2. seq \in 0..MaxSeq
      BY <3>1
    <3>3. recordSequence(seq) \in 0..MaxSeq
      BY <1>0, <3>2 DEF recordSequence, ResumePoints
    <3>4. resume' \in ResumePoints
      BY <1>0, <2>2, <3>3 DEF observeEvent, ResumePoints
    <3>5. ConnRanges'
      BY <1>0, <2>2, <3>4 DEF observeEvent, EndOutage
    <3>6. ConnFlags'
      BY <1>0, <2>2 DEF observeEvent, EndOutage
    <3> QED
      BY <3>5, <3>6
  <2> QED
    BY <1>6, <2>1, <2>2 DEF DispatchEvent
<1>7. CASE SelectState
  BY <1>0, <1>7 DEF SelectState
<1>8. CASE Tick
  BY <1>0, <1>8 DEF Tick, AgeOutage
<1>9. CASE (RunStep /\ ~SelectState) \/ Cancel \/ UNCHANGED vars
  <2>1. UNCHANGED connVars
    BY <1>9 DEF RunStep, Begin, StartupFails, StartManager, SelectDone, SelectErr, SelectTimer,
                CheckContext, ReadState, ReturnDecision, FinishStopping, Cancel, others, vars
  <2> QED
    BY <1>1, <2>1
<1>10. CASE \/ Preflight \/ StopWaiting \/ NoClient \/ StopListening \/ StopBroken
            \/ NetworkStep \/ \E n \in Attempts : CloseReady(n)
  <2>1. UNCHANGED connVars
    BY <1>10 DEF Preflight, StopWaiting, NoClient, StopListening, StopBroken, NetworkStep,
                 AttemptBreaks, Connected, HandshakeSent, CloseReady
  <2> QED
    BY <1>1, <2>1
<1> QED
  BY <1>2, <1>3, <1>4, <1>5, <1>6, <1>7, <1>8, <1>9, <1>10
  DEF Next, SupNext, SupStep, HandlerStep, Dispatch, Finished

\* Counters of events stay within the bound if only those below it grow.
LEMMA CounterGrows ==
    ASSUME NEW f \in [Attempts -> 0..MaxSeq], NEW n \in Attempts, f[n] < MaxSeq
    PROVE  [f EXCEPT ![n] = @ + 1] \in [Attempts -> 0..MaxSeq]
BY MaxSeqAssumption DEF Attempts

LEMMA EventTypeStep ==
    ASSUME TypeOK, SessionInv, [Next]_vars
    PROVE  EventTypeOK'
<1> USE MaxAttemptsAssumption, MaxSeqAssumption
    DEF eventVars, EventTypeOK, SessionIDs, Attempts, HandlerLocations
<1>0. EventTypeOK /\ StartTypeOK
  BY TypeParts
<1>1. CASE UNCHANGED eventVars
  BY <1>0, <1>1
<1>2. CASE HandshakeSent
  <2>1. supResume.id \in 0..MaxAttempts /\ supResume.seq \in 0..MaxSeq
    BY <1>0 DEF StartTypeOK, ResumePoints
  <2>2. source' \in [Attempts -> SessionIDs]
    BY <1>0, <1>2, <2>1 DEF HandshakeSent, StartTypeOK
  <2>3. PICK seq \in 0..MaxSeq : read' \in {read, [read EXCEPT ![attempt] = seq]}
    BY <1>0, <1>2, <2>1 DEF HandshakeSent
  <2>4. read' \in [Attempts -> 0..MaxSeq]
    BY <1>0, <2>3
  <2> QED
    BY <1>0, <1>2, <2>2, <2>4 DEF HandshakeSent
<1>3. CASE \E n \in Attempts : HandlerStep(n)
  BY <1>0, <1>3 DEF HandlerStep, NotifyRecovered, CloseReady
<1>4. ASSUME NEW n \in Attempts, DispatchReady(n)
      PROVE  EventTypeOK'
  <2>1. acceptEvent(n) => handled[n] = 0
    BY <1>4, AcceptedEventIsCurrent DEF DispatchReady, SessionInv, Followed, AwaitsReady, NoSession
  <2>2. read' \in [Attempts -> 0..MaxSeq]
    BY <1>0, <1>4 DEF DispatchReady
  <2>3. handled' \in [Attempts -> 0..MaxSeq]
    <3>1. handled' = handled \/ handled' = [handled EXCEPT ![n] = 1]
      BY <1>4, <2>1 DEF DispatchReady
    <3>2. handled \in [Attempts -> 0..MaxSeq] /\ 1 \in 0..MaxSeq
      BY <1>0
    <3> QED
      BY <3>1, <3>2
  <2>4. handlerPC' \in [Attempts -> HandlerLocations]
    BY <1>0, <1>4 DEF DispatchReady
  <2> QED
    BY <1>0, <1>4, <2>2, <2>3, <2>4 DEF DispatchReady
<1>5. ASSUME NEW n \in Attempts, NEW fresh \in BOOLEAN, DispatchEvent(n, fresh)
      PROVE  EventTypeOK'
  <2>1. ASSUME acceptEvent(n), fresh
        PROVE  source[n] \in Attempts /\ handled[source[n]] < MaxSeq
    <3>1. n = attempt /\ currentSessionOpen
      BY <2>1, AcceptedEventIsCurrent
    <3>2. handled[source[n]] = read[n] /\ source[n] # NoSession
      BY <1>5, <3>1 DEF DispatchEvent, CanDispatch, SessionInv, Followed, ResumeInv, ResumeIsExact
    <3> QED
      BY <1>0, <1>5, <2>1, <3>2 DEF DispatchEvent, NoSession
  <2>2. read' \in [Attempts -> 0..MaxSeq]
    <3>1. read' = read \/ (read[n] < MaxSeq /\ read' = [read EXCEPT ![n] = @ + 1])
      BY <1>5 DEF DispatchEvent
    <3>2. read \in [Attempts -> 0..MaxSeq]
      BY <1>0
    <3> QED
      BY <3>1, <3>2, CounterGrows
  <2>3. handled' \in [Attempts -> 0..MaxSeq]
    <3>1. \/ handled' = handled
          \/ \E s \in Attempts : handled[s] < MaxSeq /\ handled' = [handled EXCEPT ![s] = @ + 1]
      BY <1>5, <2>1 DEF DispatchEvent
    <3>2. handled \in [Attempts -> 0..MaxSeq]
      BY <1>0
    <3> QED
      BY <3>1, <3>2, CounterGrows
  <2>4. handlerPC' \in [Attempts -> HandlerLocations]
    BY <1>0, <1>5 DEF DispatchEvent
  <2> QED
    BY <1>0, <1>5, <2>2, <2>3, <2>4 DEF DispatchEvent
<1>6. CASE RunStep \/ Cancel \/ Tick \/ UNCHANGED vars
  <2>1. UNCHANGED eventVars
    BY <1>6 DEF RunStep, Begin, StartupFails, StartManager, SelectDone, SelectErr, SelectState,
                SelectTimer, CheckContext, ReadState, ReturnDecision, FinishStopping, Cancel,
                Tick, others, vars
  <2> QED
    BY <1>1, <2>1
<1>7. CASE SupStep \/ NoClient \/ AttemptBreaks \/ Connected
  <2>1. UNCHANGED eventVars
    BY <1>7 DEF SupStep, Preflight, StopWaiting, BeginAttempt, NoClient, StopListening,
                StopBroken, NotifyFailure, ReportFailure, AttemptBreaks, Connected
  <2> QED
    BY <1>1, <2>1
<1> QED
  BY <1>2, <1>3, <1>4, <1>5, <1>6, <1>7 DEF Next, SupNext, NetworkStep, Dispatch, Finished

LEMMA StartTypeStep ==
    ASSUME TypeOK, SessionInv, [Next]_vars
    PROVE  StartTypeOK'
<1> USE DEF supVars, cancelVars, StartTypeOK, Exit, Proceed, SupLocations
<1>0. StartTypeOK /\ ConnRanges
  BY TypeParts, ConnTypeParts
<1>1. CASE UNCHANGED <<supVars, cancelVars, invalid>>
  BY <1>0, <1>1
<1>2. CASE Preflight \/ StopWaiting \/ NoClient \/ AttemptBreaks \/ Connected
  BY <1>0, <1>2 DEF Preflight, StopWaiting, NoClient, AttemptBreaks, Connected
<1>3. CASE HandshakeSent \/ StopListening \/ StopBroken \/ NotifyFailure
  BY <1>0, <1>3 DEF HandshakeSent, StopListening, StopBroken, NotifyFailure
<1>4. CASE BeginAttempt
  BY <1>0, <1>4, MaxAttemptsAssumption DEF BeginAttempt
<1>5. ASSUME NEW a \in BOOLEAN, NEW b \in BOOLEAN, ReportFailure(a, b)
      PROVE  StartTypeOK'
  <2>1. supResume' \in ResumePoints
    <3>1. ConnTypeOK'
      BY ConnTypeStep
    <3> QED
      BY <1>5, <3>1 DEF ReportFailure, ConnTypeOK
  <2>2. attempt \in Attempts
    BY <1>0, <1>5 DEF ReportFailure, SessionInv, AttemptInv, Attempting, Attempts
  <2>3. source[attempt] \in SessionIDs /\ supResume.id \in SessionIDs
    BY <1>0, <2>2, TypeParts DEF EventTypeOK, ResumePoints
  <2>4. invalid' \subseteq Attempts
    <3>1. {supResume.id, source[attempt]} \ {NoSession} \subseteq Attempts
      BY <2>3 DEF SessionIDs, Attempts, NoSession
    <3>2. invalid \subseteq Attempts
      BY <1>0
    <3>3. invalid' \subseteq invalid \cup ({supResume.id, source[attempt]} \ {NoSession})
      BY <1>5 DEF ReportFailure
    <3> QED
      BY <3>1, <3>2, <3>3
  <2> QED
    BY <1>0, <1>5, <2>1, <2>4 DEF ReportFailure
<1>6. CASE \E n \in Attempts : HandlerStep(n) \/ Dispatch(n)
  <2>1. UNCHANGED <<supVars, cancelVars, invalid>>
    BY <1>6 DEF HandlerStep, NotifyRecovered, CloseReady, Dispatch, DispatchReady, DispatchEvent
  <2> QED
    BY <1>1, <2>1
<1>7. CASE Begin \/ StartupFails \/ SelectState \/ SelectTimer \/ ReadState \/ Tick \/ UNCHANGED vars
  <2>1. UNCHANGED <<supVars, cancelVars, invalid>>
    BY <1>7 DEF Begin, StartupFails, SelectState, SelectTimer, ReadState, Tick, others, vars
  <2> QED
    BY <1>1, <2>1
<1>8. CASE StartManager \/ SelectDone \/ SelectErr \/ CheckContext
  BY <1>0, <1>8 DEF StartManager, SelectDone, SelectErr, CheckContext, others
<1>9. CASE ReturnDecision \/ FinishStopping \/ Cancel
  BY <1>0, <1>9 DEF ReturnDecision, FinishStopping, Cancel, others
<1> QED
  BY <1>2, <1>3, <1>4, <1>5, <1>6, <1>7, <1>8, <1>9
  DEF Next, SupNext, SupStep, NetworkStep, RunStep, Finished

TimerTypeOK ==
    timerArmed \in BOOLEAN /\ timerLeft \in 0..RecoveryTimeout /\ timerGen \in 0..MaxAttempts

LEMMA TimerTypes ==
    ASSUME RunTypeOK, ConnRanges, StopTimer \/ ArmTimer \/ UNCHANGED timerVars
    PROVE  TimerTypeOK'
<1> USE RecoveryTimeoutAssumption, MaxAttemptsAssumption DEF TimerTypeOK
<1>1. TimerTypeOK /\ RecoveryTimeout - outage \in 0..RecoveryTimeout
      /\ recoveryGeneration \in 0..MaxAttempts
  BY DEF RunTypeOK, ConnRanges
<1>2. CASE StopTimer
  <2>1. timerLeft' = 0 /\ timerGen' = timerGen /\ 0 \in 0..RecoveryTimeout
    BY <1>2 DEF StopTimer
  <2>2. timerArmed' \in BOOLEAN
    BY <1>2 DEF StopTimer
  <2> QED
    BY <1>1, <2>1, <2>2
<1>3. CASE ArmTimer
  BY <1>1, <1>3 DEF ArmTimer
<1>4. CASE UNCHANGED timerVars
  BY <1>1, <1>4 DEF timerVars
<1> QED
  BY <1>2, <1>3, <1>4

LEMMA RunTypeStep ==
    ASSUME TypeOK, [Next]_vars
    PROVE  RunTypeOK'
<1> USE RecoveryTimeoutAssumption, MaxAttemptsAssumption
    DEF runVars, timerVars, RunTypeOK, RunAt, Return, StopTimer, RunLocations, Results
<1>0. RunTypeOK /\ ConnRanges
  BY TypeParts, ConnTypeParts
<1>1. CASE UNCHANGED runVars
  BY <1>0, <1>1
<1>2. CASE Begin \/ StartupFails \/ StartManager
  BY <1>0, <1>2 DEF Begin, StartupFails, StartManager
<1>3. CASE SelectDone
  BY <1>0, <1>3 DEF SelectDone
<1>10. CASE SelectErr
  <2>1. managerResult \in Results
    BY DEF managerResult
  <2>2. TimerTypeOK'
    BY <1>0, <1>10, TimerTypes DEF SelectErr
  <2> QED
    BY <1>0, <1>10, <2>1, <2>2 DEF SelectErr, TimerTypeOK
<1>4. CASE SelectState \/ SelectTimer
  BY <1>0, <1>4 DEF SelectState, SelectTimer
<1>5. CASE CheckContext
  BY <1>0, <1>5 DEF CheckContext
<1>6. CASE ReadState
  <2>1. /\ timerArmed' \in BOOLEAN /\ timerGen' \in 0..MaxAttempts
        /\ timerLeft' \in 0..RecoveryTimeout
    <3>1. UNCHANGED timerVars \/ StopTimer \/ ArmTimer
      BY <1>6 DEF ReadState
    <3> QED
      BY <1>0, <3>1, TimerTypes DEF TimerTypeOK
  <2>2. runPC' \in {"returning", "select"} /\ runResult' \in {runResult, "fatal", "notRecovered"}
    BY <1>6 DEF ReadState, Decide
  <2>3. byTimer' = FALSE
    BY <1>6 DEF ReadState
  <2> QED
    BY <1>0, <2>1, <2>2, <2>3
<1>7. CASE ReturnDecision
  <2>1. TimerTypeOK'
    BY <1>0, <1>7, TimerTypes DEF ReturnDecision
  <2> QED
    BY <1>0, <1>7, <2>1 DEF ReturnDecision, TimerTypeOK
<1>8. CASE FinishStopping
  <2>1. TimerTypeOK'
    BY <1>0, <1>8, TimerTypes DEF FinishStopping
  <2> QED
    BY <1>0, <1>8, <2>1 DEF FinishStopping, TimerTypeOK
<1>9. CASE Tick
  BY <1>0, <1>9 DEF Tick
<1> QED
  BY <1>1, <1>2, <1>3, <1>4, <1>5, <1>6, <1>7, <1>8, <1>9, <1>10 DEF Next, RunStep, Cancel, Finished, vars

LEMMA TypeStep ==
    ASSUME TypeOK, SessionInv, [Next]_vars
    PROVE  TypeOK'
BY ConnTypeStep, StartTypeStep, EventTypeStep, RunTypeStep, TypeParts, PTL
-----------------------------------------------------------------------------
(* The watchdog's part of the invariant. *)

LEMMA TimerFrame ==
    TimerInv /\ UNCHANGED <<runVars, recoveryVars, stateChanged>> /\ (supPC = "notifying" => supPC' = "notifying")
        => TimerInv'
BY DEF TimerInv, OutageIsWatched, runVars, timerVars, recoveryVars

LEMMA TimerSupStep ==
    ASSUME TypeOK, SessionInv, TimerInv, SupNext, UNCHANGED runVars
    PROVE  TimerInv'
<1>0. ConnRanges /\ timerGen \in 0..MaxAttempts
  BY TypeParts, ConnTypeParts DEF RunTypeOK
<1>1. CASE BeginAttempt \/ Preflight \/ StopWaiting \/ StopListening \/ StopBroken
  <2>1. UNCHANGED <<recoveryVars, stateChanged>> /\ supPC # "notifying"
    BY <1>1 DEF BeginAttempt, sessionStarted, Preflight, StopWaiting, WaitIsOver,
                StopListening, StopBroken, connVars
  <2> QED
    BY <2>1, TimerFrame
<1>2. CASE NetworkStep
  <2>1. UNCHANGED <<recoveryVars, stateChanged>> /\ supPC # "notifying"
    BY <1>2 DEF NetworkStep, NoClient, WaitIsOver, AttemptBreaks, Connected, HandshakeSent, connVars
  <2> QED
    BY <2>1, TimerFrame
<1>3. CASE NotifyFailure \/ \E n \in Attempts : NotifyRecovered(n)
  BY <1>3 DEF NotifyFailure, NotifyRecovered, notifyStateChanged, TimerInv, OutageIsWatched,
              runVars, timerVars, recoveryVars
<1>4. ASSUME NEW a \in BOOLEAN, NEW b \in BOOLEAN, ReportFailure(a, b)
      PROVE  TimerInv'
  <2>1. supPC' = "notifying"
    BY <1>4 DEF ReportFailure, SessionInv, AttemptInv, isCurrent, Attempting
  <2>2. \/ UNCHANGED recoveryVars
        \/ recovering' /\ recoveryGeneration' = recoveryGeneration + 1 /\ ~recovering
    BY <1>4 DEF ReportFailure, sessionFailed, connVars
  <2> QED
    BY <1>0, <2>1, <2>2 DEF TimerInv, OutageIsWatched, runVars, timerVars, recoveryVars, ConnRanges
<1>5. CASE \E n \in Attempts : CloseReady(n) \/ Dispatch(n)
  <2>1. \/ UNCHANGED <<recoveryVars, stateChanged>> /\ supPC' = supPC
        \/ EndOutage
    BY <1>5 DEF CloseReady, Dispatch, DispatchReady, DispatchEvent, markReady, observeEvent,
                connVars, supVars
  <2>2. CASE EndOutage
    BY <2>2 DEF EndOutage, TimerInv, OutageIsWatched, runVars, timerVars
  <2> QED
    BY <2>1, <2>2, TimerFrame
<1> QED
  BY <1>1, <1>2, <1>3, <1>4, <1>5 DEF SupNext, SupStep, HandlerStep

LEMMA TimerStep ==
    ASSUME TypeOK, SessionInv, TimerInv, [Next]_vars
    PROVE  TimerInv'
<1> USE DEF TimerInv, OutageIsWatched, recoveryVars, timerVars, RunAt, Return
<1>0. /\ recoveryGeneration \in Nat /\ timerGen \in Nat /\ timerLeft \in Nat
      /\ outage \in 0..RecoveryTimeout /\ RecoveryTimeout \in Nat
  BY TypeParts, ConnTypeParts, RecoveryTimeoutAssumption DEF RunTypeOK, ConnRanges
<1>1. CASE SupNext /\ UNCHANGED runVars
  BY <1>1, TimerSupStep
<1>2. CASE Begin \/ StartupFails
  BY <1>2 DEF Begin, StartupFails, others, connVars
<1>3. CASE StartManager
  BY <1>3 DEF StartManager, connVars, SessionInv, AttemptInv, OutageInv
<1>4. CASE SelectDone \/ SelectErr \/ SelectState
  BY <1>4 DEF SelectDone, SelectErr, StopTimer, SelectState, others, connVars
<1>5. CASE SelectTimer
  BY <1>0, <1>5 DEF SelectTimer, others, connVars
<1>6. CASE CheckContext
  BY <1>6 DEF CheckContext, others, connVars
<1>7. CASE ReadState
  BY <1>0, <1>7 DEF ReadState, Decide, StopTimer, ArmTimer, TimerIsStale, others, connVars
<1>8. CASE ReturnDecision \/ FinishStopping
  BY <1>8 DEF ReturnDecision, FinishStopping, StopTimer, others, connVars
<1>9. CASE Cancel \/ UNCHANGED vars
  BY <1>9 DEF Cancel, others, connVars, supVars, runVars, vars
<1>10. CASE Tick
  BY <1>0, <1>10 DEF Tick, AgeOutage, supVars
<1> QED
  BY <1>1, <1>2, <1>3, <1>4, <1>5, <1>6, <1>7, <1>8, <1>9, <1>10 DEF Next, RunStep, Finished
-----------------------------------------------------------------------------
(* Why things end. *)

LEMMA ResultSupStep ==
    ASSUME TypeOK, SessionInv, ResultInv, SupNext, UNCHANGED runVars
    PROVE  ResultInv'
<1> USE DEF ResultInv, StopsOnlyOnRequest, ManagerDone, runVars, cancelVars, Exit, Proceed
<1>1. CASE Preflight \/ StopWaiting \/ BeginAttempt \/ StopListening \/ StopBroken
  BY <1>1 DEF Preflight, StopWaiting, BeginAttempt, sessionStarted, WaitIsOver,
              StopListening, StopBroken, connVars
<1>2. CASE NetworkStep
  BY <1>2 DEF NetworkStep, NoClient, WaitIsOver, AttemptBreaks, Connected, HandshakeSent, connVars
<1>3. CASE NotifyFailure
  BY <1>3 DEF NotifyFailure
<1>4. ASSUME NEW a \in BOOLEAN, NEW b \in BOOLEAN, ReportFailure(a, b)
      PROVE  ResultInv'
  BY <1>4 DEF ReportFailure, SessionInv, AttemptInv, isCurrent, Attempting
<1>5. CASE \E n \in Attempts : HandlerStep(n) \/ Dispatch(n)
  BY <1>5 DEF HandlerStep, NotifyRecovered, CloseReady, Dispatch, DispatchReady, DispatchEvent,
              markReady, observeEvent, connVars, supVars
<1> QED
  BY <1>1, <1>2, <1>3, <1>4, <1>5 DEF SupNext, SupStep

LEMMA ResultStep ==
    ASSUME TypeOK, SessionInv, ResultInv, [Next]_vars
    PROVE  ResultInv'
<1> USE DEF ResultInv, StopsOnlyOnRequest, ManagerDone, cancelVars, RunAt, Return
<1>1. CASE SupNext /\ UNCHANGED runVars
  BY <1>1, ResultSupStep
<1>2. CASE Begin \/ StartupFails
  BY <1>2 DEF Begin, StartupFails, others, connVars, supVars
<1>3. CASE StartManager
  BY <1>3 DEF StartManager
<1>4. CASE SelectDone \/ SelectState \/ SelectTimer
  BY <1>4 DEF SelectDone, SelectState, SelectTimer, others, connVars, supVars
<1>5. CASE SelectErr
  BY <1>5, TypeParts DEF SelectErr, managerResult, StartTypeOK, connVars
<1>6. CASE CheckContext
  BY <1>6 DEF CheckContext, others, connVars, supVars
<1>7. CASE ReadState
  BY <1>7 DEF ReadState, Decide, others, connVars, supVars
<1>8. CASE ReturnDecision \/ FinishStopping
  BY <1>8 DEF ReturnDecision, FinishStopping, others, connVars, supVars
<1>9. CASE Cancel \/ Tick \/ UNCHANGED vars
  BY <1>9 DEF Cancel, Tick, others, connVars, supVars, runVars, vars
<1> QED
  BY <1>1, <1>2, <1>3, <1>4, <1>5, <1>6, <1>7, <1>8, <1>9 DEF Next, RunStep, Finished
-----------------------------------------------------------------------------
LEMMA Initially == Init => IInv
<1> SUFFICES ASSUME Init
             PROVE  IInv
  OBVIOUS
<1> USE MaxAttemptsAssumption, MaxSeqAssumption, RecoveryTimeoutAssumption
    DEF Init, ConnInit, SupInit
<1>1. NoResume \in ResumePoints /\ NoResume.id = NoSession /\ NoResume.seq = 0
  BY DEF NoResume, NoSession, ResumePoints, SessionIDs
<1>2. ConnTypeOK
  <2>1. ConnRanges
    BY <1>1 DEF ConnRanges
  <2>2. ConnFlags
    BY DEF ConnFlags
  <2> QED
    BY <2>1, <2>2, ConnTypeParts
<1>3. StartTypeOK
  <2>1. supPC \in SupLocations /\ errCh \in {"empty", "nil", "err"}
    BY DEF SupLocations
  <2>2. ctxDone \in BOOLEAN /\ managerCanceled \in BOOLEAN
    OBVIOUS
  <2>3. attempt \in 0..MaxAttempts /\ invalid \subseteq Attempts
    OBVIOUS
  <2> QED
    BY <1>1, <2>1, <2>2, <2>3 DEF StartTypeOK
<1>4. EventTypeOK
  <2>1. source \in [Attempts -> SessionIDs]
    BY DEF SessionIDs, NoSession
  <2>2. read \in [Attempts -> 0..MaxSeq] /\ handled \in [Attempts -> 0..MaxSeq]
    OBVIOUS
  <2>3. handlerPC \in [Attempts -> HandlerLocations]
    BY DEF HandlerLocations
  <2> QED
    BY <2>1, <2>2, <2>3 DEF EventTypeOK
<1>5. RunTypeOK
  <2>1. runPC \in RunLocations /\ runResult \in Results
    BY DEF RunLocations, Results
  <2>2. byTimer \in BOOLEAN /\ timerArmed \in BOOLEAN
    OBVIOUS
  <2>3. timerLeft \in 0..RecoveryTimeout /\ timerGen \in 0..MaxAttempts
    OBVIOUS
  <2> QED
    BY <2>1, <2>2, <2>3 DEF RunTypeOK
<1>6. AttemptInv /\ OutageInv
  BY DEF AttemptInv, OutageInv, DownIsRecovering, Attempting
<1>7. SourceInv /\ HandedOver /\ Followed
  BY DEF SourceInv, HandedOver, Followed, Attempts, NoSession, Attempting
<1>8. ResumeInv /\ InvalidInv
  BY <1>1 DEF ResumeInv, InvalidInv, ResumeIsExact, InvalidSessionIsForgotten, NoSession
<1>9. TimerInv
  BY DEF TimerInv, OutageIsWatched
<1>10. ResultInv
  BY DEF ResultInv, StopsOnlyOnRequest
<1> QED
  BY <1>2, <1>3, <1>4, <1>5, <1>6, <1>7, <1>8, <1>9, <1>10, TypeParts DEF IInv, SessionInv

LEMMA Step == IInv /\ [Next]_vars => IInv'
<1> SUFFICES ASSUME IInv, [Next]_vars
             PROVE  IInv'
  OBVIOUS
<1>1. TypeOK'
  BY TypeStep DEF IInv
<1>2. SessionInv'
  BY SessionStep DEF IInv
<1>3. TimerInv'
  BY TimerStep DEF IInv
<1>4. ResultInv'
  BY ResultStep DEF IInv
<1> QED
  BY <1>1, <1>2, <1>3, <1>4 DEF IInv

LEMMA Invariance == Spec => []IInv
BY Initially, Step, PTL DEF Spec
-----------------------------------------------------------------------------
\* The types of the gateway's variables.
THEOREM TypeCorrect == Spec => []TypeOK
<1>1. IInv => TypeOK
  BY DEF IInv
<1> QED
  BY <1>1, Invariance, PTL

\* Every attempt that the supervisor runs is the current and open one, so the
\* end of it is never taken for that of another: sessionFailed always applies.
THEOREM SupervisorReportsCurrentAttempt == Spec => []ReportsCurrentAttempt
<1>1. IInv => ReportsCurrentAttempt
  BY DEF IInv, SessionInv, AttemptInv, ReportsCurrentAttempt, Attempting
<1> QED
  BY <1>1, Invariance, PTL

\* A closed connection counts as an outage, whatever it still delivers.
THEOREM DownMeansRecovering == Spec => []DownIsRecovering
<1>1. IInv => DownIsRecovering
  BY DEF IInv, SessionInv, OutageInv
<1> QED
  BY <1>1, Invariance, PTL

\* No event of a QQ session is skipped or taken twice across reconnects.
THEOREM ResumeExact == Spec => []ResumeIsExact
<1>1. IInv => ResumeIsExact
  BY DEF IInv, SessionInv, ResumeInv
<1> QED
  BY <1>1, Invariance, PTL

\* A session the server refused is never resumed again.
THEOREM InvalidStaysForgotten == Spec => []InvalidSessionIsForgotten
<1>1. IInv => InvalidSessionIsForgotten
  BY DEF IInv, SessionInv, InvalidInv
<1> QED
  BY <1>1, Invariance, PTL

\* No wakeup of Run is lost during an outage.
THEOREM OutageWatched == Spec => []OutageIsWatched
<1>1. IInv => OutageIsWatched
  BY DEF IInv, TimerInv
<1> QED
  BY <1>1, Invariance, PTL

\* Run ends without an error only because its caller asked it to.
THEOREM StopsOnRequestOnly == Spec => []StopsOnlyOnRequest
<1>1. IInv => StopsOnlyOnRequest
  BY DEF IInv, ResultInv
<1> QED
  BY <1>1, Invariance, PTL

-----------------------------------------------------------------------------
(* What a step may never do. *)

\* Run gives up only on an outage that has lasted RecoveryTimeout: the timer it
\* has just seen fire was set for the very outage it finds under way.
THEOREM GivesUpAfterTimeoutOnly == Spec => GivesUpOnlyAfterTimeout
<1>1. ASSUME IInv, Next, runResult' = "notRecovered", runResult # "notRecovered"
      PROVE  recovering /\ outage = RecoveryTimeout
  <2>1. CASE ReadState
    BY <1>1, <2>1 DEF ReadState, Decide, RunAt, TimerIsStale, IInv, TimerInv
  <2>2. CASE ~ReadState
    BY <1>1, <2>2
    DEF Next, RunStep, Begin, StartupFails, StartManager, SelectDone, SelectErr, managerResult,
        SelectState, SelectTimer, CheckContext, ReturnDecision, FinishStopping, Cancel, Tick,
        Finished, Return, RunAt, runVars, vars
  <2> QED
    BY <2>1, <2>2
<1>2. IInv /\ [Next]_vars
        => [runResult' = "notRecovered" /\ runResult # "notRecovered"
              => recovering /\ outage = RecoveryTimeout]_vars
  BY <1>1
<1> QED
  BY <1>2, Invariance, PTL DEF Spec, GivesUpOnlyAfterTimeout

\* Once a fatal error is recorded, Run decides on no other error, whether it sees
\* the notification, the timer or the supervisor's return first.
THEOREM FatalReported == Spec => FatalIsReported
<1>1. ASSUME IInv, Next, fatalError, runResult' # runResult
      PROVE  runResult' \in {"fatal", "nil"}
  <2>1. supPC # "off"
    BY <1>1 DEF IInv, SessionInv, AttemptInv
  <2>2. ~StartupFails
    BY <1>1, <2>1 DEF StartupFails, IInv, ResultInv
  <2>3. CASE SelectErr
    BY <1>1, <2>3 DEF SelectErr, Return, managerResult
  <2>4. CASE ReadState
    BY <1>1, <2>4 DEF ReadState, FatalSeen, Decide, RunAt
  <2>5. CASE ~SelectErr /\ ~ReadState
    BY <1>1, <2>2, <2>5
    DEF Next, RunStep, Begin, StartManager, SelectDone, SelectState, SelectTimer, CheckContext,
        ReturnDecision, FinishStopping, Cancel, Tick, Finished, Return, RunAt, runVars, vars
  <2> QED
    BY <2>3, <2>4, <2>5
<1>2. IInv /\ [Next]_vars
        => [fatalError /\ runResult' # runResult => runResult' \in {"fatal", "nil"}]_vars
  BY <1>1
<1> QED
  BY <1>2, Invariance, PTL DEF Spec, FatalIsReported

\* Failed reconnects do not restart the clock of an outage
\* (TestGatewayRecoveryDeadlineIsStableUntilRecovery).
OutageKeepsItsClock ==
    [][recovering /\ recovering'
          => outage' >= outage /\ recoveryGeneration' = recoveryGeneration]_vars

\* Failed reconnects do not restart the clock of an outage.
THEOREM OutageClockKept == Spec => OutageKeepsItsClock
<1>1. ASSUME IInv, Next, recovering, recovering'
      PROVE  outage' >= outage /\ recoveryGeneration' = recoveryGeneration
  <2>0. outage \in Nat
    BY <1>1, TypeParts, ConnTypeParts, RecoveryTimeoutAssumption DEF IInv, ConnRanges
  <2>1. CASE UNCHANGED recoveryVars
    BY <2>0, <2>1 DEF recoveryVars
  <2>2. CASE Tick
    BY <2>0, <2>2, RecoveryTimeoutAssumption DEF Tick, AgeOutage
  <2>3. CASE RunStep \/ Cancel \/ Finished
    <3>1. UNCHANGED recoveryVars
      BY <2>3, RunKeepsSession DEF StartManager, connVars, Finished, vars, sessionState
    <3> QED
      BY <2>1, <3>1
  <2>4. CASE \E n \in Attempts : HandlerStep(n) \/ Dispatch(n)
    <3>1. UNCHANGED recoveryVars \/ EndOutage
      BY <2>4, HandlerKeepsSession DEF sessionState, Dispatch, DispatchReady, DispatchEvent,
         markReady, observeEvent, connVars
    <3> QED
      BY <1>1, <2>1, <3>1 DEF EndOutage
  <2>5. CASE SupStep \/ NetworkStep
    <3>1. UNCHANGED recoveryVars
      BY <1>1, <2>5
      DEF SupStep, Preflight, StopWaiting, BeginAttempt, sessionStarted, NoClient, StopListening,
          StopBroken, NotifyFailure, ReportFailure, sessionFailed, NetworkStep, AttemptBreaks,
          Connected, HandshakeSent, connVars
    <3> QED
      BY <2>1, <3>1
  <2> QED
    BY <1>1, <2>2, <2>3, <2>4, <2>5 DEF Next, SupNext
<1>2. IInv /\ [Next]_vars
        => [recovering /\ recovering'
              => outage' >= outage /\ recoveryGeneration' = recoveryGeneration]_vars
  BY <1>1
<1> QED
  BY <1>2, Invariance, PTL DEF Spec, OutageKeepsItsClock
-----------------------------------------------------------------------------
(* The safety part of ImplementsReadyService.  That a canceled Run returns   *)
(* is liveness.                                                            *)

\* To the orchestrator Run is a service that announces READY at most once, takes
\* its cancellation once, and ends once, with nil or a cancellation error only
\* if it was canceled.
THEOREM GatewayIsReadyService == Spec => Service!Safety
<1> USE DEF Service!serviceVars, Service!readyVars, Outcome
<1>1. Init => Service!ServiceInit /\ ~ready
  BY DEF Init, SupInit, Service!ServiceInit
<1>2. IInv /\ [Next]_vars => [Service!ReadyNext]_(Service!readyVars)
  <2> SUFFICES ASSUME IInv, [Next]_vars
               PROVE  Service!ReadyNext \/ UNCHANGED Service!readyVars
    OBVIOUS
  <2>1. CASE SupNext /\ UNCHANGED runVars
    <3>1. UNCHANGED <<runVars, ctxDone>> /\ (ready' = ready \/ ready' = TRUE)
      BY <2>1
      DEF SupNext, SupStep, Preflight, StopWaiting, BeginAttempt, NoClient, StopListening,
          StopBroken, NotifyFailure, ReportFailure, NetworkStep, AttemptBreaks, Connected,
          HandshakeSent, HandlerStep, NotifyRecovered, CloseReady, Dispatch, DispatchReady,
          DispatchEvent, cancelVars, eventVars
    <3>2. ready \in BOOLEAN
      BY DEF IInv, TypeOK, SupTypeOK
    <3> QED
      BY <3>1, <3>2 DEF Service!ReadyNext, Service!Announce, runVars
  <2>2. CASE Cancel
    BY <2>2 DEF Cancel, others, eventVars, runVars, Service!ReadyNext, Service!ServiceNext,
                Service!Cancel
  <2>3. CASE Tick \/ UNCHANGED vars
    BY <2>3 DEF Tick, eventVars, cancelVars, runVars, vars
  <2>4. CASE RunStep
    <3>1. UNCHANGED <<ready, ctxDone>>
      BY <2>4 DEF RunStep, Begin, StartupFails, StartManager, SelectDone, SelectErr, SelectState,
                  SelectTimer, CheckContext, ReadState, ReturnDecision, FinishStopping, others,
                  eventVars, cancelVars
    <3>2. runPC # "done"
      BY <2>4 DEF RunStep, Begin, StartupFails, StartManager, SelectDone, SelectErr, SelectState,
                  SelectTimer, CheckContext, ReadState, ReturnDecision, FinishStopping
    <3>3. runPC' = "done" /\ runResult' \in {"nil", "canceled"} => ctxDone
      <4>1. IInv'
        BY Step
      <4> QED
        BY <3>1, <4>1 DEF IInv, ResultInv, StopsOnlyOnRequest
    <3> QED
      BY <3>1, <3>2, <3>3 DEF Service!ReadyNext, Service!ServiceNext, Service!Return
  <2> QED
    BY <2>1, <2>2, <2>3, <2>4 DEF Next, Finished
<1> QED
  BY <1>1, <1>2, Invariance, PTL DEF Spec, Service!Safety
=============================================================================
