------------------------------ MODULE Gateway ------------------------------
(***************************************************************************)
(* qqbot.Gateway.Run: it starts the session supervisor and watches over    *)
(* the connection.  Every change of the connection state is announced on   *)
(* stateChanged; while an outage lasts, a timer is set to the moment at    *)
(* which it has lasted RecoveryTimeout.                                    *)
(*                                                                         *)
(*   runPC: idle, starting (discovery), select, checking (ctx.Err() is     *)
(*     next), reading (connectionState is next), returning (cancelManager  *)
(*     and return), stopping (stopSessionManager), done                    *)
(***************************************************************************)
EXTENDS SessionSupervisor

VARIABLES
    runPC,
    runResult,    \* what Run returns
    byTimer,      \* the case of the select under way is the timer's
    timerArmed,   \* recoveryTimer # nil
    timerLeft,    \* ticks until it fires
    timerGen      \* the local variable recoveryGeneration of Run

timerVars == <<timerArmed, timerLeft, timerGen>>
runVars == <<runPC, runResult, byTimer, timerVars>>
vars == <<connVars, supVars, eventVars, cancelVars, invalid, runVars>>

RunLocations == {"idle", "starting", "select", "checking", "reading", "returning",
                 "stopping", "done"}
Results == {"none", "nil", "startup", "canceled", "fatal", "stoppedUnexpectedly",
            "managerError", "notRecovered"}
-----------------------------------------------------------------------------
Init ==
    /\ ConnInit
    /\ SupInit
    /\ runPC = "idle"
    /\ runResult = "none"
    /\ byTimer = FALSE
    /\ timerArmed = FALSE
    /\ timerLeft = 0
    /\ timerGen = 0

RunAt(l) == runPC' = l /\ UNCHANGED runResult
Return(result) == runPC' = "done" /\ runResult' = result
\* defer stopTimer(recoveryTimer), and the stops on the way
StopTimer == timerArmed' = FALSE /\ timerLeft' = 0 /\ UNCHANGED timerGen

Decide(result) == runPC' = "returning" /\ runResult' = result

\* The supervisor's, the handlers' and the connection's state.
others == <<connVars, supVars, eventVars, invalid>>

\* if ctx.Err() != nil { return nil }
Begin ==
    /\ runPC = "idle"
    /\ IF ctxDone THEN Return("nil") ELSE RunAt("starting")
    /\ UNCHANGED <<others, cancelVars, byTimer, timerVars>>

\* discover or registerHandlers fails; a canceled request may say so.
StartupFails ==
    /\ runPC = "starting"
    /\ \/ Return("startup")
       \/ ctxDone /\ Return("canceled")
    /\ UNCHANGED <<others, cancelVars, byTimer, timerVars>>

\* go func() { errCh <- g.manager.Start(...) }()
StartManager ==
    /\ runPC = "starting"
    /\ supPC = "off"
    /\ RunAt("select")
    /\ supPC' = "starting"
    /\ UNCHANGED <<connVars, attempt, supResume, errCh, eventVars, invalid>>
    /\ UNCHANGED <<cancelVars, byTimer, timerVars>>
-----------------------------------------------------------------------------
(* The cases of Run's select. *)

\* case <-ctx.Done()
SelectDone ==
    /\ runPC = "select"
    /\ ctxDone
    /\ RunAt("stopping")
    /\ managerCanceled' = TRUE
    /\ UNCHANGED <<others, ctxDone, byTimer, timerVars>>

managerResult ==
    IF ctxDone THEN "nil"
    ELSE IF fatalError THEN "fatal"
    ELSE IF errCh = "nil" THEN "stoppedUnexpectedly"
    ELSE "managerError"

\* case err := <-errCh.  The supervisor is gone: nothing the rest of the case
\* reads can change but ctx, so it is one step.
SelectErr ==
    /\ runPC = "select"
    /\ errCh # "empty"
    /\ errCh' = "empty"
    /\ Return(managerResult)
    /\ managerCanceled' = TRUE
    /\ StopTimer
    /\ UNCHANGED <<connVars, supPC, attempt, supResume, eventVars, invalid>>
    /\ UNCHANGED <<ctxDone, byTimer>>

\* case <-g.stateChanged
SelectState ==
    /\ runPC = "select"
    /\ stateChanged
    /\ stateChanged' = FALSE
    /\ RunAt("checking")
    /\ byTimer' = FALSE
    /\ UNCHANGED <<sessionVars, resume, recoveryVars, fatalError>>
    /\ UNCHANGED <<supVars, eventVars, invalid, cancelVars, timerVars>>

\* case <-recoveryTimerC
SelectTimer ==
    /\ runPC = "select"
    /\ timerArmed
    /\ timerLeft = 0
    /\ timerArmed' = FALSE
    /\ RunAt("checking")
    /\ byTimer' = TRUE
    /\ UNCHANGED <<others, cancelVars, timerLeft, timerGen>>

\* Both cases look at ctx first ...
CheckContext ==
    /\ runPC = "checking"
    /\ IF ctxDone
       THEN RunAt("stopping") /\ managerCanceled' = TRUE
       ELSE RunAt("reading") /\ UNCHANGED managerCanceled
    /\ UNCHANGED <<others, ctxDone, byTimer, timerVars>>

\* Bug: a wrong sign.
ArmTimerWrongSign ==
    timerArmed' = TRUE /\ timerLeft' = RecoveryTimeout + outage /\ timerGen' = recoveryGeneration

\* time.NewTimer(recoveryTimeRemaining(...)) for the present outage
ArmTimer ==
    /\ timerArmed' = TRUE
    /\ timerLeft' = RecoveryTimeout - outage
    /\ timerGen' = recoveryGeneration

\* Bug: the case of the timer does not look for a fatal error.
FatalSeenUnlessTimer == fatalError /\ ~byTimer

\* state.fatalError # nil: both cases ask this first.
FatalSeen == fatalError

\* Bug: generations are not compared.
TimerIsNeverStale == FALSE

\* The timer last set was that of an earlier outage.
TimerIsStale == timerGen # recoveryGeneration

\* ... and then at the connection state: a fatal error ends Run, a recovered
\* connection needs no timer, an outage without a timer gets one.  When the
\* timer that fired is the one of this outage, Run gives up.
ReadState ==
    /\ runPC = "reading"
    /\ \/ /\ FatalSeen
          /\ Decide("fatal")
          /\ UNCHANGED timerVars
       \/ /\ ~FatalSeen /\ ~recovering
          /\ RunAt("select")
          /\ StopTimer
       \/ /\ ~FatalSeen /\ recovering
          /\ TimerIsStale \/ (~byTimer /\ ~timerArmed)
          /\ RunAt("select")
          /\ ArmTimer
       \/ /\ ~FatalSeen /\ recovering
          /\ ~TimerIsStale /\ timerArmed
          /\ RunAt("select")
          /\ UNCHANGED timerVars
       \/ /\ ~FatalSeen /\ recovering
          /\ ~TimerIsStale /\ byTimer
          /\ Decide("notRecovered")
          /\ UNCHANGED timerVars
    /\ byTimer' = FALSE
    /\ UNCHANGED <<others, cancelVars>>

\* cancelManager(); return
ReturnDecision ==
    /\ runPC = "returning"
    /\ RunAt("done")
    /\ managerCanceled' = TRUE
    /\ StopTimer
    /\ UNCHANGED <<others, ctxDone, byTimer>>

\* Bug: stopSessionManager waits for the supervisor without a limit.
FinishStoppingPatiently ==
    /\ runPC = "stopping"
    /\ errCh # "empty"
    /\ errCh' = "empty"
    /\ Return("nil")
    /\ StopTimer
    /\ UNCHANGED <<connVars, supPC, attempt, supResume, eventVars, invalid>>
    /\ UNCHANGED <<cancelVars, byTimer>>

\* stopSessionManager has canceled the supervisor: wait for it to return, but
\* not for long, as it may be stuck in Connect or in the handshake.
FinishStopping ==
    /\ runPC = "stopping"
    /\ Return("nil")
    /\ \/ errCh # "empty" /\ errCh' = "empty"
       \/ UNCHANGED errCh
    /\ StopTimer
    /\ UNCHANGED <<connVars, supPC, attempt, supResume, eventVars, invalid>>
    /\ UNCHANGED <<cancelVars, byTimer>>
-----------------------------------------------------------------------------
\* The caller cancels Run's context.
Cancel ==
    /\ ~ctxDone
    /\ ctxDone' = TRUE
    /\ UNCHANGED <<others, managerCanceled, runVars>>

\* Time passes for the outage and for the timer that watches it.
Tick ==
    /\ \/ recovering /\ outage < RecoveryTimeout
       \/ timerArmed /\ timerLeft > 0
    /\ AgeOutage
    /\ timerLeft' = IF timerArmed /\ timerLeft > 0 THEN timerLeft - 1 ELSE timerLeft
    /\ UNCHANGED <<sessionVars, resume, recovering, recoveryGeneration, fatalError, stateChanged>>
    /\ UNCHANGED <<supVars, eventVars, cancelVars, invalid>>
    /\ UNCHANGED <<runPC, runResult, byTimer, timerArmed, timerGen>>

RunStep ==
    \/ Begin \/ StartupFails \/ StartManager \/ SelectDone \/ SelectErr \/ SelectState \/ SelectTimer
    \/ CheckContext \/ ReadState \/ ReturnDecision \/ FinishStopping

\* Run has returned: the process is about to end.
Finished == runPC = "done" /\ UNCHANGED vars

Next ==
    \/ RunStep
    \/ SupNext /\ UNCHANGED runVars
    \/ Cancel
    \/ Tick
    \/ Finished

Spec == Init /\ [][Next]_vars

\* Run, the supervisor between its blocking calls and the handlers are
\* scheduled, and time passes.  Discovery is one API request, which ends at the
\* latest with request_timeout.  BotGo and the network owe nothing: Connect and
\* the handshake may hang, and no client need fail to be created, so that after
\* MaxAttempts attempts the supervisor may wait for ever.
Fairness ==
    /\ WF_vars(RunStep)
    /\ WF_vars(SupStep /\ UNCHANGED runVars)
    /\ \A n \in Attempts : WF_vars(HandlerStep(n) /\ UNCHANGED runVars)
    /\ WF_vars(Tick)

FairSpec == Spec /\ Fairness
-----------------------------------------------------------------------------
(***************************************************************************)
(* Properties.                                                             *)
(***************************************************************************)
\* The state of Run and of what it watches stays in range.
TypeOK ==
    /\ SupTypeOK
    /\ runPC \in RunLocations
    /\ runResult \in Results
    /\ byTimer \in BOOLEAN
    /\ timerArmed \in BOOLEAN
    /\ timerLeft \in 0..RecoveryTimeout
    /\ timerGen \in 0..MaxAttempts

\* No wakeup is lost: when Run waits in its select during an outage, either a
\* notification is on its way or the timer is set for this very outage, to the
\* moment at which it will have lasted RecoveryTimeout.  Notifications are
\* sent after the mutex is released and coalesce in a one-place channel.
OutageIsWatched ==
    runPC = "select" /\ recovering =>
        \/ stateChanged \/ supPC = "notifying"
        \/ timerArmed /\ timerGen = recoveryGeneration /\ timerLeft + outage = RecoveryTimeout

\* While the current connection is closed, an outage is being counted: an event
\* that a closed connection still delivers does not end it.
DownIsRecovering == currentSession # 0 /\ ~currentSessionOpen => recovering

\* The supervisor reports only the attempt the state knows as current and open
\* (so the early return of sessionFailed is never taken): no event handler and
\* no late report closes or replaces the attempt under it.
ReportsCurrentAttempt ==
    supPC \in {"connecting", "handshaking", "listening", "broken"} =>
        currentSession = attempt /\ currentSessionOpen

\* The resume point names exactly the events accepted so far: none of a QQ
\* session's events is skipped or taken twice across reconnects, although old
\* connections deliver late.
ResumeIsExact ==
    /\ resume.id # NoSession => resume.seq = handled[resume.id]
    /\ resume.id = NoSession => resume.seq = 0

\* A QQ session the server refused to resume is not resumed again, even if its
\* READY is delivered late.
InvalidSessionIsForgotten ==
    resume.id \notin invalid /\ supResume.id \notin invalid

\* Run returns nil, or an error that wraps context.Canceled, only on request, and
\* the supervisor never seems to have stopped without a reason.
StopsOnlyOnRequest ==
    /\ runResult \in {"nil", "canceled"} => ctxDone
    /\ runResult # "stoppedUnexpectedly"

\* Run gives up only on an outage that has lasted RecoveryTimeout without a
\* break: a timer set for an earlier outage does not end a later one.
GivesUpOnlyAfterTimeout ==
    [][runResult' = "notRecovered" /\ runResult # "notRecovered"
          => recovering /\ outage = RecoveryTimeout]_vars

\* Once a fatal error is recorded, Run decides on no other error: whichever of
\* its signs (the notification, the timer, the supervisor's return) the select
\* happens to see first, it reports the fatal one, or nil if it was canceled.
FatalIsReported ==
    [][fatalError /\ runResult' # runResult => runResult' \in {"fatal", "nil"}]_vars

\* A READY that was accepted is announced, even if its session fails before the
\* handler gets to it.
AcceptedReadyIsAnnounced == (\E n \in Attempts : handled[n] > 0) ~> ready

\* Once canceled, the supervisor ends, or is stuck in one of the two calls that
\* take no context: it goes on neither reconnecting nor listening, although the
\* end of the interval may win over the cancellation and start one more attempt.
CanceledSupervisorStops ==
    ManagerDone ~> [](supPC \in {"off", "exited", "connecting", "handshaking"})

\* An outage ends: the connection recovers or Run gives up.
OutageEnds == recovering ~> ~recovering \/ runPC = "done"
=============================================================================
