-------------------------- MODULE ConnectionState --------------------------
(***************************************************************************)
(* The connection state of qqbot.Gateway, guarded by stateMu, and the      *)
(* critical sections the session supervisor and BotGo's event handlers run *)
(* on it.  The notification that follows a critical section is a step of   *)
(* its own: the mutex is released first.                                   *)
(*                                                                         *)
(* A WebSocket attempt is the number the supervisor's loop gives it; it    *)
(* stands for the *dto.Session pointer that identifies its events.  A QQ   *)
(* session is named by the attempt whose Identify created it.  resume is   *)
(* [id, seq], id = 0 standing for the empty session ID.  lastError is set  *)
(* and cleared together with recovering and only worded in an error: it is *)
(* left out.  outage is time.Since(disconnectedAt) of the outage under     *)
(* way, 0 if there is none; it stops counting at the recovery timeout.     *)
(***************************************************************************)
EXTENDS Naturals

CONSTANTS
    MaxAttempts,      \* bound: WebSocket attempts of a run
    MaxSeq,           \* bound: sequenced events of a QQ session
    RecoveryTimeout   \* Gateway.recoveryTimeout, in clock ticks

ASSUME MaxAttemptsAssumption == MaxAttempts \in Nat \ {0}
ASSUME MaxSeqAssumption == MaxSeq \in Nat \ {0}
\* newGateway replaces a timeout that is not positive.
ASSUME RecoveryTimeoutAssumption == RecoveryTimeout \in Nat \ {0}

VARIABLES
    currentSession, currentSessionOpen,
    resume,
    recovering, recoveryGeneration, outage,
    fatalError,
    stateChanged       \* the one-place notification channel is full

sessionVars == <<currentSession, currentSessionOpen>>
recoveryVars == <<recovering, recoveryGeneration, outage>>
connVars == <<sessionVars, resume, recoveryVars, fatalError, stateChanged>>
-----------------------------------------------------------------------------
Attempts == 1..MaxAttempts
SessionIDs == 0..MaxAttempts
NoSession == 0
NoResume == [id |-> NoSession, seq |-> 0]
ResumePoints == [id : SessionIDs, seq : 0..MaxSeq]

ConnInit ==
    /\ currentSession = 0
    /\ currentSessionOpen = FALSE
    /\ resume = NoResume
    /\ recovering = FALSE
    /\ recoveryGeneration = 0
    /\ outage = 0
    /\ fatalError = FALSE
    /\ stateChanged = FALSE

\* The send on stateChanged; with the channel full it does nothing.
notifyStateChanged == stateChanged' = TRUE

\* Bug: a new attempt does not reopen the session.
sessionStartedClosed(attempt, point) ==
    /\ currentSession' = attempt
    /\ resume' = point
    /\ UNCHANGED <<currentSessionOpen, recoveryVars, fatalError, stateChanged>>

\* The supervisor begins an attempt from the resume point it was handed.
sessionStarted(attempt, point) ==
    /\ IF fatalError
       THEN UNCHANGED <<sessionVars, resume>>
       ELSE /\ currentSession' = attempt
            /\ currentSessionOpen' = TRUE
            /\ resume' = point
    /\ UNCHANGED <<recoveryVars, fatalError, stateChanged>>

\* Bug: every failed attempt restarts the clock of the outage.
sessionFailedRestarts(attempt, cannotResume, cannotIdentify) ==
    /\ currentSessionOpen' = FALSE
    /\ resume' = IF cannotResume THEN NoResume ELSE resume
    /\ recovering' = TRUE
    /\ recoveryGeneration' = IF recovering THEN recoveryGeneration ELSE recoveryGeneration + 1
    /\ outage' = 0
    /\ fatalError' = (fatalError \/ cannotIdentify)
    /\ UNCHANGED <<currentSession, stateChanged>>

\* The attempt is the one the state knows as current and open.
isCurrent(attempt) == attempt = currentSession /\ currentSessionOpen

\* The supervisor reports the end of an attempt: an outage begins, unless one
\* is under way, whose generation and start are kept.
sessionFailed(attempt, cannotResume, cannotIdentify) ==
    IF ~isCurrent(attempt)
    THEN UNCHANGED connVars
    ELSE /\ currentSessionOpen' = FALSE
         /\ resume' = IF cannotResume THEN NoResume ELSE resume
         /\ IF recovering
            THEN UNCHANGED recoveryVars
            ELSE /\ recovering' = TRUE
                 /\ recoveryGeneration' = recoveryGeneration + 1
                 /\ outage' = 0
         /\ fatalError' = (fatalError \/ cannotIdentify)
         /\ UNCHANGED <<currentSession, stateChanged>>

\* Bugs: the event of a closed connection, or of another one, is accepted.
acceptClosed(attempt) == attempt = currentSession /\ ~fatalError
acceptAnyAttempt(attempt) == attempt <= currentSession /\ currentSessionOpen /\ ~fatalError

\* An event counts if it was read from the attempt that is current and open.
acceptEvent(attempt) == isCurrent(attempt) /\ ~fatalError

recordSequence(seq) == IF seq > 0 THEN seq ELSE resume.seq

EndOutage == recovering' = FALSE /\ outage' = 0 /\ UNCHANGED recoveryGeneration

\* READY of the QQ session id, received by an attempt.
markReady(attempt, id, seq) ==
    /\ acceptEvent(attempt)
    /\ resume' = [id |-> id, seq |-> recordSequence(seq)]
    /\ EndOutage
    /\ UNCHANGED <<sessionVars, fatalError, stateChanged>>

\* Any other event; seq = 0 is one without a sequence number.
observeEvent(attempt, seq) ==
    /\ acceptEvent(attempt)
    /\ resume' = [resume EXCEPT !.seq = recordSequence(seq)]
    /\ EndOutage
    /\ UNCHANGED <<sessionVars, fatalError, stateChanged>>

\* The clock: an outage grows older.
AgeOutage ==
    outage' = IF recovering /\ outage < RecoveryTimeout THEN outage + 1 ELSE outage
-----------------------------------------------------------------------------
\* The connection state stays in range.
ConnTypeOK ==
    /\ currentSession \in SessionIDs
    /\ currentSessionOpen \in BOOLEAN
    /\ resume \in ResumePoints
    /\ recovering \in BOOLEAN
    /\ recoveryGeneration \in 0..MaxAttempts
    /\ outage \in 0..RecoveryTimeout
    /\ fatalError \in BOOLEAN
    /\ stateChanged \in BOOLEAN
=============================================================================
