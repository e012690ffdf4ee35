------------------------- MODULE SessionSupervisor -------------------------
(***************************************************************************)
(* localGatewaySessionManager.Start, the goroutine that owns the retries   *)
(* of the one QQ gateway session, and BotGo's event dispatch: a goroutine  *)
(* per connection that hands the events it read to the Gateway's handlers, *)
(* in order, and that may still do so when the connection is long closed.  *)
(*                                                                         *)
(*   supPC: off, starting, waiting (waitForSessionAttempt), connecting,    *)
(*     handshaking (Resume or Identify), listening, broken (the attempt    *)
(*     returned), notifying (sessionFailed, mutex released), exited        *)
(***************************************************************************)
EXTENDS ConnectionState

VARIABLES
    supPC,
    attempt,       \* number of the current attempt, 0 before the first
    supResume,     \* the local variable resume of Start
    errCh,         \* "empty", or what Start returned: "nil" or "err"
    ctxDone,       \* Run's context is done
    managerCanceled, \* cancelManager was called
    source,        \* QQ session each attempt listens to, 0 if it does not
    read,          \* sequence number of the last event dispatched to it
    handlerPC,     \* where the handler of the attempt's last event is
    ready,         \* Gateway.ready is closed
    handled,       \* history: events of each QQ session that were accepted
    invalid        \* history: QQ sessions the server refused to resume

supVars == <<supPC, attempt, supResume, errCh>>
eventVars == <<source, read, handlerPC, ready, handled>>
cancelVars == <<ctxDone, managerCanceled>>

\* managerCtx is derived from Run's context.
ManagerDone == ctxDone \/ managerCanceled

SupLocations == {"off", "starting", "waiting", "connecting", "handshaking",
                 "listening", "broken", "notifying", "exited"}
HandlerLocations == {"idle", "notify", "notifyReady", "closeReady"}
-----------------------------------------------------------------------------
SupInit ==
    /\ supPC = "off"
    /\ attempt = 0
    /\ supResume = NoResume
    /\ errCh = "empty"
    /\ ctxDone = FALSE
    /\ managerCanceled = FALSE
    /\ source = [n \in Attempts |-> NoSession]
    /\ read = [n \in Attempts |-> 0]
    /\ handlerPC = [n \in Attempts |-> "idle"]
    /\ ready = FALSE
    /\ handled = [n \in Attempts |-> 0]
    /\ invalid = {}

\* Start returns and its result is sent to the one-place channel errCh.
Exit(result) ==
    /\ supPC' = "exited"
    /\ errCh' = result
    /\ UNCHANGED <<attempt, supResume>>

Proceed(l) == supPC' = l /\ UNCHANGED <<attempt, supResume, errCh>>

\* The checks at the top of Start.  With what discover returns only a done
\* context can stop it.
Preflight ==
    /\ supPC = "starting"
    /\ IF ManagerDone THEN Exit("nil") ELSE Proceed("waiting")
    /\ UNCHANGED <<connVars, cancelVars, eventVars, invalid>>

\* waitForSessionAttempt returns false.
StopWaiting ==
    /\ supPC = "waiting"
    /\ ManagerDone
    /\ Exit("nil")
    /\ UNCHANGED <<connVars, cancelVars, eventVars, invalid>>

\* waitForSessionAttempt returns true: at once for the first attempt if the
\* context is not done, else when the interval is over, which the select may
\* prefer to a context that is done as well.
WaitIsOver == supPC = "waiting" /\ (attempt = 0 => ~ManagerDone)

\* newWebSocketAttempt and sessionStarted.
BeginAttempt ==
    /\ WaitIsOver
    /\ attempt < MaxAttempts
    /\ attempt' = attempt + 1
    /\ sessionStarted(attempt + 1, supResume)
    /\ supPC' = "connecting"
    /\ UNCHANGED <<supResume, errCh, cancelVars, eventVars, invalid>>

\* Bug: the error of the client's creation is lost.
NoClientSilently ==
    /\ WaitIsOver
    /\ Exit("nil")
    /\ UNCHANGED <<connVars, cancelVars, eventVars, invalid>>

\* BotGo creates no client.  It may fail so, but nothing makes it.
NoClient ==
    /\ WaitIsOver
    /\ Exit("err")
    /\ UNCHANGED <<connVars, cancelVars, eventVars, invalid>>

\* Connect or the handshake or Listening returns an error (or panics).
\* Connect and the handshake may also never return.
AttemptBreaks ==
    /\ supPC \in {"connecting", "handshaking", "listening"}
    /\ Proceed("broken")
    /\ UNCHANGED <<connVars, cancelVars, eventVars, invalid>>

\* Connect succeeds; the context is looked at before Resume or Identify.
Connected ==
    /\ supPC = "connecting"
    /\ IF ManagerDone THEN Exit("nil") ELSE Proceed("handshaking")
    /\ UNCHANGED <<connVars, cancelVars, eventVars, invalid>>

\* Resume, if there is a session ID, or Identify was sent; the connection now
\* carries the events after the resume point, or those of a new QQ session.
HandshakeSent ==
    /\ supPC = "handshaking"
    /\ IF ManagerDone
       THEN Exit("nil") /\ UNCHANGED eventVars
       ELSE /\ Proceed("listening")
            /\ source' = [source EXCEPT ![attempt] =
                             IF supResume.id # NoSession THEN supResume.id ELSE attempt]
            /\ read' = [read EXCEPT ![attempt] =
                           IF supResume.id # NoSession THEN supResume.seq ELSE 0]
            /\ UNCHANGED <<handlerPC, ready, handled>>
    /\ UNCHANGED <<connVars, cancelVars, invalid>>

\* Bug: only the listener is waited for.
StopListeningNever == FALSE

\* The context ends while listening; the listener is given a bounded time.
StopListening ==
    /\ supPC = "listening"
    /\ ManagerDone
    /\ Exit("nil")
    /\ UNCHANGED <<connVars, cancelVars, eventVars, invalid>>

\* The attempt ended because the context did, as far as Start can tell.
StopBroken ==
    /\ supPC = "broken"
    /\ ManagerDone
    /\ Exit("nil")
    /\ UNCHANGED <<connVars, cancelVars, eventVars, invalid>>

\* closeSessionAttempt up to the end of sessionFailed's critical section.
\* BotGo classifies the error: the QQ session cannot be resumed, the bot
\* cannot identify.  An attempt that is not current is not notified about.
ReportFailure(cannotResume, cannotIdentify) ==
    /\ supPC = "broken"
    /\ ~ManagerDone
    /\ sessionFailed(attempt, cannotResume, cannotIdentify)
    /\ supResume' = resume'
    /\ supPC' = IF isCurrent(attempt) THEN "notifying"
                ELSE IF cannotIdentify THEN "exited" ELSE "waiting"
    /\ errCh' = IF ~isCurrent(attempt) /\ cannotIdentify THEN "err" ELSE errCh
    /\ invalid' = IF cannotResume
                  THEN (invalid \cup {supResume.id, source[attempt]}) \ {NoSession}
                  ELSE invalid
    /\ UNCHANGED <<attempt, cancelVars, eventVars>>

\* Bug: nobody is told of the failure, and a fatal one is retried.
NotifyFailureNever ==
    /\ supPC = "notifying"
    /\ Proceed("waiting")
    /\ UNCHANGED <<connVars, cancelVars, eventVars, invalid>>

\* The notification at the end of sessionFailed; then Start retries, unless
\* the error was fatal.
NotifyFailure ==
    /\ supPC = "notifying"
    /\ notifyStateChanged
    /\ IF fatalError THEN Exit("err") ELSE Proceed("waiting")
    /\ UNCHANGED <<sessionVars, resume, recoveryVars, fatalError>>
    /\ UNCHANGED <<cancelVars, eventVars, invalid>>
-----------------------------------------------------------------------------
\* The READY of attempt n is the first event of the QQ session it created.
AwaitsReady(n) == source[n] = n /\ read[n] = 0

CanDispatch(n) == source[n] # NoSession /\ handlerPC[n] = "idle"

\* ReadyHandler: markReady's critical section.
DispatchReady(n) ==
    /\ CanDispatch(n)
    /\ AwaitsReady(n)
    /\ read' = [read EXCEPT ![n] = 1]
    /\ IF acceptEvent(n)
       THEN /\ markReady(n, n, 1)
            /\ handled' = [handled EXCEPT ![n] = @ + 1]
            /\ handlerPC' = [handlerPC EXCEPT ![n] = "notifyReady"]
       ELSE UNCHANGED <<connVars, handled, handlerPC>>
    /\ UNCHANGED <<supVars, cancelVars, source, ready, invalid>>

\* One of the other handlers, for the next event of the QQ session or (fresh
\* is FALSE) for one without a sequence number.
DispatchEvent(n, fresh) ==
    /\ CanDispatch(n)
    /\ ~AwaitsReady(n)
    /\ fresh => read[n] < MaxSeq
    /\ read' = IF fresh THEN [read EXCEPT ![n] = @ + 1] ELSE read
    /\ IF acceptEvent(n)
       THEN /\ observeEvent(n, IF fresh THEN read[n] + 1 ELSE 0)
            /\ handled' = IF fresh THEN [handled EXCEPT ![source[n]] = @ + 1] ELSE handled
            /\ handlerPC' = [handlerPC EXCEPT ![n] = IF recovering THEN "notify" ELSE "idle"]
       ELSE UNCHANGED <<connVars, handled, handlerPC>>
    /\ UNCHANGED <<supVars, cancelVars, source, ready, invalid>>

\* Bug: READY is announced only if its session is still open by then.
NotifyRecoveredIfOpen(n) ==
    /\ handlerPC[n] \in {"notify", "notifyReady"}
    /\ notifyStateChanged
    /\ handlerPC' = [handlerPC EXCEPT ![n] =
                        IF @ = "notifyReady" /\ currentSessionOpen THEN "closeReady" ELSE "idle"]
    /\ UNCHANGED <<sessionVars, resume, recoveryVars, fatalError>>
    /\ UNCHANGED <<supVars, cancelVars, source, read, ready, handled, invalid>>

\* The notification after the critical section.
NotifyRecovered(n) ==
    /\ handlerPC[n] \in {"notify", "notifyReady"}
    /\ notifyStateChanged
    /\ handlerPC' = [handlerPC EXCEPT ![n] = IF @ = "notify" THEN "idle" ELSE "closeReady"]
    /\ UNCHANGED <<sessionVars, resume, recoveryVars, fatalError>>
    /\ UNCHANGED <<supVars, cancelVars, source, read, ready, handled, invalid>>

\* readyOnce.Do(close(g.ready))
CloseReady(n) ==
    /\ handlerPC[n] = "closeReady"
    /\ ready' = TRUE
    /\ handlerPC' = [handlerPC EXCEPT ![n] = "idle"]
    /\ UNCHANGED <<connVars, supVars, cancelVars, source, read, handled, invalid>>
-----------------------------------------------------------------------------
\* The supervisor's own steps, which the scheduler runs.  Whether there is a
\* client, how long Connect, the handshake and Listening take, and how they end,
\* is up to BotGo and the network.
SupStep ==
    \/ Preflight \/ StopWaiting \/ BeginAttempt \/ StopListening
    \/ StopBroken \/ NotifyFailure
    \/ \E cannotResume, cannotIdentify \in BOOLEAN :
           ReportFailure(cannotResume, cannotIdentify)

NetworkStep == NoClient \/ AttemptBreaks \/ Connected \/ HandshakeSent

\* What a handler does once its critical section is over.
HandlerStep(n) == NotifyRecovered(n) \/ CloseReady(n)

Dispatch(n) == DispatchReady(n) \/ \E fresh \in BOOLEAN : DispatchEvent(n, fresh)

SupNext ==
    \/ SupStep
    \/ NetworkStep
    \/ \E n \in Attempts : HandlerStep(n) \/ Dispatch(n)
-----------------------------------------------------------------------------
\* The supervisor's and the handlers' state stays in range.
SupTypeOK ==
    /\ ConnTypeOK
    /\ supPC \in SupLocations
    /\ attempt \in 0..MaxAttempts
    /\ supResume \in ResumePoints
    /\ errCh \in {"empty", "nil", "err"}
    /\ ctxDone \in BOOLEAN
    /\ managerCanceled \in BOOLEAN
    /\ source \in [Attempts -> SessionIDs]
    /\ read \in [Attempts -> 0..MaxSeq]
    /\ handlerPC \in [Attempts -> HandlerLocations]
    /\ ready \in BOOLEAN
    /\ handled \in [Attempts -> 0..MaxSeq]
    /\ invalid \subseteq Attempts
=============================================================================
