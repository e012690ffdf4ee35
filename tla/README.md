# Formal model of gatus-qqbot

gatus-qqbot receives alerts from Gatus over HTTP and forwards each one to a
list of QQ users, groups or channels, while it keeps a WebSocket session to the
QQ gateway alive. This directory holds TLA+ modules of both its commands, from the
configuration file to the exit status, the TLC configurations that check them, and
proofs for TLAPS. `PROJECT.json`
maps every definition to the source lines it stands for and lists the runs,
the mutants that show each property can fail, the hazards and the theorems.

- [1. The system](#1-the-system): components, state, operations, what is hard
- [2. The modules](#2-the-modules): what models what, and how
- [3. What the runs check](#3-what-the-runs-check): bounds, fairness, results
- [4. What is proved](#4-what-is-proved)
- [5. What is not modelled](#5-what-is-not-modelled), and the plan

Paths below are relative to `src/`.

## 1. The system

### Components

| Component | Source | State | Operations |
|---|---|---|---|
| Delivery queue | `internal/qqbot/sender.go` | two channels used as semaphores: `admission` (capacity `max_pending_alerts + 1`) and `gate` (capacity 1) | `Send`, called by one goroutine per HTTP request |
| Alert endpoint | `internal/server/handler.go` | none shared; a delivery context per request | screening, decoding, `Send`, mapping of errors to status codes |
| Gateway connection state | `internal/qqbot/gateway.go` | `stateMu`-guarded record (current session, open flag, resume point, recovering, generation, disconnect time, errors), `ready` channel, one-place `stateChanged` channel | `sessionStarted`, `sessionFailed`, `markReady`, `observeEvent`, `connectionState` |
| Session supervisor | `internal/qqbot/gateway_session.go` | loop variables `attempt`, `resume`; its result channel | `Start`: connect, Resume or Identify, listen, report, wait, retry |
| Gateway watchdog | `internal/qqbot/gateway.go`, `Run` | recovery timer and the generation it was set for | a select over context, supervisor result, notification and timer |
| Service orchestration | `internal/cli/services.go`, `root.go` | result channel, run context, start-up timer | start the gateway, wait for READY, start the HTTP server, stop both |
| HTTP server lifecycle | `internal/server/server.go` | listener, `http.Server` | listen, serve, graceful shutdown with a timeout, forced close |
| QR binding | `internal/qqbot/auth.go`, `cli/root.go` | current task and its key | create a task, show it, poll, replace it when it expires, write the credentials |
| Message formatting | `internal/gatus/alert.go` | none | validation, normalisation, prefix, truncation |
| Configuration | `internal/config/config.go` | none | parsing, defaults, validation |
| API client | `internal/qqbot/api.go` | SDK configuration, token source | `NewClient`: one token request between two looks at the context |
| Command line, logging | `cmd/gatus-qqbot/main.go`, `cli/root.go`, `internal/logging` | signal context | `serve` and `auth`, from the flags to the exit status |

### How they interact

- Each HTTP request is a goroutine. It calls `Sender.Send` under a context that
  has `delivery_timeout` and is derived from a service-wide delivery context,
  which is detached from the service's own and canceled only when the HTTP
  server has drained. The goroutines meet in the two channels of `Sender`.
- The gateway runs the supervisor in a goroutine, BotGo runs one dispatch
  goroutine per connection, and `Run` is a third. They share the guarded record;
  a change is announced on `stateChanged` *after* the mutex is released, and
  notifications coalesce because the channel has one place.
- BotGo can hand over events of a connection that was closed or replaced long
  ago. The handlers recognise them by the session pointer in the payload.
- The orchestrator starts the HTTP server only once the gateway has announced
  READY, and cancels both when either ends.
- `serve` starts all of this only with a configuration that `ValidateServe` accepts.
  The constructors check nothing again, and `root.go` discards the errors of the
  durations it parses: what the other components assume of their parameters rests
  on the validation alone.
- A client that disconnects ends the context of its request, not the delivery, which
  goes on and holds up a graceful shutdown until it is over.

### What is hard, and what makes each component correct

*Delivery queue.* Four exit paths hold none, one or both of the slots; deadlines
and shutdown may strike at every select, in the middle of an API call or together
with its success. Correct means: one delivery at a time, at most
`max_pending_alerts` waiting, no slot leaked or given back twice, a nil error
exactly if every target acknowledged, no target skipped because of another, and
every call returning.

*Alert endpoint.* 202 must mean "all targets have it", 503 (with `Retry-After`)
must be safe to follow as the service is not idempotent, the order of the checks
must not tell a client without the token anything about its body, and every
request must be answered.

*Gateway.* The outage clock must survive failed reconnects and restart with each
new outage; a late timer must not end a later outage; no notification may be lost
in the gap between the mutex and the channel; late events must neither end an
outage nor move the resume point; a QQ session that cannot be resumed must be
forgotten; a fatal error shows itself in three ways and must be reported as such
whichever is seen first; shutdown must not depend on `Connect`, which takes no
context, and a canceled supervisor that started one more attempt must not go on
with it.

*Orchestration and HTTP lifecycle.* READY, failure, timeout and cancellation can all
be pending at one select; both services must be stopped and waited for in each
case, and deliveries canceled only after the drain.

*QR binding.* A replaced code has a new key; a result must be decrypted with the
key of its own task, and the flow must end only on success, error or cancellation.
The credentials of a scan can be had once: the command must not report success
without having written them.

*Formatting.* A pure function with edges: a limit below the length of the suffix, a
prefix that fills the limit, a limit of zero; white space of any kind within the
fields, and fields that look like another line when the text is parsed for the log.

*Configuration and start-up.* Every combination of keys that passes validation must
be one the services can work with, and the signal must end the command in whatever
phase of the start-up it comes.

`PROJECT.json` lists each of these under "hazards" at the line where it bites.

## 2. The modules

```
DeliveryQueue  <==implements==  Sender  <-- AlertHandler <-- HTTPServer
                                  ^
                                  +-- SenderRefinement

ConnectionState <-- SessionSupervisor <-- Gateway <-- GatewayRefinement
Service <-- ReadyService  <==implements== Gateway
Service <==implements== HTTPServer
ServeServices --instantiates--> ReadyService (gateway), Service (HTTP server)
ServeServices, ServeConfig <-- ServeCommand
QRBinding <-- AuthCommand

Proofs:
SenderProofs           extends Sender
SenderRefinementProofs extends SenderProofs, SenderRefinement
AlertProofs            extends SenderProofs, AlertHandler
ServerProofs           extends AlertProofs, HTTPServer
GatewayProofs          extends GatewayRefinement
ServeProofs            extends ServeCommand
AuthProofs             extends AuthCommand
MessageProofs          extends MessageFormat
```

### Sender

One call of `Send` per alert; `pc[a]` is the statement its goroutine executes
next. Every step that reads or writes something another goroutine can change is
an action: the two selects, the two `ctx.Err()` looks, the loop head, the start
and the return of an API call, the two deferred releases. `admission` and `gate`
are the numbers of values in the channels and are kept apart from `pc` on
purpose: that the two agree (`SlotsMatch`) is a property, not a definition.

- A select with several ready cases is a choice, as in Go: `AdmitDone` is
  possible though a slot is free, `TakeGate` though the context is done.
- `default` of the admission select (`Refuse`) is enabled only if no other case
  is ready.
- The blocked senders on `gate` are in fact served in the order in which they
  came; the model lets any of them be next, which covers that order.
- Errors are sets of kinds, namely what `errors.Is` distinguishes in the handler:
  queue full, deadline, canceled, any other. An API call may fail with a deadline
  of its own (`request_timeout`), but with "canceled" only if its context is.
- A target is its position in the list; its type, the message and logging are
  left out.
- `Expire` is the delivery timeout, `CancelDeliveries` the end of the service's
  delivery context. When that happens is left open.

`DeliveryQueue` is the contract: a room of limited capacity, serial service,
targets in order and at most once, a verdict that is the truth, refusal only by a
full room. It has neither channels nor contexts. `SenderRefinement` maps an alert
to "inside" while it holds an admission slot and "served" while it holds the gate.

### AlertHandler

Extends `Sender` with the request and the response of each alert. Screening
touches no shared state and is one step; its order is the code's: path, method,
token, content type, body. `Requests` ranges over records of what the handler
tells apart. A body is described by the first thing wrong with it. `SendStatus`
is the switch over the error of `Send`.

### ConnectionState, SessionSupervisor, Gateway

`ConnectionState` has the guarded record and one operator per critical section.
`SessionSupervisor` adds the goroutine of `Start`, one action per blocking call,
and BotGo's dispatch. `Gateway` adds `Run` and the clock; it has `Spec`.

- A WebSocket attempt is its number, which stands for the `*dto.Session` pointer
  by which events are recognised. A QQ session is named after the attempt whose
  Identify created it, 0 is the empty session ID.
- `source[n]` is the QQ session attempt `n` listens to and `read[n]` the last
  sequence number dispatched to it. An attempt that resumes starts from the
  resume point it was given. Dispatch goes on after the attempt has ended.
- The mutex is released before the notification, so a handler passes through
  `handlerPC` (notification, then closing `ready`) and the supervisor through
  `notifying`: everything else may happen in between.
- `Run`'s two cases that read the state are split where the code can be
  overtaken: taking the case, `ctx.Err()`, `connectionState()`, and for the
  returns `cancelManager()`. The case of the supervisor's result is one step, as
  nothing it reads can change any more except ctx, which it reads first.
- Time: `outage` is `time.Since(disconnectedAt)` in ticks, `timerLeft` what is
  left of the recovery timer. `Tick` moves both. A timer at 0 has fired; the
  select may see it any time later. The clock of an outage stops at the timeout,
  as only "has it lasted that long" is looked at.
- `handled` and `invalid` are history variables that no guard reads: how many
  events of each QQ session were accepted, and which were refused by the server.
- Panics of BotGo are errors of the call they happen in, as the code makes them.
- `lastError` is set and cleared with `recovering` and only appears in a message;
  it is left out. `sessionFailed`'s early return for an attempt that is not
  current is modelled and shown to be unreachable (`ReportsCurrentAttempt`).
- BotGo (`Connect`, `Resume`, `Identify`, `Listening`, and how an error is
  classified) is not part of the repository: every outcome the code allows for is
  possible, and the calls may block for ever.

### Service, ReadyService, ServeServices

`Service` is what the orchestrator relies on: `Run` returns nil, or an error that
wraps `context.Canceled`, only when its context is done, and does return then.
`ReadyService` adds READY, announced at most once and never taken back.
`GatewayRefinement` maps `Gateway` to it, `HTTPServer` has its mapping to `Service`.

`ServeServices` is `runServeServices` over one of each. It instantiates the two
contracts and uses their `Announce` and `Return` actions for the environment, so
what is checked of it holds for every pair of services that keep them. The results
channel is a sequence; a service's return and its send are one step, as the channel
never fills. `exit` is the set of failures joined in the error.

### ServeConfig, ServeCommand

`ServeConfig` is package config as operators: defaults, what a file amounts to, and
one operator per validation function. Values are described by what validation tells
apart: a text is a word with or without white space around it, a duration a number
of seconds or not a duration, the alert path the answers to the questions
`validHTTPPath` asks of it. `ValidateServe` is the set of the keys at fault. The loop
over the targets is given in closed form: `seen(targets, i)` is the map `seen` when the
loop comes to the i-th target, which holds the keys of the targets before it, without
those that `continue` leaves out. Letter case is told apart only where a run has it
(`Lower`), and `LoopbackHosts` stands for every spelling of localhost and every loopback
address. `Config` has the types the TOML decoder enforces;
that a file which can be loaded has them is an assumption on `Files`.

`ServeCommand` is the process: one action per call of `RunE`, each of which ends it
with status 1 or goes on to the next, and then `ServeServices`. `options` is what the
services are started with, computed from the file as `root.go` does, errors of the
durations discarded; `ServesRequests` says what the mux of `NewHandler` needs of the
alert path beside its own "/". The token request may be rejected, or never end. The second
look at the context, after it, belongs to the same step.

### HTTPServer

Extends `AlertHandler` with `server.Run`, the function in `root.go` around it, and
one connection per alert. It takes the place of the open-ended `CancelDeliveries`
of `Sender`: here that is the deferred call after `Run`. `runDone` is the service's
context, from which `newDeliveryContext` detaches the deliveries. net/http is
modelled by what `Run` uses: `Serve` accepts until the listener is closed or fails;
`Shutdown` closes it and waits for connections that carry a request; `Close` cuts
connections but stops no handler. A connection accepted before the shutdown may
still turn active during it. A client may leave while its request is handled: the
connection counts as busy until the handler has answered, and the delivery goes on.
(A client that leaves while it is still sending is a body that cannot be read.)

### QRBinding, AuthCommand

`Connect` with its polls and pauses, and the portal as far as the program can tell:
codes are scanned or expire at any time, requests fail at any time. A reply to a poll
is a record of what `postJSON`, `pollBindResult`, `stringOrNumber`, `waitForBinding`
and `decryptBindSecret` tell apart; `Outcome` is what becomes of it, and the actions
are enabled by the outcomes that some possible reply has. The portal does not lie
about the status of a task. A task is its number, a key the number of the call that
made it; a secret opens with the key the portal has for its task. A bind that was
completed does not expire any more.

`AuthCommand` adds the writing of the credentials and the exit status. Each write may
fail. A failure to show a code is ignored by the code, and invisible in the model.

### MessageFormat

Package gatus and its use in `handler.alert`: from the body to the message for `Send`
and the two fields for the log, or the refusal with 422. A text is a sequence of
characters of the kinds the code tells apart; words it compares with ("Endpoint", the
states, the labels) count as one character each. `body`, `prefix` and `limit` are
chosen at the start, so a run is a check of the functions over all the inputs of the
instance. `BestFit` is the reference definition of truncation. `Characters` stands for
all of Unicode; the run takes the two dozen the code and its inputs tell apart.

## 3. What the runs check

| Run | Module | Bounds | Shows |
|---|---|---|---|
| `sender_safety` | `MCSender` | 3 alerts, 2 targets, 1 pending | serial delivery, queue bound, slots, exact report, no target skipped |
| `sender_queue` | `MCSender` | 3 alerts, 2 targets, 1 pending | `Sender` implements `DeliveryQueue` |
| `sender_doc_queue` | `MCSender` | 3 alerts, 1 target, 1 pending | a counterexample, see below |
| `handler_screening` | `MCAlertHandler` | 1 alert, every request | what a client without the token learns |
| `handler_delivery` | `MCAlertHandler` | 3 alerts, 1 target, 1 pending | refusals are safe to retry, every request is answered |
| `gateway_safety` | `Gateway` | 3 attempts, 2 events per QQ session, timeout 1 | resume point, late events, invalid sessions, notifications, which result `Run` returns |
| `gateway_liveness` | `GatewayRefinement` | 2 attempts, 1 event, timeout 2 | a late timer ends no later outage, outages end, a fatal error is what `Run` reports, a canceled supervisor stops, READY, `ReadyService` |
| `serve` | `MCServeCommand` | about 1000 files: two keys off a minimal one | services start only with usable options; every way out awaits what was started; exit status; the signal ends the command |
| `server` | `MCHTTPServer` | 2 requests, 2 targets, 1 pending; clients may leave | graceful drain, 202 is exact, deliveries canceled only by a forced end, nothing posted after the end, `HTTPServer` implements `Service` |
| `binding` | `AuthCommand` | 4 tasks, every reply | code, task and key belong together; no code abandoned; status 0 means credentials written; cancellation |
| `binding_doc` | `QRBinding` | 4 tasks | a counterexample, see below |
| `message` | `MCMessageFormat` | names up to 2 characters, texts up to 3 or 6, limits 0 to 60 | truncation is the best fit, the state survives it, log fields agree for both body types |

**Bounds of the sender.** With one pending place, three alerts are one active, one
waiting and one refused, and one that leaves while another is active; a fourth
adds no new situation at a channel. Two targets give failure before success,
success before failure, and time running out between the two. The other limit, no
pending place at all, is covered by the theorems, which hold for every limit. The
safety run uses the symmetry of the alerts; runs with temporal properties do not.

**Bounds of the gateway.** `MaxAttempts` caps the supervisor's loop: after the last
attempt it may stay in `waiting` for ever, as if the reconnect interval lasted longer
than the run (`NoClient` is still possible there, but not owed). Three attempts are
enough for a connection that resumes one session and is itself replaced, with late
events of both predecessors, and for two outages separated by a recovery and followed
by another. `MaxSeq = 2` is READY and one event after it, so that an event skipped or
taken twice shows. The liveness run has two attempts, that is two outages with a
recovery between them; the second is ended by the watchdog alone, as no attempt is left
that could end it. It has a timeout of 2 ticks, which distinguishes a timer armed afresh
from one armed for what is left.

**Deadlock** is checked in every run; the systems end in an explicit `Finished`
step once nothing more can happen (for `Sender`: every call returned and the
service canceled).

**Fairness.** Only what the scheduler and the code's own timers guarantee is
assumed, always weak:
- the goroutine of a call runs (`Step`), the timer of a delivery context fires
  (`Expire`), and an API call returns once its context is done. While the context
  is live it may hang for ever. Nothing is assumed about who gets the gate: that
  calls return nonetheless is due to the deadline of each.
- the handler's goroutine runs; a body cannot be withheld for ever because the
  server sets `ReadTimeout`.
- `Run` runs, and its discovery request is bounded by `request_timeout`; the
  supervisor runs between its blocking calls; an event handler that has begun
  finishes; time passes. Whether BotGo creates a client (`NoClient`), `Connect`, the
  handshake, the network and the arrival of events owe nothing: no outage ends because
  the model forces the supervisor to fail.
- the orchestrator runs and its timer fires; the services stop when told to, which
  is what their contracts say and `gateway_liveness` and `server` check. The
  HTTP server needs no fairness of its handlers: its shutdown is bounded.
- `serve` proceeds through its start-up, but nothing bounds the token request, which
  takes no context (`api.go:43`): `SignalEndsCommand` is about all other phases.
- `Connect` of the QR binding runs, and each of its requests ends with its timeout;
  the `auth` command's own steps are taken.

**Bounds of the server and the binding.** Two requests are one that is being handled
and one that is accepted, refused or still silent when the shutdown begins. Four
tasks are a first code and three replacements, more than needed for a stale key or a
stale code to show.

**Bounds of the configuration and the messages.** Each key takes the boundaries of what
is accepted and the values just past them; two keys at a time cover the one rule that
relates two keys (the token and the address) and every pair of faults. The lists of
targets have up to three entries, so that a duplicate need not be a neighbour. The
characters are all kinds the formatting tells apart; white space in every position of
a name meets `TrimSpace`, `Fields` and the line breaks; the limits lie below, at and
just above the length of the suffix, inside the prefix, inside the fields, and above
everything. `message.max_length` is at least 64 by validation; the model checks the
small limits `truncate` is written for as well, and stands for long texts with them.

**Divergences from the documentation.** `config.example.toml:14` says of
`max_pending_alerts`: "Waiting alerts only; the one active delivery is not
counted." A call gives back its admission slot last (the deferred receive at
`sender.go:49`). The shortest counterexample (`sender_doc_queue`): one alert is being
delivered, a second waits until its context ends and takes the `ctx.Done()` case
(`sender.go:58`-`59`); it neither waits nor is active now, but still occupies a place,
so with one pending place a third alert is refused although nobody waits. An alert
that has been delivered and has released the gate (`sender.go:57`) does the same while
the next one is active. The bound is never exceeded in the other direction
(`PendingBound`), and the contract that does hold is `DeliveryQueue`'s: a refusal
happens only while the room of `max_pending_alerts + 1`, leaving alerts
included, is full.

`auth.go:83` says of `Connect`: "An expired QR code is replaced automatically until
binding succeeds or ctx is canceled." If the request for a replacement fails once,
`Connect` returns its error, though polls are retried on every error
(`binding_doc`).

Everything else that was checked holds. Each property has a mutant, a plausible
slip in the code, under which its run fails. The mutants stand in the modules
before the definition they replace, under comments that begin with "Bug".

## 4. What is proved

Every invariant and every action property of the passing runs is proved for all values
of the constants; so are the refinement of `DeliveryQueue` and
the safety of the two service contracts. `PROJECT.json` lists the theorems.

The assumptions are those the modules declare, and TLC evaluates them in the runs:
finitely many alerts; at least one target and a limit that is not negative
(`config.ValidateServe` enforces both); requests are records of what the handler tells
apart; at least one attempt, event, task and tick of the recovery timeout
(`ValidateServe` refuses timeouts that are not positive); a file that can be loaded has
the types of `Config`; bodies and prefixes are texts over `Characters`, which contains
the characters `Format` adds. The number of attempts, of events and of QR codes is bounded in
the models but by a constant, so the theorems hold for every bound.

### The sender (`SenderProofs`)

- `TypeCorrect`, `SlotsAreReturned`, `MutualExclusion`, `QueueIsBounded`,
  `ExactReport`, `NoTargetSkipped`: `Spec => []P` for the type invariant and every
  safety invariant of `sender_safety`.
- `Bookkeeping`: `Spec => []IInv`, the inductive invariant they follow from.

None of the invariants is inductive alone. Mutual exclusion rests
on the gate channel, so `IInv` contains `SlotsMatch`: the channels hold as many
values as there are calls at locations that still have to give one back. From
this, and the capacity the sends respect, at most one call holds the gate, and at
most `max_pending_alerts + 1` are admitted; one of them being the active one, the
rest wait. The lemmas on the cardinality of the holders (one joins, one leaves,
none changes) carry the step. The exactness of the report needs to be known
throughout the loop and not only at the end: `ReportSoFar` says that the targets
acknowledged are among those tried, and that the collected errors are empty
exactly if all those tried so far, the one in flight aside, acknowledged.
`SideFacts` adds what the modules above rely on: a call refused by the full queue has
tried no target and is over (`RefusedUntried`), and a call has a context from its first
statement on, none that is live once the service's deliveries are canceled
(`ContextsFollow`).

### Sender implements DeliveryQueue (`SenderRefinementProofs`)

`SendImplementsQueue` is `Spec => ImplementsQueue`, the property of `sender_queue`, in
full, since the contract is a safety specification. `Phases` tells which phase of the
contract each location of `Send` is; then there is one lemma per kind of step, and each
maps to one step of the contract or to none. Two directions need the invariant. A
refusal is allowed by the contract only if the room is full, and the code refuses if
the admission channel is: `SlotsMatch` makes one of the other. Service may begin only
if nobody is served: the same for the gate.

### The endpoint and the server (`AlertProofs`, `ServerProofs`)

`HandlerIsSender` and `ServerIsHandler` show `ServerSpec => HSpec => Spec`: the server
takes only the handler's steps and the handler only Sender's, so every theorem about a
lower module holds in the ones above, and an invariant of theirs has only to add what
is new.

- `AnswersFollow`: a response is the one screening calls for, and then the call never
  began, or it is `SendStatus` of the report of a call that is over. `AcceptedMeansDelivered`
  follows with `ExactReport`, `SafeRetry` with `RefusedUntried`, `NothingForUnauthorized`
  from the order of the checks alone (`ScreenCodes`).
- `ServerKeepsItsBooks`: `ServerInv` relates the state of each connection to the request
  it carries and its answer, and the place `Run` has reached to both. `Settled` in it is
  the reason for `GracefulDrain`: once `Shutdown` has found every connection idle, and
  the listener is closed, no connection is busy and none becomes busy again.
  `OnlyForceCancels` needs the same: if the server ends with nil, no call is under way
  any more that the deferred cancellation could hit (`SettledIsQuiet`). `EndIsQuiet` is an action property and follows
  from `ContextsFollow`. `ServedMeansDelivered` is the handler's theorem.
- `ServerIsService` is the safety part of the property `ImplementsService`.

### The gateway (`GatewayProofs`)

The invariant `IInv` has three parts beside the types. TLC checked it over 5 million
states before it was proved.

- `SessionInv` ties the supervisor's location to the guarded record: which attempt is
  current and whether it is open; that the resume point is the supervisor's own between
  attempts and until the handshake is sent (`HandedOver`), and then follows what the
  attempt reads (`Followed`); that attempt `n` listens to a QQ session of an attempt no
  later than `n`; that refused sessions are of attempts that have failed. Without
  `HandedOver` and `Followed`, `ResumeIsExact` is not inductive: late events of
  replaced connections are rejected by what the record says of the current one.
- `TimerInv` says that the timer set, or just seen to fire, is that of an outage no
  later than the present one, and in step with the clock if it is this one's. The
  delicate moment is between the case of the select and `connectionState()`, when the
  outage may end and another begin: `byTimer` and the generation keep them apart. From
  it come `OutageWatched` and the action property `GivesUpAfterTimeoutOnly`.
- `ResultInv` says why the supervisor and `Run` stop, for `StopsOnRequestOnly` and for
  the action property `FatalReported`, which goes through every step that decides what
  `Run` returns: both cases of the select that read the state, and the supervisor's.

`OutageClockKept` adds that no failed reconnect restarts the clock of an outage; in the
runs `OutageIsWatched` would show it, as the timer would be out of step.
`GatewayIsReadyService` is the safety part of `ImplementsReadyService`.

### The serve command (`ServeProofs`)

`ServeServices` runs the contracts `ReadyService` and `Service`; with
`GatewayIsReadyService` and `ServerIsService`, what is proved here holds of the command
with the two services it has.

- `ServicesAccounted`: `Pending` says for every place which results are in the channel
  and which has been received. A receive that took one service for the other, or a
  second receive with nothing to come, would contradict it. `Stops` says what the place
  tells of why the services were stopped, `Verdict` what the joined error tells.
  `AllAwaited` and `TruthfulExit` follow.
- `UsableStart`: `FileInv` says that by the phase `serving` the file has been loaded and
  validated. The rest is about `ValidateServe` alone: every condition on the options
  follows from the absence of the fault for its key, and that no target is given twice
  from `seen` (`GoodTargets`).

### The auth command (`AuthProofs`)

`AuthProofs` proves the three safety properties of `binding` for any number of QR codes
(`ScansSucceed`, `ReportsAreTrue`, `NoScanAbandoned`), from the invariant
`AuthBookkeeping`. `ScanCanSucceed` alone is not inductive: it needs `KeysMatch`, that
the program's key is the current task's and the portal has it, and `EarlierExpired`,
that every earlier code has expired, hence stays so. `OutcomesTell` is the lemma on
the replies: what `Outcome` makes of one reflects the portal's state, since a reply
that passes all checks carries the true status.

### Messages (`MessageProofs`)

The three invariants of `message`, for all alerts, texts, prefixes and limits, over any
set of characters. That a message is what the functions of package gatus make of the
body is a plain invariant (`MessageInv`); the work is in the functions.

`oneLine`, `Join` and `Lines` are `FoldLeft`s, `multiLine` a `FlattenSeq`: each is the
value of a function that is chosen because it satisfies a recursive equation. The
library's induction theorems have an operator as a parameter, which the provers cannot
instantiate, so `NatInduct` states induction for a *set* of numbers, from
`WFMin` and `NatLessThanWellFounded`. With it `FoldExists` builds a function for a given
sequence and step, hence the chosen function satisfies its equation, and `FoldResult`
turns the equation into steps: `g[m]` from `g[m - 1]` and the m-th element. `Squeezing`,
`Joining`, `Adding`, `Flattened` and `Showing` say this of each of the folds. From there,
`StepsStay` is the induction for what the steps keep, `SameSteps` the one for two folds
that run alongside.

- `TruncateIsBestFit`: `truncate` satisfies `BestFit`, split at the three branches of
  the code. `MessagesFit` follows, since what is truncated is a text (`Formatted`).
- `StatesSurvive`: `StateFirst`, the state opens what `Format` joins; `BeginningStays`,
  truncation keeps a beginning that leaves room for the suffix; `ShownOneLine`, squeezing
  white space hides nothing.
- `LogsAgreeAlways`: `oneLine` leaves words with single spaces (`OneLineNeat`),
  `multiLine` a text without CR (`MultiLineSolid`), both without white space at the ends,
  and both leave such texts alone (`NeatStays`, `SolidStays`). Hence the formatted
  alert is parsed as it was written. `LinesConcat`, that the lines of two texts
  joined are those of both, then finds state and endpoint on the first two lines
  (`HeadingLines`), and no later line comes before them, whatever it looks like.

### What is only model-checked

- Liveness: `EveryRequestIsAnswered`, `OutageEnds`, `AcceptedReadyIsAnnounced`,
  `CanceledSupervisorStops`, `ServicesEndTogether`, `SignalEndsCommand`, `CancelEndsCommand`, and the fairness in `ImplementsService` and
  `ImplementsReadyService`. The prover has no rules for fairness and `ENABLED`.
- The two counterexamples to the documentation.

## 5. What is not modelled

- Headers, log lines, the JSON and TOML parsers, cryptography: by their verdicts only.
  Target types, which the loop of `Send` treats alike.
- The SDK objects `NewClient` builds, the log adapters (`log.go`), flags and help.
- `groupOpenIDFromEvent` and the contents of events: the handlers only log them.
- The end of the process, which stops whatever is left of the handlers and of a
  supervisor that is stuck in `Connect`.
- BotGo, the QQ API, `net/http` beyond the outcomes the code handles.

### Plan

Done, in this order: `Sender` with its contract and proofs, `AlertHandler`, the
gateway's three modules with `ReadyService`, `ServeServices`, `HTTPServer`,
`QRBinding`; then `MessageFormat`, `ServeConfig`, `ServeCommand`, `AuthCommand`, and
clients that leave in `HTTPServer`.

Then the proofs: `Sender`, `truncate` and `AuthCommand` first; the refinement of
`DeliveryQueue`, `AlertHandler`, `HTTPServer`, the gateway and `ServeCommand` after
them; `MessageFormat` last, with the lemmas on folds.

What is left: the lemmas on folds and induction depend on nothing of `MessageFormat`
and would serve any module that folds over a sequence.
