---------------------------- MODULE ServeCommand ----------------------------
(***************************************************************************)
(* The process `gatus-qqbot serve`, from main to its exit code: it loads   *)
(* and validates the configuration, sets up the logger and the API client, *)
(* and then runs ServeServices with what it has read.  Until phase is      *)
(* "serving" no service has been started: the variables of ServeServices   *)
(* have their initial values, except that the signal may have come.        *)
(***************************************************************************)
EXTENDS ServeServices, ServeConfig

CONSTANT Files  \* configuration files the command may be started with

\* The TOML decoder yields values of the fields' types, or fails.
ASSUME FilesAssumption == \A f \in Files : LoadFails(f) \/ Load(f) \in Config

VARIABLES
    phase,      \* the call RunE is in, or "exited"
    file,       \* the configuration file
    exitCode    \* of the process; 0 until it exits

commandVars == <<phase, file, exitCode>>
allVars == <<vars, commandVars>>

cfg == Load(file)

\* What the services are started with.  The errors of the four durations are
\* discarded here.
options ==
    [token           |-> cfg.auth_token,
     host            |-> cfg.address.word,
     port            |-> cfg.port,
     alertPath       |-> cfg.alert_path,
     maxBodyBytes    |-> cfg.max_body_bytes,
     maxLength       |-> cfg.max_length,
     targets         |-> cfg.targets,
     maxPending      |-> cfg.max_pending_alerts,
     requestTimeout  |-> RequestTimeout(cfg).value,
     deliveryTimeout |-> DeliveryTimeout(cfg).value,
     readyTimeout    |-> GatewayReadyTimeout(cfg).value,
     shutdownTimeout |-> ShutdownTimeout(cfg).value]
-----------------------------------------------------------------------------
CommandInit ==
    /\ Init
    /\ phase = "loading"
    /\ file \in Files
    /\ exitCode = 0

\* One call of RunE: it fails, and main exits with status 1, or the next one
\* is made.
Call(this, fails, next) ==
    /\ phase = this
    /\ phase' = IF fails THEN "exited" ELSE next
    /\ exitCode' = IF fails THEN 1 ELSE 0
    /\ UNCHANGED <<vars, file>>

LoadConfig == Call("loading", LoadFails(file), "validating")

Validate == Call("validating", ValidateServe(cfg) # {}, "logging")

NewLogger == Call("logging", LoggerFails(cfg), "connecting")

\* NewClient up to the token request.
Connect == Call("connecting", ctxDone, "authenticating")

\* The token request, which takes no context, ends; the services are started.
Authenticate == \E rejected \in BOOLEAN : Call("authenticating", rejected \/ ctxDone, "serving")

WhileServing(A) == phase = "serving" /\ A /\ UNCHANGED commandVars

Serve == WhileServing(Serving)

\* The error of runServeServices becomes the exit status.
Exit ==
    /\ pc = "returned"
    /\ Call("serving", exit # {}, "exited")

SignalCommand ==
    /\ phase # "exited"
    /\ Signal
    /\ UNCHANGED commandVars

Exited == phase = "exited" /\ UNCHANGED allVars

StartUp == LoadConfig \/ Validate \/ NewLogger \/ Connect

CommandNext == StartUp \/ Authenticate \/ Serve \/ Exit \/ SignalCommand \/ Exited

CommandSpec == CommandInit /\ [][CommandNext]_allVars

\* RunE proceeds, its timer fires, and a service that is told to stop returns,
\* as Service and ReadyService promise.  Nothing makes a gateway become ready,
\* and nothing bounds the token request.
CommandFairness ==
    /\ WF_allVars(StartUp \/ Exit)
    /\ WF_allVars(WhileServing(Step))
    /\ WF_allVars(WhileServing(TimerFires))
    /\ WF_allVars(WhileServing(RunDone /\ GatewayReturns))
    /\ WF_allVars(WhileServing(RunDone /\ HttpReturns))

FairCommandSpec == CommandSpec /\ CommandFairness
-----------------------------------------------------------------------------
\* The exit status is 0 exactly if the services were started, the process was
\* told to stop, and nothing failed: not while starting, not while stopping,
\* nor in the moment before the signal.  A service that ends first because of
\* the signal is not taken for a failure.
ExitStatusIsTruthful ==
    phase = "exited" =>
        (exitCode = 0 <=>
            /\ pc = "returned"
            /\ ctxDone
            /\ gateway # "error"
            /\ http # "error"
            /\ timer # "seen")

\* The mux takes the path for a plain one (no method, host or wildcard in it),
\* tells it from "/", where it has its other handler, and sends it requests as
\* they come: it is the clean path of some request URI.
ServesRequests(path) ==
    /\ path.absolute /\ ~path.special
    /\ ~path.root
    /\ path.clean /\ path.parses

\* Whatever the file says, services are started only with options they can work
\* with: what Sender, Gateway, HTTPServer and MessageFormat assume of their
\* parameters, a path at which the mux of NewHandler serves the alerts, and no
\* open door: without a token only the machine itself can connect.
StartedIsUsable ==
    phase = "serving" =>
        /\ options.targets # <<>>
        /\ IsInjective([i \in DOMAIN options.targets |-> TargetKey(options.targets[i])])
        /\ \A t \in ToSet(options.targets) :
               t.type \in {"channel", "group", "user"} /\ t.id # Empty /\ ~t.id.padded
        /\ options.maxPending \in 0..maxPendingAlerts
        /\ \A d \in {options.requestTimeout, options.deliveryTimeout,
                     options.readyTimeout, options.shutdownTimeout} : d > 0
        /\ options.maxLength >= 64 /\ options.maxBodyBytes > 0
        /\ 1 <= options.port /\ options.port <= 65535
        /\ ServesRequests(options.alertPath)
        /\ options.token = Empty => options.host \in LoopbackHosts

\* The signal ends the command, in whatever phase it comes, unless a token
\* request is under way that is never answered.
SignalEndsCommand == ctxDone /\ phase # "authenticating" ~> phase = "exited"
=============================================================================
