----------------------------- MODULE ServeConfig -----------------------------
(***************************************************************************)
(* Package config: what a configuration file amounts to and whether the    *)
(* serve command accepts it.                                               *)
(*                                                                         *)
(* Values are described by what validation tells apart.  A text has a word *)
(* ("" if it is blank) and may be padded with white space; a duration is   *)
(* a number of seconds if it parses; of the alert path there are the       *)
(* answers to the questions validHTTPPath asks.                            *)
(***************************************************************************)
EXTENDS Integers, SequencesExt

Plain(word) == [word |-> word, padded |-> FALSE]
Empty == Plain("")
TrimSpace(text) == [text EXCEPT !.padded = FALSE]
Seconds(n) == [parses |-> TRUE, value |-> n]

\* The types of the fields, which the TOML decoder enforces.
Text == [word : STRING, padded : BOOLEAN]
Duration == [parses : BOOLEAN, value : Int]
Path == [root : BOOLEAN, absolute : BOOLEAN, clean : BOOLEAN, special : BOOLEAN, parses : BOOLEAN]
TargetConfig == [name : Text, type : STRING, id : Text]

Config ==
    [address : Text, port : Int, alert_path : Path, auth_token : Text,
     max_body_bytes : Int, shutdown_timeout : Duration,
     app_id : Text, app_secret : Text,
     request_timeout : Duration, delivery_timeout : Duration,
     max_pending_alerts : Int, gateway_ready_timeout : Duration,
     targets : Seq(TargetConfig), max_length : Int,
     log_level : STRING, log_format : STRING]

LoopbackHosts == {"localhost", "127.0.0.1", "::1"}
SplitHosts == {"local\nhost"}

CleanPath == [root |-> FALSE, absolute |-> TRUE, clean |-> TRUE, special |-> FALSE, parses |-> TRUE]

maxPendingAlerts == 10000

defaults ==
    [address               |-> Plain("127.0.0.1"),
     port                  |-> 8080,
     alert_path            |-> CleanPath,
     auth_token            |-> Empty,
     max_body_bytes        |-> 65536,
     shutdown_timeout      |-> Seconds(10),
     app_id                |-> Empty,
     app_secret            |-> Empty,
     request_timeout       |-> Seconds(10),
     delivery_timeout      |-> Seconds(60),
     max_pending_alerts    |-> 64,
     gateway_ready_timeout |-> Seconds(30),
     targets               |-> <<>>,
     max_length            |-> 1800,
     log_level             |-> "info",
     log_format            |-> "text"]

Keys == DOMAIN defaults
-----------------------------------------------------------------------------
(* A file: can it be read as TOML of these types, has it other keys, and what *)
(* it says of the keys it has.                                               *)

LoadFails(file) == ~file.readable \/ file.unknown

Load(file) == [k \in Keys |-> IF k \in DOMAIN file.keys THEN file.keys[k] ELSE defaults[k]]
-----------------------------------------------------------------------------
(* Validation collects faults, here the keys at fault; a file is accepted if  *)
(* there is none.                                                            *)

Fault(key, condition) == IF condition THEN {key} ELSE {}

validateText(key, text) ==
    Fault(key, TrimSpace(text) = Empty \/ text # TrimSpace(text))

validateCredentials(c) ==
    validateText("qq.app_id", c.app_id) \cup validateText("qq.app_secret", c.app_secret)

isLoopbackAddress(address) == ~address.padded /\ address.word \in LoopbackHosts

\* Bug: the root is a clean path like others.
validHTTPPathOrRoot(path) ==
    path.absolute /\ path.clean /\ ~path.special /\ path.parses

validHTTPPath(path) ==
    ~path.root /\ path.absolute /\ path.clean /\ ~path.special /\ path.parses

\* Callers that ignore the error get 0.
positiveDuration(d) ==
    IF d.parses /\ d.value > 0 THEN [value |-> d.value, err |-> FALSE]
    ELSE [value |-> 0, err |-> TRUE]

RequestTimeout(c) == positiveDuration(c.request_timeout)
DeliveryTimeout(c) == positiveDuration(c.delivery_timeout)
GatewayReadyTimeout(c) == positiveDuration(c.gateway_ready_timeout)
ShutdownTimeout(c) == positiveDuration(c.shutdown_timeout)

validateTarget(t) ==
    Fault("type", t.type \notin {"channel", "group", "user"})
    \cup validateText("id", t.id)
    \cup Fault("name", t.name # TrimSpace(t.name))

TargetKey(t) == <<t.type, t.id>>

\* The keys the loop knows when it comes to the i-th target: those of the
\* targets before it that are not faulty themselves.
seen(targets, i) ==
    {TargetKey(targets[j]) : j \in {k \in 1..(i - 1) : validateTarget(targets[k]) = {}}}

validateTargets(targets) ==
    Fault("qq.targets",
          \E i \in DOMAIN targets :
              \/ validateTarget(targets[i]) # {}
              \/ TargetKey(targets[i]) \in seen(targets, i))

Lower(word) == CASE word = "INFO" -> "info" [] word = "JSON" -> "json" [] OTHER -> word

LogLevels == {"debug", "info", "warn", "error"}
LogFormats == {"text", "json"}

validateLog(c) ==
    Fault("log.level", Lower(c.log_level) \notin LogLevels)
    \cup Fault("log.format", Lower(c.log_format) \notin LogFormats)

validateServer(c) ==
    Fault("server.address", c.address.word \in SplitHosts \/ c.address # TrimSpace(c.address))
    \cup Fault("server.auth_token",
               \/ c.auth_token # TrimSpace(c.auth_token)
               \/ TrimSpace(c.auth_token) = Empty /\ ~isLoopbackAddress(c.address))
    \cup Fault("server.port", c.port < 1 \/ c.port > 65535)
    \cup Fault("server.alert_path", ~validHTTPPath(c.alert_path))
    \cup Fault("server.max_body_bytes", c.max_body_bytes < 1)
    \cup Fault("server.shutdown_timeout", ShutdownTimeout(c).err)

validateDelivery(c) ==
    Fault("qq.request_timeout", RequestTimeout(c).err)
    \cup Fault("qq.delivery_timeout", DeliveryTimeout(c).err)
    \cup Fault("qq.max_pending_alerts",
               c.max_pending_alerts < 0 \/ c.max_pending_alerts > maxPendingAlerts)
    \cup Fault("qq.gateway_ready_timeout", GatewayReadyTimeout(c).err)
    \cup Fault("message.max_length", c.max_length < 64)

ValidateServe(c) ==
    UNION {validateCredentials(c), validateServer(c), validateDelivery(c),
           Fault("qq.targets", c.targets = <<>>), validateTargets(c.targets), validateLog(c)}
-----------------------------------------------------------------------------
(* logging.New accepts what validateLog does. *)
LoggerFails(c) == Lower(c.log_level) \notin LogLevels \/ Lower(c.log_format) \notin LogFormats
=============================================================================
