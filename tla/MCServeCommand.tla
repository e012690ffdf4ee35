--------------------------- MODULE MCServeCommand ---------------------------
(***************************************************************************)
(* ServeCommand for TLC: files that deviate from a minimal valid one in at *)
(* most two keys, to the boundaries of what is accepted and just past them.*)
(***************************************************************************)
EXTENDS ServeCommand

Target(type, id) == [name |-> Empty, type |-> type, id |-> id]
Padded(word) == [word |-> word, padded |-> TRUE]

Minimal ==
    [app_id |-> Plain("id"), app_secret |-> Plain("secret"),
     targets |-> <<Target("group", Plain("A"))>>]

Durations == {Seconds(1), Seconds(0), Seconds(-1), [parses |-> FALSE, value |-> 0]}

Alternatives(k) ==
    CASE k = "address" -> {Plain("0.0.0.0"), Plain("localhost"), Empty, Padded("127.0.0.1"), Plain("local\nhost")}
      [] k = "port" -> {0, 65535, 65536}
      [] k = "alert_path" ->
             {[CleanPath EXCEPT !.root = TRUE], [CleanPath EXCEPT !.absolute = FALSE],
              [CleanPath EXCEPT !.clean = FALSE], [CleanPath EXCEPT !.special = TRUE],
              [CleanPath EXCEPT !.parses = FALSE]}
      [] k = "auth_token" -> {Plain("token"), Padded("token"), Padded("")}
      [] k = "max_body_bytes" -> {0, 1}
      [] k \in {"app_id", "app_secret"} -> {Empty, Padded("id")}
      [] k \in {"shutdown_timeout", "request_timeout", "delivery_timeout", "gateway_ready_timeout"} ->
             Durations
      [] k = "max_pending_alerts" -> {-1, 0, 10000, 10001}
      [] k = "targets" ->
             {<<>>,
              <<Target("group", Plain("A")), Target("user", Plain("A"))>>,
              <<Target("group", Plain("A")), Target("user", Plain("A")),
                [Target("group", Plain("A")) EXCEPT !.name = Plain("again")]>>,
              <<Target("room", Plain("A"))>>,
              <<Target("group", Empty)>>,
              <<Target("group", Padded("A"))>>}
      [] k = "max_length" -> {63, 64}
      [] k = "log_level" -> {"INFO", "trace"}
      [] k = "log_format" -> {"JSON", "xml"}

Deviations == UNION {{k :> v : v \in Alternatives(k)} : k \in Keys}

File(keys) == [readable |-> TRUE, unknown |-> FALSE, keys |-> keys]

MCFiles ==
    {File(d @@ e @@ Minimal) : d, e \in Deviations}
    \cup {[File(Minimal) EXCEPT !.readable = FALSE], [File(Minimal) EXCEPT !.unknown = TRUE]}
=============================================================================
