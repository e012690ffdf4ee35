---------------------------- MODULE MCHTTPServer ----------------------------
(* An instance of HTTPServer small enough for TLC. *)
EXTENDS HTTPServer

CONSTANTS a1, a2

TwoAlerts == {a1, a2}

Good == [path |-> "alerts", method |-> "POST", token |-> "right",
         media |-> "text", body |-> "good"]
\* One that is forwarded and one that is refused.
GoodOrNot == {Good, [Good EXCEPT !.body = "oversized"]}
=============================================================================
