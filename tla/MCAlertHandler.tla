--------------------------- MODULE MCAlertHandler ---------------------------
(* Instances of AlertHandler small enough for TLC. *)
EXTENDS AlertHandler

CONSTANTS a1, a2, a3

OneAlert == {a1}
ThreeAlerts == {a1, a2, a3}

AlertRequest(token, media, body) ==
    [path |-> "alerts", method |-> "POST", token |-> token, media |-> media, body |-> body]

\* Every request there is.
AnyRequest == RequestType

\* With no token configured, the token sent makes no difference.
WrongToken == {AlertRequest("wrong", "text", "good")}
=============================================================================
