------------------------------- MODULE Service -------------------------------
(***************************************************************************)
(* What the orchestrator relies on in a service it runs: it runs until it  *)
(* fails or is told to stop, and then does stop.                           *)
(***************************************************************************)
VARIABLES
    canceled,   \* the context of Run is done
    outcome     \* "running", or what Run returned: "nil", "error" or "canceled",
                \* an error that wraps context.Canceled

serviceVars == <<canceled, outcome>>

ServiceInit == ~canceled /\ outcome = "running"

Cancel == ~canceled /\ canceled' = TRUE /\ UNCHANGED outcome

\* Only a canceled service returns nil, or an error that says it was canceled.
Return ==
    /\ outcome = "running"
    /\ \/ outcome' = "error"
       \/ canceled /\ outcome' \in {"nil", "canceled"}
    /\ UNCHANGED canceled

ServiceNext == Cancel \/ Return

ServiceSafety == ServiceInit /\ [][ServiceNext]_serviceVars

\* A canceled service returns.
ServiceSpec == ServiceSafety /\ WF_serviceVars(canceled /\ Return)
=============================================================================
