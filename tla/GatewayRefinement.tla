------------------------- MODULE GatewayRefinement -------------------------
(***************************************************************************)
(* The mapping under which Gateway implements ReadyService.                *)
(***************************************************************************)
EXTENDS Gateway

Outcome ==
    IF runPC # "done" THEN "running"
    ELSE IF runResult \in {"nil", "canceled"} THEN runResult
    ELSE "error"

Service == INSTANCE ReadyService WITH
    announced <- ready,
    canceled  <- ctxDone,
    outcome   <- Outcome

\* The gateway is a service the orchestrator can wait for: it announces READY
\* at most once, returns nil only when canceled, and returns when canceled.
ImplementsReadyService == Service!Spec
=============================================================================
