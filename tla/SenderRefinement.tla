-------------------------- MODULE SenderRefinement --------------------------
(***************************************************************************)
(* The mapping under which Sender implements DeliveryQueue: an alert is    *)
(* inside the room while it holds an admission slot, and served while it   *)
(* holds the gate.                                                         *)
(***************************************************************************)
EXTENDS Sender

PhaseOf(a) ==
    CASE pc[a] \in {"idle", "entry", "admission"} -> "out"
      [] pc[a] = "waiting"                        -> "inside"
      [] pc[a] \in GateHeldAt                     -> "served"
      [] pc[a] = "freeAdmission"                  -> "leaving"
      [] pc[a] = "returned"                       -> "gone"

VerdictOf(a) ==
    IF pc[a] \notin {"freeAdmission", "returned"} THEN "none"
    ELSE IF errs[a] = {} THEN "sent"
    ELSE IF errs[a] = {"queueFull"} THEN "refused" ELSE "failed"

Queue == INSTANCE DeliveryQueue WITH
    Capacity  <- AdmissionCap,
    phase     <- [a \in Alerts |-> PhaseOf(a)],
    delivered <- acked,
    verdict   <- [a \in Alerts |-> VerdictOf(a)]

\* Send implements the delivery queue: it serves one alert at a time, refuses
\* only when the room is full, and its verdict is the truth.
ImplementsQueue == Queue!Spec
=============================================================================
