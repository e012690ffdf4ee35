--------------------------- MODULE DeliveryQueue ---------------------------
(***************************************************************************)
(* What qqbot.Sender promises, without its channels and contexts: alerts   *)
(* enter a bounded waiting room or are refused, are served one at a time,  *)
(* each target in order and at most once, and every alert ends with a      *)
(* verdict that says whether all targets have it.                          *)
(***************************************************************************)
EXTENDS Naturals, FiniteSets

CONSTANTS
    Alerts,
    NumTargets,
    Capacity     \* alerts that may be inside the room, the served one included

VARIABLES
    phase,       \* "out", "inside", "served", "leaving" or "gone"
    delivered,   \* targets that have the alert
    verdict      \* "none", "sent", "failed" or "refused"

vars == <<phase, delivered, verdict>>

Targets == 1..NumTargets
Verdict(a) == IF delivered[a] = Targets THEN "sent" ELSE "failed"
Room == {a \in Alerts : phase[a] \in {"inside", "served", "leaving"}}

Become(a, p) == phase' = [phase EXCEPT ![a] = p]
Decide(a, v) == verdict' = [verdict EXCEPT ![a] = v]
-----------------------------------------------------------------------------
Init ==
    /\ phase = [a \in Alerts |-> "out"]
    /\ delivered = [a \in Alerts |-> {}]
    /\ verdict = [a \in Alerts |-> "none"]

Join(a) ==
    /\ phase[a] = "out"
    /\ Cardinality(Room) < Capacity
    /\ Become(a, "inside")
    /\ UNCHANGED <<delivered, verdict>>

\* Only a full room refuses.
TurnAway(a) ==
    /\ phase[a] = "out"
    /\ Cardinality(Room) = Capacity
    /\ Become(a, "gone")
    /\ Decide(a, "refused")
    /\ UNCHANGED delivered

\* The alert runs out of time before it is served.
GiveUp(a) ==
    /\ \/ phase[a] = "out" /\ Become(a, "gone")
       \/ phase[a] = "inside" /\ Become(a, "leaving")
    /\ Decide(a, "failed")
    /\ UNCHANGED delivered

Serve(a) ==
    /\ phase[a] = "inside"
    /\ \A b \in Alerts : phase[b] # "served"
    /\ Become(a, "served")
    /\ UNCHANGED <<delivered, verdict>>

Deliver(a, t) ==
    /\ phase[a] = "served"
    /\ \A u \in delivered[a] : u < t
    /\ delivered' = [delivered EXCEPT ![a] = @ \cup {t}]
    /\ UNCHANGED <<phase, verdict>>

Complete(a) ==
    /\ phase[a] = "served"
    /\ Become(a, "leaving")
    /\ Decide(a, Verdict(a))
    /\ UNCHANGED delivered

Leave(a) ==
    /\ phase[a] = "leaving"
    /\ Become(a, "gone")
    /\ UNCHANGED <<delivered, verdict>>

Next ==
    \E a \in Alerts :
        \/ Join(a) \/ TurnAway(a) \/ GiveUp(a) \/ Serve(a)
        \/ Complete(a) \/ Leave(a)
        \/ \E t \in Targets : Deliver(a, t)

Spec == Init /\ [][Next]_vars
=============================================================================
