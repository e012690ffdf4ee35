------------------------------ MODULE MCSender ------------------------------
(* Instances of Sender small enough for TLC. *)
EXTENDS SenderRefinement, TLC

CONSTANTS a1, a2, a3

ThreeAlerts == {a1, a2, a3}
TwoAlerts == {a1, a2}

\* The calls are interchangeable: no property names one of them.
Symmetry == Permutations(Alerts)
=============================================================================
