---------------------------- MODULE ReadyService ----------------------------
(***************************************************************************)
(* A service that may announce that it is ready (a readyService, the QQ    *)
(* gateway).  The announcement is made by an event handler of its own, so  *)
(* it may even come after Run has returned.  It is never taken back.       *)
(***************************************************************************)
EXTENDS Service

VARIABLE announced  \* the Ready channel is closed

Announce == ~announced /\ announced' = TRUE /\ UNCHANGED serviceVars

readyVars == <<serviceVars, announced>>

ReadyNext == (ServiceNext /\ UNCHANGED announced) \/ Announce

Safety == ServiceInit /\ ~announced /\ [][ReadyNext]_readyVars

Spec == Safety /\ WF_serviceVars(canceled /\ Return)
=============================================================================
