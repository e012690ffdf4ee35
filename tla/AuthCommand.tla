---------------------------- MODULE AuthCommand ----------------------------
(***************************************************************************)
(* The process `gatus-qqbot auth`: it shows the codes of QRBinding, writes *)
(* the credentials it is given to its standard output, and exits.  A write *)
(* may fail.  Failing to show a code is ignored; the user sees no code     *)
(* then, or not all of it, and may cancel.                                 *)
(***************************************************************************)
EXTENDS QRBinding

VARIABLES
    phase,      \* binding (Connect), writing, writingUser, exited
    written,    \* what writeCredentials has written
    exitCode    \* of the process; 0 until it exits

authVars == <<phase, written, exitCode>>
allVars == <<vars, authVars>>
-----------------------------------------------------------------------------
AuthInit ==
    /\ Init
    /\ phase = "binding"
    /\ written = {}
    /\ exitCode = 0

ExitWith(code) == phase' = "exited" /\ exitCode' = code

\* Connect returns credentials, or an error that becomes the exit status.
Bound ==
    /\ phase = "binding"
    /\ pc = "returned"
    /\ IF result = "credentials" THEN phase' = "writing" /\ UNCHANGED exitCode ELSE ExitWith(1)
    /\ UNCHANGED <<vars, written>>

\* Bug: the failure is ignored, like those of writing the code.
WriteCredentialsAnyhow ==
    /\ phase = "writing"
    /\ written' \in {{}, {"credentials"}}
    /\ \/ phase' = "writingUser" /\ UNCHANGED exitCode
       \/ ExitWith(0)
    /\ UNCHANGED vars

\* The first Fprintf; UserOpenID may be empty.
WriteCredentials ==
    /\ phase = "writing"
    /\ \/ written' = {} /\ ExitWith(1)
       \/ /\ written' = {"credentials"}
          /\ \/ phase' = "writingUser" /\ UNCHANGED exitCode
             \/ ExitWith(0)
    /\ UNCHANGED vars

\* The second one.
WriteUser ==
    /\ phase = "writingUser"
    /\ \/ written' = written /\ ExitWith(1)
       \/ written' = written \cup {"user"} /\ ExitWith(0)
    /\ UNCHANGED vars

Binding ==
    /\ Step \/ PortalAnswers \/ (\E t \in Tasks : Scan(t) \/ Expire(t)) \/ Cancel
    /\ UNCHANGED authVars

Exited == phase = "exited" /\ UNCHANGED allVars

AuthStep == Bound \/ WriteCredentials \/ WriteUser

AuthNext == Binding \/ AuthStep \/ Exited

AuthSpec == AuthInit /\ [][AuthNext]_allVars

\* Besides the fairness of QRBinding, the command's own steps are taken.
AuthFairSpec == AuthSpec /\ Fairness /\ WF_allVars(AuthStep)
-----------------------------------------------------------------------------
\* The exit status tells whether the binding, which can be had only once for a
\* scan, is in the user's hands: 0 means that the credentials of the code last
\* shown, which was scanned, are written out; credentials that could not be
\* written are reported as an error.
SuccessIsWritten ==
    /\ phase = "exited" /\ exitCode = 0 =>
           /\ "credentials" \in written
           /\ result = "credentials" /\ portal[shown] = "completed"
    /\ phase = "exited" /\ written = {} => exitCode = 1

\* Cancellation ends the command, whatever requests and writes do.
CancelEndsCommand == ctxDone ~> phase = "exited"
=============================================================================
