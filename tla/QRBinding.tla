----------------------------- MODULE QRBinding -----------------------------
(***************************************************************************)
(* QRConnector.Connect, the auth command's binding of a bot by QR code:    *)
(* a task is created at the QQ portal with a fresh encryption key and      *)
(* shown as a QR code; the portal is polled until the code was scanned; an *)
(* expired code is replaced.                                               *)
(*                                                                         *)
(* A task is its number in the order of creation, a key the number of the  *)
(* call that made it.  The portal is not part of the program: codes are    *)
(* scanned or expire at any time, requests fail at any time.               *)
(*                                                                         *)
(*   pc: entry, creating (createBindTask), showing (onQRReady), polling    *)
(*     (a poll is next), asking (a poll is under way), pausing             *)
(*     (waitContext), returned                                             *)
(***************************************************************************)
EXTENDS Naturals

CONSTANT MaxTasks  \* bound: tasks created in a run

ASSUME MaxTasksAssumption == MaxTasks \in Nat \ {0}

VARIABLES
    pc,
    ctxDone,    \* the caller's context is done
    task,       \* bindTask.id, 0 before the first
    key,        \* bindTask.key
    shown,      \* the task whose code was shown last
    result,     \* what Connect returns
    portal,     \* what the portal knows of each task
    portalKey   \* the key it encrypts the secret with

localVars == <<pc, task, key, shown, result>>
portalVars == <<portal, portalKey>>
vars == <<localVars, ctxDone, portalVars>>

Tasks == 1..MaxTasks
-----------------------------------------------------------------------------
\* What the program tells apart in the answer to a poll: the HTTP exchange, the
\* fields of the JSON object, the encoding of the secret.
PollReply ==
    [http    : {"none", "notOK", "tooLarge", "notJSON", "ok"},
     retcode : {"missing", "zero", "other"},
     status  : {"missing", "none", "pending", "completed", "expired", "unknown"},
     appID   : {"text", "number", "blank", "malformed"},
     secret  : {"missing", "notBase64", "tooLong", "tooShort", "tampered", "notText", "sealed"}]

\* stringOrNumber takes texts (null is an empty one) and unsigned integers.
UnsignedOrText(appID) == appID # "malformed"

\* postJSON succeeds.
Decoded(r) == r.http = "ok" /\ UnsignedOrText(r.appID)

PollError(r) == ~Decoded(r) \/ r.retcode # "zero" \/ r.status = "missing"

\* AES-GCM opens a secret that was sealed with the same key and not tampered with.
decryptBindSecret(secret, sealedWith) ==
    IF secret # "sealed" THEN "badReply"
    ELSE IF key # sealedWith THEN "undecryptable"
    ELSE "credentials"

\* What waitForBinding makes of the answer.
Outcome(r, sealedWith) ==
    CASE PollError(r) -> "error"
      [] ~PollError(r) /\ r.status = "expired" -> "expired"
      [] ~PollError(r) /\ r.status \in {"none", "pending", "unknown"} -> "again"
      [] ~PollError(r) /\ r.status = "completed" ->
             IF r.appID = "blank" THEN "badReply" ELSE decryptBindSecret(r.secret, sealedWith)

\* The portal does not lie about the status of a task, but anything may be wrong
\* with its answer.
Replies(t) ==
    {r \in PollReply :
        \/ PollError(r)
        \/ r.status = portal[t]
        \/ r.status \in {"none", "unknown"} /\ portal[t] = "pending"}

Outcomes == {Outcome(r, portalKey[task]) : r \in Replies(task)}
-----------------------------------------------------------------------------
Init ==
    /\ pc = "entry"
    /\ ctxDone = FALSE
    /\ task = 0
    /\ key = 0
    /\ shown = 0
    /\ result = "none"
    /\ portal = [t \in Tasks |-> "none"]
    /\ portalKey = [t \in Tasks |-> 0]

Goto(l) == pc' = l /\ UNCHANGED result
Return(r) == pc' = "returned" /\ result' = r

Begin ==
    /\ pc = "entry"
    /\ IF ctxDone THEN Return("canceled") ELSE Goto("creating")
    /\ UNCHANGED <<task, key, shown, ctxDone, portalVars>>

\* Bug: the replacement is registered with a new key, but the old one kept.
CreateKeepsKey ==
    /\ pc = "creating"
    /\ task < MaxTasks
    /\ task' = task + 1
    /\ key' = IF key = 0 THEN task' ELSE key
    /\ portal' = [portal EXCEPT ![task'] = "pending"]
    /\ portalKey' = [portalKey EXCEPT ![task'] = task']
    /\ Goto("showing")
    /\ UNCHANGED <<shown, ctxDone>>

\* createBindTask: a fresh key is sent, the portal answers with the task.
Create ==
    /\ pc = "creating"
    /\ task < MaxTasks
    /\ task' = task + 1
    /\ key' = task'
    /\ portal' = [portal EXCEPT ![task'] = "pending"]
    /\ portalKey' = [portalKey EXCEPT ![task'] = key']
    /\ Goto("showing")
    /\ UNCHANGED <<shown, ctxDone>>

\* No random key, no answer, or not one with a task; this is not retried.
CreateFails ==
    /\ pc = "creating"
    /\ Return("createFailed")
    /\ UNCHANGED <<task, key, shown, ctxDone, portalVars>>

\* onQRReady; building the URL from a constant endpoint cannot fail.
Show ==
    /\ pc = "showing"
    /\ shown' = task
    /\ Goto("polling")
    /\ UNCHANGED <<task, key, ctxDone, portalVars>>

\* Bug: the request is made without the caller's ctx.
AskWithoutContext ==
    /\ pc = "polling"
    /\ Goto("asking")
    /\ UNCHANGED <<task, key, shown, ctxDone, portalVars>>

\* pollBindResult sends its request, which fails at once if ctx is done.
Ask ==
    /\ pc = "polling"
    /\ IF ctxDone THEN Return("canceled") ELSE Goto("asking")
    /\ UNCHANGED <<task, key, shown, ctxDone, portalVars>>

\* Bug: the timeout of a poll passes for an expired code.
PollFailsExpired ==
    /\ pc = "asking"
    /\ IF ctxDone THEN Return("canceled") ELSE Goto("creating")
    /\ UNCHANGED <<task, key, shown, ctxDone, portalVars>>

\* The poll fails, by its own timeout or otherwise: it is repeated later unless
\* the caller's ctx is done.
PollFails ==
    /\ pc = "asking"
    /\ "error" \in Outcomes
    /\ IF ctxDone THEN Return("canceled") ELSE Goto("pausing")
    /\ UNCHANGED <<task, key, shown, ctxDone, portalVars>>

PollPending ==
    /\ pc = "asking"
    /\ "again" \in Outcomes
    /\ Goto("pausing")
    /\ UNCHANGED <<task, key, shown, ctxDone, portalVars>>

PollExpired ==
    /\ pc = "asking"
    /\ "expired" \in Outcomes
    /\ Goto("creating")
    /\ UNCHANGED <<task, key, shown, ctxDone, portalVars>>

PollCompleted ==
    /\ pc = "asking"
    /\ \E o \in Outcomes \cap {"credentials", "badReply", "undecryptable"} : Return(o)
    /\ UNCHANGED <<task, key, shown, ctxDone, portalVars>>

\* waitContext: either case of its select.
PauseOver ==
    /\ pc = "pausing"
    /\ Goto("polling")
    /\ UNCHANGED <<task, key, shown, ctxDone, portalVars>>

PauseCanceled ==
    /\ pc = "pausing"
    /\ ctxDone
    /\ Return("canceled")
    /\ UNCHANGED <<task, key, shown, ctxDone, portalVars>>
-----------------------------------------------------------------------------
\* The user scans a code that was shown, the current one or an earlier one.
Scan(t) ==
    /\ t <= shown
    /\ portal[t] = "pending"
    /\ portal' = [portal EXCEPT ![t] = "completed"]
    /\ UNCHANGED <<localVars, ctxDone, portalKey>>

Expire(t) ==
    /\ portal[t] = "pending"
    /\ portal' = [portal EXCEPT ![t] = "expired"]
    /\ UNCHANGED <<localVars, ctxDone, portalKey>>

Cancel ==
    /\ ~ctxDone
    /\ ctxDone' = TRUE
    /\ UNCHANGED <<localVars, portalVars>>

Finished == pc = "returned" /\ UNCHANGED vars

Step == Begin \/ Show \/ Ask \/ PauseOver \/ PauseCanceled

PortalAnswers ==
    Create \/ CreateFails \/ PollFails \/ PollPending \/ PollExpired \/ PollCompleted

Next ==
    \/ Step \/ PortalAnswers
    \/ \E t \in Tasks : Scan(t) \/ Expire(t)
    \/ Cancel
    \/ Finished

Spec == Init /\ [][Next]_vars

\* The program runs; a request ends, with its own timeout at the latest.
Fairness == WF_vars(Step) /\ WF_vars(PortalAnswers)
-----------------------------------------------------------------------------
\* The code on the screen is the one that is polled for, and a well-formed
\* answer can be decrypted: each replacement brings its own key.
ScanCanSucceed ==
    /\ pc \in {"polling", "asking", "pausing"} => shown = task
    /\ result # "undecryptable"

\* A code is replaced only when it can no longer be scanned: failed polls and
\* odd answers never abandon a code the user may be scanning.
ScanIsNotAbandoned ==
    [][task' # task => \A t \in Tasks : t <= task => portal[t] = "expired"]_vars

\* auth.go: "An expired QR code is replaced automatically until binding succeeds
\* or ctx is canceled."
ExpiredCodeIsReplaced == result = "createFailed" /\ shown # 0 => ctxDone
=============================================================================
