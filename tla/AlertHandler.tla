---------------------------- MODULE AlertHandler ----------------------------
(***************************************************************************)
(* The HTTP endpoint in front of Sender: each request is screened (path,   *)
(* method, token, content type, body), its message is sent under a         *)
(* delivery context of its own, and the outcome becomes the status code.   *)
(*                                                                         *)
(* Screening touches no shared state, so a request is screened in one      *)
(* step; Sender's steps of the calls it leads to interleave.               *)
(***************************************************************************)
EXTENDS Sender

CONSTANTS
    Requests,         \* the requests clients send
    NoRequest,        \* no request yet
    TokenConfigured   \* server.auth_token is not empty

\* What the handler tells apart in a request.  The body is described by the
\* first thing wrong with it that reading meets: more bytes than
\* max_body_bytes, a JSON value that is not the expected object (or a client
\* that stops sending), a second JSON value; a body that reads well may lack a
\* required field, or be blank or not UTF-8 ("invalid").
RequestType ==
    [path   : {"alerts", "other"},
     method : {"POST", "GET"},
     token  : {"right", "wrong"},
     media  : {"json", "text", "other"},
     body   : {"good", "oversized", "broken", "trailing", "invalid"}]

ASSUME NoRequestAssumption == NoRequest \notin RequestType
ASSUME RequestsAssumption == Requests \subseteq RequestType
ASSUME TokenAssumption == TokenConfigured \in BOOLEAN

VARIABLES
    request,   \* NoRequest until the alert's request arrives
    response   \* status code, 0 until it is written

handlerVars == <<request, response>>
allVars == <<vars, handlerVars>>

Unanswered == 0
Refusals == {400, 401, 404, 405, 413, 415, 422}
StatusCodes == Refusals \cup {202, 502, 503, 504}
-----------------------------------------------------------------------------
authorized(r) == TokenConfigured => r.token = "right"

\* A body that cannot be read or decoded.
writeDecodeError(r) == IF r.body = "oversized" THEN 413 ELSE 400

\* Only JSON has values that can be trailed by another.
ensureEOF(r) == r.media = "json" => r.body # "trailing"

BodyStatus(r) ==
    IF r.body \in {"oversized", "broken"} \/ ~ensureEOF(r) THEN writeDecodeError(r)
    ELSE IF r.body = "invalid" THEN 422
    ELSE Unanswered

\* Bug: the content type is looked at before the token.
ScreenMediaFirst(r) ==
    IF r.path # "alerts" THEN 404
    ELSE IF r.method # "POST" THEN 405
    ELSE IF r.media = "other" THEN 415
    ELSE IF ~authorized(r) THEN 401
    ELSE BodyStatus(r)

\* The status with which a request is refused, Unanswered if it is forwarded.
Screen(r) ==
    IF r.path # "alerts" THEN 404
    ELSE IF r.method # "POST" THEN 405
    ELSE IF ~authorized(r) THEN 401
    ELSE IF r.media = "other" THEN 415
    ELSE BodyStatus(r)

\* Bug: a timeout is reported like a full queue, as something to retry.
SendStatusRetry(kinds) ==
    IF kinds = {} THEN 202 ELSE IF "api" \in kinds THEN 502 ELSE 503

\* The status for the error of Send.
SendStatus(kinds) ==
    IF kinds = {} THEN 202
    ELSE IF "queueFull" \in kinds THEN 503
    ELSE IF "deadline" \in kinds THEN 504
    ELSE 502
-----------------------------------------------------------------------------
HInit ==
    /\ Init
    /\ request = [a \in Alerts |-> NoRequest]
    /\ response = [a \in Alerts |-> Unanswered]

Receive(a, r) ==
    /\ request[a] = NoRequest
    /\ request' = [request EXCEPT ![a] = r]
    /\ UNCHANGED <<vars, response>>

Screened(a) == request[a] # NoRequest /\ pc[a] = "idle" /\ response[a] = Unanswered

Dismiss(a) ==
    /\ Screened(a)
    /\ Screen(request[a]) # Unanswered
    /\ response' = [response EXCEPT ![a] = Screen(request[a])]
    /\ UNCHANGED <<vars, request>>

Forward(a) ==
    /\ Screened(a)
    /\ Screen(request[a]) = Unanswered
    /\ Call(a)
    /\ UNCHANGED handlerVars

Respond(a) ==
    /\ pc[a] = "returned"
    /\ response[a] = Unanswered
    /\ response' = [response EXCEPT ![a] = SendStatus(errs[a])]
    /\ UNCHANGED <<vars, request>>

\* Everything is answered and the service is over.
HFinished ==
    /\ \A a \in Alerts : response[a] # Unanswered
    /\ serviceDone
    /\ UNCHANGED allVars

HNext ==
    \/ \E a \in Alerts :
        \/ \E r \in Requests : Receive(a, r)
        \/ Dismiss(a) \/ Forward(a) \/ Respond(a)
        \/ (Step(a) \/ PostReturns(a) \/ Expire(a)) /\ UNCHANGED handlerVars
    \/ CancelDeliveries /\ UNCHANGED handlerVars
    \/ HFinished

HSpec == HInit /\ [][HNext]_allVars

\* Besides Sender's fairness, the handler's goroutine runs.  A request body
\* cannot be withheld for ever: the server's ReadTimeout breaks it.
HFairness ==
    /\ Fairness
    /\ \A a \in Alerts : WF_allVars(Dismiss(a) \/ Forward(a) \/ Respond(a))

HFairSpec == HSpec /\ HFairness
-----------------------------------------------------------------------------
\* A request is one of those sent, a response is a status the handler writes.
HTypeOK ==
    /\ TypeOK
    /\ request \in [Alerts -> Requests \cup {NoRequest}]
    /\ response \in [Alerts -> StatusCodes \cup {Unanswered}]

\* 202 says exactly that every target has the alert: a client that is told
\* "accepted" need not repeat it, and one that is told otherwise has missed at
\* least one target.
AcceptedIsDelivered ==
    \A a \in Alerts :
        response[a] # Unanswered => (response[a] = 202 <=> acked[a] = Targets)

\* A request refused by screening or by the full queue (503 with Retry-After)
\* has posted nothing, so a repetition duplicates no message.
RetryIsSafe ==
    \A a \in Alerts :
        response[a] \in Refusals \cup {503} => tried[a] = 0 /\ pc[a] \in {"idle", "returned"}

\* A client without the token learns nothing about its body or content type.
UnauthorizedLearnsNothing ==
    \A a \in Alerts :
        /\ response[a] # Unanswered
        /\ TokenConfigured /\ request[a].token = "wrong"
        => response[a] \in {401, 404, 405}

\* Every request is answered: every call of Send returns, although the API may
\* hang for as long as its context is live and although calls wait for one
\* another.
EveryRequestIsAnswered ==
    \A a \in Alerts : request[a] # NoRequest ~> response[a] # Unanswered
=============================================================================
