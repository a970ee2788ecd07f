------------------------------- MODULE Handler -------------------------------
(***************************************************************************)
(* One call of Handler.ServeHTTP (handler.go): authenticate, decode, route,*)
(* then the loop over fallback targets and, inside it, the loop of retries *)
(* on the same target, until a response is written and OnComplete is       *)
(* reported.                                                               *)
(*                                                                         *)
(* The goroutine's steps interleave with the cancellation of the request's *)
(* context, which may come at any time.  The router, the attempt           *)
(* controller, the request modifier and the upstreams are the caller's or  *)
(* external: each may answer anything its interface allows.                *)
(***************************************************************************)
EXTENDS Naturals

CONSTANTS
    Target,          \* targets the router may answer, as RouteResults
    NoTarget,
    Protocol,
    ProtocolOf,      \* the protocol of a target
    Inbound,         \* the protocol of the handler's codec
    Supported,       \* protocols NewClient has a client for
    MaxTargets,      \* bound: targets the router hands out to one request
    MaxRetries       \* bound: retries the controller grants on one target

ASSUME TargetAssumption   == NoTarget \notin Target
ASSUME ProtocolAssumption == /\ ProtocolOf \in [Target -> Protocol]
                             /\ Supported \subseteq Protocol
                             /\ Inbound \in Supported
ASSUME BoundAssumption    == MaxTargets \in Nat \ {0} /\ MaxRetries \in Nat

VARIABLES
    pc,
    canceled,        \* r.Context().Err() # nil
    stream,          \* req.Stream
    unknownFields,   \* the body has fields the IR does not carry
    target,          \* loop.target
    attemptNum,      \* loop.attemptNum
    retryAttempt,
    totalRetries,    \* loop.totalRetryAttempts
    rawExtra,        \* req.RawExtra is populated
    encoded,         \* what the next Send encodes: whose Model and
                     \* OutboundExtra the request carries, and whether the
                     \* inbound body's unknown fields are merged in
    permit,          \* the target whose permit the goroutine holds
    sendErr,         \* kind of the error of the last attempt
    response,        \* status written to the client
    started,         \* OnRequestStart was called
    outcome,         \* Status of OnComplete, "none" before it
    unreported,      \* history: target handed out by the router on which
                     \* neither OnError nor OnSuccess has been called
    prepared,        \* history: attempts begun on targets with a client
    skipped,         \* history: targets without a client
    lateSends        \* history: sends begun after the cancellation

requestVars == <<stream, unknownFields>>
loopVars    == <<target, attemptNum, retryAttempt, totalRetries>>
bodyVars    == <<rawExtra, encoded>>
clientVars  == <<response, started, outcome>>
historyVars == <<unreported, prepared, skipped, lateSends>>
vars == <<pc, canceled, requestVars, loopVars, bodyVars, permit, sendErr,
          clientVars, historyVars>>

\* Kinds of send errors: an upstream HTTP error, a timeout that wraps
\* context.DeadlineExceeded, any other failure, the canceled context, and the
\* synthetic error for a protocol without a client.
SendErr == {"http", "timeout", "other", "ctx", "unsupported"}

Fresh == [model |-> NoTarget, extra |-> NoTarget, raw |-> FALSE]

SameProtocol(t) == ProtocolOf[t] = Inbound

Init ==
    /\ pc = "received"
    /\ canceled = FALSE
    /\ stream \in BOOLEAN
    /\ unknownFields \in BOOLEAN
    /\ target = NoTarget
    /\ attemptNum = 0
    /\ retryAttempt = 0
    /\ totalRetries = 0
    /\ rawExtra = FALSE
    /\ encoded = Fresh
    /\ permit = NoTarget
    /\ sendErr = "none"
    /\ response = "none"
    /\ started = FALSE
    /\ outcome = "none"
    /\ unreported = NoTarget
    /\ prepared = 0
    /\ skipped = 0
    /\ lateSends = 0

\* The client disconnects, or the server's deadline passes.
Cancel ==
    /\ pc # "done"
    /\ ~canceled
    /\ canceled' = TRUE
    /\ UNCHANGED <<pc, requestVars, loopVars, bodyVars, permit, sendErr,
                   clientVars, historyVars>>

-----------------------------------------------------------------------------
(* Answers.                                                                *)

\* resolveCompletionStatus.
CompletionStatus(err) ==
    IF err \in {"ctx", "timeout"} THEN "canceled"
    ELSE IF err = "none" THEN "success" ELSE "error"

\* resolveUpstreamStatusCode.
UpstreamStatus(err) == IF err = "http" THEN "upstream" ELSE "502"

\* writeErrorAndComplete and writeUpstreamHTTPErrorAndComplete: they differ in
\* the body, which is not modelled.
WriteErrorAndComplete(status, err) ==
    /\ response' = status
    /\ outcome' = CompletionStatus(err)
    /\ pc' = "done"
    /\ UNCHANGED started

\* Before routing: not authenticated, body not read, body not decoded.
Refuse ==
    /\ pc = "received"
    /\ response' \in {"401", "502", "400"}
    /\ pc' = "done"
    /\ UNCHANGED <<canceled, requestVars, loopVars, bodyVars, permit, sendErr,
                   started, outcome, historyVars>>

RouteFails ==
    /\ pc = "received"
    /\ response' = "400"
    /\ pc' = "done"
    /\ UNCHANGED <<canceled, requestVars, loopVars, bodyVars, permit, sendErr,
                   started, outcome, historyVars>>

\* What a bug would do: attempts are numbered from 0.
RouteToAttemptZero(t) ==
    /\ pc = "received"
    /\ target' = t
    /\ rawExtra' = (SameProtocol(t) /\ unknownFields)
    /\ encoded' = [encoded EXCEPT !.model = t]
    /\ started' = TRUE
    /\ unreported' = t
    /\ pc' = "target"
    /\ UNCHANGED <<canceled, requestVars, attemptNum, retryAttempt, totalRetries,
                   permit, sendErr, response, outcome, prepared, skipped,
                   lateSends>>

\* Route answers t: the request is handed to the retry loop and reported as
\* started.
RouteTo(t) ==
    /\ pc = "received"
    /\ target' = t
    /\ attemptNum' = 1
    /\ rawExtra' = (SameProtocol(t) /\ unknownFields)
    /\ encoded' = [encoded EXCEPT !.model = t]
    /\ started' = TRUE
    /\ unreported' = t
    /\ pc' = "target"
    /\ UNCHANGED <<canceled, requestVars, retryAttempt, totalRetries, permit,
                   sendErr, response, outcome, prepared, skipped, lateSends>>

-----------------------------------------------------------------------------
(* The loop.                                                               *)

\* A target with a client: its attempts are counted from 0.
BeginTarget ==
    /\ pc = "target"
    /\ ProtocolOf[target] \in Supported
    /\ retryAttempt' = 0
    /\ pc' = "prepare"
    /\ UNCHANGED <<canceled, requestVars, target, attemptNum, totalRetries,
                   bodyVars, permit, sendErr, clientVars, historyVars>>

\* client == nil: a synthetic error, straight to the router.
SkipTarget ==
    /\ pc = "target"
    /\ ProtocolOf[target] \notin Supported
    /\ sendErr' = "unsupported"
    /\ skipped' = skipped + 1
    /\ pc' = "terminal"
    /\ UNCHANGED <<canceled, requestVars, loopVars, bodyVars, permit,
                   clientVars, unreported, prepared, lateSends>>

\* What a bug would do: OutboundExtra of the last attempt is not reset, and
\* stays when the modifier sets none.
PrepareWithoutReset ==
    /\ pc = "prepare"
    /\ \E extra \in {encoded.extra, target} :
         encoded' = [model |-> target, extra |-> extra,
                     raw |-> rawExtra /\ SameProtocol(target)]
    /\ prepared' = prepared + 1
    /\ pc' = "acquire"
    /\ UNCHANGED <<canceled, requestVars, loopVars, rawExtra, permit, sendErr,
                   clientVars, unreported, skipped, lateSends>>

\* The request is made ready for the current target: Model, OutboundExtra as
\* the request modifier leaves it, and the unknown fields of the body.
Prepare ==
    /\ pc = "prepare"
    /\ \E extra \in {NoTarget, target} :
         encoded' = [model |-> target, extra |-> extra,
                     raw |-> rawExtra /\ SameProtocol(target)]
    /\ prepared' = prepared + 1
    /\ pc' = "acquire"
    /\ UNCHANGED <<canceled, requestVars, loopVars, rawExtra, permit, sendErr,
                   clientVars, unreported, skipped, lateSends>>

Admitted ==
    /\ pc = "acquire"
    /\ permit' = target
    /\ lateSends' = IF canceled THEN lateSends + 1 ELSE lateSends
    /\ pc' = "sending"
    /\ UNCHANGED <<canceled, requestVars, loopVars, bodyVars, sendErr,
                   clientVars, unreported, prepared, skipped>>

\* Acquire fails: with an error that wraps Canceled or DeadlineExceeded (the
\* context's, or a queue timeout of its own), or with any other.
NotAdmitted ==
    /\ pc = "acquire"
    /\ \/ WriteErrorAndComplete("499", "ctx")
       \/ WriteErrorAndComplete("503", "other")
    /\ UNCHANGED <<canceled, requestVars, loopVars, bodyVars, permit, sendErr,
                   historyVars>>

\* What a bug would do: the permit is kept until the handler returns.
SendFailsHoldingPermit ==
    /\ pc = "sending"
    /\ \/ sendErr' \in {"http", "timeout", "other"}
       \/ canceled /\ sendErr' = "ctx"
    /\ pc' = "failed"
    /\ UNCHANGED <<canceled, requestVars, loopVars, bodyVars, permit,
                   clientVars, historyVars>>

\* Send or SendStream fails; the permit is released at once.
SendFails ==
    /\ pc = "sending"
    /\ \/ sendErr' \in {"http", "timeout", "other"}
       \/ canceled /\ sendErr' = "ctx"
    /\ permit' = NoTarget
    /\ pc' = "failed"
    /\ UNCHANGED <<canceled, requestVars, loopVars, bodyVars, clientVars,
                   historyVars>>

\* The client is gone: handleSendError and handleTerminalSendError return
\* without a report to the router.
GiveUp ==
    /\ pc \in {"failed", "terminal"}
    /\ canceled
    /\ WriteErrorAndComplete(UpstreamStatus(sendErr), "ctx")
    /\ UNCHANGED <<canceled, requestVars, loopVars, bodyVars, permit, sendErr,
                   historyVars>>

\* What a bug would do: the controller is asked before the context is looked at.
RetryOfTheDead ==
    /\ pc = "failed"
    /\ retryAttempt < MaxRetries
    /\ pc' \in {"sleeping", "retry"}
    /\ UNCHANGED <<canceled, requestVars, loopVars, bodyVars, permit, sendErr,
                   clientVars, historyVars>>

\* What a bug would do: the retry is counted before the sleep.
RetryCountedEarly ==
    /\ pc = "failed"
    /\ ~canceled
    /\ retryAttempt < MaxRetries
    /\ totalRetries' = totalRetries + 1
    /\ pc' \in {"sleeping", "retry"}
    /\ UNCHANGED <<canceled, requestVars, target, attemptNum, retryAttempt,
                   bodyVars, permit, sendErr, clientVars, historyVars>>

\* RetryDelay grants a retry; a delay of zero is not slept.
RetrySameTarget ==
    /\ pc = "failed"
    /\ ~canceled
    /\ retryAttempt < MaxRetries
    /\ pc' \in {"sleeping", "retry"}
    /\ UNCHANGED <<canceled, requestVars, loopVars, bodyVars, permit, sendErr,
                   clientVars, historyVars>>

WakeUp ==
    /\ pc = "sleeping"
    /\ pc' = "retry"
    /\ UNCHANGED <<canceled, requestVars, loopVars, bodyVars, permit, sendErr,
                   clientVars, historyVars>>

InterruptSleep ==
    /\ pc = "sleeping"
    /\ canceled
    /\ WriteErrorAndComplete("499", "ctx")
    /\ UNCHANGED <<canceled, requestVars, loopVars, bodyVars, permit, sendErr,
                   historyVars>>

CountRetry ==
    /\ pc = "retry"
    /\ totalRetries' = totalRetries + 1
    /\ retryAttempt' = retryAttempt + 1
    /\ pc' = "prepare"
    /\ UNCHANGED <<canceled, requestVars, target, attemptNum, bodyVars, permit,
                   sendErr, clientVars, historyVars>>

NoRetry ==
    /\ pc = "failed"
    /\ ~canceled
    /\ pc' = "terminal"
    /\ UNCHANGED <<canceled, requestVars, loopVars, bodyVars, permit, sendErr,
                   clientVars, historyVars>>

\* OnError answers the next target.  The unknown fields are taken from the body
\* when its protocol is the inbound one, and forgotten otherwise.
FallBackTo(t) ==
    /\ pc = "terminal"
    /\ ~canceled
    /\ attemptNum < MaxTargets
    /\ target' = t
    /\ attemptNum' = attemptNum + 1
    /\ rawExtra' = (SameProtocol(t) /\ unknownFields)
    /\ unreported' = t
    /\ pc' = "target"
    /\ UNCHANGED <<canceled, requestVars, retryAttempt, totalRetries, encoded,
                   permit, sendErr, clientVars, prepared, skipped, lateSends>>

\* What a bug would do: the error is written and OnComplete forgotten.
OutOfTargetsSilently ==
    /\ pc = "terminal"
    /\ ~canceled
    /\ unreported' = NoTarget
    /\ response' = UpstreamStatus(sendErr)
    /\ pc' = "done"
    /\ UNCHANGED <<canceled, requestVars, loopVars, bodyVars, permit, sendErr,
                   started, outcome, prepared, skipped, lateSends>>

\* OnError has no other target.
OutOfTargets ==
    /\ pc = "terminal"
    /\ ~canceled
    /\ unreported' = NoTarget
    /\ WriteErrorAndComplete(UpstreamStatus(sendErr), sendErr)
    /\ UNCHANGED <<canceled, requestVars, loopVars, bodyVars, permit, sendErr,
                   prepared, skipped, lateSends>>

\* Send returns a response: the permit is released before OnSuccess, then the
\* response is encoded and written; encoding and writing may fail.
SendSucceeds ==
    /\ pc = "sending"
    /\ ~stream
    /\ permit' = NoTarget
    /\ unreported' = NoTarget
    /\ \/ response' = "200" /\ outcome' \in {"success", "error"}
       \/ response' = "502" /\ outcome' = "error"
    /\ pc' = "done"
    /\ UNCHANGED <<canceled, requestVars, loopVars, bodyVars, sendErr, started,
                   prepared, skipped, lateSends>>

\* What a bug would do: OnSuccess is called for whole responses only.
StreamOpensSilently ==
    /\ pc = "sending"
    /\ stream
    /\ response' = "200"
    /\ pc' = "streaming"
    /\ UNCHANGED <<canceled, requestVars, loopVars, bodyVars, permit, sendErr,
                   started, outcome, historyVars>>

\* SendStream returns a channel: OnSuccess, then the header is committed.
StreamOpens ==
    /\ pc = "sending"
    /\ stream
    /\ unreported' = NoTarget
    /\ response' = "200"
    /\ pc' = "streaming"
    /\ UNCHANGED <<canceled, requestVars, loopVars, bodyVars, permit, sendErr,
                   started, outcome, prepared, skipped, lateSends>>

\* What a bug would do: a stream that breaks is answered with an error.
StreamEndsTwice ==
    /\ pc = "streaming"
    /\ \/ canceled /\ outcome' = "canceled" /\ UNCHANGED response
       \/ ~canceled /\ \E err \in {"none", "timeout", "other"} :
                          /\ outcome' = CompletionStatus(err)
                          /\ response' = IF err = "none" THEN "200" ELSE "502"
    /\ pc' = "streamed"
    /\ UNCHANGED <<canceled, requestVars, loopVars, bodyVars, permit, sendErr,
                   started, historyVars>>

\* The codec has written the stream: OnComplete with the error the stream ended
\* with, or with the context's if it is done by then.
StreamEnds ==
    /\ pc = "streaming"
    /\ \/ canceled /\ outcome' = "canceled"
       \/ ~canceled /\ \E err \in {"none", "timeout", "other"} :
                          outcome' = CompletionStatus(err)
    /\ pc' = "streamed"
    /\ UNCHANGED <<canceled, requestVars, loopVars, bodyVars, permit, sendErr,
                   response, started, historyVars>>

ReleaseStream ==
    /\ pc = "streamed"
    /\ permit' = NoTarget
    /\ pc' = "done"
    /\ UNCHANGED <<canceled, requestVars, loopVars, bodyVars, sendErr,
                   clientVars, historyVars>>

Returned == pc = "done" /\ UNCHANGED vars

-----------------------------------------------------------------------------

Step ==
    \/ Refuse \/ RouteFails \/ \E t \in Target : RouteTo(t)
    \/ BeginTarget \/ SkipTarget \/ Prepare \/ Admitted \/ NotAdmitted
    \/ SendFails \/ GiveUp \/ RetrySameTarget \/ WakeUp \/ InterruptSleep
    \/ CountRetry \/ NoRetry \/ \E t \in Target : FallBackTo(t)
    \/ OutOfTargets \/ SendSucceeds \/ StreamOpens \/ StreamEnds \/ ReleaseStream

Next == Step \/ Cancel \/ Returned

Spec == Init /\ [][Next]_vars

\* The goroutine runs, and what it waits for answers: the controller, the
\* upstream, the timer and the stream.
FairSpec == Spec /\ WF_vars(Step)

-----------------------------------------------------------------------------
(* What the handler promises.                                              *)

Labels == {"received", "target", "prepare", "acquire", "sending", "failed",
           "sleeping", "retry", "terminal", "streaming", "streamed", "done"}

\* Every variable has its type (retryLoopState, ServeHTTP's locals).
TypeOK ==
    /\ pc \in Labels
    /\ canceled \in BOOLEAN /\ stream \in BOOLEAN /\ unknownFields \in BOOLEAN
    /\ target \in Target \cup {NoTarget}
    /\ (target = NoTarget <=> attemptNum = 0)
    /\ attemptNum \in 0..MaxTargets
    /\ retryAttempt \in 0..MaxRetries
    /\ totalRetries \in Nat
    /\ rawExtra \in BOOLEAN
    /\ encoded \in [model : Target \cup {NoTarget},
                     extra : Target \cup {NoTarget}, raw : BOOLEAN]
    /\ permit \in Target \cup {NoTarget}
    /\ sendErr \in SendErr \cup {"none"}
    /\ response \in {"none", "200", "400", "401", "499", "502", "503", "upstream"}
    /\ started \in BOOLEAN
    /\ outcome \in {"none", "success", "error", "canceled"}
    /\ unreported \in Target \cup {NoTarget}
    /\ prepared \in Nat /\ skipped \in Nat /\ lateSends \in Nat

\* A permit is held while the upstream of the current target is used, and at no
\* other time: not while another is waited for, not during a retry's sleep, not
\* across a call of the router, and not after ServeHTTP has returned.
PermitDiscipline ==
    permit = IF pc \in {"sending", "streaming", "streamed"} THEN target ELSE NoTarget

\* What is sent belongs to the target it is sent to: its model, no field the
\* modifier set for an earlier attempt, and the unknown fields of the inbound
\* body exactly when the target speaks the inbound protocol, whatever the
\* targets tried before it spoke.
SentBodyMatchesTarget ==
    pc \in {"acquire", "sending"} =>
        /\ encoded.model = target
        /\ encoded.extra \in {NoTarget, target}
        /\ encoded.raw <=> (SameProtocol(target) /\ unknownFields)

\* After the context is done at most one more attempt reaches an upstream: the
\* one that was being prepared.
LastSendAfterCancel == lateSends <= 1

\* AttemptNum and RetryAttempts of the CompleteEvent add up to the attempts
\* made: one per target and one per retry, a retry whose sleep was interrupted
\* not counted.
AttemptsAddUp ==
    (pc = "done" /\ started) => prepared + skipped = attemptNum + totalRetries

\* A request that ends on its own, neither canceled nor refused by the attempt
\* controller, has told the router how its last target fared.
RouterIsTold ==
    (pc = "done" /\ ~canceled /\ response \notin {"499", "503"})
        => unreported = NoTarget

\* Every request that OnRequestStart reported is reported by OnComplete.
StartedCompletes == started ~> (outcome # "none")

\* The handler implements the life of a request.
Phase == CASE pc = "received" -> "open"
           [] pc \in {"streamed", "done"} -> "closed"
           [] pc = "streaming" -> "committed"
           [] OTHER -> "started"

Lifecycle == INSTANCE RequestLifecycle WITH phase <- Phase

\* One answer, one OnComplete after one OnRequestStart, no error reported as a
\* success and none written over a committed header.
FollowsLifecycle == Lifecycle!Spec
=============================================================================
