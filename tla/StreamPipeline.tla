--------------------------- MODULE StreamPipeline ---------------------------
(***************************************************************************)
(* One streamed response, from the moment SendStream has returned its      *)
(* channel.  Three goroutines of the program take part:                    *)
(*                                                                         *)
(*   upstream   the goroutine of AnthropicClient.SendStream and its        *)
(*              siblings, which reads SSE events and sends them on ch;     *)
(*   wrapper    the goroutine of wrapStreamForStats, which takes from ch,  *)
(*              calls the StatsReporter and sends on wrappedCh;            *)
(*   handler    the goroutine of ServeHTTP: the codec ranges over          *)
(*              wrappedCh and writes to the client, then OnComplete is     *)
(*              called and the permit is released.                         *)
(*                                                                         *)
(* ch and wrappedCh are unbuffered: a send and its receive are one step.   *)
(* summaryDone has room for one summary, so the wrapper never waits on it. *)
(* The context is canceled by the client at any time, and by net/http once *)
(* ServeHTTP has returned.                                                 *)
(***************************************************************************)
EXTENDS Naturals

CONSTANT MaxEvents   \* bound: events the upstream sends

ASSUME MaxEventsAssumption == MaxEvents \in Nat

VARIABLES
    ctxDone,         \* r.Context() is done
    up,              \* where the upstream goroutine is
    upItem,          \* what it is about to send on ch
    produced,        \* history: events read from the upstream's body
    wr,              \* where the wrapper is
    wItem,           \* what it is about to send on wrappedCh
    streamErr,       \* summary.streamErr
    chunks,          \* summary.chunks
    stopForwarding,  \* the channel is closed
    hd,              \* where the handler is
    hItem,           \* what the codec is writing
    received,        \* history: events the codec has received
    sawEnd,          \* history: the codec saw wrappedCh closed
    sawFailure,      \* history: the codec received a StreamResult.Err
    permit,          \* the attempt's permit is held
    outcome          \* Status of OnComplete, "none" before it

ctxVars     == <<ctxDone>>
upVars      == <<up, upItem, produced>>
wrapperVars == <<wr, wItem, streamErr, chunks>>
handlerVars == <<stopForwarding, hd, hItem, received, sawEnd, sawFailure,
                 permit, outcome>>
vars == <<ctxVars, upVars, wrapperVars, handlerVars>>

\* A StreamResult carries an event or an error.  An error wraps a deadline or it
\* does not; the other kinds are events, of which a stop is the last and "told"
\* is a StreamEventError: a failure that the provider tells in band.
Failures == {"timeout", "other"}
Events   == {"event", "told", "stop"}
Items    == [n : Nat, kind : Events \cup Failures]
NoItem   == [n |-> 0, kind |-> "event"]

IsEvent(item) == item.kind \notin Failures

Init ==
    /\ ctxDone = FALSE
    /\ up = "reading" /\ upItem = NoItem /\ produced = 0
    /\ wr = "select" /\ wItem = NoItem /\ streamErr = "none" /\ chunks = 0
    /\ stopForwarding = FALSE
    /\ hd = "ranging" /\ hItem = NoItem /\ received = 0
    /\ sawEnd = FALSE /\ sawFailure = FALSE
    /\ permit = TRUE
    /\ outcome = "none"

-----------------------------------------------------------------------------
(* The upstream goroutine.                                                 *)

\* An SSE event is read and decoded.  After a stop the Chat and Gemini clients
\* drain the body for trailing usage before they send it.
ReadEvent ==
    /\ up = "reading"
    /\ produced < MaxEvents
    /\ produced' = produced + 1
    /\ \/ /\ \E kind \in {"event", "told"} : upItem' = [n |-> produced', kind |-> kind]
          /\ up' = "sending"
       \/ upItem' = [n |-> produced', kind |-> "stop"] /\ up' \in {"sending", "draining"}
    /\ UNCHANGED <<ctxVars, wrapperVars, handlerVars>>

\* Reading or decoding fails: when the context is done, the body is aborted.
ReadFails ==
    /\ up = "reading"
    /\ \E kind \in Failures : upItem' = [n |-> 0, kind |-> kind]
    /\ up' = "sending"
    /\ UNCHANGED <<ctxVars, produced, wrapperVars, handlerVars>>

\* io.EOF or [DONE]: the goroutine returns and closes ch.
ReadEnd ==
    /\ up = "reading"
    /\ up' = "closed"
    /\ UNCHANGED <<ctxVars, upItem, produced, wrapperVars, handlerVars>>

\* drainTrailingUsage ends on EOF, on an error and on [DONE] alike.
Drained ==
    /\ up = "draining"
    /\ up' = "sending"
    /\ UNCHANGED <<ctxVars, upItem, produced, wrapperVars, handlerVars>>

AbandonSend ==
    /\ up = "sending"
    /\ ctxDone
    /\ up' = "closed"
    /\ UNCHANGED <<ctxVars, upItem, produced, wrapperVars, handlerVars>>

-----------------------------------------------------------------------------
(* The wrapper goroutine.                                                  *)

\* What a bug would do: the error is passed on and left out of the summary.
TakeWithoutError ==
    /\ wr = "select" /\ up = "sending"
    /\ wItem' = upItem
    /\ up' = IF upItem.kind \in {"event", "told"} THEN "reading" ELSE "closed"
    /\ IF IsEvent(upItem)
       THEN wr' = "reporting" /\ chunks' = chunks + 1
       ELSE wr' = "forwarding" /\ UNCHANGED chunks
    /\ UNCHANGED <<ctxVars, upItem, produced, streamErr, handlerVars>>

\* What a bug would do: an error counts as a chunk.
TakeCountingErrors ==
    /\ wr = "select" /\ up = "sending"
    /\ wItem' = upItem
    /\ up' = IF upItem.kind \in {"event", "told"} THEN "reading" ELSE "closed"
    /\ chunks' = chunks + 1
    /\ IF IsEvent(upItem)
       THEN wr' = "reporting" /\ UNCHANGED streamErr
       ELSE wr' = "forwarding" /\ streamErr' = upItem.kind
    /\ UNCHANGED <<ctxVars, upItem, produced, handlerVars>>

\* A result comes over ch: an event is counted and reported, an error is kept
\* for the summary.  After a stop or an error the upstream goroutine returns; it
\* reads on after a failure told in band, which the summary does not keep.
Take ==
    /\ wr = "select" /\ up = "sending"
    /\ wItem' = upItem
    /\ up' = IF upItem.kind \in {"event", "told"} THEN "reading" ELSE "closed"
    /\ IF IsEvent(upItem)
       THEN wr' = "reporting" /\ chunks' = chunks + 1 /\ UNCHANGED streamErr
       ELSE wr' = "forwarding" /\ streamErr' = upItem.kind /\ UNCHANGED chunks
    /\ UNCHANGED <<ctxVars, upItem, produced, handlerVars>>

\* OnFirstByte and OnStreamChunk have returned.
Reported ==
    /\ wr = "reporting"
    /\ wr' = "forwarding"
    /\ UNCHANGED <<ctxVars, upVars, wItem, streamErr, chunks, handlerVars>>

\* What a bug would do: an event is dropped when the codec is not ready for it.
ForwardOrDrop ==
    /\ wr = "forwarding"
    /\ wr' = IF IsEvent(wItem) THEN "select" ELSE "ended"
    /\ IF hd = "ranging"
       THEN /\ hd' = "writing"
            /\ hItem' = wItem
            /\ received' = IF IsEvent(wItem) THEN received + 1 ELSE received
            /\ sawFailure' = ~IsEvent(wItem)
       ELSE UNCHANGED <<hd, hItem, received, sawFailure>>
    /\ UNCHANGED <<ctxVars, upVars, wItem, streamErr, chunks, stopForwarding,
                   sawEnd, permit, outcome>>

\* The result is handed to the codec over wrappedCh; after an error the wrapper
\* hands in its summary and closes wrappedCh.
Forward ==
    /\ wr = "forwarding" /\ hd = "ranging"
    /\ wr' = IF IsEvent(wItem) THEN "select" ELSE "ended"
    /\ hd' = "writing"
    /\ hItem' = wItem
    /\ received' = IF IsEvent(wItem) THEN received + 1 ELSE received
    /\ sawFailure' = ~IsEvent(wItem)
    /\ UNCHANGED <<ctxVars, upVars, wItem, streamErr, chunks, stopForwarding,
                   sawEnd, permit, outcome>>

\* What a bug would do: forwarding does not watch stopForwarding.
WrapperStopsInSelect ==
    /\ wr = "select" /\ stopForwarding
    /\ wr' = "ended"
    /\ UNCHANGED <<ctxVars, upVars, wItem, streamErr, chunks, handlerVars>>

\* The codec has returned: both selects watch stopForwarding.
WrapperStops ==
    /\ wr \in {"select", "forwarding"} /\ stopForwarding
    /\ wr' = "ended"
    /\ UNCHANGED <<ctxVars, upVars, wItem, streamErr, chunks, handlerVars>>

\* Only the outer select watches the context.
WrapperCanceled ==
    /\ wr = "select" /\ ctxDone
    /\ wr' = "ended"
    /\ streamErr' = IF streamErr = "none" THEN "ctx" ELSE streamErr
    /\ UNCHANGED <<ctxVars, upVars, wItem, chunks, handlerVars>>

WrapperSeesEnd ==
    /\ wr = "select" /\ up = "closed"
    /\ wr' = "ended"
    /\ UNCHANGED <<ctxVars, upVars, wItem, streamErr, chunks, handlerVars>>

-----------------------------------------------------------------------------
(* The handler goroutine.                                                  *)

\* WriteStreamingResponse has written what it received.  It returns after an
\* error, and may after an event: a codec returns on an in-band error event, on
\* a stop, and when it cannot encode or write.
CodecWrites ==
    /\ hd = "writing"
    /\ hd' \in IF IsEvent(hItem) THEN {"ranging", "returned"} ELSE {"returned"}
    /\ UNCHANGED <<ctxVars, upVars, wrapperVars, stopForwarding, hItem, received,
                   sawEnd, sawFailure, permit, outcome>>

CodecSeesEnd ==
    /\ hd = "ranging" /\ wr = "ended"
    /\ hd' = "returned"
    /\ sawEnd' = TRUE
    /\ UNCHANGED <<ctxVars, upVars, wrapperVars, stopForwarding, hItem, received,
                   sawFailure, permit, outcome>>

CloseStopForwarding ==
    /\ hd = "returned"
    /\ stopForwarding' = TRUE
    /\ hd' = "waiting"
    /\ UNCHANGED <<ctxVars, upVars, wrapperVars, hItem, received, sawEnd,
                   sawFailure, permit, outcome>>

\* resolveCompletionStatus of the context's error, or else of the stream's.
StreamStatus ==
    IF ctxDone \/ streamErr \in {"ctx", "timeout"} THEN "canceled"
    ELSE IF streamErr = "none" THEN "success" ELSE "error"

\* What a bug would do: OnComplete is called without waiting for the summary.
CompleteAtOnce ==
    /\ hd = "waiting"
    /\ outcome' = StreamStatus
    /\ hd' = "completing"
    /\ UNCHANGED <<ctxVars, upVars, wrapperVars, stopForwarding, hItem, received,
                   sawEnd, sawFailure, permit>>

\* The summary has come: OnComplete is called.
Complete ==
    /\ hd = "waiting" /\ wr = "ended"
    /\ outcome' = StreamStatus
    /\ hd' = "completing"
    /\ UNCHANGED <<ctxVars, upVars, wrapperVars, stopForwarding, hItem, received,
                   sawEnd, sawFailure, permit>>

\* releaseAttempt, and ServeHTTP returns.
Release ==
    /\ hd = "completing"
    /\ permit' = FALSE
    /\ hd' = "done"
    /\ UNCHANGED <<ctxVars, upVars, wrapperVars, stopForwarding, hItem, received,
                   sawEnd, sawFailure, outcome>>

-----------------------------------------------------------------------------
(* The client and net/http.                                                *)

ClientLeaves ==
    /\ hd # "done" /\ ~ctxDone
    /\ ctxDone' = TRUE
    /\ UNCHANGED <<upVars, wrapperVars, handlerVars>>

\* net/http cancels the request's context when the handler has returned.
ServerCancels ==
    /\ hd = "done" /\ ~ctxDone
    /\ ctxDone' = TRUE
    /\ UNCHANGED <<upVars, wrapperVars, handlerVars>>

AllEnded == up = "closed" /\ wr = "ended" /\ hd = "done"

Terminated == AllEnded /\ ctxDone /\ UNCHANGED vars

Wrapper == Take \/ Reported \/ Forward \/ WrapperStops \/ WrapperCanceled
             \/ WrapperSeesEnd

HandlerStep == CodecWrites \/ CodecSeesEnd \/ CloseStopForwarding \/ Complete
                 \/ Release

Next ==
    \/ ReadEvent \/ ReadFails \/ ReadEnd \/ Drained \/ AbandonSend
    \/ Wrapper \/ HandlerStep
    \/ ClientLeaves \/ ServerCancels \/ Terminated

Spec == Init /\ [][Next]_vars

\* Goroutines that can run do run, net/http cancels the context, a write to the
\* client ends or fails, and once the context is done a blocked read of the
\* upstream's body fails.  Nothing makes a silent upstream speak.
FairSpec ==
    /\ Spec
    /\ WF_vars(Wrapper)
    /\ WF_vars(HandlerStep)
    /\ WF_vars(AbandonSend)
    /\ WF_vars(ctxDone /\ (ReadFails \/ Drained))
    /\ WF_vars(ServerCancels)

-----------------------------------------------------------------------------
(* What the pipeline promises.                                             *)

\* Every variable has its type (StreamResult, streamSummary).
TypeOK ==
    /\ ctxDone \in BOOLEAN
    /\ up \in {"reading", "draining", "sending", "closed"}
    /\ upItem \in Items /\ wItem \in Items /\ hItem \in Items
    /\ produced \in 0..MaxEvents
    /\ wr \in {"select", "reporting", "forwarding", "ended"}
    /\ streamErr \in {"none", "ctx"} \cup Failures
    /\ chunks \in 0..MaxEvents /\ received \in 0..MaxEvents
    /\ stopForwarding \in BOOLEAN
    /\ hd \in {"ranging", "writing", "returned", "waiting", "completing", "done"}
    /\ sawEnd \in BOOLEAN /\ sawFailure \in BOOLEAN /\ permit \in BOOLEAN
    /\ outcome \in {"none", "success", "error", "canceled"}

\* The codec receives the upstream's events in order and without a gap, and if
\* it sees the end of the stream while the client is there, it has had them all.
NoEventLost ==
    /\ IsEvent(hItem) => hItem.n = received
    /\ sawEnd /\ ~ctxDone => received = produced

\* "Callbacks are serialized per request" (stats.go): the wrapper makes no
\* callback once OnComplete is called, and the summary OnComplete reports is not
\* written any more.
CallbacksSerialized ==
    hd \in {"completing", "done"} => wr = "ended"

\* CompleteEvent.Chunks counts the events the client was sent, plus at most the
\* one that was on its way when the codec gave up.
ChunksCounted ==
    outcome # "none" => IF sawEnd \/ sawFailure
                        THEN chunks = received
                        ELSE chunks \in {received, received + 1}

\* The Status of OnComplete follows StreamResult.Err and the context, whichever
\* of codec, wrapper and upstream is the first to end.  It is no success when the
\* codec received an Err and an error only when the upstream sent one.  For a
\* client that is there it is a success when the codec saw the end, and when the
\* upstream has sent no Err, whatever failure its events have told in band.
StatusFollowsErr ==
    outcome # "none" =>
        /\ sawFailure => outcome # "success"
        /\ outcome = "error" => upItem.kind = "other"
        /\ ~ctxDone /\ (sawEnd \/ IsEvent(upItem)) => outcome = "success"

\* However the stream comes to its end (the client leaves, the upstream closes,
\* or the codec gives up), ServeHTTP returns and both goroutines end: none waits
\* for ever on a channel, and none outlives the request for good.
EverythingEnds ==
    (ctxDone \/ up = "closed" \/ hd = "returned") ~> AllEnded

\* attempt_controller.go:8-10: "For streaming attempts, Release is called only
\* after the stream is fully consumed or the client request is canceled."
ReleaseAfterTheStream ==
    [][permit /\ ~permit' => up = "closed" \/ ctxDone]_vars
=============================================================================
