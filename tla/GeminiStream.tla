---------------------------- MODULE GeminiStream ----------------------------
(***************************************************************************)
(* geminiCodec.WriteStreamingResponse: it ranges over the IR events of any *)
(* upstream and writes GenerateContentResponse chunks.  A functionCall     *)
(* must come whole, so the fragments of a call are buffered by their index *)
(* and flushed as one part.                                                *)
(***************************************************************************)
EXTENDS StreamEvents, SequencesExt

CONSTANT Indices     \* the indices of upstream events

VARIABLES
    codec,           \* the variables of WriteStreamingResponse
    client           \* external: the accumulator of the client's SDK

vars == <<codec, client>>

NoCall == [id |-> NoId, args |-> <<>>]

CodecInit ==
    [pc |-> "ranging",
     usage |-> NoUsage,                          \* accumulatedUsage
     reason |-> "none",                          \* lastStopReason
     pending |-> [i \in Indices |-> NoCall],
     order |-> <<>>]                             \* pendingOrder

-----------------------------------------------------------------------------
(* External: the client's SDK.  It takes parts until the finishReason; a   *)
(* function call without a name is "broken".  The stream has no mark of    *)
(* its end but the finishReason.                                           *)

ClientInit == [answer |-> Answer, broken |-> FALSE]

SeesPart(c, kind, frags) ==
    IF c.answer.reason # "none" THEN [c EXCEPT !.broken = TRUE]
    ELSE [c EXCEPT !.answer.pieces = @ \o Fragments(kind, NoId, frags)]

\* One functionCall part for every call, each with all of its arguments.
SeesCalls(c, calls) ==
    LET args == [i \in 1..Len(calls) |-> Fragments("tool_use", calls[i].id, calls[i].args)]
    IN
    CASE calls = <<>> -> c
      [] calls # <<>> /\ \/ c.answer.reason # "none"
                          \/ \E i \in 1..Len(calls) : calls[i].id = NoId ->
             [c EXCEPT !.broken = TRUE]
      [] OTHER ->
             [c EXCEPT !.answer.pieces = @ \o FlattenSeq(args),
                       !.answer.calls = @ \o [i \in 1..Len(calls) |-> calls[i].id]]

SeesUsage(c, usage) ==
    IF usage = NoUsage THEN c ELSE [c EXCEPT !.answer.usage = usage]

SeesFinish(c, reason) == [c EXCEPT !.answer.reason = reason]

SeesError(c) == [c EXCEPT !.answer.end = "error"]

SeesClose(c) ==
    [c EXCEPT !.answer.end = IF c.answer.reason # "none" THEN "clean" ELSE "cut"]

-----------------------------------------------------------------------------
(* The closures of WriteStreamingResponse.                                 *)

\* bufferTool: an id that is not empty replaces the one before.
Buffered(call, part) ==
    [id   |-> IF part.id # NoId THEN part.id ELSE call.id,
     args |-> IF part.frag # 0 THEN Append(call.args, part.frag) ELSE call.args]

\* flushPending: every buffered call becomes one part, the oldest first.
Flushed(k) == [k EXCEPT !.pending = [i \in Indices |-> NoCall], !.order = <<>>]

\* The calls that are buffered, the oldest first.
Buffer == [i \in 1..Len(codec.order) |-> codec.pending[codec.order[i]]]

ClientFlushed(c) == SeesCalls(c, Buffer)

\* After a cut, arguments may be incomplete: what is not valid JSON is replaced
\* by an empty object.
ClientFlushedEmpty(c, invalid) ==
    SeesCalls(c, [i \in 1..Len(codec.order) |->
                    IF codec.order[i] \in invalid THEN [Buffer[i] EXCEPT !.args = <<>>]
                    ELSE Buffer[i]])

\* Usage and stop reason are collected from every event; the usage of its
\* response only when it tells the prompt's tokens.
Noted(ev) ==
    LET usage == Merge(codec.usage, ev.usage)
    IN  [codec EXCEPT !.usage = IF ev.response.prompt = 0 THEN usage
                                ELSE Merge(usage, ev.response),
                      !.reason = IF ev.reason # "none" THEN ev.reason ELSE @]

\* The usage and the reason that are injected into the stop event.
StopUsage(ev) ==
    LET total == Noted(ev).usage
    IN  IF total.prompt # 0 /\ ev.usage.prompt = 0 THEN Merge(ev.usage, total)
        ELSE ev.usage

StopReason(ev) == IF ev.reason # "none" THEN ev.reason ELSE codec.reason

\* stopReasonToGeminiFinishReason, in the IR's names for the wire's values.
FinishReason(reason) ==
    CASE reason \in {"none", "tool_use"} -> "end_turn"
      [] reason = "pause_turn"           -> "max_tokens"
      [] OTHER                           -> reason

\* EncodeGeminiStreamChunk of a delta: a part without a Gemini form, such as a
\* refusal, is written as an empty part.
WrittenDelta(ev) ==
    LET content == IF ev.part.kind \in {"text", "thinking"}
                   THEN SeesPart(client, ev.part.kind,
                                 IF ev.part.frag = 0 THEN <<>> ELSE <<ev.part.frag>>)
                   ELSE client
        ended   == IF ev.reason = "none" THEN content
                   ELSE SeesFinish(content, FinishReason(ev.reason))
    IN  SeesUsage(ended, ev.usage)

-----------------------------------------------------------------------------
(* One iteration of the loop.                                              *)

OnTool(ev) ==
    /\ ev.type \in {"content_block_start", "delta"} /\ ev.part.kind = "tool_use"
    /\ codec' = [Noted(ev) EXCEPT
                    !.pending[ev.index] = Buffered(@, ev.part),
                    !.order = IF Contains(@, ev.index) THEN @ ELSE Append(@, ev.index)]
    /\ UNCHANGED client

OnOther(ev) ==
    /\ ev.type \in {"start", "content_block_start", "delta"}
    /\ ev.part.kind # "tool_use"
    /\ codec' = Noted(ev)
    /\ client' = CASE ev.type = "delta" -> WrittenDelta(ev)
                   [] ev.type = "start" -> SeesUsage(client, ev.usage)
                   [] OTHER             -> client

\* A block stop flushes all that is buffered, whatever block it is for.
OnBlockStop(ev) ==
    /\ ev.type = "content_block_stop"
    /\ codec' = Flushed(Noted(ev))
    /\ client' = ClientFlushed(client)

OnStop(ev) ==
    /\ ev.type = "stop"
    /\ codec' = Flushed(Noted(ev))
    /\ client' = SeesUsage(SeesFinish(ClientFlushed(client), FinishReason(StopReason(ev))),
                           StopUsage(ev))

\* An error event and an error of the reader are told in band and end the loop.
OnError(ev) ==
    /\ ev.type \in {"error", "err"}
    /\ codec' = [codec EXCEPT !.pc = "returned"]
    /\ client' = SeesError(client)

Receive(ev) ==
    /\ codec.pc = "ranging"
    /\ OnTool(ev) \/ OnOther(ev) \/ OnBlockStop(ev) \/ OnStop(ev) \/ OnError(ev)

\* The channel is closed: what is buffered is flushed.
SeesEnd ==
    /\ codec.pc = "ranging"
    /\ codec' = [Flushed(codec) EXCEPT !.pc = "returned"]
    /\ \E invalid \in SUBSET ToSet(codec.order) :
         client' = SeesClose(ClientFlushedEmpty(client, invalid))

\* A write fails, the client has left: the loop ends.
WriteFails ==
    /\ codec.pc = "ranging"
    /\ codec' = [codec EXCEPT !.pc = "returned"]
    /\ client' = [client EXCEPT !.answer.end = "gone"]
=============================================================================
