----------------------------- MODULE ChatStream -----------------------------
(***************************************************************************)
(* openaiChatCodec.WriteStreamingResponse: it ranges over the IR events of *)
(* any upstream and writes Chat Completions chunks.  Chunks have no block  *)
(* starts and stops; what belongs together has the same index.             *)
(***************************************************************************)
EXTENDS StreamEvents

CONSTANT Indices     \* the indices of upstream events

VARIABLES
    codec,           \* the variables of WriteStreamingResponse
    client           \* external: the accumulator of the client's SDK

vars == <<codec, client>>

CodecInit ==
    [pc |-> "ranging",
     completed |-> FALSE,
     usage |-> NoUsage,       \* accumulatedUsage
     reason |-> "none"]       \* lastStopReason

-----------------------------------------------------------------------------
(* External: the client's SDK.  The answer is what choice 0 has: the codec *)
(* writes the finish_reason and the tool calls there.  "shown" has the     *)
(* content of every choice in the order of its arrival.  A tool call is    *)
(* known by its index, and its first chunk bears its id.  "broken" is set  *)
(* by arguments of a call without an id, by a second id on an index, and   *)
(* by anything but usage after the finish_reason.                          *)

ClientInit ==
    [answer |-> Answer, shown |-> <<>>, ids |-> [i \in Indices |-> NoId],
     broken |-> FALSE]

Takes(c, wellFormed, taken) ==
    IF wellFormed /\ c.answer.reason = "none" THEN taken ELSE [c EXCEPT !.broken = TRUE]

SeesContent(c, choice, kind, frag) ==
    Takes(c, TRUE,
          [c EXCEPT !.shown = IF frag = 0 THEN @ ELSE Append(@, Piece(kind, NoId, frag)),
                    !.answer.pieces = IF frag = 0 \/ choice # 0 THEN @
                                      ELSE Append(@, Piece(kind, NoId, frag))])

SeesToolCall(c, index, id, frag) ==
    LET known == c.ids[index]
        call  == IF known = NoId THEN id ELSE known
    IN  Takes(c, call # NoId /\ id \in {NoId, call},
              [c EXCEPT !.ids[index] = call,
                        !.answer.calls = IF known = NoId THEN Append(@, call) ELSE @,
                        !.answer.pieces =
                            IF frag = 0 THEN @ ELSE Append(@, Piece("tool_use", call, frag))])

SeesUsage(c, usage) ==
    IF usage = NoUsage THEN c ELSE [c EXCEPT !.answer.usage = usage]

SeesFinish(c, reason, usage) ==
    Takes(c, TRUE, SeesUsage([c EXCEPT !.answer.reason = reason], usage))

\* An error payload, and [DONE] after it.
SeesError(c) == [c EXCEPT !.answer.end = "error"]

SeesDone(c) == [c EXCEPT !.answer.end = "clean"]

-----------------------------------------------------------------------------
(* The loop.                                                               *)

\* What a bug would do: the usage of the response is not collected.
NotedWithoutResponse(ev) ==
    [codec EXCEPT !.usage = Merge(@, ev.usage),
                  !.reason = IF ev.reason # "none" THEN ev.reason ELSE @]

\* Usage and stop reason are collected from every event; the usage of its
\* response only when it tells the prompt's tokens.
Noted(ev) ==
    LET usage == Merge(codec.usage, ev.usage)
    IN  [codec EXCEPT !.usage = IF ev.response.prompt = 0 THEN usage
                                ELSE Merge(usage, ev.response),
                      !.reason = IF ev.reason # "none" THEN ev.reason ELSE @]

\* The usage and the reason that are injected into the stop event.
StopUsage(ev) ==
    LET total == Noted(ev).usage
    IN  IF total.prompt # 0 /\ ev.usage.prompt = 0 THEN Merge(ev.usage, total)
        ELSE ev.usage

StopReason(ev) == IF ev.reason # "none" THEN ev.reason ELSE codec.reason

\* encodeOpenAIChatFinishReason, in the IR's names for the wire's values.
FinishReason(reason) ==
    CASE reason \in {"none", "stop_sequence"} -> "end_turn"
      [] reason = "pause_turn"                -> "max_tokens"
      [] OTHER                                -> reason

\* EncodeOpenAIChatStreamChunk: the index of a text is written as the index of
\* its choice, that of a call as the index of the call; a delta may carry usage
\* and nothing else; the only block start with a form is that of a tool call.
Written(ev) ==
    CASE ev.type = "delta" /\ ev.part.kind \in {"text", "thinking", "refusal"} ->
             SeesUsage(SeesContent(client, ev.index, ev.part.kind, ev.part.frag), ev.usage)
      [] ev.type \in {"delta", "content_block_start"} /\ ev.part.kind = "tool_use" ->
             SeesUsage(SeesToolCall(client, ev.index, ev.part.id, ev.part.frag), ev.usage)
      [] ev.type = "delta" /\ ev.part.kind \in {"server_tool_use", "none"} ->
             SeesUsage(client, ev.usage)
      [] OTHER -> client

OnEvent(ev) ==
    /\ ev.type \notin {"stop", "error", "err"}
    /\ codec' = Noted(ev)
    /\ client' = Written(ev)

OnStop(ev) ==
    /\ ev.type = "stop"
    /\ codec' = [Noted(ev) EXCEPT !.completed = TRUE]
    /\ client' = SeesFinish(client, FinishReason(StopReason(ev)), StopUsage(ev))

\* An error event and an error of the reader are told in band and end the loop.
OnError(ev) ==
    /\ ev.type \in {"error", "err"}
    /\ codec' = [codec EXCEPT !.pc = "returned"]
    /\ client' = SeesError(client)

\* What a bug would do: [DONE] is written whether or not a stop has come.
SeesEndAlwaysDone ==
    /\ codec.pc = "ranging"
    /\ codec' = [codec EXCEPT !.pc = "returned"]
    /\ client' = SeesDone(client)

Receive(ev) ==
    /\ codec.pc = "ranging"
    /\ OnEvent(ev) \/ OnStop(ev) \/ OnError(ev)

\* The channel is closed: [DONE] is written only after a complete stop event.
SeesEnd ==
    /\ codec.pc = "ranging"
    /\ codec' = [codec EXCEPT !.pc = "returned"]
    /\ client' = IF codec.completed THEN SeesDone(client)
                 ELSE [client EXCEPT !.answer.end = "cut"]

\* A write fails, the client has left: the loop ends.
WriteFails ==
    /\ codec.pc = "ranging"
    /\ codec' = [codec EXCEPT !.pc = "returned"]
    /\ client' = [client EXCEPT !.answer.end = "gone"]
=============================================================================
