--------------------------- MODULE GeminiUpstream ---------------------------
(***************************************************************************)
(* The goroutine of GeminiClient.SendStream with a Gemini provider before  *)
(* it.  Every chunk is a whole GenerateContentResponse; the index of a     *)
(* part is its position in the chunk.  At a stop reason the goroutine      *)
(* splits content and stop, and drains the body for trailing usage.        *)
(***************************************************************************)
EXTENDS StreamEvents

CONSTANTS
    Kinds,           \* the kinds of content the provider may give
    Calls,           \* the ids of the tool calls it may make
    Reasons,         \* the stop reasons it may give
    MaxPieces        \* bound: fragments in an answer

VARIABLES
    up,              \* the provider and the client's reader
    queue,           \* events that are on their way to the codec
    said             \* history: the answer the provider has given

vars == <<up, queue, said>>

UpInit == [phase |-> "silent", stop |-> StopEvent("none", NoUsage)]

-----------------------------------------------------------------------------
(* A chunk: the parts of its candidate, its finishReason, its usage.       *)

Chunk(parts, finish, usage) == [parts |-> parts, finish |-> finish, usage |-> usage]

HasCall(parts) == \E i \in 1..Len(parts) : parts[i].kind = "tool_use"

\* An explicit finishReason wins; tool_use is inferred from a function call when
\* the reason is STOP or absent.
StopReasonOf(chunk) ==
    CASE chunk.finish \in {"end_turn", "none"} /\ HasCall(chunk.parts) -> "tool_use"
      [] OTHER -> chunk.finish

\* The stop reason and the usage are attached to the last delta.
DecodeGeminiStreamChunk(chunk) ==
    LET last == Len(chunk.parts)
    IN
    IF last > 0
    THEN [i \in 1..last |->
            IF i < last THEN Delta(i - 1, chunk.parts[i])
            ELSE Event("delta", i - 1, chunk.parts[i], StopReasonOf(chunk), chunk.usage,
                       NoUsage)]
    ELSE IF StopReasonOf(chunk) # "none" THEN <<StopEvent(StopReasonOf(chunk), chunk.usage)>>
    ELSE <<StartEvent(NoUsage, chunk.usage)>>

\* What a bug would do: the event is sent as it is, content and stop in one.
ReadsUnsplit(chunk) ==
    LET events == DecodeGeminiStreamChunk(chunk)
        final  == events[Len(events)]
    IN
    /\ queue = <<>>
    /\ IF final.reason = "none"
       THEN queue' = events /\ up' = [up EXCEPT !.phase = "speaking"]
       ELSE /\ queue' = IF final.type = "stop" THEN <<>> ELSE events
            /\ up' = [up EXCEPT !.phase = "draining",
                                !.stop = StopEvent(final.reason, final.usage)]

\* The events of a chunk are sent.  An event with a stop reason is split: its
\* content is sent, and the stop is kept back for the draining.
Reads(chunk) ==
    LET events == DecodeGeminiStreamChunk(chunk)
        final  == events[Len(events)]
    IN
    /\ queue = <<>>
    /\ IF final.reason = "none"
       THEN queue' = events /\ up' = [up EXCEPT !.phase = "speaking"]
       ELSE /\ queue' = IF final.type = "stop" THEN <<>>
                        ELSE Append(SubSeq(events, 1, Len(events) - 1), Delta(final.index, final.part))
            /\ up' = [up EXCEPT !.phase = "draining",
                                !.stop = StopEvent(final.reason, final.usage)]

-----------------------------------------------------------------------------
(* External: the provider.                                                 *)

Number == Len(said.pieces) + 1

Called == {said.calls[i] : i \in 1..Len(said.calls)}

\* The parts of one chunk: at most two, a call with all of its arguments.
SomeParts ==
    LET one(n) == {Part(kind, NoId, n) : kind \in Kinds \cap {"text", "thinking"}}
                    \cup {Part("tool_use", call, n) :
                             call \in IF "tool_use" \in Kinds
                                      THEN Calls \ Called ELSE {}}
        single == IF Number <= MaxPieces THEN {<<p>> : p \in one(Number)} ELSE {}
        double == IF Number < MaxPieces
                  THEN {<<p, q>> : p \in one(Number), q \in one(Number + 1)} ELSE {}
    IN  {parts \in single \cup double :
            Len(parts) = 2 /\ parts[1].kind = "tool_use" => parts[1].id # parts[2].id}

PiecesOf(parts) ==
    [i \in 1..Len(parts) |-> Piece(parts[i].kind, parts[i].id, parts[i].frag)]

CallsOf(parts) ==
    LET calls == SelectSeq(parts, LAMBDA p : p.kind = "tool_use")
    IN  [i \in 1..Len(calls) |-> calls[i].id]

Spoken(parts) ==
    [said EXCEPT !.pieces = @ \o PiecesOf(parts), !.calls = @ \o CallsOf(parts)]

\* Content before the finishReason, with the usage so far or without.
ContentChunk ==
    /\ up.phase \in {"silent", "speaking"}
    /\ \E parts \in SomeParts, usage \in {NoUsage} \cup (IF Number = 1 THEN {Usage(1, 1)} ELSE {}) :
         /\ Reads(Chunk(parts, "none", usage))
         /\ said' = [Spoken(parts) EXCEPT
                        !.usage = Merge(@, usage),
                        !.reason = IF HasCall(parts) THEN "tool_use" ELSE @]

\* The chunk with the finishReason, with content or without.
FinishChunk ==
    /\ up.phase \in {"silent", "speaking"}
    /\ \E parts \in {<<>>} \cup SomeParts,
          finish \in Reasons \ {"tool_use", "pause_turn"},
          usage \in {NoUsage, Usage(1, 2)} :
         /\ Reads(Chunk(parts, finish, usage))
         /\ said' = [Spoken(parts) EXCEPT
                        !.usage = Merge(@, usage),
                        !.reason = IF finish = "end_turn" /\ HasCall(parts)
                                   THEN "tool_use" ELSE finish,
                        !.end = "clean"]

\* A chunk without content and finishReason, such as one with usage only.
EmptyChunk ==
    /\ up.phase \in {"silent", "speaking"}
    /\ Reads(Chunk(<<>>, "none", Usage(1, 0)))
    /\ said' = [said EXCEPT !.usage = Merge(@, Usage(1, 0))]

\* The provider fails and says so in band.  The payload has no candidates: it is
\* taken for a start, and the failure is not heard of.
ErrorPayload ==
    /\ up.phase \in {"silent", "speaking"} /\ queue = <<>>
    /\ queue' = DecodeGeminiStreamChunk(Chunk(<<>>, "none", NoUsage))
    /\ up' = [up EXCEPT !.phase = "broken"]
    /\ said' = [said EXCEPT !.end = "unheard"]

\* drainTrailingUsage: what else there is is read for its usage only.
TrailingUsage ==
    /\ up.phase = "draining" /\ queue = <<>> /\ said.usage # Usage(1, 2)
    /\ LET trailing == DecodeGeminiStreamChunk(Chunk(<<>>, "none", Usage(1, 2)))
       IN  up' = [up EXCEPT !.stop.usage = Merge(@, trailing[Len(trailing)].usage)]
    /\ said' = [said EXCEPT !.usage = Merge(@, Usage(1, 2))]
    /\ UNCHANGED queue

\* After a call without a finishReason the provider may go on.  What comes while
\* the goroutine drains is not passed on.
TrailingContent ==
    /\ up.phase = "draining" /\ queue = <<>> /\ said.end = "none"
    /\ said' = [said EXCEPT !.end = "clean"]
    /\ UNCHANGED <<up, queue>>

\* The end of the body and an error alike end the draining: the stop is sent.  A
\* provider that tells its usage tells all of it.  An answer that ends in a call
\* without a finishReason counts as ended here, also where the draining met an error.
Drained ==
    /\ up.phase = "draining" /\ queue = <<>> /\ said.usage \in {NoUsage, Usage(1, 2)}
    /\ queue' = <<up.stop>>
    /\ up' = [up EXCEPT !.phase = "ended"]
    /\ said' = [said EXCEPT !.end = "clean"]

\* Reading fails, or a chunk cannot be decoded.
ReadFails ==
    /\ up.phase \in {"silent", "speaking", "broken"} /\ queue = <<>>
    /\ queue' = <<ErrResult>>
    /\ up' = [up EXCEPT !.phase = "ended"]
    /\ said' = [said EXCEPT !.end = "error"]

\* io.EOF: the reader closes the channel, also without a stop.
Close ==
    /\ up.phase \in {"silent", "speaking", "broken", "ended"} /\ queue = <<>>
    /\ up' = [up EXCEPT !.phase = "closed"]
    /\ said' = [said EXCEPT !.end = IF @ = "none" THEN "cut" ELSE @]
    /\ UNCHANGED queue

\* How it comes to an end.
Ends == TrailingUsage \/ TrailingContent \/ Drained \/ Close

Next ==
    \/ ContentChunk \/ FinishChunk \/ EmptyChunk \/ ErrorPayload \/ TrailingUsage
    \/ TrailingContent \/ Drained \/ ReadFails \/ Close
=============================================================================
