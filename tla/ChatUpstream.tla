---------------------------- MODULE ChatUpstream ----------------------------
(***************************************************************************)
(* The goroutine of OpenAIChatClient.SendStream with a Chat Completions    *)
(* provider before it.  A chunk may carry several things at once, and is   *)
(* decoded to as many IR events.  After a finish_reason the goroutine      *)
(* keeps the stop event back and drains the body for trailing usage.       *)
(***************************************************************************)
EXTENDS StreamEvents

CONSTANTS
    Kinds,           \* the kinds of content the provider may give
    Calls,           \* the ids of the tool calls it may make
    Reasons,         \* the stop reasons it may give
    MaxPieces,       \* bound: fragments in an answer
    MaxBlocks        \* bound: tool calls in an answer

VARIABLES
    up,              \* the provider and the client's reader
    queue,           \* events that are on their way to the codec
    said             \* history: the answer the provider has given

vars == <<up, queue, said>>

UpInit == [phase |-> "silent", stop |-> StopEvent("none", NoUsage)]

-----------------------------------------------------------------------------
(* A chunk: its first choice, or none; the deltas of the choice, each with *)
(* its index, in the order in which they are decoded; finish_reason, usage.*)

Chunk(hasChoice, deltas, reason, usage) ==
    [hasChoice |-> hasChoice, deltas |-> deltas, reason |-> reason, usage |-> usage]

DecodeOpenAIChatStreamChunks(chunk) ==
    LET last == Len(chunk.deltas)
    IN
    CASE ~chunk.hasChoice /\ chunk.usage # NoUsage -> <<BareDelta("none", chunk.usage)>>
      [] chunk.reason # "none" ->
             Append(chunk.deltas, StopEvent(chunk.reason, chunk.usage))
      [] chunk.reason = "none" /\ last > 0 ->
             [chunk.deltas EXCEPT ![last].usage = chunk.usage]
      [] OTHER -> <<StartEvent(NoUsage, NoUsage)>>

\* The events of a chunk are sent; a stop is kept back.
Reads(chunk) ==
    LET events == DecodeOpenAIChatStreamChunks(chunk)
        final  == events[Len(events)]
    IN  /\ queue = <<>>
        /\ IF final.type = "stop"
           THEN /\ queue' = SubSeq(events, 1, Len(events) - 1)
                /\ up' = [phase |-> "draining", stop |-> final]
           ELSE queue' = events /\ up' = [up EXCEPT !.phase = "speaking"]

-----------------------------------------------------------------------------
(* External: the provider.                                                 *)

\* The number of the next piece.
Number == Len(said.pieces) + 1

HasRoom == Len(said.pieces) < MaxPieces

Called == {said.calls[i] : i \in 1..Len(said.calls)}

IndexOf(call) == (CHOOSE i \in 1..Len(said.calls) : said.calls[i] = call) - 1

\* The first chunk bears the role, and in many providers an empty content.
RoleChunk ==
    /\ up.phase \in {"silent", "filtered"}
    /\ \E deltas \in {<<>>, <<Delta(0, Part("text", NoId, 0))>>} :
         Reads(Chunk(TRUE, deltas, "none", NoUsage))
    /\ UNCHANGED said

\* A fragment of a text, a thought or a refusal, maybe with usage so far.
ContentChunk ==
    /\ up.phase = "speaking" /\ HasRoom
    /\ \E kind \in Kinds \cap {"text", "thinking", "refusal"} :
       \E usage \in {NoUsage} \cup (IF Number = 1 THEN {Usage(1, 1)} ELSE {}) :
         /\ Reads(Chunk(TRUE, <<Delta(0, Part(kind, NoId, Number))>>, "none", usage))
         /\ said' = [said EXCEPT !.pieces = Append(@, Piece(kind, NoId, Number)),
                                 !.usage = Merge(@, usage)]

\* A tool call begins: its id, with the first fragment of its arguments or
\* without.
CallChunk ==
    /\ up.phase = "speaking" /\ "tool_use" \in Kinds /\ Len(said.calls) < MaxBlocks
    /\ \E call \in Calls \ Called :
       \E frag \in {0} \cup (IF HasRoom THEN {Number} ELSE {}) :
         /\ Reads(Chunk(TRUE, <<Delta(Len(said.calls), Part("tool_use", call, frag))>>,
                        "none", NoUsage))
         /\ said' = [said EXCEPT
                       !.calls = Append(@, call),
                       !.pieces = IF frag = 0 THEN @
                                  ELSE Append(@, Piece("tool_use", call, frag))]

\* More of the arguments of calls that have begun, each at its own index: of
\* one call, or of two in one chunk.
ArgumentsChunk ==
    /\ up.phase = "speaking" /\ HasRoom
    /\ \E call \in Called :
         \/ /\ Reads(Chunk(TRUE, <<Delta(IndexOf(call), Part("tool_use", NoId, Number))>>,
                           "none", NoUsage))
            /\ said' = [said EXCEPT !.pieces = Append(@, Piece("tool_use", call, Number))]
         \/ \E other \in Called \ {call} :
              /\ Number < MaxPieces
              /\ Reads(Chunk(TRUE, <<Delta(IndexOf(call), Part("tool_use", NoId, Number)),
                                     Delta(IndexOf(other), Part("tool_use", NoId, Number + 1))>>,
                             "none", NoUsage))
              /\ said' = [said EXCEPT !.pieces = @ \o <<Piece("tool_use", call, Number),
                                                        Piece("tool_use", other, Number + 1)>>]

\* The finish_reason, with the last of the text in the same chunk or without,
\* and with the usage or without.
FinishChunk ==
    /\ up.phase = "speaking"
    /\ \E reason \in Reasons \ {"stop_sequence", "pause_turn"}, usage \in {NoUsage, Usage(1, 2)} :
         \/ /\ Reads(Chunk(TRUE, <<>>, reason, usage))
            /\ said' = [said EXCEPT !.reason = reason, !.usage = Merge(@, usage),
                                    !.end = "clean"]
         \/ /\ HasRoom
            /\ Reads(Chunk(TRUE, <<Delta(0, Part("text", NoId, Number))>>, reason, usage))
            /\ said' = [said EXCEPT !.reason = reason, !.usage = Merge(@, usage),
                                    !.pieces = Append(@, Piece("text", NoId, Number)),
                                    !.end = "clean"]

\* A chunk without choices and usage is taken for a start: Azure's first chunk,
\* which has content filter results only.
EmptyChunk ==
    /\ up.phase \in {"silent", "speaking"} /\ queue = <<>>
    /\ queue' = DecodeOpenAIChatStreamChunks(Chunk(FALSE, <<>>, "none", NoUsage))
    /\ up' = [up EXCEPT !.phase = IF @ = "silent" THEN "filtered" ELSE @]
    /\ UNCHANGED said

\* The provider fails and says so in band.  The payload has no choices either: it
\* is taken for a start, and the failure is not heard of.
ErrorPayload ==
    /\ up.phase \in {"silent", "filtered", "speaking"} /\ queue = <<>>
    /\ queue' = DecodeOpenAIChatStreamChunks(Chunk(FALSE, <<>>, "none", NoUsage))
    /\ up' = [up EXCEPT !.phase = "broken"]
    /\ said' = [said EXCEPT !.end = "unheard"]

\* drainTrailingUsage: a chunk with usage only, after the finish_reason.
TrailingUsage ==
    /\ up.phase = "draining" /\ queue = <<>> /\ said.usage # Usage(1, 2)
    /\ LET trailing == DecodeOpenAIChatStreamChunks(Chunk(FALSE, <<>>, "none", Usage(1, 2)))[1]
       IN  up' = [up EXCEPT !.stop.usage = Merge(@, trailing.usage)]
    /\ said' = [said EXCEPT !.usage = Merge(@, Usage(1, 2))]
    /\ UNCHANGED queue

\* [DONE], the end of the body and an error alike end the draining: the stop
\* is sent.  A provider that tells its usage tells all of it.
Drained ==
    /\ up.phase = "draining" /\ queue = <<>> /\ said.usage \in {NoUsage, Usage(1, 2)}
    /\ queue' = <<up.stop>>
    /\ up' = [up EXCEPT !.phase = "ended"]
    /\ UNCHANGED said

\* Reading fails, or a chunk cannot be decoded.
ReadFails ==
    /\ up.phase \in {"silent", "filtered", "speaking", "broken"} /\ queue = <<>>
    /\ queue' = <<ErrResult>>
    /\ up' = [up EXCEPT !.phase = "ended"]
    /\ said' = [said EXCEPT !.end = "error"]

\* [DONE] or io.EOF: the reader closes the channel, also without a stop.
Close ==
    /\ up.phase \in {"silent", "filtered", "speaking", "broken", "ended"} /\ queue = <<>>
    /\ up' = [up EXCEPT !.phase = "closed"]
    /\ said' = [said EXCEPT !.end = IF @ = "none" THEN "cut" ELSE @]
    /\ UNCHANGED queue

\* How it comes to an end.
Ends == TrailingUsage \/ Drained \/ Close

Next ==
    \/ RoleChunk \/ ContentChunk \/ CallChunk \/ ArgumentsChunk \/ FinishChunk
    \/ EmptyChunk \/ ErrorPayload \/ TrailingUsage \/ Drained \/ ReadFails \/ Close
=============================================================================
