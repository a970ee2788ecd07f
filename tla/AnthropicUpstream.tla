-------------------------- MODULE AnthropicUpstream --------------------------
(***************************************************************************)
(* The goroutine of AnthropicClient.SendStream with an Anthropic provider  *)
(* before it: a provider's SSE event is read, decoded and put on the       *)
(* channel.  The provider is external; it says the content of one answer   *)
(* in blocks that are strictly sequential and numbered from 0.             *)
(***************************************************************************)
EXTENDS StreamEvents

CONSTANTS
    Kinds,           \* the kinds of blocks the provider may open
    Calls,           \* the ids of the tool calls it may make
    Reasons,         \* the stop reasons it may give
    MaxPieces,       \* bound: fragments in an answer
    MaxBlocks        \* bound: blocks in an answer

VARIABLES
    up,              \* the provider and the client's reader
    queue,           \* events that are on their way to the codec
    said             \* history: the answer the provider has given

vars == <<up, queue, said>>

UpInit == [phase |-> "silent", open |-> FALSE, block |-> NoPart,
           calls |-> {}, next |-> 0]

-----------------------------------------------------------------------------
(* An SSE event of the Anthropic protocol, and what is read of it.         *)

SSE(type, index, part, reason, usage) ==
    [type |-> type, index |-> index, part |-> part, reason |-> reason,
     usage |-> usage]

\* An input_json_delta does not say to which kind of tool block it belongs.
DecodeDelta(part) ==
    IF part.kind \in ToolKinds THEN [part EXCEPT !.kind = "tool_use"] ELSE part

DecodeAnthropicStreamEvent(sse) ==
    CASE sse.type = "ping"                -> <<>>
      [] sse.type = "message_start"       -> <<StartEvent(sse.usage, NoUsage)>>
      [] sse.type = "content_block_start" -> <<BlockStart(sse.index, sse.part)>>
      [] sse.type = "content_block_delta" -> <<Delta(sse.index, DecodeDelta(sse.part))>>
      [] sse.type = "content_block_stop"  -> <<BlockStop(sse.index)>>
      [] sse.type = "message_delta"       -> <<BareDelta(sse.reason, sse.usage)>>
      [] sse.type = "message_stop"        -> <<StopEvent("none", NoUsage)>>
      [] sse.type = "error"               -> <<ErrorEvent(NoUsage)>>
      [] OTHER                            -> <<ErrResult>>

\* The reader takes the next SSE event when it has put the last one on the
\* channel.  It returns after a stop and after an error of its own.
Reads(sse) ==
    /\ queue = <<>>
    /\ queue' = DecodeAnthropicStreamEvent(sse)

-----------------------------------------------------------------------------
(* External: the provider.                                                 *)

Says(sse) == up.phase \notin {"ended", "closed"} /\ Reads(sse)

MessageStart ==
    /\ up.phase = "silent"
    /\ Says(SSE("message_start", 0, NoPart, "none", Usage(1, 1)))
    /\ up' = [up EXCEPT !.phase = "speaking"]
    /\ said' = [said EXCEPT !.usage = Usage(1, 1)]

ContentBlockStart ==
    /\ up.phase = "speaking" /\ ~up.open /\ up.next < MaxBlocks
    /\ \E kind \in Kinds \ {"refusal"} :
       \E id \in IF kind \in ToolKinds THEN Calls ELSE {NoId} :
         LET frag == IF kind \in OpaqueKinds THEN Len(said.pieces) + 1 ELSE 0
         IN
         /\ id \notin up.calls
         /\ kind \in OpaqueKinds => Len(said.pieces) < MaxPieces
         /\ Says(SSE("content_block_start", up.next, Part(kind, id, frag), "none", NoUsage))
         /\ up' = [up EXCEPT !.open = TRUE, !.block = Part(kind, id, 0),
                                !.calls = IF kind \in ToolKinds THEN @ \cup {id} ELSE @]
         /\ said' = [said EXCEPT
                       !.calls = IF kind = "tool_use" THEN Append(@, id) ELSE @,
                       !.pieces = IF frag # 0 THEN Append(@, Piece(kind, id, frag)) ELSE @]

ContentBlockDelta ==
    /\ up.open /\ up.block.kind \notin OpaqueKinds
    /\ Len(said.pieces) < MaxPieces
    /\ LET n == Len(said.pieces) + 1
       IN
       /\ Says(SSE("content_block_delta", up.next, Part(up.block.kind, NoId, n),
                   "none", NoUsage))
       /\ said' = [said EXCEPT !.pieces = Append(@, Piece(up.block.kind, up.block.id, n))]
    /\ UNCHANGED up

ContentBlockStop ==
    /\ up.open
    /\ Says(SSE("content_block_stop", up.next, NoPart, "none", NoUsage))
    /\ up' = [up EXCEPT !.open = FALSE, !.block = NoPart, !.next = @ + 1]
    /\ UNCHANGED said

MessageDelta ==
    /\ up.phase = "speaking" /\ ~up.open
    /\ \E reason \in Reasons :
         /\ Says(SSE("message_delta", 0, NoPart, reason, Usage(0, 2)))
         /\ said' = [said EXCEPT !.reason = reason, !.usage = Merge(@, Usage(0, 2))]
    /\ up' = [up EXCEPT !.phase = "stopping"]

MessageStop ==
    /\ up.phase = "stopping"
    /\ Says(SSE("message_stop", 0, NoPart, "none", NoUsage))
    /\ up' = [up EXCEPT !.phase = "ended"]
    /\ said' = [said EXCEPT !.end = "clean"]

\* An error is told in band, after which the provider closes the connection.
Error ==
    /\ Says(SSE("error", 0, NoPart, "none", NoUsage))
    /\ up' = [up EXCEPT !.phase = "ended"]
    /\ said' = [said EXCEPT !.end = "error"]

\* Reading fails, or what was read cannot be decoded.
ReadFails ==
    /\ Says(SSE("garbage", 0, NoPart, "none", NoUsage))
    /\ up' = [up EXCEPT !.phase = "ended"]
    /\ said' = [said EXCEPT !.end = "error"]

\* io.EOF: the reader closes the channel, also when no stop has come.
Close ==
    /\ up.phase # "closed" /\ queue = <<>>
    /\ up' = [up EXCEPT !.phase = "closed"]
    /\ said' = [said EXCEPT !.end = IF @ = "none" THEN "cut" ELSE @]
    /\ UNCHANGED queue

\* How it comes to an end.
Ends == Close

Next ==
    \/ MessageStart \/ ContentBlockStart \/ ContentBlockDelta \/ ContentBlockStop
    \/ MessageDelta \/ MessageStop \/ Error \/ ReadFails \/ Close
=============================================================================
