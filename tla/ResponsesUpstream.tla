-------------------------- MODULE ResponsesUpstream --------------------------
(***************************************************************************)
(* The goroutine of OpenAIResponsesClient.SendStream with a Responses      *)
(* provider before it.  Items the program does not map are suppressed and  *)
(* the indices of the others are re-mapped to 0, 1, 2, ...  The provider   *)
(* gives its output items one after the other.                             *)
(***************************************************************************)
EXTENDS StreamEvents

CONSTANTS
    Kinds,           \* the kinds of content the provider may give
    Calls,           \* the ids of the tool calls it may make
    Reasons,         \* the stop reasons it may give
    MaxPieces,       \* bound: fragments in an answer
    MaxBlocks,       \* bound: output items in an answer
    WebSearch        \* whether the provider may search the web

VARIABLES
    up,              \* the provider and the client's reader
    queue,           \* events that are on their way to the codec
    said             \* history: the answer the provider has given

vars == <<up, queue, said>>

\* webSearchToolResultStreamIndex, and the output indices there may be.
ResultIndex(index) == index + 1000000

OutputIndices == (0..MaxBlocks - 1) \cup {ResultIndex(i) : i \in 0..MaxBlocks - 1}

NoItem == [type |-> "none", call |-> NoId]

UpInit ==
    [phase |-> "silent",
     item |-> NoItem,                                   \* the provider's open item
     items |-> 0,                                       \* how many there have been
     suppressed |-> {},                                 \* reasoningIndices
     remap |-> [i \in OutputIndices |-> -1],            \* indexRemap
     next |-> 0,                                        \* nextSeqIndex
     batch |-> <<>>]                                    \* events not sent yet

-----------------------------------------------------------------------------
(* An SSE event of the Responses protocol, and what is read of it.         *)

SSE(type, index, item, kind, frag, reason, usage) ==
    [type |-> type, index |-> index, item |-> item, kind |-> kind, frag |-> frag,
     reason |-> reason, usage |-> usage]

ItemSSE(type, index, item, frag) == SSE(type, index, item, "none", frag, "none", NoUsage)
DeltaSSE(index, kind, frag)      == SSE("delta", index, NoItem, kind, frag, "none", NoUsage)
ResponseSSE(type, reason, usage) == SSE(type, 0, NoItem, "none", 0, reason, usage)

\* The block that stands for an item; a web search is put off until it is done,
\* and an item of an unknown type has a start without a part.
DecodeItemAdded(sse) ==
    CASE sse.item.type = "message" -> <<BlockStart(sse.index, Part("text", NoId, 0))>>
      [] sse.item.type = "function_call" ->
             <<BlockStart(sse.index, Part("tool_use", sse.item.call, 0))>>
      [] sse.item.type = "reasoning" -> <<BlockStart(sse.index, Part("thinking", NoId, 0))>>
      [] sse.item.type = "web_search_call" -> <<>>
      [] OTHER -> <<BlockStart(sse.index, NoPart)>>

\* decodeOaiRespWebSearchCallStreamEvents: the search and its results are two
\* blocks, the second under an index of its own.
DecodeWebSearchCall(sse) ==
    <<BlockStart(sse.index, Part("server_tool_use", sse.item.call, sse.frag)),
      BlockStop(sse.index),
      BlockStart(ResultIndex(sse.index), Part("web_search_tool_result", sse.item.call, sse.frag)),
      BlockStop(ResultIndex(sse.index))>>

DecodeOpenAIResponsesStreamEvent(sse) ==
    CASE sse.type = "response.created"           -> <<StartEvent(NoUsage, NoUsage)>>
      [] sse.type = "response.output_item.added" -> DecodeItemAdded(sse)
      [] sse.type = "delta"                      ->
             <<Delta(sse.index, Part(sse.kind, NoId, sse.frag))>>
      [] sse.type = "response.output_item.done"  ->
             IF sse.item.type = "web_search_call" THEN DecodeWebSearchCall(sse)
             ELSE <<BlockStop(sse.index)>>
      [] sse.type = "response.completed"         -> <<StopEvent(sse.reason, sse.usage)>>
      [] sse.type = "response.incomplete"        -> <<StopEvent("max_tokens", sse.usage)>>
      [] sse.type \in {"response.failed", "error"} -> <<ErrorEvent(sse.usage)>>
      [] sse.type = "garbage"                    -> <<ErrResult>>
      [] OTHER                                   -> <<>>

-----------------------------------------------------------------------------
(* The reader: suppression and re-mapping, event by event.                 *)

IsIndexed(ev) == ev.type \in {"content_block_start", "content_block_stop", "delta"}

IsIgnored(ev) == ev.type = "content_block_start" /\ ev.part = NoPart

Passes(ev) == ~IsIgnored(ev) /\ ~(IsIndexed(ev) /\ ev.index \in up.suppressed)

\* An index that is new is mapped to the next of 0, 1, 2, ...
Mapped(index) == IF up.remap[index] = -1 THEN up.next ELSE up.remap[index]

\* The events of one SSE event are sent one by one.  A start without a part
\* suppresses what follows on its index, up to its stop.
Send ==
    /\ up.batch # <<>> /\ queue = <<>>
    /\ LET ev == Head(up.batch)
           mapped == IsIndexed(ev) /\ Passes(ev)
       IN
       /\ queue' = CASE ~Passes(ev) -> <<>>
                     [] mapped -> <<[ev EXCEPT !.index = Mapped(@)]>>
                     [] OTHER -> <<ev>>
       /\ up' = [up EXCEPT
                    !.batch = Tail(@),
                    !.suppressed = CASE IsIgnored(ev) -> @ \cup {ev.index}
                                     [] ev.type = "content_block_stop" -> @ \ {ev.index}
                                     [] OTHER -> @,
                    !.remap[ev.index] = IF mapped THEN Mapped(ev.index) ELSE @,
                    !.next = IF mapped /\ up.remap[ev.index] = -1 THEN @ + 1 ELSE @]
    /\ UNCHANGED said

\* The next SSE event is read when the events of the last have been sent.
Reads(sse, provider) ==
    /\ queue = <<>> /\ up.batch = <<>>
    /\ up' = [provider EXCEPT !.batch = DecodeOpenAIResponsesStreamEvent(sse)]
    /\ UNCHANGED queue

-----------------------------------------------------------------------------
(* External: the provider.                                                 *)

Number == Len(said.pieces) + 1

HasRoom == Len(said.pieces) < MaxPieces

Called == {said.calls[i] : i \in 1..Len(said.calls)}

ItemTypes ==
    {"unknown"} \cup (IF WebSearch THEN {"web_search_call"} ELSE {})
      \cup (IF Kinds \cap {"text", "refusal"} # {} THEN {"message"} ELSE {})
      \cup (IF "thinking" \in Kinds THEN {"reasoning"} ELSE {})
      \cup (IF "tool_use" \in Kinds THEN {"function_call"} ELSE {})

Created ==
    /\ up.phase = "silent"
    /\ Reads(ResponseSSE("response.created", "none", NoUsage),
             [up EXCEPT !.phase = "speaking"])
    /\ UNCHANGED said

OutputItemAdded ==
    /\ up.phase = "speaking" /\ up.item = NoItem /\ up.items < MaxBlocks
    /\ \E type \in ItemTypes :
       \E call \in IF type \in {"function_call", "web_search_call"}
                   THEN Calls \ Called ELSE {NoId} :
         LET item == [type |-> type, call |-> call]
         IN
         /\ Reads(ItemSSE("response.output_item.added", up.items, item, 0),
                  [up EXCEPT !.item = item, !.items = @ + 1])
         /\ said' = [said EXCEPT !.calls = IF type = "function_call"
                                           THEN Append(@, call) ELSE @]

KindsOf(item) ==
    CASE item.type = "message"       -> Kinds \cap {"text", "refusal"}
      [] item.type = "reasoning"     -> {"thinking"}
      [] item.type = "function_call" -> {"tool_use"}
      [] OTHER                       -> {}

ItemDelta ==
    /\ up.phase = "speaking" /\ HasRoom
    /\ \E kind \in KindsOf(up.item) :
         /\ Reads(DeltaSSE(up.items - 1, kind, Number), up)
         /\ said' = [said EXCEPT !.pieces = Append(@, Piece(kind, up.item.call, Number))]

\* A web search that is done comes with its results.
OutputItemDone ==
    /\ up.phase = "speaking" /\ up.item # NoItem
    /\ LET found == up.item.type = "web_search_call" /\ HasRoom
       IN
       /\ Reads(ItemSSE("response.output_item.done", up.items - 1, up.item,
                        IF found THEN Number ELSE 0),
                [up EXCEPT !.item = NoItem])
       /\ said' = IF found
                  THEN [said EXCEPT !.pieces =
                          Append(@, Piece("web_search_tool_result", up.item.call, Number))]
                  ELSE said

Completed ==
    /\ up.phase = "speaking" /\ up.item = NoItem
    /\ \E reason \in Reasons \cap {"end_turn", "max_tokens"} :
         /\ Reads(ResponseSSE(IF reason = "max_tokens" THEN "response.incomplete"
                              ELSE "response.completed", reason, Usage(1, 2)),
                  [up EXCEPT !.phase = "ended"])
         /\ said' = [said EXCEPT !.reason = reason, !.usage = Usage(1, 2), !.end = "clean"]

\* response.failed and the error event; and a read or decode error.
Fails ==
    /\ up.phase \in {"silent", "speaking"}
    /\ \E type \in {"response.failed", "garbage"} :
         Reads(ResponseSSE(type, "none", NoUsage), [up EXCEPT !.phase = "ended"])
    /\ said' = [said EXCEPT !.end = "error"]

\* [DONE] or io.EOF: the reader closes the channel, also without a stop.
Close ==
    /\ up.phase # "closed" /\ queue = <<>> /\ up.batch = <<>>
    /\ up' = [up EXCEPT !.phase = "closed", !.item = NoItem]
    /\ said' = [said EXCEPT !.end = IF @ = "none" THEN "cut" ELSE @]
    /\ UNCHANGED queue

\* How it comes to an end.
Ends == Send \/ Close

Next ==
    \/ Created \/ OutputItemAdded \/ ItemDelta \/ OutputItemDone \/ Completed
    \/ Fails \/ Close \/ Send
=============================================================================
