--------------------------- MODULE AnthropicStream ---------------------------
(***************************************************************************)
(* anthropicCodec.WriteStreamingResponse: it ranges over the IR events of  *)
(* any upstream and writes an Anthropic SSE stream, in which blocks are    *)
(* strictly sequential.  "codec" holds the variables of the function; an   *)
(* iteration of its loop is one step, except that the buffered tool calls  *)
(* are flushed one by one.  "client" is what the SDK of the client, which  *)
(* is external, has accumulated.                                           *)
(***************************************************************************)
EXTENDS StreamEvents

CONSTANTS
    Indices,         \* the indices of upstream events
    Calls,           \* the ids of tool calls
    Reasons          \* the stop reasons of events

VARIABLES
    codec,           \* the variables of WriteStreamingResponse
    client           \* external: the accumulator of the client's SDK

vars == <<codec, client>>

Unmapped == -1
NoBlock  == [index |-> 0, kind |-> "none", call |-> NoId]
NoCall   == [kind |-> "none", id |-> NoId, args |-> <<>>]

CodecInit ==
    [pc |-> "ranging",                               \* or "flushing", "returned"
     startSent |-> FALSE,                            \* messageStartSent
     deltaSent |-> FALSE,                            \* messageDeltaSent
     current |-> NoBlock,                            \* kind is its contentType
     nextIndex |-> 0,
     sourceIndex |-> [i \in Indices |-> Unmapped],   \* sourceIndexMap
     live |-> {},                                    \* liveToolStarted
     pending |-> [i \in Indices |-> NoCall],         \* pendingTools
     order |-> <<>>,                                 \* toolOrder
     usage |-> NoUsage,                              \* accumulatedUsage
     reason |-> "none"]                              \* lastStopReason

-----------------------------------------------------------------------------
(* External: the client's SDK.  It takes blocks in sequence, numbered from *)
(* 0, and deltas for the block that is open; "broken" is set by anything   *)
(* else.  It stops listening at an error.                                  *)

ClientInit ==
    [answer |-> Answer, started |-> FALSE, restarted |-> FALSE, open |-> NoBlock,
     next |-> 0, broken |-> FALSE]

Takes(c, wellFormed, taken) ==
    IF c.answer.end # "none" THEN [c EXCEPT !.broken = (@ \/ c.answer.end = "clean")]
    ELSE IF wellFormed THEN taken
    ELSE [c EXCEPT !.broken = TRUE]

SeesStart(c, usage) ==
    Takes(c, TRUE,
          [c EXCEPT !.started = TRUE, !.restarted = (@ \/ c.started),
                    !.answer.usage = Merge(@, usage)])

SeesBlockStart(c, index, part) ==
    Takes(c, c.started /\ c.open = NoBlock /\ index = c.next,
          [c EXCEPT !.open = [index |-> index, kind |-> part.kind, call |-> part.id],
                    !.next = @ + 1,
                    !.answer.calls = IF part.kind = "tool_use" THEN Append(@, part.id) ELSE @,
                    !.answer.pieces = IF part.frag = 0 THEN @
                                      ELSE Append(@, Piece(part.kind, part.id, part.frag))])

\* Arguments come as input_json_delta for both kinds of tool blocks, a refusal
\* as text_delta.
FitsBlock(kind, open) ==
    \/ kind = open
    \/ kind \in ToolKinds /\ open \in ToolKinds

SeesDelta(c, index, kind, frags) ==
    Takes(c, c.open.index = index /\ FitsBlock(kind, c.open.kind),
          [c EXCEPT !.answer.pieces = @ \o Fragments(c.open.kind, c.open.call, frags)])

SeesBlockStop(c, index) ==
    Takes(c, c.open # NoBlock /\ c.open.index = index, [c EXCEPT !.open = NoBlock])

SeesMessageDelta(c, reason, usage) ==
    Takes(c, c.started /\ c.open = NoBlock,
          [c EXCEPT !.answer.reason = reason, !.answer.usage = Merge(@, usage)])

SeesStop(c) ==
    Takes(c, c.started /\ c.open = NoBlock, [c EXCEPT !.answer.end = "clean"])

SeesError(c) == Takes(c, TRUE, [c EXCEPT !.answer.end = "error"])

-----------------------------------------------------------------------------
(* The closures of WriteStreamingResponse.                                 *)

\* A refusal has no block type of its own and degrades to text.
WireKind(kind) == IF kind = "refusal" THEN "text" ELSE kind

\* closeCurrent, what the client sees of it.
ClientClosed(c) ==
    IF codec.current = NoBlock THEN c ELSE SeesBlockStop(c, codec.current.index)

\* blockStartPart builds the payload of a block start: the kind and, of a tool
\* call, its id.
BlockStartPart(kind, part) ==
    Part(WireKind(kind), IF kind \in ToolKinds THEN part.id ELSE NoId, 0)

\* openBlockAt closes what is open first.
ClientOpened(c, kind, part) ==
    SeesBlockStart(ClientClosed(c), codec.nextIndex, BlockStartPart(kind, part))

\* openBlockAt, what it leaves in the codec.
Opened(k, kind) ==
    [k EXCEPT !.current = [index |-> k.nextIndex, kind |-> kind, call |-> NoId],
              !.nextIndex = @ + 1]

\* The head of the loop: usage and stop metadata are collected from every event,
\* and a message_start is sent if the first event is not a start.
Noted(ev) ==
    [codec EXCEPT !.usage = Merge(Merge(@, ev.usage), ev.response),
                  !.reason = IF ev.reason # "none" THEN ev.reason ELSE @,
                  !.startSent = TRUE]

ClientGreeted(ev) ==
    IF codec.startSent \/ ev.type = "start" THEN client ELSE SeesStart(client, NoUsage)

\* bufferToolDelta: an id that is not empty replaces the one before.
Buffered(call, part) ==
    [kind |-> IF part.kind = "server_tool_use" \/ call.kind = "none" THEN part.kind
              ELSE call.kind,
     id   |-> IF part.id # NoId THEN part.id ELSE call.id,
     args |-> IF part.frag # 0 THEN Append(call.args, part.frag) ELSE call.args]

IsPending(index) == codec.pending[index].kind # "none"

\* What is left of toolOrder when an index is dropped from it.
Dropped(order, index) ==
    IF IsPending(index)
    THEN LET at == CHOOSE i \in 1..Len(order) : order[i] = index
         IN  SubSeq(order, 1, at - 1) \o SubSeq(order, at + 1, Len(order))
    ELSE order

\* message_delta when the event bears a stop reason, else a content delta.  A
\* delta with usage only has no form and is skipped.
WriteDelta(c, index, ev) ==
    IF ev.reason # "none" THEN SeesMessageDelta(c, ev.reason, ev.usage)
    ELSE IF ev.part = NoPart THEN c
    ELSE SeesDelta(c, index, WireKind(ev.part.kind),
                   IF ev.part.frag = 0 THEN <<>> ELSE <<ev.part.frag>>)

-----------------------------------------------------------------------------
(* One iteration of the loop, by the type of the event.                    *)

OnStart(ev) ==
    /\ ev.type = "start"
    /\ codec' = Noted(ev)
    /\ client' = SeesStart(client, ev.response)

\* A real block start: its tool streams live from here on, and what was
\* buffered for its index is dropped.  Without a part it opens a text block.
OnBlockStart(ev) ==
    LET kind == IF ev.part = NoPart THEN "text" ELSE ev.part.kind
        k == [Opened(Noted(ev), kind) EXCEPT !.sourceIndex[ev.index] = codec.nextIndex]
    IN
    /\ ev.type = "content_block_start"
    /\ codec' = IF kind \in ToolKinds
                THEN [k EXCEPT !.live = @ \cup {ev.index},
                               !.order = Dropped(@, ev.index),
                               !.pending[ev.index] = NoCall]
                ELSE k
    /\ client' = ClientOpened(ClientGreeted(ev), kind, ev.part)

\* A stop is honoured for the block that is open, and for an unmapped index.
StopsCurrent(index) ==
    /\ codec.current # NoBlock
    /\ codec.sourceIndex[index] \in {Unmapped, codec.current.index}

OnBlockStop(ev) ==
    /\ ev.type = "content_block_stop"
    /\ codec' = [Noted(ev) EXCEPT
                    !.current = IF StopsCurrent(ev.index) THEN NoBlock ELSE @,
                    !.sourceIndex[ev.index] = Unmapped]
    /\ client' = IF StopsCurrent(ev.index) THEN ClientClosed(ClientGreeted(ev))
                 ELSE ClientGreeted(ev)

\* What a bug would do: every tool delta streams live, interleaved or not.
NeverSynthetic(ev) == FALSE

\* A tool's delta without a real block start is kept for the flush.
IsSynthetic(ev) == ev.part.kind \in ToolKinds /\ ev.index \notin codec.live

OnToolDelta(ev) ==
    /\ ev.type = "delta" /\ IsSynthetic(ev)
    /\ codec' = [Noted(ev) EXCEPT
                    !.pending[ev.index] = Buffered(@, ev.part),
                    !.order = IF IsPending(ev.index) THEN @ ELSE Append(@, ev.index)]
    /\ client' = ClientGreeted(ev)

\* What a bug would do: a change of type on the same index is not noticed.
NeedsNewBlockIgnoringType(ev) ==
    \/ codec.sourceIndex[ev.index] = Unmapped
    \/ codec.current = NoBlock
    \/ codec.current.index # codec.sourceIndex[ev.index]

\* The delta's index has no block, or its block was superseded, or the type
\* changed: a new block is opened for it.
NeedsNewBlock(ev) ==
    \/ codec.sourceIndex[ev.index] = Unmapped
    \/ codec.current = NoBlock
    \/ codec.current.index # codec.sourceIndex[ev.index]
    \/ codec.current.kind # ev.part.kind

OnContentDelta(ev) ==
    /\ ev.type = "delta" /\ ev.part.kind \in BlockKinds /\ ~IsSynthetic(ev)
    /\ IF NeedsNewBlock(ev)
       THEN /\ codec' = [Opened(Noted(ev), ev.part.kind) EXCEPT
                            !.sourceIndex[ev.index] = codec.nextIndex]
            /\ client' = WriteDelta(ClientOpened(ClientGreeted(ev), ev.part.kind, ev.part),
                                    codec.nextIndex, ev)
       ELSE /\ codec' = Noted(ev)
            /\ client' = WriteDelta(ClientGreeted(ev), codec.sourceIndex[ev.index], ev)

\* A delta without a part: the message_delta of an Anthropic upstream, or usage.
\* One that carries neither cannot be encoded, and the loop ends.
OnBareDelta(ev) ==
    /\ ev.type = "delta" /\ ev.part = NoPart
    /\ codec' = [Noted(ev) EXCEPT
                    !.deltaSent = @ \/ ev.reason # "none",
                    !.pc = IF ev.reason = "none" /\ ev.usage = NoUsage
                           THEN "returned" ELSE @]
    /\ client' = WriteDelta(ClientGreeted(ev), ev.index, ev)

\* A stop closes the open block; the flush and the end of the message follow.
OnStop(ev) ==
    /\ ev.type = "stop"
    /\ codec' = [Noted(ev) EXCEPT !.current = NoBlock, !.pc = "flushing"]
    /\ client' = ClientClosed(ClientGreeted(ev))

\* What a bug would do: an error event has no form and is not written.
OnErrorUnwritten(ev) ==
    /\ ev.type = "error"
    /\ codec' = Noted(ev)
    /\ client' = ClientGreeted(ev)

\* An error event of the upstream is written, and the loop goes on.
OnError(ev) ==
    /\ ev.type = "error"
    /\ codec' = Noted(ev)
    /\ client' = SeesError(ClientGreeted(ev))

\* A StreamResult with an error is written as an error event.
OnErr(ev) ==
    /\ ev.type = "err"
    /\ codec' = [codec EXCEPT !.pc = "returned"]
    /\ client' = SeesError(client)

Receive(ev) ==
    /\ codec.pc = "ranging"
    /\ \/ OnStart(ev) \/ OnBlockStart(ev) \/ OnBlockStop(ev)
       \/ OnToolDelta(ev) \/ OnContentDelta(ev) \/ OnBareDelta(ev)
       \/ OnStop(ev) \/ OnError(ev) \/ OnErr(ev)

\* flushPendingTools: the oldest buffered call becomes one complete block.
FlushTool ==
    /\ codec.pc = "flushing" /\ codec.order # <<>>
    /\ LET call == codec.pending[Head(codec.order)]
           opened == ClientOpened(client, call.kind, Part(call.kind, call.id, 0))
           filled == IF call.args = <<>> THEN opened
                     ELSE SeesDelta(opened, codec.nextIndex, call.kind, call.args)
       IN client' = SeesBlockStop(filled, codec.nextIndex)
    /\ codec' = [codec EXCEPT !.nextIndex = @ + 1,
                              !.pending[Head(codec.order)] = NoCall,
                              !.order = Tail(@)]

\* What a bug would do: with a message_delta sent before, nothing more is.
ClientFinishedOnce ==
    IF codec.deltaSent THEN client
    ELSE SeesStop(SeesMessageDelta(client, codec.reason, codec.usage))

\* message_delta, unless the upstream sent one or there is nothing to tell, and
\* message_stop.
ClientFinished ==
    IF codec.deltaSent \/ (codec.reason = "none" /\ codec.usage = NoUsage)
    THEN SeesStop(client)
    ELSE SeesStop(SeesMessageDelta(client,
                      IF codec.reason = "none" THEN "end_turn" ELSE codec.reason,
                      codec.usage))

Finish ==
    /\ codec.pc = "flushing" /\ codec.order = <<>>
    /\ codec' = [codec EXCEPT !.pc = "ranging",
                              !.deltaSent = (@ \/ codec.reason # "none"
                                               \/ codec.usage # NoUsage)]
    /\ client' = ClientFinished

\* The channel is closed: the loop ends, and the connection with it.
SeesEnd ==
    /\ codec.pc = "ranging"
    /\ codec' = [codec EXCEPT !.pc = "returned"]
    /\ client' = IF client.answer.end = "none"
                 THEN [client EXCEPT !.answer.end = "cut"] ELSE client

\* A write fails, the client has left: the loop ends.
WriteFails ==
    /\ codec.pc # "returned"
    /\ codec' = [codec EXCEPT !.pc = "returned"]
    /\ client' = [client EXCEPT !.answer.end = "gone"]

-----------------------------------------------------------------------------
(* The codec with any upstream: deltas of every kind, with or without block *)
(* starts and stops, on indices that are interleaved, sparse or reused.    *)

Usages    == [prompt : Nat, completion : Nat]
PartKinds == StartKinds \cup {"none"}
CallIds   == Calls \cup {NoId}
Parts(kinds) == [kind : kinds, id : CallIds, frag : Nat]

Events(types, parts) ==
    [type : types, index : Indices, part : parts, reason : Reasons \cup {"none"},
     usage : Usages, response : Usages]

AnyEvent ==
    Events({"start", "content_block_stop", "stop", "error", "err"}, {NoPart})
        \cup Events({"delta"}, Parts(BlockKinds) \cup {NoPart})
        \cup Events({"content_block_start"}, Parts(StartKinds) \cup {NoPart})

\* What the readers see to: a stop is the last event, and a stop reason comes when
\* no block is open.
Admissible(ev) ==
    /\ ev.type = "delta" /\ ev.reason # "none" => ev.part = NoPart /\ codec.current = NoBlock
    /\ client.answer.end # "clean"

Init == codec = CodecInit /\ client = ClientInit

Next ==
    \/ \E ev \in AnyEvent : Admissible(ev) /\ Receive(ev)
    \/ FlushTool \/ Finish \/ SeesEnd \/ WriteFails

Spec == Init /\ [][Next]_vars

\* "The Anthropic protocol requires content blocks to be strictly sequential:
\* block N must be closed with content_block_stop before block N+1 is opened, and
\* every block needs a unique index and a stable type."
BlocksSequential == ~client.broken

-----------------------------------------------------------------------------
(* The inductive strengthening of BlocksSequential.                        *)

Blocks        == [index : Nat, kind : PartKinds, call : CallIds]
BufferedCalls == [kind : ToolKinds \cup {"none"}, id : CallIds, args : Seq(Nat)]
Pieces        == [kind : PartKinds, call : CallIds, n : Nat]
StopReasons   == Reasons \cup {"none", "end_turn"}

Answers ==
    [pieces : Seq(Pieces), calls : Seq(CallIds), reason : StopReasons,
     usage : Usages, end : {"none", "clean", "error", "cut", "gone"}]

Clients ==
    [answer : Answers, started : BOOLEAN, restarted : BOOLEAN, open : Blocks,
     next : Nat, broken : BOOLEAN]

Codecs ==
    [pc : {"ranging", "flushing", "returned"}, startSent : BOOLEAN,
     deltaSent : BOOLEAN, current : Blocks, nextIndex : Nat,
     sourceIndex : [Indices -> Int], live : SUBSET Indices,
     pending : [Indices -> BufferedCalls], order : Seq(Indices), usage : Usages,
     reason : StopReasons]

\* The variables have their types.
TypeOK == codec \in Codecs /\ client \in Clients

\* What the client has seen when it has been told of the codec's open block, of the
\* blocks before it and of the start of the message.
Follows(c, current, nextIndex, startSent) ==
    /\ ~c.broken
    /\ c.answer.end = "none" =>
         /\ c.started = startSent
         /\ c.next = nextIndex
         /\ current = NoBlock => c.open = NoBlock
         /\ current # NoBlock => /\ c.open.index = current.index
                                 /\ c.open.kind = WireKind(current.kind)
                                 /\ c.open.kind # "none"

\* toolOrder lists the indices that are buffered, each once.
OrderListsPending ==
    /\ \A i \in 1..Len(codec.order) : codec.pending[codec.order[i]].kind # "none"
    /\ \A i, j \in 1..Len(codec.order) : codec.order[i] = codec.order[j] => i = j
    /\ \A index \in Indices :
         IsPending(index) => \E i \in 1..Len(codec.order) : codec.order[i] = index

\* A flush begins with no block open, and before the message_stop.
FlushBeforeStop ==
    codec.pc = "flushing" =>
        /\ codec.current = NoBlock /\ codec.startSent
        /\ client.answer.end # "clean"

CodecInv ==
    /\ TypeOK
    /\ Follows(client, codec.current, codec.nextIndex, codec.startSent)
    /\ codec.current # NoBlock => codec.startSent
    /\ OrderListsPending
    /\ FlushBeforeStop
=============================================================================
