------------------------ MODULE TranslationInvariants ------------------------
(***************************************************************************)
(* The inductive invariants of Translation.  First, for every upstream,    *)
(* what is on its way to the codec and where the provider and the reader   *)
(* then are; next what has been heard so far of what was said; last, for   *)
(* every inbound protocol, that codec and client agree with what has been  *)
(* heard.                                                                  *)
(***************************************************************************)
EXTENDS Translation

CallIds     == Calls \cup {NoId}
StopReasons == Reasons \cup {"none"}
PlainKinds  == {"text", "thinking", "refusal"}

\* The counts that the providers tell, all of them and none of them.
Counts == [prompt : 0..1, completion : 0..2]
Total  == Usage(1, 2)

Frags  == 0..MaxPieces
Pieces == [kind : StartKinds, call : CallIds, n : Nat]

\* The answer of a provider; its calls are of no concern here.
SaidOK ==
    /\ said = [pieces |-> said.pieces, calls |-> said.calls, reason |-> said.reason,
               usage |-> said.usage, end |-> said.end]
    /\ said.pieces \in Seq(Pieces) /\ Len(said.pieces) <= MaxPieces
    /\ said.reason \in StopReasons
    /\ said.usage \in Counts
    /\ said.end \in {"none", "clean", "error", "unheard", "cut"}
    /\ up.phase = "closed" => said.end # "none"
    /\ said.end = "error" => up.phase \in {"ended", "closed"}
    /\ said.end = "cut" => up.phase = "closed"
    /\ said.end = "unheard" => up.phase \in {"broken", "closed"} /\ said.reason = "none"

\* Before the end of its content a provider has given no reason for it.
SilentOnReason == said.reason = "none" /\ said.end = "none"

\* An answer that is ended says why, and tells all of its usage or none of it.
EndedWell ==
    up.phase \in {"ended", "closed"} /\ said.end = "clean" =>
        said.reason \in Reasons /\ said.usage \in {NoUsage, Total}

-----------------------------------------------------------------------------
(* An Anthropic provider: one event at a time.                             *)

SentStart(ev) ==
    /\ up.phase = "speaking" /\ ~up.open /\ up.next = 0
    /\ ev = StartEvent(Usage(1, 1), NoUsage)

SentBlockStart(ev) ==
    /\ up.phase = "speaking" /\ up.open
    /\ \E frag \in Frags : ev = BlockStart(up.next, Part(up.block.kind, up.block.id, frag))

SentContent(ev) ==
    /\ up.phase = "speaking" /\ up.open
    /\ \E kind \in BlockKinds \ {"server_tool_use"}, frag \in Frags :
         /\ ev = Delta(up.next, Part(kind, NoId, frag))
         /\ kind = "tool_use" => up.block.kind \in ToolKinds

SentBlockStop(ev) ==
    up.phase = "speaking" /\ ~up.open /\ up.next > 0 /\ ev = BlockStop(up.next - 1)

SentReason(ev) == up.phase = "stopping" /\ ev = BareDelta(said.reason, Usage(0, 2))

SentStop(ev) == up.phase = "ended" /\ said.end = "clean" /\ ev = StopEvent("none", NoUsage)

SentError(ev) ==
    up.phase = "ended" /\ said.end = "error" /\ ev \in {ErrorEvent(NoUsage), ErrResult}

AnthropicSent(ev) ==
    \/ SentStart(ev) \/ SentBlockStart(ev) \/ SentContent(ev) \/ SentBlockStop(ev)
    \/ SentReason(ev) \/ SentStop(ev) \/ SentError(ev)

AnthropicFeed ==
    /\ up \in [phase : {"silent", "speaking", "stopping", "ended", "closed"},
               open : BOOLEAN, block : [kind : StartKinds \cup {"none"}, id : CallIds, frag : {0}],
               calls : SUBSET Calls, next : 0..MaxBlocks]
    /\ up.open => up.next < MaxBlocks /\ up.block.kind \in Kinds \ {"refusal"}
    /\ up.open => IF up.block.kind \in ToolKinds THEN up.block.id \in Calls ELSE up.block.id = NoId
    /\ up.phase \in {"silent", "stopping"} => ~up.open
    /\ up.phase = "silent" => queue = <<>> /\ up.next = 0 /\ said.usage = NoUsage
    /\ up.phase = "speaking" => said.usage = Usage(1, 1)
    /\ up.phase \in {"silent", "speaking"} => SilentOnReason
    /\ up.phase = "stopping" => said.reason \in Reasons /\ said.usage = Total /\ said.end = "none"
    /\ up.phase \in {"ended", "closed"} /\ said.end = "clean" => said.usage = Total /\ ~up.open
    /\ up.phase = "ended" => said.end # "none"
    /\ up.phase = "closed" => queue = <<>>
    /\ queue = <<>> \/ (Len(queue) = 1 /\ queue = <<queue[1]>> /\ AnthropicSent(queue[1]))

-----------------------------------------------------------------------------
(* A Chat Completions provider: one event at a time, or the arguments of   *)
(* two calls.                                                              *)

ChatContent(ev) ==
    /\ up.phase \in {"speaking", "draining"}
    /\ \E kind \in PlainKinds, frag \in Frags, usage \in {NoUsage, Usage(1, 1)} :
         /\ ev = Event("delta", 0, Part(kind, NoId, frag), "none", usage, NoUsage)
         /\ usage # NoUsage => said.usage # NoUsage

ChatNewCall(ev) ==
    /\ up.phase = "speaking" /\ Len(said.calls) > 0
    /\ \E frag \in Frags :
         ev = Delta(Len(said.calls) - 1, Part("tool_use", said.calls[Len(said.calls)], frag))

ChatArguments(ev) ==
    /\ up.phase = "speaking"
    /\ \E i \in 0..Len(said.calls) - 1, frag \in Frags :
         ev = Delta(i, Part("tool_use", NoId, frag))

ChatStart(ev) ==
    up.phase \in {"filtered", "speaking", "broken"} /\ ev = StartEvent(NoUsage, NoUsage)

ChatStop(ev) ==
    up.phase = "ended" /\ said.end = "clean" /\ ev = StopEvent(said.reason, said.usage)

ChatError(ev) == up.phase = "ended" /\ said.end = "error" /\ ev = ErrResult

ChatSent(ev) ==
    \/ ChatStart(ev) \/ ChatContent(ev) \/ ChatNewCall(ev) \/ ChatArguments(ev)
    \/ ChatStop(ev) \/ ChatError(ev)

ChatFeed ==
    /\ up = [phase |-> up.phase, stop |-> up.stop]
    /\ up.phase \in {"silent", "filtered", "speaking", "broken", "draining", "ended", "closed"}
    /\ said.calls \in Seq(Calls) /\ Len(said.calls) <= MaxBlocks
    /\ up.phase = "silent" => queue = <<>>
    /\ up.phase \in {"silent", "filtered", "speaking"} =>
         SilentOnReason /\ said.usage \in {NoUsage, Usage(1, 1)}
    /\ up.phase = "broken" => said.end = "unheard"
    /\ up.phase = "draining" =>
         /\ said.reason \in Reasons /\ said.end = "clean"
         /\ said.usage \in {NoUsage, Usage(1, 1), Total}
         /\ up.stop = StopEvent(said.reason, IF said.usage = Total THEN Total ELSE NoUsage)
    /\ up.phase = "ended" => said.end # "none"
    /\ up.phase = "closed" => queue = <<>>
    /\ \/ queue = <<>>
       \/ Len(queue) = 1 /\ queue = <<queue[1]>> /\ ChatSent(queue[1])
       \/ /\ Len(queue) = 2 /\ queue = <<queue[1], queue[2]>>
          /\ ChatArguments(queue[1]) /\ ChatArguments(queue[2])

-----------------------------------------------------------------------------
(* A Responses provider: one event at a time, of a batch of at most four.  *)

Latest == up.items - 1

\* The item that is open has been given a block.
IsMapped == up.remap[Latest] # -1

\* The kind of the block that stands for an item; a message starts as a text.
KindOfItem(type) ==
    CASE type = "message"       -> "text"
      [] type = "reasoning"     -> "thinking"
      [] type = "function_call" -> "tool_use"

BlockTypes == {"message", "reasoning", "function_call"}

\* The index of the results of a web search, and whether they have been given a block.
Results == ResponsesUp!ResultIndex(Latest)

\* Between the SSE events, by what the provider is about.
ResponsesSilent ==
    /\ up.phase = "silent" /\ up.items = 0 /\ up.item = ResponsesUp!NoItem
    /\ up.batch = <<>> /\ up.suppressed = {} /\ queue = <<>>

ResponsesBetween ==
    up.phase = "speaking" /\ up.item = ResponsesUp!NoItem /\ up.batch = <<>> /\ up.suppressed = {}

ResponsesInside ==
    /\ up.phase = "speaking" /\ up.items > 0 /\ up.item.type \in BlockTypes
    /\ IsMapped /\ up.remap[Latest] = up.next - 1
    /\ up.batch = <<>> /\ up.suppressed = {}

ResponsesSkipping ==
    /\ up.phase = "speaking" /\ up.items > 0 /\ up.item.type = "unknown" /\ ~IsMapped
    /\ up.batch = <<>> /\ up.suppressed = {Latest}

ResponsesSearching ==
    /\ up.phase = "speaking" /\ up.items > 0 /\ up.item.type = "web_search_call"
    /\ ~IsMapped /\ up.remap[Results] = -1
    /\ up.batch = <<>> /\ up.suppressed = {}

ResponsesOver == up.phase \in {"ended", "closed"} /\ up.batch = <<>>

\* What was decoded and has not been sent.  Its indices are the provider's.
ResponsesStart ==
    /\ up.phase = "speaking" /\ up.items = 0 /\ up.item = ResponsesUp!NoItem
    /\ up.batch = <<StartEvent(NoUsage, NoUsage)>> /\ up.suppressed = {}

ResponsesAdded ==
    /\ up.phase = "speaking" /\ up.items > 0 /\ ~IsMapped /\ up.suppressed = {}
    /\ \/ /\ up.item.type \in BlockTypes
          /\ up.batch = <<BlockStart(Latest, Part(KindOfItem(up.item.type), up.item.call, 0))>>
       \/ /\ up.item.type = "unknown"
          /\ up.batch = <<BlockStart(Latest, NoPart)>>

ResponsesDelta ==
    /\ up.phase = "speaking" /\ up.items > 0 /\ up.item.type \in BlockTypes
    /\ IsMapped /\ up.remap[Latest] = up.next - 1 /\ up.suppressed = {}
    /\ \E kind \in PlainKinds \cup {"tool_use"}, frag \in Frags :
         /\ up.batch = <<Delta(Latest, Part(kind, NoId, frag))>>
         /\ kind = "tool_use" => up.item.type = "function_call"

ResponsesDone ==
    /\ up.phase = "speaking" /\ up.items > 0 /\ up.item = ResponsesUp!NoItem
    /\ up.batch = <<BlockStop(Latest)>>
    /\ \/ IsMapped /\ up.remap[Latest] = up.next - 1 /\ up.suppressed = {}
       \/ ~IsMapped /\ up.suppressed = {Latest}

\* A search and its results: what has been sent of them has been given a block.
ResponsesSearch ==
    /\ up.phase = "speaking" /\ up.items > 0 /\ up.item = ResponsesUp!NoItem
    /\ up.suppressed = {}
    /\ \E call \in Calls, frag \in Frags :
         LET search  == BlockStart(Latest, Part("server_tool_use", call, frag))
             results == BlockStart(Results, Part("web_search_tool_result", call, frag))
         IN
         \/ /\ up.batch = <<search, BlockStop(Latest), results, BlockStop(Results)>>
            /\ ~IsMapped /\ up.remap[Results] = -1
         \/ /\ up.batch = <<BlockStop(Latest), results, BlockStop(Results)>>
            /\ IsMapped /\ up.remap[Latest] = up.next - 1 /\ up.remap[Results] = -1
         \/ /\ up.batch = <<results, BlockStop(Results)>>
            /\ up.remap[Results] = -1
         \/ /\ up.batch = <<BlockStop(Results)>>
            /\ up.remap[Results] # -1 /\ up.remap[Results] = up.next - 1

ResponsesLast ==
    /\ up.phase = "ended"
    /\ \/ said.end = "clean" /\ up.batch = <<StopEvent(said.reason, Total)>>
       \/ said.end = "error" /\ up.batch \in {<<ErrorEvent(NoUsage)>>, <<ErrResult>>}

\* What was sent: the block it is about is the one that was mapped last.
ResponsesSent(ev) ==
    \/ up.phase = "speaking" /\ up.items = 0 /\ ev = StartEvent(NoUsage, NoUsage)
    \/ /\ up.phase = "speaking" /\ up.next > 0
       /\ \E kind \in {"text", "thinking", "tool_use"} :
            /\ ev = BlockStart(up.next - 1, Part(kind, up.item.call, 0))
            /\ kind = "tool_use" <=> up.item.type = "function_call"
       /\ up.item.type \in BlockTypes /\ IsMapped
    \/ /\ up.phase = "speaking" /\ up.next > 0
       /\ \E kind \in {"server_tool_use", "web_search_tool_result"}, id \in Calls, frag \in Frags :
            ev = BlockStart(up.next - 1, Part(kind, id, frag))
       /\ up.item = ResponsesUp!NoItem
    \/ /\ up.phase = "speaking" /\ up.next > 0
       /\ up.item.type \in BlockTypes /\ IsMapped
       /\ \E kind \in PlainKinds \cup {"tool_use"}, frag \in Frags :
            /\ ev = Delta(up.next - 1, Part(kind, NoId, frag))
            /\ kind = "tool_use" => up.item.type = "function_call"
    \/ /\ up.phase = "speaking" /\ up.next > 0 /\ up.item = ResponsesUp!NoItem
       /\ ev = BlockStop(up.next - 1)
    \/ /\ up.phase = "ended" /\ up.batch = <<>>
       /\ \/ said.end = "clean" /\ ev = StopEvent(said.reason, Total)
          \/ said.end = "error" /\ ev \in {ErrorEvent(NoUsage), ErrResult}

\* Of an item, at most two blocks: itself, and the results of a search.
ResponsesIndices ==
    LET blocks(i) == IF up.remap[i] = -1 THEN 0 ELSE 1
    IN
    /\ up.items = 0 => up.next = 0
    /\ up.items > 0 => up.next <= 2 * Latest + blocks(Latest) + blocks(Results)
    /\ \A i \in up.items..MaxBlocks - 1 :
         up.remap[i] = -1 /\ up.remap[ResponsesUp!ResultIndex(i)] = -1

ResponsesItem(item) ==
    CASE item.type \in {"function_call", "web_search_call"} -> item.call \in Calls
      [] OTHER                                              -> item.call = NoId

ResponsesTyped ==
    /\ up = [phase |-> up.phase, item |-> up.item, items |-> up.items,
             suppressed |-> up.suppressed, remap |-> up.remap, next |-> up.next,
             batch |-> up.batch]
    /\ up.item \in [type : BlockTypes \cup {"unknown", "web_search_call", "none"}, call : CallIds]
    /\ ResponsesItem(up.item)
    /\ up.items \in 0..MaxBlocks /\ up.next \in Nat
    /\ up.remap \in [ResponsesUp!OutputIndices -> -1..2 * MaxBlocks - 1]
    /\ ResponsesIndices

ResponsesSaid ==
    /\ up.phase \in {"silent", "speaking"} => SilentOnReason /\ said.usage = NoUsage
    /\ up.phase = "ended" => said.end # "none"
    /\ up.phase \in {"ended", "closed"} /\ said.end = "clean" => said.usage = Total
    /\ said.end # "clean" => said.reason = "none"

ResponsesStage ==
    \/ ResponsesSilent \/ ResponsesBetween \/ ResponsesInside \/ ResponsesSkipping
    \/ ResponsesSearching \/ ResponsesOver
    \/ ResponsesStart \/ ResponsesAdded \/ ResponsesDelta \/ ResponsesDone
    \/ ResponsesSearch \/ ResponsesLast

ResponsesFeed ==
    /\ ResponsesTyped /\ ResponsesSaid /\ ResponsesStage
    /\ up.phase = "closed" => queue = <<>>
    /\ \/ queue = <<>>
       \/ Len(queue) = 1 /\ queue = <<queue[1]>> /\ ResponsesSent(queue[1])

-----------------------------------------------------------------------------
(* A Gemini provider: the parts of one chunk, at most two.                 *)

\* A part at its position; a call comes last and ends the content.
GeminiPart(ev, i) ==
    /\ up.phase \in {"speaking", "draining"}
    /\ \E kind \in {"text", "thinking", "tool_use"}, id \in CallIds, frag \in Frags,
          usage \in {NoUsage, Usage(1, 1)} :
         /\ ev = Event("delta", i, Part(kind, id, frag), "none", usage, NoUsage)
         /\ usage # NoUsage => said.usage # NoUsage
         /\ kind = "tool_use" => up.phase = "draining" /\ id \in Calls
         /\ kind # "tool_use" => id = NoId

GeminiSent(ev) ==
    \/ /\ up.phase = "speaking" /\ said.usage # NoUsage
       /\ ev = StartEvent(NoUsage, Usage(1, 0))
    \/ up.phase = "broken" /\ ev = StartEvent(NoUsage, NoUsage)
    \/ GeminiPart(ev, 0)
    \/ up.phase = "ended" /\ said.end = "clean" /\ ev = StopEvent(said.reason, said.usage)
    \/ up.phase = "ended" /\ said.end = "error" /\ ev = ErrResult

GeminiFeed ==
    /\ up = [phase |-> up.phase, stop |-> up.stop]
    /\ up.phase \in {"silent", "speaking", "broken", "draining", "ended", "closed"}
    /\ up.phase = "silent" => queue = <<>>
    /\ up.phase \in {"silent", "speaking"} =>
         SilentOnReason /\ said.usage \in {NoUsage, Usage(1, 0), Usage(1, 1)}
    /\ up.phase = "broken" => said.end = "unheard"
    /\ up.phase = "draining" =>
         /\ said.reason \in Reasons /\ said.end \in {"none", "clean"}
         /\ said.usage \in {NoUsage, Usage(1, 0), Usage(1, 1), Total}
         /\ \E usage \in {NoUsage, Usage(1, 1), Total} :
              /\ up.stop = StopEvent(said.reason, usage)
              /\ said.usage = Total <=> usage = Total
              /\ said.usage = NoUsage => usage = NoUsage
    /\ up.phase = "ended" => said.end # "none"
    /\ up.phase = "closed" => queue = <<>>
    /\ \/ queue = <<>>
       \/ Len(queue) = 1 /\ queue = <<queue[1]>> /\ GeminiSent(queue[1])
       \/ /\ Len(queue) = 1 /\ queue = <<queue[1]>> /\ GeminiPart(queue[1], 1)
       \/ /\ Len(queue) = 2 /\ queue = <<queue[1], queue[2]>>
          /\ GeminiPart(queue[1], 0) /\ GeminiPart(queue[2], 1)

-----------------------------------------------------------------------------

\* What the codec may rely on, whatever the upstream.
Feed ==
    /\ upstream \in Protocols /\ inbound \in Protocols
    /\ SaidOK /\ EndedWell
    /\ CASE upstream = "anthropic" -> AnthropicFeed
         [] upstream = "chat"      -> ChatFeed
         [] upstream = "responses" -> ResponsesFeed
         [] upstream = "gemini"    -> GeminiFeed

-----------------------------------------------------------------------------
(* What the codec has heard of what was said.                              *)

\* Nothing comes any more but the end of the channel.
Over ==
    /\ queue = <<>> /\ up.phase \in {"ended", "closed"}
    /\ upstream = "responses" => up.batch = <<>>

\* The reason of the provider, once no event that bears it is on its way.
HeardReason ==
    IF \/ up.phase \in {"silent", "filtered", "speaking", "broken", "draining"}
       \/ \E i \in 1..Len(queue) : queue[i].reason # "none"
       \/ upstream = "responses" /\ \E i \in 1..Len(up.batch) : up.batch[i].reason # "none"
    THEN "none" ELSE said.reason

\* The usage of an Anthropic provider: all that was told and is not on its way.
HeardUsage ==
    CASE queue # <<>> /\ queue[1].type = "start"                         -> NoUsage
      [] queue # <<>> /\ queue[1].type = "delta" /\ queue[1].part = NoPart -> Usage(1, 1)
      [] OTHER                                                           -> said.usage

\* An Anthropic block as the codec knows it: opened, and not stopped yet.
OpenHeard ==
    \/ up.open /\ ~(queue # <<>> /\ queue[1].type = "content_block_start")
    \/ queue # <<>> /\ queue[1].type = "content_block_stop"

BlockHeard == IF up.open THEN up.next ELSE up.next - 1

\* The message_start of an Anthropic provider has not been heard of.
StartAwaited ==
    upstream = "anthropic"
        /\ (up.phase = "silent" \/ (queue # <<>> /\ queue[1].type = "start"))

\* Usage is told exactly by an Anthropic provider, and all at the end by others.
UsageHeard(usage) ==
    /\ usage \in Counts
    /\ said.usage = NoUsage => usage = NoUsage
    /\ upstream = "anthropic" => usage = HeardUsage

-----------------------------------------------------------------------------
(* The end of the answer, by the inbound protocol.                         *)

\* The answer that a client has.  Its pieces and calls are of no concern here.
IsAnswer(answer) ==
    answer = [pieces |-> answer.pieces, calls |-> answer.calls, reason |-> answer.reason,
              usage |-> answer.usage, end |-> answer.end]

AnswerOK ==
    /\ IsAnswer(client.answer)
    /\ client.answer.usage \in Counts
    /\ said.usage = NoUsage => client.answer.usage = NoUsage
    /\ client.answer.end \in {"none", "clean", "error", "cut", "gone"}

\* The clients of the protocols.
ChatClient(c) ==
    /\ c = [answer |-> c.answer, shown |-> c.shown, ids |-> c.ids, broken |-> c.broken]
    /\ IsAnswer(c.answer)
    /\ c.ids \in [Indices -> CallIds]

GeminiClient(c) == c = [answer |-> c.answer, broken |-> c.broken] /\ IsAnswer(c.answer)

ResponsesClient(c) ==
    /\ c = [answer |-> c.answer, created |-> c.created, items |-> c.items, broken |-> c.broken]
    /\ IsAnswer(c.answer)

\* What the client knows when it has been told that the answer is complete.
Complete(reason) ==
    client.answer.reason = reason
        /\ (said.end = "clean" => client.answer.usage = said.usage)

\* When the codec has returned nothing changes any more.
Returned(reason) ==
    /\ client.answer.end = "clean" =>
         /\ Over /\ said.reason # "none" /\ Complete(reason)
         /\ said.end = "clean" \/ inbound = "gemini"
    /\ said.end = "error" => client.answer.end \in {"error", "gone"}
    /\ client.answer.end = "error" => said.end = "error"

ChatAgrees ==
    /\ ChatClient(client)
    /\ codec \in [pc : {"ranging", "returned"}, completed : BOOLEAN, usage : Counts,
                   reason : StopReasons]
    /\ codec.pc = "ranging" =>
         /\ client.answer.end = "none"
         /\ codec.reason = HeardReason /\ UsageHeard(codec.usage)
         /\ codec.completed <=> Over /\ said.end = "clean"
         /\ Over => said.end # "error"
         /\ IF codec.completed THEN Complete(ChatCodec!FinishReason(said.reason))
            ELSE client.answer.reason = "none"
    /\ codec.pc = "returned" => Returned(ChatCodec!FinishReason(said.reason))

GeminiAgrees ==
    /\ GeminiClient(client)
    /\ codec = [pc |-> codec.pc, usage |-> codec.usage, reason |-> codec.reason,
                pending |-> codec.pending, order |-> codec.order]
    /\ codec.pc \in {"ranging", "returned"}
    /\ codec.pc = "ranging" =>
         /\ client.answer.end = "none"
         /\ codec.reason = HeardReason /\ UsageHeard(codec.usage)
         /\ Over => said.end # "error"
         /\ Over /\ said.end = "clean" => client.answer.usage = said.usage
         /\ client.answer.reason = IF HeardReason = "none" THEN "none"
                                   ELSE GeminiCodec!FinishReason(HeardReason)
    /\ codec.pc = "returned" => Returned(GeminiCodec!FinishReason(said.reason))

\* The items that the codec has and those that the client has are the same.
ResponsesAgrees ==
    /\ ResponsesClient(client)
    /\ codec = [pc |-> codec.pc, started |-> codec.started, usage |-> codec.usage,
                reason |-> codec.reason, nextOutput |-> codec.nextOutput,
                items |-> codec.items]
    /\ codec.pc \in {"ranging", "returned"}
    /\ codec.pc = "ranging" =>
         /\ client.answer.end = "none" /\ client.answer.reason = "none"
         /\ codec.reason = HeardReason /\ UsageHeard(codec.usage)
         /\ Over => said.end \in {"cut", "unheard"}
         /\ codec.started \in BOOLEAN /\ client.created = codec.started
         /\ StartAwaited => ~codec.started
    /\ codec.pc = "returned" => Returned(ResponsesCodec!Status(said.reason))

AnthropicAgrees ==
    /\ AnthropicCodec!CodecInv
    /\ codec.pc # "returned" =>
         /\ codec.reason = HeardReason /\ UsageHeard(codec.usage)
         /\ \/ client.answer.end = "none"
            \/ client.answer.end = "clean" /\ codec.pc = "ranging" /\ Over /\ said.end = "clean"
            \/ client.answer.end = "error" /\ codec.pc = "ranging" /\ Over /\ said.end = "error"
         /\ Over /\ said.end = "error" => client.answer.end = "error"
         /\ Over /\ said.end = "clean" => codec.pc = "flushing" \/ client.answer.end = "clean"
         /\ codec.pc = "flushing" => Over /\ said.end = "clean" /\ codec.usage = said.usage
         /\ upstream = "anthropic" /\ client.answer.end = "none" => client.answer.usage = HeardUsage
         /\ client.answer.end = "none" /\ codec.deltaSent =>
              /\ upstream = "anthropic" /\ HeardReason # "none"
              /\ client.answer.reason = HeardReason
         /\ client.answer.end = "clean" => Complete(said.reason)
    /\ codec.pc = "returned" => Returned(said.reason)

\* While an Anthropic provider has no block open that the codec knows of, nor has
\* the codec: message_delta finds none.
NoBlockLeftOpen ==
    inbound = "anthropic" /\ upstream = "anthropic" /\ codec.pc = "ranging"
            /\ codec.current # AnthropicCodec!NoBlock =>
        OpenHeard /\ codec.sourceIndex[BlockHeard] = codec.current.index

EndTold ==
    /\ AnswerOK
    /\ CASE inbound = "anthropic" -> AnthropicAgrees /\ NoBlockLeftOpen
         [] inbound = "chat"      -> ChatAgrees
         [] inbound = "responses" -> ResponsesAgrees
         [] inbound = "gemini"    -> GeminiAgrees

-----------------------------------------------------------------------------
(* That the stream is well formed, by the inbound protocol.                *)

\* The call at an index has its id; no call has come at an index; and nothing at
\* an index has been closed.
KnowsCall(i) ==
    CASE inbound = "chat"   -> client.ids[i] # NoId
      [] inbound = "gemini" -> codec.pending[i].id # NoId
      [] OTHER              -> TRUE

NoCallAt(i) ==
    CASE inbound = "chat"      -> client.ids[i] = NoId
      [] inbound = "responses" -> \A j \in 1..Len(codec.items) :
                                    codec.items[j].source = i => codec.items[j].kind # "tool_use"
      [] OTHER                 -> TRUE

NotClosedAt(i) ==
    inbound = "responses" =>
        \A j \in 1..Len(codec.items) : codec.items[j].closed => codec.items[j].source # i

\* Gemini: nothing is buffered once the content is over.
NothingBuffered == inbound = "gemini" => codec.order = <<>>

Starting == queue # <<>> /\ queue[1].type = "content_block_start"

\* A Responses item that is open, and has a block.
ItemOpen == up.item.type \in BlockTypes /\ IsMapped

\* How many calls of a Chat Completions provider have been heard of.
CallsHeard ==
    IF queue # <<>> /\ queue[1].part.kind = "tool_use" /\ queue[1].part.id # NoId
    THEN Len(said.calls) - 1 ELSE Len(said.calls)

\* Content may come at an index.
MayCome(i) ==
    CASE upstream = "anthropic" -> i >= up.next
      [] upstream = "responses" -> i >= up.next \/ (i = up.next - 1 /\ ItemOpen)
      [] OTHER                  -> TRUE

\* A call may begin at an index.
MayBegin(i) ==
    CASE upstream = "anthropic" -> i > up.next \/ (i = up.next /\ (~up.open \/ Starting))
      [] upstream = "chat"      -> i >= CallsHeard
      [] upstream = "responses" -> i >= up.next \/ (i = up.next - 1 /\ Starting)
      [] upstream = "gemini"    -> \/ up.phase \in {"silent", "speaking"}
                                   \/ \E j \in 1..Len(queue) :
                                        queue[j].part.kind = "tool_use" /\ queue[j].index = i

\* Arguments may come, without an id, of a call that has begun at an index.
MayGoOn(i) ==
    CASE upstream = "anthropic" ->
             up.open /\ ~Starting /\ up.block.kind = "tool_use" /\ i = up.next
      [] upstream = "chat"      -> i < CallsHeard
      [] upstream = "responses" ->
             up.item.type = "function_call" /\ IsMapped /\ ~Starting /\ i = up.next - 1
      [] OTHER                  -> FALSE

\* What the codec has heard of calls and blocks, while more may come.
BlocksHeard ==
    codec.pc = "ranging" /\ ~Over =>
        /\ \A i \in Indices :
             /\ MayCome(i) => NotClosedAt(i)
             /\ MayBegin(i) => NoCallAt(i)
             /\ MayGoOn(i) => KnowsCall(i)
        /\ upstream = "anthropic" /\ ~OpenHeard => NothingBuffered

\* Gemini: every call that is buffered has its id, and none is once the reason has
\* been heard.
BufferedAreKnown ==
    inbound = "gemini" =>
        /\ codec.pending \in [Indices -> [id : CallIds, args : Seq(Nat)]]
        /\ codec.order \in Seq(Indices)
        /\ \A i \in 1..Len(codec.order) : codec.pending[codec.order[i]].id # NoId
        /\ codec.pc = "ranging" /\ HeardReason # "none" => codec.order = <<>>

\* The items of the Responses codec, and what the client has of one.
Items ==
    [source : Indices, output : Nat, kind : ResponsesCodec!ItemKinds, call : CallIds,
     closed : BOOLEAN]

ItemSeen(item) ==
    [output |-> item.output, kind |-> item.kind, call |-> item.call, open |-> ~item.closed]

\* Responses: the client has the items that the codec has, by ascending output.
ItemsAgree ==
    inbound = "responses" /\ codec.pc = "ranging" =>
        /\ codec.items \in Seq(Items) /\ codec.nextOutput \in Nat
        /\ client.items = [i \in 1..Len(codec.items) |-> ItemSeen(codec.items[i])]
        /\ \A i \in 1..Len(codec.items) : codec.items[i].output < codec.nextOutput
        /\ \A i, j \in 1..Len(codec.items) :
             i < j => /\ codec.items[i].output < codec.items[j].output
                      /\ ResponsesCodec!Key(codec.items[i]) # ResponsesCodec!Key(codec.items[j])

\* The inductive strengthening of WellFormed.
BlocksTold == WellFormed /\ BlocksHeard /\ BufferedAreKnown /\ ItemsAgree

-----------------------------------------------------------------------------
(* What a step of the provider or the reader, and what an event that the   *)
(* codec receives, does to what has been heard.                            *)

\* Of what the provider says and the reader reads the codec has heard nothing.
Quiet ==
    /\ HeardReason' = HeardReason
    /\ said'.usage = NoUsage => said.usage = NoUsage
    /\ Over => Over' /\ said' = said
    /\ Over' => Over \/ said'.end \in {"cut", "unheard"}
    /\ StartAwaited' => StartAwaited
    /\ upstream = "anthropic" =>
         /\ HeardUsage' = HeardUsage
         /\ OpenHeard' = OpenHeard /\ (OpenHeard => BlockHeard' = BlockHeard)
    /\ \A i \in Indices :
         /\ MayCome(i)' => MayCome(i)
         /\ MayBegin(i)' => MayBegin(i)
         /\ MayGoOn(i)' => MayGoOn(i)

\* The reason and the end that an event tells.
EndPassed(ev) ==
    /\ ev.reason # "none" => ev.reason = said.reason
    /\ ev.reason # "none" => ev.type = "stop" \/ (ev.type = "delta" /\ upstream = "anthropic")
    /\ ev.type # "stop" => (ev.reason # "none" => ev.part = NoPart)
    /\ ev.part # NoPart => HeardReason = "none"
    /\ HeardReason' = IF ev.reason # "none" THEN ev.reason ELSE HeardReason
    /\ Over' <=> ev.type \in {"stop", "error", "err"}
    /\ ev.type = "stop" => said.end = "clean" /\ HeardReason' = said.reason
    /\ ev.type \in {"error", "err"} => said.end = "error"

\* The usage that an event tells.
UsagePassed(ev) ==
    /\ ev.usage \in Counts /\ ev.response \in Counts
    /\ said.usage = NoUsage => ev.usage = NoUsage /\ ev.response = NoUsage
    /\ upstream = "anthropic" =>
         /\ HeardUsage' = Merge(Merge(HeardUsage, ev.usage), ev.response)
         /\ ev.type = "start" => StartAwaited /\ ev.usage = NoUsage /\ ev.response = Usage(1, 1)
         /\ ev.type # "start" => ev.response = NoUsage
         /\ ev.type = "stop" => HeardUsage = said.usage /\ ev.usage = NoUsage
         /\ ev.type = "delta" /\ ev.part = NoPart => ev.reason # "none"
    /\ upstream # "anthropic" =>
         /\ ev.response = NoUsage
         /\ ev.type = "stop" => ev.usage = said.usage
    /\ ~StartAwaited'

\* The block or the call that an event is about.
BlockPassed(ev) ==
    /\ upstream = "anthropic" =>
         /\ ev.type = "content_block_start" => ~OpenHeard /\ OpenHeard' /\ BlockHeard' = ev.index
         /\ ev.type = "content_block_stop" => OpenHeard /\ BlockHeard = ev.index /\ ~OpenHeard'
         /\ ev.type = "delta" /\ ev.part # NoPart => OpenHeard /\ BlockHeard = ev.index
         /\ ev.type \in {"start", "stop"} => ~OpenHeard
         /\ ev.type = "delta" /\ ev.part = NoPart => ~OpenHeard
         /\ ev.type \notin {"content_block_start", "content_block_stop"} =>
              OpenHeard' = OpenHeard /\ BlockHeard' = BlockHeard
    /\ ev.part.kind \in ResponsesCodec!ItemKinds =>
         /\ MayCome(ev.index)
         /\ ev.part.kind = "tool_use" /\ ev.part.id # NoId => MayBegin(ev.index)
         /\ ev.part.kind = "tool_use" /\ ev.part.id = NoId /\ "server_tool_use" \notin Kinds =>
              MayGoOn(ev.index)
    /\ ev.part.kind \in {"text", "thinking", "refusal"} => ev.part.id = NoId
    /\ ev.type = "content_block_start" => upstream \in {"anthropic", "responses"}
    /\ \A i \in Indices :
         /\ MayCome(i)' =>
              MayCome(i) /\ ~(ev.type = "content_block_stop" /\ ev.index = i)
         /\ MayBegin(i)' =>
              MayBegin(i) /\ (ev.part.kind = "tool_use" => ev.index # i)
         /\ MayGoOn(i)' =>
              \/ MayGoOn(i)
              \/ ev.part.kind = "tool_use" /\ ev.part.id # NoId /\ ev.index = i

Passed(ev) ==
    /\ ev \in AnthropicCodec!AnyEvent
    /\ EndPassed(ev) /\ UsagePassed(ev) /\ BlockPassed(ev)

\* Of the deltas only the message_delta of an Anthropic provider has no part, and
\* only that tells a reason.
Known(ev) ==
    /\ ev \in AnthropicCodec!AnyEvent
    /\ ev.type = "delta" /\ (ev.part = NoPart \/ ev.reason # "none") =>
         upstream = "anthropic" /\ SentReason(ev)
=============================================================================
