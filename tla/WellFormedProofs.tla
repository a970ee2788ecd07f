--------------------------- MODULE WellFormedProofs ---------------------------
(***************************************************************************)
(* Every client gets a well-formed stream of its protocol.  That of an     *)
(* Anthropic client is TranslationProofs' and AnthropicStreamProofs'; here *)
(* follow the others: what has been heard of blocks and calls agrees with  *)
(* what codec and client have of them.                                     *)
(***************************************************************************)
EXTENDS TranslationProofs

-----------------------------------------------------------------------------
(* What has been heard of blocks and calls.                                *)

\* A Responses item or an Anthropic block that stops does not go on.
StopEndsCall(ev) == ev.type = "content_block_stop" => \A i \in Indices : ~MayGoOn(i)'

\* The readers end a call with the stop of its block.
LEMMA StopsEndCalls ==
  ASSUME Feed, queue # <<>>, queue' = Tail(queue), UNCHANGED <<upstream, inbound, up, said>>
  PROVE  StopEndsCall(Head(queue))
<1> DEFINE ev == Head(queue)
<1> SUFFICES ASSUME ev.type = "content_block_stop", NEW i \in Indices
             PROVE  ~MayGoOn(i)'
  BY DEF StopEndsCall
<1>1. AnthropicOK \/ ChatOK \/ ResponsesOK \/ GeminiOK
  BY FeedIsOf
<1>2. CASE AnthropicOK
  <2>1. AnthropicSent(ev)
    BY <1>2, AnthropicKnown
  <2> HIDE DEF ev
  <2>2. SentBlockStop(ev)
    BY <2>1 DEF AnthropicSent, SentStart, SentBlockStart, SentContent, SentReason, SentStop,
       SentError, StartEvent, BlockStart, Delta, BareDelta, StopEvent, ErrorEvent, ErrResult, Event
  <2>3. ~up.open /\ upstream = "anthropic"
    BY <1>2, <2>2 DEF SentBlockStop, AnthropicOK
  <2> QED
    BY <2>3, SMTT(20) DEF MayGoOn
<1>3. CASE ChatOK
  <2>1. ChatSent(ev)
    <3>1. CASE Len(queue) = 1 /\ queue = <<queue[1]>> /\ ChatSent(queue[1])
      BY <3>1, OneEvent
    <3>2. CASE /\ Len(queue) = 2 /\ queue = <<queue[1], queue[2]>>
               /\ ChatArguments(queue[1]) /\ ChatArguments(queue[2])
      BY <3>2, TwoEvents DEF ChatSent
    <3> QED
      BY <1>3, <3>1, <3>2 DEF ChatOK, ChatFeed
  <2> HIDE DEF ev
  <2>2. ev.type # "content_block_stop"
    BY <2>1 DEF ChatSent, ChatStart, ChatContent, ChatNewCall, ChatArguments, ChatStop, ChatError,
       StartEvent, Delta, StopEvent, ErrResult, Event
  <2> QED
    BY <2>2 DEF ev
<1>4. CASE GeminiOK
  <2>1. upstream' = "gemini"
    BY <1>4 DEF GeminiOK
  <2> QED
    BY <2>1, SMTT(20) DEF MayGoOn
<1>5. CASE ResponsesOK
  <2>1. ResponsesSent(ev)
    <3>1. Len(queue) = 1 /\ queue = <<queue[1]>> /\ ResponsesSent(queue[1])
      BY <1>5 DEF ResponsesOK, ResponsesFeed
    <3> QED
      BY <3>1, OneEvent
  <2> HIDE DEF ev
  <2>2. up.item = ResponsesUp!NoItem /\ upstream = "responses"
    BY <1>5, <2>1 DEF ResponsesSent, ResponsesOK, StartEvent, BlockStart, Delta, BareDelta, StopEvent,
       ErrorEvent, ErrResult, Event
  <2> QED
    BY <2>2, SMTT(20) DEF MayGoOn, ResponsesUp!NoItem
<1> QED
  BY <1>1, <1>2, <1>3, <1>4, <1>5

\* An event without content.
LEMMA NoPartOf ==
  ASSUME NEW ev \in AnthropicCodec!AnyEvent, ev.type \notin {"delta", "content_block_start"}
  PROVE  ev.part = NoPart
<1>1. ev \in AnthropicCodec!Events({"start", "content_block_stop", "stop", "error", "err"},
                                  {AnthropicCodec!NoPart})
  BY DEF AnthropicCodec!AnyEvent, AnthropicCodec!Events
<1>2. AnthropicCodec!NoPart = NoPart
  BY Zenon DEF AnthropicCodec!NoPart, AnthropicCodec!Part, AnthropicCodec!NoId, NoPart, Part, NoId
<1> QED
  BY <1>1, <1>2 DEF AnthropicCodec!Events

\* Nor is that of a call.
LEMMA NoPartIsNoCall == NoPart.kind = "none" /\ NoPart.id = NoId
BY DEF NoPart, Part

\* What is known of calls and blocks does not change while codec and client do not.
LEMMA KnownUnchanged ==
  ASSUME UNCHANGED <<upstream, inbound, codec, client>>
  PROVE  /\ \A i \in Indices : /\ KnowsCall(i)' <=> KnowsCall(i)
                               /\ NoCallAt(i)' <=> NoCallAt(i)
                               /\ NotClosedAt(i)' <=> NotClosedAt(i)
         /\ NothingBuffered' <=> NothingBuffered
BY Zenon DEF KnowsCall, NoCallAt, NotClosedAt, NothingBuffered

\* What the provider says meanwhile is not heard of.
LEMMA BlocksQuiet ==
  ASSUME BlocksHeard, Quiet, UNCHANGED <<upstream, inbound, codec, client>>
  PROVE  BlocksHeard'
<1> SUFFICES ASSUME codec'.pc = "ranging", ~Over'
             PROVE  /\ \A i \in Indices : /\ MayCome(i)' => NotClosedAt(i)'
                                          /\ MayBegin(i)' => NoCallAt(i)'
                                          /\ MayGoOn(i)' => KnowsCall(i)'
                    /\ upstream' = "anthropic" /\ ~OpenHeard' => NothingBuffered'
  BY DEF BlocksHeard
<1>1. codec.pc = "ranging" /\ ~Over
  BY DEF Quiet
<1>2. ASSUME NEW i \in Indices
      PROVE  /\ MayCome(i)' => NotClosedAt(i)'
             /\ MayBegin(i)' => NoCallAt(i)'
             /\ MayGoOn(i)' => KnowsCall(i)'
  BY <1>1, <1>2, KnownUnchanged DEF BlocksHeard, Quiet
<1>3. upstream' = "anthropic" /\ ~OpenHeard' => NothingBuffered'
  BY <1>1, KnownUnchanged DEF BlocksHeard, Quiet
<1> QED
  BY <1>2, <1>3

\* What codec and client make of an event, as far as it tells of blocks and calls.
Heeds(ev) ==
    /\ \A i \in Indices :
         /\ NotClosedAt(i) /\ ~(ev.type = "content_block_stop" /\ ev.index = i) => NotClosedAt(i)'
         /\ NoCallAt(i) /\ (ev.part.kind = "tool_use" => ev.index # i) => NoCallAt(i)'
         /\ KnowsCall(i) /\ ev.type # "content_block_stop" => KnowsCall(i)'
         /\ ev.part.kind = "tool_use" /\ ev.part.id # NoId /\ ev.index = i => KnowsCall(i)'
    /\ NothingBuffered /\ ev.part = NoPart => NothingBuffered'
    /\ ev.type = "content_block_stop" => NothingBuffered'

\* Then what has been heard agrees with them after the event.
LEMMA BlocksPassed ==
  ASSUME BlocksHeard, codec.pc = "ranging", ~Over, UNCHANGED upstream,
         NEW ev, BlockPassed(ev), StopEndsCall(ev), Heeds(ev),
         ev.type \in {"start", "content_block_start", "content_block_stop", "delta", "stop",
                      "error", "err"},
         ev.type \notin {"content_block_start", "delta"} => ev.part = NoPart
  PROVE  BlocksHeard'
<1>1. ASSUME NEW i \in Indices
      PROVE  /\ MayCome(i)' => NotClosedAt(i)'
             /\ MayBegin(i)' => NoCallAt(i)'
             /\ MayGoOn(i)' => KnowsCall(i)'
  <2>1. MayCome(i)' => NotClosedAt(i)'
    BY <1>1 DEF BlocksHeard, BlockPassed, Heeds
  <2>2. MayBegin(i)' => NoCallAt(i)'
    BY <1>1 DEF BlocksHeard, BlockPassed, Heeds
  <2>3. MayGoOn(i)' => KnowsCall(i)'
    BY <1>1 DEF BlocksHeard, BlockPassed, Heeds, StopEndsCall
  <2> QED
    BY <2>1, <2>2, <2>3
<1>2. upstream' = "anthropic" /\ ~OpenHeard' => NothingBuffered'
  <2> SUFFICES ASSUME upstream = "anthropic", ~OpenHeard'
               PROVE  NothingBuffered'
    OBVIOUS
  <2>1. ev.type = "content_block_stop" \/ (~OpenHeard /\ ev.part = NoPart)
    BY DEF BlockPassed
  <2> QED
    BY <2>1 DEF BlocksHeard, Heeds
<1> QED
  BY <1>1, <1>2 DEF BlocksHeard

-----------------------------------------------------------------------------
(* A Chat Completions client.                                              *)

\* A delta of a call that may come is of a call with an id.
LEMMA ChatCallComes ==
  ASSUME inbound = "chat", BlocksHeard, codec.pc = "ranging", ~Over, ChatClient(client),
         NEW ev \in AnthropicCodec!AnyEvent, BlockPassed(ev), "server_tool_use" \notin Kinds,
         ev.part.kind = "tool_use"
  PROVE  /\ IsCallOf(client, ev.index, ev.part.id)
         /\ ev.part.id # NoId => CallOf(client, ev.index, ev.part.id) = ev.part.id
<1>1. ev.index \in Indices /\ ev.part.id \in CallIds
  BY EventFields
<1>2. \A i \in Indices : (KnowsCall(i) <=> client.ids[i] # NoId) /\ (NoCallAt(i) <=> client.ids[i] = NoId)
  BY SMTT(20) DEF KnowsCall, NoCallAt
<1>3. ev.part.kind \in ResponsesCodec!ItemKinds
  BY DEF ResponsesCodec!ItemKinds
<1>4. CASE ev.part.id # NoId
  <2>1. client.ids[ev.index] = NoId
    BY <1>1, <1>2, <1>3, <1>4 DEF BlockPassed, BlocksHeard
  <2> QED
    BY <1>4, <2>1 DEF IsCallOf, CallOf
<1>5. CASE ev.part.id = NoId
  <2>1. client.ids[ev.index] # NoId
    BY <1>1, <1>2, <1>3, <1>5 DEF BlockPassed, BlocksHeard
  <2> QED
    BY <1>5, <2>1 DEF IsCallOf, CallOf
<1> QED
  BY <1>4, <1>5

\* What is written of an event that does not end the answer is well formed.
LEMMA ChatWritesWell ==
  ASSUME inbound = "chat", BlocksHeard, codec.pc = "ranging", ~Over, ChatClient(client),
         client.answer.reason = "none", ~client.broken,
         NEW ev \in AnthropicCodec!AnyEvent, BlockPassed(ev), "server_tool_use" \notin Kinds,
         NEW d, d = ChatCodec!Written(ev)
  PROVE  /\ ~d.broken
         /\ \A i \in Indices : ev.part.kind # "tool_use" \/ i # ev.index => d.ids[i] = client.ids[i]
         /\ ev.part.kind = "tool_use" =>
              \/ d.ids[ev.index] = client.ids[ev.index] /\ ev.type \notin {"delta", "content_block_start"}
              \/ d.ids[ev.index] = CallOf(client, ev.index, ev.part.id)
<1> DEFINE content == ChatCodec!SeesContent(client, ev.index, ev.part.kind, ev.part.frag)
           call    == ChatCodec!SeesToolCall(client, ev.index, ev.part.id, ev.part.frag)
<1>1. ev.index \in Indices /\ ev.part.id \in CallIds
  BY EventFields
<1>2. CASE ev.type = "delta" /\ ev.part.kind \in {"text", "thinking", "refusal"}
  <2>1. d = ChatCodec!SeesUsage(content, ev.usage)
    BY <1>2, SMTT(20) DEF ChatCodec!Written
  <2>2. ChatClient(content) /\ content.ids = client.ids /\ content.broken = client.broken
    BY ChatSeesContent
  <2> HIDE DEF content
  <2>3. d.ids = client.ids /\ d.broken = client.broken
    BY <2>1, <2>2, ChatSeesUsage
  <2> QED
    BY <1>2, <2>3
<1>3. CASE ev.type \in {"delta", "content_block_start"} /\ ev.part.kind = "tool_use"
  <2>1. d = ChatCodec!SeesUsage(call, ev.usage)
    BY <1>3, SMTT(20) DEF ChatCodec!Written
  <2>2. IsCallOf(client, ev.index, ev.part.id)
    BY <1>3, ChatCallComes
  <2>3. ChatClient(call) /\ call.broken = client.broken
        /\ call.ids = [client.ids EXCEPT ![ev.index] = CallOf(client, ev.index, ev.part.id)]
    BY <1>1, <2>2, ChatSeesToolCall
  <2> HIDE DEF call
  <2>4. d.broken = client.broken
        /\ d.ids = [client.ids EXCEPT ![ev.index] = CallOf(client, ev.index, ev.part.id)]
    BY <2>1, <2>3, ChatSeesUsage
  <2> QED
    BY <1>1, <1>3, <2>4 DEF ChatClient
<1>4. CASE /\ ~(ev.type = "delta" /\ ev.part.kind \in {"text", "thinking", "refusal"})
           /\ ~(ev.type \in {"delta", "content_block_start"} /\ ev.part.kind = "tool_use")
  <2>1. d \in {client, ChatCodec!SeesUsage(client, ev.usage)}
    BY <1>4, SMTT(20) DEF ChatCodec!Written
  <2>2. d.ids = client.ids /\ d.broken = client.broken
    BY <2>1, ChatSeesUsage
  <2> QED
    BY <1>4, <2>2
<1> QED
  BY <1>2, <1>3, <1>4

\* The loop of the Chat codec ends: nothing more comes.
LEMMA ChatToldEnd ==
  ASSUME inbound = "chat", ChatClient(client), ~client.broken,
         codec' = [codec EXCEPT !.pc = "returned"], ChatAgrees,
         NEW end, client' = EndsAs(client, end), UNCHANGED inbound
  PROVE  BlocksTold'
<1>1. codec'.pc = "returned"
  BY DEF ChatAgrees
<1>2. client'.broken = client.broken
  BY DEF ChatClient, EndsAs
<1> QED
  BY <1>1, <1>2 DEF BlocksTold, WellFormed, BlocksHeard, BufferedAreKnown, ItemsAgree

\* The Chat codec receives an event: the stream stays well formed.
LEMMA ChatTold ==
  ASSUME inbound = "chat", ChatAgrees, BlocksTold, queue # <<>>, "server_tool_use" \notin Kinds,
         NEW ev, Passed(ev), StopEndsCall(ev), ChatCodec!Receive(ev),
         UNCHANGED <<upstream, inbound, up, said>>
  PROVE  BlocksTold'
<1>1. /\ codec.pc = "ranging" /\ ~Over /\ client.answer.reason = "none" /\ ChatClient(client)
      /\ ev \in AnthropicCodec!AnyEvent /\ BlockPassed(ev) /\ ~client.broken /\ BlocksHeard
  BY DEF ChatAgrees, ChatCodec!Receive, Over, Passed, BlocksTold, WellFormed
<1>2. BufferedAreKnown' /\ ItemsAgree'
  BY DEF BufferedAreKnown, ItemsAgree
<1>3. CASE ChatCodec!OnEvent(ev)
  <2>1. /\ client' = ChatCodec!Written(ev) /\ ev.type \notin {"stop", "error", "err"}
    BY <1>3 DEF ChatCodec!OnEvent
  <2>2. /\ ~client'.broken
        /\ \A i \in Indices : ev.part.kind # "tool_use" \/ i # ev.index
                                => client'.ids[i] = client.ids[i]
        /\ ev.part.kind = "tool_use" =>
             \/ client'.ids[ev.index] = client.ids[ev.index]
                  /\ ev.type \notin {"delta", "content_block_start"}
             \/ client'.ids[ev.index] = CallOf(client, ev.index, ev.part.id)
    BY <1>1, <2>1, ChatWritesWell
  <2>3. ev.type \notin {"delta", "content_block_start"} => ev.part = NoPart
    BY <1>1, NoPartOf
  <2>4. \A i \in Indices : /\ KnowsCall(i) <=> client.ids[i] # NoId
                           /\ KnowsCall(i)' <=> client'.ids[i] # NoId
                           /\ NoCallAt(i) <=> client.ids[i] = NoId
                           /\ NoCallAt(i)' <=> client'.ids[i] = NoId
                           /\ NotClosedAt(i)'
    BY SMTT(20) DEF KnowsCall, NoCallAt, NotClosedAt
  <2>5. NothingBuffered'
    BY DEF NothingBuffered
  <2>6. ev.part.kind = "tool_use" =>
          /\ client'.ids[ev.index] # NoId
          /\ client'.ids[ev.index] = CallOf(client, ev.index, ev.part.id)
    BY <1>1, <2>2, <2>3, ChatCallComes, NoPartIsNoCall DEF IsCallOf
  <2>7. Heeds(ev)
    BY <2>2, <2>4, <2>5, <2>6 DEF Heeds
  <2>8. BlocksHeard'
    BY <1>1, <2>3, <2>7, EventFields, BlocksPassed
  <2> QED
    BY <1>2, <2>2, <2>8 DEF BlocksTold, WellFormed
<1>4. CASE ChatCodec!OnStop(ev)
  <2> DEFINE told  == ChatCodec!FinishReason(ChatCodec!StopReason(ev))
             ended == [client EXCEPT !.answer.reason = told]
             usage == ChatCodec!StopUsage(ev)
  <2>1. client' = ChatCodec!SeesUsage(ended, usage)
    BY <1>1, <1>4, Zenon DEF ChatCodec!OnStop, ChatCodec!SeesFinish, ChatCodec!Takes
  <2>2. ChatClient(ended) /\ ended.broken = client.broken
    <3> HIDE DEF told
    <3> DEFINE answer == [client.answer EXCEPT !.reason = told]
    <3>1. ended = ChatClientOf(answer, client.ids, client.shown, client.broken)
      BY <1>1 DEF ChatClient, IsAnswer, ChatClientOf
    <3>2. IsAnswer(answer) /\ client.ids \in [Indices -> CallIds]
      BY <1>1 DEF ChatClient, IsAnswer
    <3> HIDE DEF answer, ended
    <3> QED
      BY <3>1, <3>2, ChatClientFields
  <2> HIDE DEF ended, usage
  <2>3. ~client'.broken
    BY <1>1, <2>1, <2>2, ChatSeesUsage
  <2>4. Over'
    BY <1>4 DEF ChatCodec!OnStop, Passed, EndPassed
  <2> QED
    BY <1>2, <2>3, <2>4 DEF BlocksTold, WellFormed, BlocksHeard
<1>5. CASE ChatCodec!OnError(ev)
  <2>1. codec' = [codec EXCEPT !.pc = "returned"] /\ client' = EndsAs(client, "error")
    BY <1>5, Zenon DEF ChatCodec!OnError, ChatCodec!SeesError, EndsAs
  <2> QED
    BY <1>1, <1>2, <2>1, ChatToldEnd
<1> QED
  BY <1>3, <1>4, <1>5 DEF ChatCodec!Receive

-----------------------------------------------------------------------------
(* A Gemini client.                                                        *)

\* The calls that are buffered, under their ids; of what their arguments are nothing is said.
AreBuffered(calls) ==
    /\ Len(calls) = Len(codec.order) /\ (codec.order = <<>> => calls = <<>>)
    /\ \A i \in 1..Len(codec.order) : calls[i].id = codec.pending[codec.order[i]].id

\* What is buffered may be told: its ids are known, and there is none after the reason.
LEMMA GeminiBufferFits ==
  ASSUME inbound = "gemini", GeminiAgrees, BufferedAreKnown, codec.pc = "ranging"
  PROVE  /\ CallsFit(client, GeminiCodec!Buffer)
         /\ \A invalid : CallsFit(client, [i \in 1..Len(codec.order) |->
              IF codec.order[i] \in invalid THEN [GeminiCodec!Buffer[i] EXCEPT !.args = <<>>]
              ELSE GeminiCodec!Buffer[i]])
<1> DEFINE buffer == GeminiCodec!Buffer
<1>1. /\ codec.pending \in [Indices -> [id : CallIds, args : Seq(Nat)]]
      /\ codec.order \in Seq(Indices)
      /\ \A i \in 1..Len(codec.order) : codec.pending[codec.order[i]].id # NoId
      /\ HeardReason # "none" => codec.order = <<>>
      /\ HeardReason = "none" => client.answer.reason = "none"
  BY DEF BufferedAreKnown, GeminiAgrees
<1>2. buffer = [i \in 1..Len(codec.order) |-> codec.pending[codec.order[i]]]
  BY Zenon DEF GeminiCodec!Buffer
<1> HIDE DEF buffer
<1>3. \A calls : AreBuffered(calls) => CallsFit(client, calls)
  BY <1>1 DEF CallsFit, AreBuffered
<1>4. CallsFit(client, buffer)
  <2>1. Len(buffer) = Len(codec.order) /\ (codec.order = <<>> => buffer = <<>>)
    BY <1>1, <1>2
  <2>2. \A i \in 1..Len(codec.order) : buffer[i].id = codec.pending[codec.order[i]].id
    BY <1>1, <1>2
  <2>3. AreBuffered(buffer)
    BY <2>1, <2>2 DEF AreBuffered
  <2> QED
    BY <1>3, <2>3
<1>5. ASSUME NEW invalid
      PROVE  CallsFit(client, [i \in 1..Len(codec.order) |->
               IF codec.order[i] \in invalid THEN [buffer[i] EXCEPT !.args = <<>>] ELSE buffer[i]])
  <2> DEFINE calls == [i \in 1..Len(codec.order) |->
               IF codec.order[i] \in invalid THEN [buffer[i] EXCEPT !.args = <<>>] ELSE buffer[i]]
  <2>1. Len(calls) = Len(codec.order) /\ (codec.order = <<>> => calls = <<>>)
    BY <1>1
  <2>2. \A i \in 1..Len(codec.order) : calls[i].id = codec.pending[codec.order[i]].id
    BY <1>1, <1>2
  <2> HIDE DEF calls
  <2>3. AreBuffered(calls)
    BY <2>1, <2>2 DEF AreBuffered
  <2>4. CallsFit(client, calls)
    BY <1>3, <2>3
  <2> QED
    BY <2>4 DEF calls
<1> QED
  BY <1>4, <1>5 DEF buffer

\* What an event leaves of the buffer.
BufferAfter(ev) ==
    /\ ev.type \in {"content_block_start", "delta"} /\ ev.part.kind = "tool_use" =>
         /\ codec'.pending = [codec.pending EXCEPT
                                 ![ev.index] = GeminiCodec!Buffered(codec.pending[ev.index], ev.part)]
         /\ codec'.order \in {codec.order, Append(codec.order, ev.index)}
    /\ ev.type \in {"content_block_start", "delta", "start"} /\ ev.part.kind # "tool_use" =>
         codec'.pending = codec.pending /\ codec'.order = codec.order
    /\ ev.type \in {"content_block_stop", "stop"} =>
         codec'.pending = [i \in Indices |-> GeminiCodec!NoCall] /\ codec'.order = <<>>
    /\ ev.type \in {"error", "err"} =>
         codec'.pc = "returned" /\ codec'.pending = codec.pending /\ codec'.order = codec.order

LEMMA GeminiBuffers ==
  ASSUME GeminiAgrees, NEW ev, GeminiCodec!Receive(ev)
  PROVE  BufferAfter(ev)
<1> DEFINE usage  == Collected(codec.usage, ev)
           reason == IF ev.reason # "none" THEN ev.reason ELSE codec.reason
           noted  == GeminiCodec!Noted(ev)
           calls  == [i \in Indices |-> GeminiCodec!NoCall]
<1>1. codec = GeminiCodecOf(codec.pc, codec.usage, codec.reason, codec.pending, codec.order)
  BY DEF GeminiAgrees, GeminiCodecOf
<1>2. noted = GeminiCodecOf(codec.pc, usage, reason, codec.pending, codec.order)
  <2>1. noted = [codec EXCEPT !.usage = usage, !.reason = reason]
    BY Zenon DEF GeminiCodec!Noted, GeminiCodec!Merge, Merge, Collected
  <2> HIDE DEF usage, reason
  <2> QED
    BY <1>1, <2>1 DEF GeminiCodecOf
<1>3. GeminiCodec!Flushed(noted) = [noted EXCEPT !.pending = calls, !.order = <<>>]
  BY Zenon DEF GeminiCodec!Flushed
<1> HIDE DEF usage, reason, calls
<1>4. CASE GeminiCodec!OnTool(ev)
  <2> DEFINE call == GeminiCodec!Buffered(noted.pending[ev.index], ev.part)
             p == [noted.pending EXCEPT ![ev.index] = call]
             o == IF GeminiCodec!Contains(noted.order, ev.index) THEN noted.order
                  ELSE Append(noted.order, ev.index)
  <2>1. codec' = [noted EXCEPT !.pending[ev.index] = GeminiCodec!Buffered(@, ev.part),
                               !.order = IF GeminiCodec!Contains(@, ev.index) THEN @
                                         ELSE Append(@, ev.index)]
    BY <1>4, Zenon DEF GeminiCodec!OnTool, noted
  <2> HIDE DEF noted
  <2>2. codec' = [noted EXCEPT !.pending = p, !.order = o]
    <3> HIDE DEF call
    <3> QED
      BY <1>2, <2>1 DEF GeminiCodecOf, call
  <2>3. noted.pending = codec.pending /\ noted.order = codec.order
    BY <1>2 DEF GeminiCodecOf
  <2>4. o \in {codec.order, Append(codec.order, ev.index)}
    BY <2>3, Zenon
  <2>5. p = [codec.pending EXCEPT
               ![ev.index] = GeminiCodec!Buffered(codec.pending[ev.index], ev.part)]
    BY <2>3, Zenon
  <2> HIDE DEF p, o
  <2>6. codec'.pending = p /\ codec'.order = o
    BY <1>2, <2>2 DEF GeminiCodecOf
  <2>7. ev.type \in {"content_block_start", "delta"} /\ ev.part.kind = "tool_use"
    BY <1>4 DEF GeminiCodec!OnTool
  <2> QED
    BY <2>4, <2>5, <2>6, <2>7, Zenon DEF BufferAfter
<1>5. CASE GeminiCodec!OnOther(ev)
  <2>1. codec' = noted /\ ev.type \in {"content_block_start", "delta", "start"}
        /\ ev.part.kind # "tool_use"
    BY <1>5, Zenon DEF GeminiCodec!OnOther
  <2> HIDE DEF noted
  <2> QED
    BY <1>2, <2>1 DEF BufferAfter, GeminiCodecOf
<1>6. CASE GeminiCodec!OnBlockStop(ev) \/ GeminiCodec!OnStop(ev)
  <2>1. codec' = [noted EXCEPT !.pending = calls, !.order = <<>>]
        /\ ev.type \in {"content_block_stop", "stop"}
    BY <1>3, <1>6, Zenon DEF GeminiCodec!OnBlockStop, GeminiCodec!OnStop
  <2> HIDE DEF noted
  <2>2. codec'.pending = calls /\ codec'.order = <<>>
    BY <1>2, <2>1 DEF GeminiCodecOf
  <2> QED
    BY <2>1, <2>2, Zenon DEF BufferAfter, calls
<1>7. CASE GeminiCodec!OnError(ev)
  <2>1. codec' = [codec EXCEPT !.pc = "returned"] /\ ev.type \in {"error", "err"}
    BY <1>7, Zenon DEF GeminiCodec!OnError
  <2>2. codec'.pc = "returned" /\ codec'.pending = codec.pending /\ codec'.order = codec.order
    BY <1>1, <2>1 DEF GeminiCodecOf
  <2> QED
    BY <2>1, <2>2 DEF BufferAfter
<1> QED
  BY <1>4, <1>5, <1>6, <1>7 DEF GeminiCodec!Receive

\* A call that is buffered stays one, and one that goes on becomes one, with its id.
LEMMA GeminiBuffered ==
  ASSUME NEW call \in [id : CallIds, args : Seq(Nat)], NEW part, part.id \in CallIds,
         part.frag \in Nat
  PROVE  /\ GeminiCodec!Buffered(call, part) \in [id : CallIds, args : Seq(Nat)]
         /\ GeminiCodec!Buffered(call, part).id = IF part.id # NoId THEN part.id ELSE call.id
<1> DEFINE id   == IF part.id # NoId THEN part.id ELSE call.id
           args == IF part.frag # 0 THEN Append(call.args, part.frag) ELSE call.args
           d    == GeminiCodec!Buffered(call, part)
<1>1. d = [id |-> id, args |-> args]
  BY Zenon DEF GeminiCodec!Buffered, NoId, GeminiCodec!NoId
<1>2. id \in CallIds /\ args \in Seq(Nat)
  OBVIOUS
<1> HIDE DEF args, d
<1>3. d.id = id /\ d \in [id : CallIds, args : Seq(Nat)]
  BY <1>1, <1>2
<1> QED
  BY <1>3 DEF d

\* The fragment of an event has a number.
LEMMA FragmentOf ==
  ASSUME NEW ev \in AnthropicCodec!AnyEvent
  PROVE  ev.part.frag \in Nat
BY DEF AnthropicCodec!AnyEvent, AnthropicCodec!Events, AnthropicCodec!Parts,
       AnthropicCodec!NoPart, AnthropicCodec!Part

\* All that is buffered after an event has its id; nothing is once the reason was heard.
LEMMA GeminiBufferKnown ==
  ASSUME inbound = "gemini", BufferedAreKnown, BlocksHeard, codec.pc = "ranging", ~Over,
         NEW ev \in AnthropicCodec!AnyEvent, EndPassed(ev), BlockPassed(ev), BufferAfter(ev),
         "server_tool_use" \notin Kinds, UNCHANGED <<upstream, inbound>>
  PROVE  BufferedAreKnown'
<1> DEFINE pending == codec.pending
           order   == codec.order
           AllKnown(p, o) == /\ p \in [Indices -> [id : CallIds, args : Seq(Nat)]]
                           /\ o \in Seq(Indices)
                           /\ \A i \in 1..Len(o) : p[o[i]].id # NoId
<1>1. AllKnown(pending, order) /\ (HeardReason # "none" => order = <<>>)
  BY DEF BufferedAreKnown
<1>2. /\ ev.index \in Indices /\ ev.part.id \in CallIds /\ ev.part.frag \in Nat
      /\ ev.type \in {"start", "content_block_start", "content_block_stop", "delta", "stop",
                      "error", "err"}
      /\ ev.type \notin {"delta", "content_block_start"} => ev.part = NoPart
  BY EventFields, FragmentOf, NoPartOf
<1>3. HeardReason' = IF ev.reason # "none" THEN ev.reason ELSE HeardReason
  BY DEF EndPassed
<1>4. SUFFICES AllKnown(codec'.pending, codec'.order)
               /\ (codec'.pc = "ranging" /\ HeardReason' # "none" => codec'.order = <<>>)
  BY DEF BufferedAreKnown
<1>5. CASE ev.type \in {"content_block_start", "delta"} /\ ev.part.kind = "tool_use"
  <2> DEFINE call == GeminiCodec!Buffered(pending[ev.index], ev.part)
  <2>1. call \in [id : CallIds, args : Seq(Nat)]
        /\ call.id = IF ev.part.id # NoId THEN ev.part.id ELSE pending[ev.index].id
    BY <1>1, <1>2, GeminiBuffered
  <2>2. call.id # NoId
    <3>1. CASE ev.part.id # NoId
      BY <2>1, <3>1
    <3>2. CASE ev.part.id = NoId
      <4>1. KnowsCall(ev.index)
        BY <1>2, <1>5, <3>2 DEF BlockPassed, BlocksHeard, ResponsesCodec!ItemKinds
      <4> QED
        BY <2>1, <3>2, <4>1, SMTT(20) DEF KnowsCall
    <3> QED
      BY <3>1, <3>2
  <2> HIDE DEF call
  <2>3. /\ codec'.pending = [pending EXCEPT ![ev.index] = call]
        /\ codec'.order \in {order, Append(order, ev.index)}
    BY <1>5, Zenon DEF BufferAfter, call
  <2>4. AllKnown(codec'.pending, codec'.order)
    <3>1. codec'.pending \in [Indices -> [id : CallIds, args : Seq(Nat)]]
          /\ codec'.order \in Seq(Indices)
      <4> DEFINE Buffers == [id : CallIds, args : Seq(Nat)]
      <4>1. call \in Buffers /\ pending \in [Indices -> Buffers]
        BY <1>1, <2>1
      <4> HIDE DEF Buffers
      <4>2. codec'.pending \in [Indices -> Buffers]
        BY <1>2, <2>3, <4>1
      <4>3. codec'.order \in Seq(Indices)
        <5>1. order \in Seq(Indices) /\ codec'.order \in {order, Append(order, ev.index)}
          BY <1>1, <2>3
        <5> HIDE DEF order
        <5> QED
          BY <1>2, <5>1
      <4> QED
        BY <4>2, <4>3 DEF Buffers
    <3>2. ASSUME NEW i \in Indices
          PROVE  codec'.pending[i].id = IF i = ev.index THEN call.id ELSE pending[i].id
      BY <1>1, <2>3
    <3>3. ASSUME NEW i \in 1..Len(codec'.order)
          PROVE  codec'.pending[codec'.order[i]].id # NoId
      <4>1. codec'.order[i] = ev.index \/ (i \in 1..Len(order) /\ codec'.order[i] = order[i])
        BY <1>1, <1>2, <2>3, <3>3
      <4> QED
        BY <1>1, <1>2, <2>2, <3>2, <4>1, SMTT(30)
    <3> QED
      BY <3>1, <3>3
  <2>5. ev.part # NoPart
    BY <1>5, NoPartIsNoCall
  <2>6. HeardReason' = "none"
    BY <1>3, <1>5, <2>5 DEF EndPassed
  <2> QED
    BY <2>4, <2>6
<1>6. CASE ev.type \in {"content_block_start", "delta", "start"} /\ ev.part.kind # "tool_use"
  <2>1. codec'.pending = pending /\ codec'.order = order
    BY <1>6 DEF BufferAfter
  <2>2. HeardReason' # "none" => order = <<>>
    <3> SUFFICES ASSUME HeardReason = "none", ev.reason # "none"
                 PROVE  order = <<>>
      BY <1>1, <1>3
    <3>1. ev.type = "delta" /\ upstream = "anthropic" /\ ev.part = NoPart
      BY <1>6 DEF EndPassed
    <3>2. ~OpenHeard
      BY <3>1 DEF BlockPassed
    <3> QED
      BY <3>1, <3>2 DEF BlocksHeard, NothingBuffered
  <2> QED
    BY <1>1, <2>1, <2>2
<1>7. CASE ev.type \in {"content_block_stop", "stop"}
  <2>1. codec'.pending = [i \in Indices |-> GeminiCodec!NoCall] /\ codec'.order = <<>>
    BY <1>7, Zenon DEF BufferAfter
  <2>2. GeminiCodec!NoCall \in [id : CallIds, args : Seq(Nat)]
    BY DEF GeminiCodec!NoCall, GeminiCodec!NoId, CallIds, NoId
  <2> QED
    BY <2>1, <2>2
<1>8. CASE ev.type \in {"error", "err"}
  BY <1>1, <1>8 DEF BufferAfter
<1> QED
  <2> HIDE DEF AllKnown
  <2> QED
    BY <1>2, <1>5, <1>6, <1>7, <1>8, NoPartIsNoCall

\* What a Gemini client is shown of an event is well formed.
LEMMA GeminiShows ==
  ASSUME inbound = "gemini", GeminiAgrees, BufferedAreKnown, codec.pc = "ranging", ~client.broken,
         NEW ev, EndPassed(ev), GeminiCodec!Receive(ev)
  PROVE  ~client'.broken
<1>1. /\ GeminiClient(client) /\ CallsFit(client, GeminiCodec!Buffer)
      /\ HeardReason = "none" => client.answer.reason = "none"
  BY GeminiBufferFits DEF GeminiAgrees
<1> DEFINE flushed == GeminiCodec!ClientFlushed(client)
<1>2. GeminiClient(flushed) /\ flushed.broken = client.broken
  BY <1>1, GeminiSeesCalls DEF GeminiCodec!ClientFlushed
<1> HIDE DEF flushed
<1>3. CASE GeminiCodec!OnTool(ev)
  BY <1>3 DEF GeminiCodec!OnTool
<1>4. CASE GeminiCodec!OnOther(ev)
  <2>1. CASE ev.type = "delta"
    <3>1. client' = GeminiCodec!WrittenDelta(ev)
      BY <1>4, <2>1, Zenon DEF GeminiCodec!OnOther
    <3>2. ev.part.kind \notin {"text", "thinking"} \/ client.answer.reason = "none"
      BY <1>1, NoPartIsNoCall DEF EndPassed
    <3> QED
      BY <1>1, <3>1, <3>2, GeminiWritten
  <2>2. CASE ev.type # "delta"
    <3>1. client' \in {client, GeminiCodec!SeesUsage(client, ev.usage)}
      BY <1>4, <2>2, Zenon DEF GeminiCodec!OnOther
    <3> QED
      BY <1>1, <3>1, GeminiSeesUsage
  <2> QED
    BY <2>1, <2>2
<1>5. CASE GeminiCodec!OnBlockStop(ev)
  BY <1>2, <1>5 DEF GeminiCodec!OnBlockStop, flushed
<1>6. CASE GeminiCodec!OnStop(ev)
  <2> DEFINE told  == GeminiCodec!FinishReason(GeminiCodec!StopReason(ev))
             usage == GeminiCodec!StopUsage(ev)
             ended == TellsReason(flushed, told)
  <2>1. client' = GeminiCodec!SeesUsage(ended, usage)
    BY <1>6, Zenon DEF GeminiCodec!OnStop, GeminiCodec!SeesFinish, TellsReason, flushed
  <2>2. GeminiClient(ended) /\ ended.broken = flushed.broken
    BY <1>2, GeminiAnswers
  <2> HIDE DEF ended, usage
  <2> QED
    BY <1>2, <2>1, <2>2, GeminiSeesUsage
<1>7. CASE GeminiCodec!OnError(ev)
  <2>1. client' = EndsAs(client, "error")
    BY <1>7, Zenon DEF GeminiCodec!OnError, GeminiCodec!SeesError, EndsAs
  <2> QED
    BY <1>1, <2>1, GeminiAnswers
<1> QED
  BY <1>3, <1>4, <1>5, <1>6, <1>7 DEF GeminiCodec!Receive

\* The Gemini codec receives an event: the stream stays well formed.
LEMMA GeminiTold ==
  ASSUME inbound = "gemini", GeminiAgrees, BlocksTold, queue # <<>>, "server_tool_use" \notin Kinds,
         NEW ev, Passed(ev), StopEndsCall(ev), GeminiCodec!Receive(ev),
         UNCHANGED <<upstream, inbound, up, said>>
  PROVE  BlocksTold'
<1>1. /\ codec.pc = "ranging" /\ ~Over /\ ev \in AnthropicCodec!AnyEvent /\ EndPassed(ev)
      /\ BlockPassed(ev) /\ ~client.broken /\ BlocksHeard /\ BufferedAreKnown
  BY DEF GeminiCodec!Receive, Over, Passed, BlocksTold, WellFormed
<1>2. ItemsAgree'
  BY DEF ItemsAgree
<1>3. BufferAfter(ev)
  BY GeminiBuffers
<1>4. BufferedAreKnown'
  BY <1>1, <1>3, GeminiBufferKnown
<1>5. ~client'.broken
  BY <1>1, GeminiShows
<1>6. /\ ev.index \in Indices /\ ev.part.id \in CallIds /\ ev.part.frag \in Nat
      /\ ev.type \in {"start", "content_block_start", "content_block_stop", "delta", "stop",
                      "error", "err"}
      /\ ev.type \notin {"delta", "content_block_start"} => ev.part = NoPart
  BY <1>1, EventFields, FragmentOf, NoPartOf
<1>7. CASE ev.type \in {"stop", "error", "err"}
  <2>1. Over'
    BY <1>1, <1>7 DEF EndPassed
  <2> QED
    BY <1>2, <1>4, <1>5, <2>1 DEF BlocksTold, WellFormed, BlocksHeard
<1>8. CASE ev.type \notin {"stop", "error", "err"}
  <2>1. \A i \in Indices : /\ KnowsCall(i) <=> codec.pending[i].id # NoId
                           /\ KnowsCall(i)' <=> codec'.pending[i].id # NoId
                           /\ NoCallAt(i)' /\ NotClosedAt(i)'
    BY SMTT(20) DEF KnowsCall, NoCallAt, NotClosedAt
  <2>2. /\ NothingBuffered <=> codec.order = <<>>
        /\ NothingBuffered' <=> codec'.order = <<>>
    BY DEF NothingBuffered
  <2>3. Heeds(ev)
    <3>1. CASE ev.part.kind = "tool_use"
      <4> DEFINE call == GeminiCodec!Buffered(codec.pending[ev.index], ev.part)
      <4>1. call.id = IF ev.part.id # NoId THEN ev.part.id ELSE codec.pending[ev.index].id
        BY <1>1, <1>6, GeminiBuffered DEF BufferedAreKnown
      <4> HIDE DEF call
      <4>2. codec'.pending = [codec.pending EXCEPT ![ev.index] = call]
            /\ ev.type \in {"content_block_start", "delta"}
        BY <1>3, <1>6, <1>8, <3>1, NoPartIsNoCall DEF BufferAfter, call
      <4>3. \A i \in Indices :
              codec'.pending[i].id = IF i = ev.index THEN call.id ELSE codec.pending[i].id
        BY <1>1, <1>6, <4>2 DEF BufferedAreKnown
      <4>4. ev.part # NoPart
        BY <3>1, NoPartIsNoCall
      <4> QED
        BY <1>6, <2>1, <4>1, <4>2, <4>3, <4>4 DEF Heeds
    <3>2. CASE ev.part.kind # "tool_use" /\ ev.type # "content_block_stop"
      <4>1. codec'.pending = codec.pending /\ codec'.order = codec.order
        BY <1>3, <1>6, <1>8, <3>2 DEF BufferAfter
      <4> QED
        BY <2>1, <2>2, <3>2, <4>1 DEF Heeds
    <3>3. CASE ev.part.kind # "tool_use" /\ ev.type = "content_block_stop"
      <4>1. codec'.order = <<>>
        BY <1>3, <3>3 DEF BufferAfter
      <4> QED
        BY <2>1, <2>2, <3>3, <4>1 DEF Heeds
    <3> QED
      BY <3>1, <3>2, <3>3
  <2>4. BlocksHeard'
    BY <1>1, <1>6, <2>3, BlocksPassed
  <2> QED
    BY <1>2, <1>4, <1>5, <2>4 DEF BlocksTold, WellFormed
<1> QED
  BY <1>7, <1>8

\* The channel is closed, or the client has left.
LEMMA GeminiToldEnd ==
  ASSUME inbound = "gemini", GeminiAgrees, BlocksTold, UNCHANGED <<upstream, inbound>>,
         GeminiCodec!SeesEnd \/ GeminiCodec!WriteFails
  PROVE  BlocksTold'
<1>1. /\ codec.pc = "ranging" /\ ~client.broken /\ BufferedAreKnown /\ GeminiClient(client)
      /\ codec = GeminiCodecOf(codec.pc, codec.usage, codec.reason, codec.pending, codec.order)
  BY DEF GeminiCodec!SeesEnd, GeminiCodec!WriteFails, BlocksTold, WellFormed, GeminiAgrees,
     GeminiCodecOf
<1>2. SUFFICES codec'.pc = "returned" /\ ~client'.broken /\ BufferedAreKnown'
  BY DEF BlocksTold, WellFormed, BlocksHeard, ItemsAgree
<1>3. CASE GeminiCodec!SeesEnd
  <2> DEFINE calls == [i \in Indices |-> GeminiCodec!NoCall]
  <2>1. codec'.pc = "returned" /\ codec'.pending = calls /\ codec'.order = <<>>
    <3>1. PICK k : k = GeminiCodec!Flushed(codec)
      OBVIOUS
    <3>2. k = [codec EXCEPT !.pending = calls, !.order = <<>>] /\ codec' = [k EXCEPT !.pc = "returned"]
      BY <1>3, <3>1, Zenon DEF GeminiCodec!SeesEnd, GeminiCodec!Flushed
    <3> HIDE DEF calls
    <3>3. k = GeminiCodecOf(codec.pc, codec.usage, codec.reason, calls, <<>>)
      BY <1>1, <3>2 DEF GeminiCodecOf
    <3> QED
      BY <3>2, <3>3 DEF GeminiCodecOf
  <2>2. GeminiCodec!NoCall \in [id : CallIds, args : Seq(Nat)]
    BY DEF GeminiCodec!NoCall, GeminiCodec!NoId, CallIds, NoId
  <2>3. BufferedAreKnown'
    BY <2>1, <2>2 DEF BufferedAreKnown
  <2>4. PICK invalid : client' = GeminiCodec!SeesClose(GeminiCodec!ClientFlushedEmpty(client, invalid))
    BY <1>3, Zenon DEF GeminiCodec!SeesEnd
  <2> DEFINE buffer  == [i \in 1..Len(codec.order) |->
                           IF codec.order[i] \in invalid
                           THEN [GeminiCodec!Buffer[i] EXCEPT !.args = <<>>]
                           ELSE GeminiCodec!Buffer[i]]
             flushed == GeminiCodec!SeesCalls(client, buffer)
             end     == IF flushed.answer.reason # "none" THEN "clean" ELSE "cut"
  <2>5. client' = EndsAs(flushed, end)
    BY <2>4, Zenon DEF GeminiCodec!SeesClose, GeminiCodec!ClientFlushedEmpty, EndsAs
  <2>6. CallsFit(client, buffer)
    BY <1>1, GeminiBufferFits
  <2> HIDE DEF buffer
  <2>7. GeminiClient(flushed) /\ flushed.broken = client.broken
    BY <1>1, <2>6, GeminiSeesCalls
  <2> HIDE DEF flushed, end
  <2>8. client'.broken = flushed.broken
    BY <2>5, <2>7, GeminiAnswers
  <2> QED
    BY <1>1, <2>1, <2>3, <2>7, <2>8
<1>4. CASE GeminiCodec!WriteFails
  <2>1. codec' = [codec EXCEPT !.pc = "returned"] /\ client' = EndsAs(client, "gone")
    BY <1>4, Zenon DEF GeminiCodec!WriteFails, EndsAs
  <2>2. codec'.pc = "returned" /\ codec'.pending = codec.pending /\ codec'.order = codec.order
    BY <1>1, <2>1 DEF GeminiCodecOf
  <2>3. BufferedAreKnown'
    BY <1>1, <2>2 DEF BufferedAreKnown
  <2> QED
    BY <1>1, <2>1, <2>2, <2>3, GeminiAnswers
<1> QED
  BY <1>3, <1>4

-----------------------------------------------------------------------------
(* A Responses client.  Its items and those of the codec are the same.     *)

ItemsMatch(items, next, seen) ==
    /\ items \in Seq(Items) /\ next \in Nat
    /\ seen = [i \in 1..Len(items) |-> ItemSeen(items[i])]
    /\ \A i \in 1..Len(items) : items[i].output < next
    /\ \A i, j \in 1..Len(items) :
         i < j => /\ items[i].output < items[j].output
                  /\ ResponsesCodec!Key(items[i]) # ResponsesCodec!Key(items[j])

LEMMA ItemsAgreeIs ==
  ItemsAgree <=> (inbound = "responses" /\ codec.pc = "ranging" =>
                    ItemsMatch(codec.items, codec.nextOutput, client.items))
BY Zenon DEF ItemsAgree, ItemsMatch

LEMMA ItemsAgreeIsNext ==
  ItemsAgree' <=> (inbound' = "responses" /\ codec'.pc = "ranging" =>
                     ItemsMatch(codec'.items, codec'.nextOutput, client'.items))
BY Zenon DEF ItemsAgree, ItemsMatch

\* What the client has of an item.
LEMMA ItemSeenFields ==
  ASSUME NEW item
  PROVE  /\ ItemSeen(item).output = item.output /\ ItemSeen(item).kind = item.kind
         /\ ItemSeen(item).call = item.call /\ ItemSeen(item).open = ~item.closed
BY DEF ItemSeen

\* Items that match, one by one.
LEMMA ItemsSeen ==
  ASSUME NEW items, NEW next, NEW seen, ItemsMatch(items, next, seen)
  PROVE  /\ items \in Seq(Items) /\ Len(items) \in Nat /\ Len(seen) = Len(items)
         /\ \A i \in 1..Len(items) :
              /\ items[i] \in Items /\ seen[i] = ItemSeen(items[i])
              /\ seen[i].output = items[i].output /\ seen[i].kind = items[i].kind
              /\ seen[i].call = items[i].call /\ (seen[i].open <=> ~items[i].closed)
<1>1. /\ items \in Seq(Items) /\ Len(items) \in Nat
      /\ seen = [i \in 1..Len(items) |-> ItemSeen(items[i])]
  BY DEF ItemsMatch
<1>2. Len(seen) = Len(items)
  BY <1>1
<1>3. ASSUME NEW i \in 1..Len(items)
      PROVE  /\ items[i] \in Items /\ seen[i] = ItemSeen(items[i])
             /\ seen[i].output = items[i].output /\ seen[i].kind = items[i].kind
             /\ seen[i].call = items[i].call /\ (seen[i].open <=> ~items[i].closed)
  <2>1. items[i] \in Items /\ seen[i] = ItemSeen(items[i])
    BY <1>1
  <2>2. /\ seen[i].output = items[i].output /\ seen[i].kind = items[i].kind
        /\ seen[i].call = items[i].call
    BY <2>1, ItemSeenFields
  <2>3. seen[i].open <=> ~items[i].closed
    BY <2>1, ItemSeenFields, Zenon
  <2> QED
    BY <2>1, <2>2, <2>3
<1> QED
  BY <1>1, <1>2, <1>3

\* The item that the codec makes for an event.
LEMMA ResponsesNewItem ==
  ASSUME NEW index \in Indices, NEW part, part.id \in CallIds,
         part.kind \in ResponsesCodec!ItemKinds, codec.nextOutput \in Nat
  PROVE  LET item == ResponsesCodec!NewItem(index, part)
         IN  /\ item \in Items /\ item.source = index /\ item.kind = part.kind
             /\ item.call = part.id /\ item.output = codec.nextOutput /\ ~item.closed
             /\ ItemSeen(item) = [output |-> item.output, kind |-> item.kind,
                                  call |-> item.call, open |-> TRUE]
<1> DEFINE item == ResponsesCodec!NewItem(index, part)
<1>1. PICK f : f = FALSE
  OBVIOUS
<1>2. item = [source |-> index, output |-> codec.nextOutput, kind |-> part.kind,
              call |-> part.id, closed |-> f]
  BY <1>1, Zenon DEF ResponsesCodec!NewItem
<1>3. f \in BOOLEAN
  BY <1>1
<1> HIDE DEF item
<1>4. /\ item \in Items /\ item.source = index /\ item.kind = part.kind
      /\ item.call = part.id /\ item.output = codec.nextOutput /\ item.closed = f
  BY <1>2, <1>3 DEF Items
<1>5. ~item.closed
  BY <1>1, <1>4, Zenon
<1>6. ItemSeen(item) = [output |-> item.output, kind |-> item.kind,
                        call |-> item.call, open |-> TRUE]
  <2>1. (~item.closed) = TRUE
    BY <1>5
  <2> QED
    BY <2>1, Zenon DEF ItemSeen
<1> QED
  BY <1>4, <1>5, <1>6, Zenon DEF item

\* The items when one is added: they still match.
LEMMA ItemAdded ==
  ASSUME NEW items, NEW next, NEW seen, ItemsMatch(items, next, seen),
         NEW item \in Items, item.output = next,
         \A i \in 1..Len(items) : ResponsesCodec!Key(items[i]) # ResponsesCodec!Key(item)
  PROVE  ItemsMatch(Append(items, item), next + 1, Append(seen, ItemSeen(item)))
<1> DEFINE more == Append(items, item)
           all  == Append(seen, ItemSeen(item))
<1>1. /\ items \in Seq(Items) /\ next \in Nat
      /\ seen = [i \in 1..Len(items) |-> ItemSeen(items[i])]
      /\ \A i \in 1..Len(items) : items[i].output < next
      /\ \A i, j \in 1..Len(items) :
           i < j => /\ items[i].output < items[j].output
                    /\ ResponsesCodec!Key(items[i]) # ResponsesCodec!Key(items[j])
  BY DEF ItemsMatch
<1>2. /\ more \in Seq(Items) /\ Len(more) = Len(items) + 1 /\ Len(items) \in Nat
      /\ more[Len(items) + 1] = item
      /\ \A i \in 1..Len(items) : more[i] = items[i]
  BY <1>1
<1>3. ASSUME NEW i \in 1..Len(more)
      PROVE  (i \in 1..Len(items) /\ more[i] = items[i]) \/ (i = Len(items) + 1 /\ more[i] = item)
  BY <1>2
<1>4. ASSUME NEW i \in 1..Len(items)
      PROVE  items[i].output \in Nat
  <2>1. items[i] \in Items
    BY <1>1
  <2> QED
    BY <2>1 DEF Items
<1>5. all = [i \in 1..Len(more) |-> ItemSeen(more[i])]
  <2> DEFINE S == {ItemSeen(items[i]) : i \in 1..Len(items)} \cup {ItemSeen(item)}
  <2>1. seen \in Seq(S) /\ Len(seen) = Len(items) /\ ItemSeen(item) \in S
    BY <1>1, <1>2
  <2> HIDE DEF S
  <2>2. all = [i \in 1..Len(more) |-> all[i]]
    <3>1. all \in Seq(S) /\ Len(all) = Len(more)
      BY <1>2, <2>1
    <3> HIDE DEF all, more
    <3> QED
      BY <3>1
  <2>3. ASSUME NEW i \in 1..Len(more)
        PROVE  all[i] = ItemSeen(more[i])
    BY <1>1, <1>2, <1>3, <2>1
  <2> HIDE DEF all, more
  <2> QED
    BY <2>2, <2>3
<1> HIDE DEF more, all
<1>6. \A i \in 1..Len(more) : more[i].output < next + 1
  BY <1>1, <1>3, <1>4
<1>7. ASSUME NEW i \in 1..Len(more), NEW j \in 1..Len(more), i < j
      PROVE  /\ more[i].output < more[j].output
             /\ ResponsesCodec!Key(more[i]) # ResponsesCodec!Key(more[j])
  <2>1. i \in 1..Len(items) /\ more[i] = items[i]
    BY <1>2, <1>7
  <2> QED
    BY <1>1, <1>3, <1>7, <2>1
<1>8. ItemsMatch(more, next + 1, all)
  BY <1>1, <1>2, <1>5, <1>6, <1>7 DEF ItemsMatch
<1> QED
  BY <1>8 DEF more, all

\* The same when an output index is taken and no item made.
LEMMA OutputTaken ==
  ASSUME NEW items, NEW next, NEW seen, ItemsMatch(items, next, seen)
  PROVE  ItemsMatch(items, next + 1, seen)
<1>1. items \in Seq(Items) /\ next \in Nat
  BY DEF ItemsMatch
<1>2. ASSUME NEW i \in 1..Len(items)
      PROVE  items[i].output \in Nat
  <2>1. items[i] \in Items
    BY <1>1
  <2> QED
    BY <2>1 DEF Items
<1>3. \A i \in 1..Len(items) : items[i].output < next + 1
  BY <1>1, <1>2 DEF ItemsMatch
<1> QED
  BY <1>1, <1>3 DEF ItemsMatch

\* A client whose response has been created and has not ended.
Ready(c) == ResponsesClient(c) /\ c.created /\ c.answer.end = "none"

\* The items of a client when some of them are done.
Done(items, done) ==
    [i \in 1..Len(items) |-> [items[i] EXCEPT !.open = @ /\ items[i].output \notin done]]

\* Some of the items, all of them open; and all that are open.
AreOpen(some, items) ==
    \A item \in some : \E i \in 1..Len(items) : item = items[i] /\ ~items[i].closed

AllOpen(some, items) ==
    AreOpen(some, items) /\ \A i \in 1..Len(items) : items[i].closed \/ items[i] \in some

IsOpen(item, items) == \E i \in 1..Len(items) : item = items[i] /\ ~items[i].closed

\* One item, and its output index.
Only(some, item) == some = {item}
OutputOf(done, item) == done = {item.output}

NoneOpen(items) == \A i \in 1..Len(items) : ~items[i].open

\* What such a client takes when the response has been created and has not ended.
LEMMA ResponsesTaken ==
  ASSUME NEW c, c.created, c.answer.end = "none", NEW wellFormed, wellFormed, NEW taken
  PROVE  ResponsesCodec!Takes(c, wellFormed, taken) = taken
BY Zenon DEF ResponsesCodec!Takes

\* A client that goes on, its stream well formed.
GoesOnWell(c, d) == GoesOn(c, d) /\ d.broken = c.broken

\* It sees an item added that has the next output index.
LEMMA SeesItemAddedWell ==
  ASSUME NEW c, Ready(c),
         NEW items, NEW next, ItemsMatch(items, next, c.items),
         NEW item \in Items, item.output = next,
         ItemSeen(item) = [output |-> item.output, kind |-> item.kind, call |-> item.call,
                           open |-> TRUE]
  PROVE  LET d == ResponsesCodec!SeesItemAdded(c, item)
         IN  GoesOnWell(c, d) /\ d.items = Append(c.items, ItemSeen(item))
<1> USE DEF Ready
<1> DEFINE new    == ItemSeen(item)
           more   == Append(c.items, new)
           calls  == IF item.kind = "tool_use" THEN Append(c.answer.calls, item.call)
                     ELSE c.answer.calls
           taken  == [c EXCEPT !.items = Append(@, new),
                               !.answer.calls = IF item.kind = "tool_use"
                                                THEN Append(@, item.call) ELSE @]
           first  == \A i \in 1..Len(c.items) : c.items[i].output < item.output
           d      == ResponsesCodec!SeesItemAdded(c, item)
<1>1. first
  <2>1. /\ Len(c.items) = Len(items)
        /\ \A i \in 1..Len(items) : c.items[i].output = items[i].output
    BY ItemsSeen
  <2>2. \A i \in 1..Len(items) : items[i].output < next
    BY DEF ItemsMatch
  <2> QED
    BY <2>1, <2>2
<1>2. d = ResponsesCodec!Takes(c, first, taken)
  BY Zenon DEF ResponsesCodec!SeesItemAdded
<1>3. taken = ResponsesUpdate(c, more, c.answer.pieces, calls)
  <2> HIDE DEF new
  <2> QED
    BY DEF ResponsesUpdate, ResponsesClient, IsAnswer
<1> HIDE DEF more, calls, taken, first, d
<1>4. d = taken
  BY <1>1, <1>2, ResponsesTaken, Zenon
<1>5. GoesOn(c, d) /\ d.items = more /\ d.broken = c.broken
  BY <1>3, <1>4, ResponsesUpdated
<1> QED
  BY <1>5, Zenon DEF d, more, GoesOnWell

\* It sees a delta of an item that is open.
LEMMA SeesDeltaWell ==
  ASSUME NEW c, Ready(c),
         NEW items, NEW next, ItemsMatch(items, next, c.items),
         NEW item, IsOpen(item, items), NEW frag,
         NEW d, d = ResponsesCodec!SeesDelta(c, item, frag)
  PROVE  GoesOnWell(c, d) /\ d.items = c.items
<1> USE DEF Ready
<1> DEFINE piece  == ResponsesCodec!Piece(item.kind, item.call, frag)
           pieces == Append(c.answer.pieces, piece)
           taken  == [c EXCEPT !.answer.pieces = Append(@, piece)]
           open   == ResponsesCodec!OpenAt(c, item.output) # {}
<1>1. open
  <2>0. PICK at \in 1..Len(items) : item = items[at] /\ ~items[at].closed
    BY DEF IsOpen
  <2>1. /\ Len(c.items) = Len(items)
        /\ c.items[at].output = items[at].output /\ c.items[at].open
    BY <2>0, ItemsSeen
  <2>2. at \in ResponsesCodec!OpenAt(c, item.output)
    BY <2>0, <2>1 DEF ResponsesCodec!OpenAt
  <2> QED
    BY <2>2
<1>2. d = ResponsesCodec!Takes(c, open, taken)
  BY Zenon DEF ResponsesCodec!SeesDelta
<1>3. taken = ResponsesUpdate(c, c.items, pieces, c.answer.calls)
  <2> HIDE DEF piece
  <2> QED
    BY DEF ResponsesUpdate, ResponsesClient, IsAnswer
<1> HIDE DEF pieces, taken, open
<1>4. d = taken
  BY <1>1, <1>2, ResponsesTaken, Zenon
<1>5. GoesOn(c, d) /\ d.items = c.items /\ d.broken = c.broken
  BY <1>3, <1>4, ResponsesUpdated
<1> QED
  BY <1>5, Zenon DEF GoesOnWell

\* It sees items done, each of which is open.
LEMMA SeesItemsDoneWell ==
  ASSUME NEW c, Ready(c),
         NEW items, NEW next, ItemsMatch(items, next, c.items),
         NEW some, AreOpen(some, items),
         NEW done, done = {item.output : item \in some},
         NEW d, d = ResponsesCodec!SeesItemsDone(c, some)
  PROVE  GoesOnWell(c, d) /\ d.items = Done(c.items, done)
<1> USE DEF Ready
<1> DEFINE closed == [i \in 1..Len(c.items) |->
                        [c.items[i] EXCEPT !.open = @ /\ c.items[i].output \notin done]]
           taken  == [c EXCEPT !.items = closed]
           named  == \A item \in some :
                       \E i \in ResponsesCodec!OpenAt(c, item.output) : c.items[i].call = item.call
<1>1. named
  <2> SUFFICES ASSUME NEW item \in some
               PROVE  \E i \in ResponsesCodec!OpenAt(c, item.output) : c.items[i].call = item.call
    OBVIOUS
  <2>1. PICK i \in 1..Len(items) : item = items[i] /\ ~items[i].closed
    BY DEF AreOpen
  <2>2. /\ Len(c.items) = Len(items) /\ c.items[i].call = items[i].call
        /\ c.items[i].output = items[i].output /\ c.items[i].open
    BY <2>1, ItemsSeen
  <2>3. i \in ResponsesCodec!OpenAt(c, item.output)
    BY <2>1, <2>2 DEF ResponsesCodec!OpenAt
  <2> QED
    BY <2>1, <2>2, <2>3
<1>2. d = ResponsesCodec!Takes(c, named, taken)
  BY Zenon DEF ResponsesCodec!SeesItemsDone
<1> HIDE DEF named
<1> HIDE DEF closed
<1>3. taken = ResponsesUpdate(c, closed, c.answer.pieces, c.answer.calls)
  BY DEF ResponsesUpdate, ResponsesClient, IsAnswer
<1> HIDE DEF taken
<1>4. d = taken
  BY <1>1, <1>2, ResponsesTaken, Zenon
<1>5. GoesOn(c, d) /\ d.items = closed /\ d.broken = c.broken
  BY <1>3, <1>4, ResponsesUpdated
<1> QED
  BY <1>5, Zenon DEF closed, Done, GoesOnWell

ClosedAt(items, at) == [items EXCEPT ![at].closed = TRUE]

\* The items when one of them is closed.
LEMMA ItemClosed ==
  ASSUME NEW items \in Seq(Items), NEW at \in 1..Len(items),
         NEW less, less = ClosedAt(items, at)
  PROVE  /\ less \in Seq(Items) /\ Len(less) = Len(items)
         /\ \A i \in 1..Len(items) :
              /\ less[i].source = items[i].source /\ less[i].output = items[i].output
              /\ less[i].kind = items[i].kind /\ less[i].call = items[i].call
              /\ less[i].closed <=> (items[i].closed \/ i = at)
<1>1. PICK t : t = TRUE
  OBVIOUS
<1> DEFINE item == [items[at] EXCEPT !.closed = t]
<1>2. less = [items EXCEPT ![at] = item]
  BY <1>1, Zenon DEF ClosedAt
<1>3. items[at] \in Items /\ t \in BOOLEAN
  BY <1>1
<1>4. /\ item \in Items /\ item.source = items[at].source /\ item.output = items[at].output
      /\ item.kind = items[at].kind /\ item.call = items[at].call /\ item.closed = t
  BY <1>3 DEF Items
<1> HIDE DEF item
<1>5. /\ less \in Seq(Items) /\ Len(less) = Len(items) /\ less[at] = item
      /\ \A i \in 1..Len(items) : i # at => less[i] = items[i]
  BY <1>2, <1>4
<1>6. less[at].closed
  BY <1>1, <1>4, <1>5, Zenon
<1>7. ASSUME NEW i \in 1..Len(items)
      PROVE  /\ less[i].source = items[i].source /\ less[i].output = items[i].output
             /\ less[i].kind = items[i].kind /\ less[i].call = items[i].call
             /\ less[i].closed <=> (items[i].closed \/ i = at)
  <2>1. CASE i = at
    <3>1. /\ less[i].source = items[i].source /\ less[i].output = items[i].output
          /\ less[i].kind = items[i].kind /\ less[i].call = items[i].call
      BY <1>4, <1>5, <2>1
    <3>2. less[i].closed
      BY <1>6, <2>1, Zenon
    <3> QED
      BY <2>1, <3>1, <3>2, Zenon
  <2>2. CASE i # at
    BY <1>5, <2>2, Zenon
  <2> QED
    BY <2>1, <2>2, Zenon
<1> QED
  BY <1>5, <1>7, Zenon

\* They match what the client has when it has seen that one done.
LEMMA ItemsMatchClosed ==
  ASSUME NEW items, NEW next, NEW seen, ItemsMatch(items, next, seen),
         NEW at \in 1..Len(items), NEW less, less = ClosedAt(items, at),
         NEW now, NEW done,
         \/ items[at].closed /\ now = seen
         \/ done = {items[at].output} /\ now = Done(seen, done)
  PROVE  ItemsMatch(less, next, now)
<1>1. /\ items \in Seq(Items) /\ Len(items) \in Nat /\ Len(seen) = Len(items)
      /\ \A i \in 1..Len(items) : items[i] \in Items /\ seen[i] = ItemSeen(items[i])
      /\ seen = [i \in 1..Len(items) |-> ItemSeen(items[i])]
  BY ItemsSeen DEF ItemsMatch
<1>2. /\ less \in Seq(Items) /\ Len(less) = Len(items)
      /\ \A i \in 1..Len(items) :
           /\ less[i].source = items[i].source /\ less[i].output = items[i].output
           /\ less[i].kind = items[i].kind /\ less[i].call = items[i].call
           /\ less[i].closed <=> (items[i].closed \/ i = at)
  BY <1>1, ItemClosed
<1>3. /\ next \in Nat /\ \A i \in 1..Len(items) : items[i].output < next
      /\ \A i, j \in 1..Len(items) :
           i < j => /\ items[i].output < items[j].output
                    /\ ResponsesCodec!Key(items[i]) # ResponsesCodec!Key(items[j])
  BY DEF ItemsMatch
<1>4. ASSUME NEW i \in 1..Len(items)
      PROVE  ResponsesCodec!Key(less[i]) = ResponsesCodec!Key(items[i])
  BY <1>2, Zenon DEF ResponsesCodec!Key
<1>5. ASSUME NEW i \in 1..Len(items)
      PROVE  items[i].output = items[at].output <=> i = at
  <2>1. \A j \in 1..Len(items) : items[j].output \in Nat
    <3> SUFFICES ASSUME NEW j \in 1..Len(items) PROVE items[j].output \in Nat
      OBVIOUS
    <3>1. items[j] \in Items
      BY <1>1
    <3> QED
      BY <3>1 DEF Items
  <2>2. ASSUME NEW j \in 1..Len(items), NEW k \in 1..Len(items), j < k
        PROVE  items[j].output # items[k].output
    <3>1. items[j].output < items[k].output
      BY <1>3, <2>2
    <3> QED
      BY <2>1, <3>1
  <2>3. i = at \/ i < at \/ at < i
    BY <1>1
  <2> QED
    BY <2>2, <2>3
<1>6. now = [i \in 1..Len(less) |-> ItemSeen(less[i])]
  <2>1. CASE items[at].closed /\ now = seen
    <3>1. ASSUME NEW i \in 1..Len(items)
          PROVE  ItemSeen(less[i]) = ItemSeen(items[i])
      <4>1. (~less[i].closed) = (~items[i].closed)
        BY <1>2, <2>1
      <4> QED
        BY <1>2, <4>1, Zenon DEF ItemSeen
    <3> QED
      BY <1>1, <1>2, <2>1, <3>1
  <2>2. CASE done = {items[at].output} /\ now = Done(seen, done)
    <3>1. ASSUME NEW i \in 1..Len(items)
          PROVE  [seen[i] EXCEPT !.open = @ /\ seen[i].output \notin done] = ItemSeen(less[i])
      <4>1. seen[i] = [output |-> items[i].output, kind |-> items[i].kind, call |-> items[i].call,
                       open |-> ~items[i].closed]
        BY <1>1, Zenon DEF ItemSeen
      <4>2. PICK o : o = ~items[i].closed
        OBVIOUS
      <4>3. seen[i] = [output |-> items[i].output, kind |-> items[i].kind, call |-> items[i].call,
                       open |-> o]
        BY <4>1, <4>2, Zenon
      <4>4. seen[i].open = o /\ seen[i].output = items[i].output
        BY <4>3
      <4>5. PICK x : x = (seen[i].open /\ seen[i].output \notin done)
        OBVIOUS
      <4>6. [seen[i] EXCEPT !.open = x] =
              [output |-> items[i].output, kind |-> items[i].kind, call |-> items[i].call, open |-> x]
        BY <4>3
      <4>7. x = ~less[i].closed
        <5>1. seen[i].output \notin done <=> i # at
          BY <1>5, <2>2, <4>4
        <5>2. seen[i].open <=> ~items[i].closed
          BY <4>2, <4>4, Zenon
        <5>3. (seen[i].open /\ seen[i].output \notin done) <=> ~less[i].closed
          BY <1>2, <5>1, <5>2, Zenon
        <5> QED
          BY <4>5, <5>3
      <4>8. ItemSeen(less[i]) =
              [output |-> items[i].output, kind |-> items[i].kind, call |-> items[i].call, open |-> x]
        BY <1>2, <4>7, Zenon DEF ItemSeen
      <4> QED
        BY <4>5, <4>6, <4>8, Zenon
    <3> QED
      BY <1>1, <1>2, <2>2, <3>1, Zenon DEF Done
  <2> QED
    BY <2>1, <2>2
<1>7. \A i \in 1..Len(less) : less[i].output < next
  BY <1>1, <1>2, <1>3
<1>8. ASSUME NEW i \in 1..Len(less), NEW j \in 1..Len(less), i < j
      PROVE  /\ less[i].output < less[j].output
             /\ ResponsesCodec!Key(less[i]) # ResponsesCodec!Key(less[j])
  BY <1>1, <1>2, <1>3, <1>4, <1>8
<1> QED
  BY <1>2, <1>3, <1>6, <1>7, <1>8 DEF ItemsMatch

\* The client sees the response created, if it has not.
LEMMA SeesCreatedWell ==
  ASSUME ResponsesClient(client), client.created = codec.started, codec.started \in BOOLEAN,
         ~client.broken
  PROVE  ~ResponsesCodec!ClientStarted.broken /\ ResponsesCodec!ClientStarted.items = client.items
<1> DEFINE broken  == client.broken \/ client.created
           created == [client EXCEPT !.created = TRUE, !.broken = @ \/ client.created]
           started == ResponsesCodec!ClientStarted
<1>1. started = IF codec.started THEN client ELSE created
  BY Zenon DEF ResponsesCodec!ClientStarted, ResponsesCodec!SeesCreated
<1>2. created = ResponsesClientOf(client.answer, TRUE, client.items, broken)
  <2>1. created = [client EXCEPT !.created = TRUE, !.broken = broken]
    BY DEF ResponsesClient
  <2> HIDE DEF broken, created
  <2> QED
    BY <2>1, ResponsesMade, Zenon
<1>3. ~codec.started => ~broken
  BY Zenon
<1> HIDE DEF created, broken, started
<1>4. created.items = client.items /\ created.broken = broken
  <2>1. IsAnswer(client.answer)
    BY DEF ResponsesClient
  <2>2. PICK t : t = TRUE
    OBVIOUS
  <2>3. created = ResponsesClientOf(client.answer, t, client.items, broken)
    BY <1>2, <2>2, Zenon
  <2> QED
    BY <2>1, <2>3, ResponsesClientFields
<1>5. ~started.broken /\ started.items = client.items
  BY <1>1, <1>3, <1>4, Zenon
<1> QED
  BY <1>5 DEF started

\* What changes of the end leave of a stream that is well formed.
LEMMA ResponsesEndKeeps ==
  ASSUME NEW c, ResponsesClient(c), NEW reason, NEW usage, NEW end
  PROVE  /\ EndsAs(c, end).broken = c.broken
         /\ Completes(c, reason, usage, end).broken = c.broken
<1>1. EndsAs(c, end).broken = c.broken
  BY DEF EndsAs, ResponsesClient
<1>2. PICK a, k, i, b : c = ResponsesClientOf(a, k, i, b)
  BY DEF ResponsesClient, ResponsesClientOf
<1> DEFINE a1 == [c.answer EXCEPT !.reason = reason]
           c1 == [c EXCEPT !.answer = a1]
           a2 == [c1.answer EXCEPT !.usage = usage]
           c2 == [c1 EXCEPT !.answer = a2]
           a3 == [c2.answer EXCEPT !.end = end]
           c3 == [c2 EXCEPT !.answer = a3]
<1>3. Completes(c, reason, usage, end) = c3
  BY Zenon DEF Completes
<1> HIDE DEF a1, a2, a3
<1>4. c1 = ResponsesClientOf(a1, k, i, b)
  BY <1>2 DEF ResponsesClientOf
<1> HIDE DEF c1
<1>5. c2 = ResponsesClientOf(a2, k, i, b)
  BY <1>4 DEF ResponsesClientOf
<1> HIDE DEF c2
<1>6. c3 = ResponsesClientOf(a3, k, i, b)
  BY <1>5 DEF ResponsesClientOf
<1> HIDE DEF c3
<1>7. c3.broken = c.broken
  BY <1>2, <1>6 DEF ResponsesClientOf
<1> QED
  BY <1>1, <1>3, <1>7

\* Everything that is open is done when the response completes.
LEMMA AllDone ==
  ASSUME NEW c, Ready(c), NEW items, NEW next, ItemsMatch(items, next, c.items),
         NEW some, AllOpen(some, items),
         NEW d, d = ResponsesCodec!SeesItemsDone(c, some)
  PROVE  GoesOnWell(c, d) /\ NoneOpen(d.items)
<1>1. PICK outputs : outputs = {item.output : item \in some}
  OBVIOUS
<1>2. \A i \in 1..Len(items) : items[i].closed \/ items[i].output \in outputs
  BY <1>1 DEF AllOpen
<1>3. GoesOnWell(c, d) /\ d.items = Done(c.items, outputs)
  BY <1>1, SeesItemsDoneWell DEF AllOpen
<1>4. /\ Len(c.items) = Len(items) /\ Len(items) \in Nat
      /\ \A i \in 1..Len(items) : /\ c.items[i] = ItemSeen(items[i])
                                  /\ c.items[i].output = items[i].output
                                  /\ c.items[i].open <=> ~items[i].closed
  BY ItemsSeen
<1>5. ASSUME NEW i \in 1..Len(items)
      PROVE  ~d.items[i].open
  <2> DEFINE x == c.items[i].open /\ c.items[i].output \notin outputs
  <2>1. ~x
    BY <1>2, <1>4
  <2>2. d.items[i] = [c.items[i] EXCEPT !.open = x]
    BY <1>3, <1>4 DEF Done
  <2>3. c.items[i] = ItemSeen(items[i])
    BY <1>4
  <2> HIDE DEF x
  <2>4. d.items[i].open = x
    BY <2>2, <2>3 DEF ItemSeen
  <2> QED
    BY <2>1, <2>4, Zenon
<1>6. Len(d.items) = Len(items)
  BY <1>3, <1>4 DEF Done
<1> QED
  BY <1>3, <1>5, <1>6 DEF NoneOpen

\* The client sees the response completed, with all that is open done first.
LEMMA CompletedWell ==
  ASSUME NEW c, Ready(c), ~c.broken,
         NEW k, NEW items, items = k.items, NEW next, ItemsMatch(items, next, c.items)
  PROVE  ~ResponsesCodec!ClientCompleted(c, k).broken
<1> DEFINE all   == {items[i] : i \in 1..Len(items)}
           open  == {item \in all : ~item.closed}
           d     == ResponsesCodec!ClientClosed(c, all)
           told  == ResponsesCodec!Status(k.reason)
           taken == Completes(d, told, k.usage, "clean")
           whole == NoneOpen(d.items)
           done  == ResponsesCodec!ClientCompleted(c, k)
<1>1. d = IF open = {} THEN c ELSE ResponsesCodec!SeesItemsDone(c, open)
  BY Zenon DEF ResponsesCodec!ClientClosed
<1>2. done = ResponsesCodec!Takes(d, whole, taken)
  BY Zenon DEF ResponsesCodec!ClientCompleted, ResponsesCodec!SeesCompleted, Completes, NoneOpen
<1>3. /\ Len(c.items) = Len(items) /\ Len(items) \in Nat
      /\ \A i \in 1..Len(items) : c.items[i].open <=> ~items[i].closed
  BY ItemsSeen
<1>4. GoesOnWell(c, d) /\ whole
  <2>1. CASE open = {}
    <3>1. d = c
      BY <1>1, <2>1
    <3>2. \A i \in 1..Len(items) : items[i].closed
      BY <2>1
    <3> HIDE DEF d, open, all
    <3> QED
      BY <1>3, <3>1, <3>2, ResponsesSame DEF GoesOnWell, NoneOpen, Ready
  <2>2. CASE open # {}
    <3>1. d = ResponsesCodec!SeesItemsDone(c, open)
      BY <1>1, <2>2, Zenon
    <3>2. AllOpen(open, items)
      BY DEF AllOpen, AreOpen
    <3> HIDE DEF d, open, all
    <3> QED
      BY <3>1, <3>2, AllDone
  <2> QED
    BY <2>1, <2>2
<1> HIDE DEF d, whole, taken, done
<1>5. d.created /\ d.answer.end = "none" /\ ResponsesClient(d) /\ ~d.broken
  BY <1>4 DEF GoesOnWell, GoesOn, SameEnd, Ready
<1>6. done = taken
  BY <1>2, <1>4, <1>5, ResponsesTaken, Zenon
<1>7. taken.broken = d.broken
  BY <1>5, ResponsesEndKeeps DEF taken
<1> QED
  BY <1>5, <1>6, <1>7 DEF done

\* Where an item is.
LEMMA PositionOf ==
  ASSUME NEW items, Len(items) \in Nat, NEW index, NEW kind,
         NEW at, at = ResponsesCodec!Position(items, index, kind)
  PROVE  /\ at = 0 => \A i \in 1..Len(items) : ResponsesCodec!Key(items[i]) # <<index, kind>>
         /\ at # 0 => at \in 1..Len(items) /\ ResponsesCodec!Key(items[at]) = <<index, kind>>
<1> DEFINE found == {i \in 1..Len(items) : ResponsesCodec!Key(items[i]) = <<index, kind>>}
<1>1. at = IF found = {} THEN 0 ELSE CHOOSE i \in found : TRUE
  BY Zenon DEF ResponsesCodec!Position
<1>2. CASE found = {}
  BY <1>1, <1>2
<1>3. CASE found # {}
  <2>1. at \in found
    <3> HIDE DEF found
    <3> QED
      BY <1>1, <1>3
  <2> QED
    BY <2>1
<1> QED
  BY <1>2, <1>3

\* What the key of an item says.
LEMMA KeyIs ==
  ASSUME NEW item, NEW index, NEW kind
  PROVE  ResponsesCodec!Key(item) = <<index, kind>> <=> item.source = index /\ item.kind = kind
BY DEF ResponsesCodec!Key

LEMMA KeyOf ==
  ASSUME NEW item, NEW index, NEW kind, ResponsesCodec!Key(item) = <<index, kind>>
  PROVE  item.source = index /\ item.kind = kind
BY KeyIs, Zenon

\* The codec that notes an event, or creates the response, has the same items.
LEMMA NotedItems ==
  ASSUME IsResponsesCodec(codec), NEW ev
  PROVE  /\ ResponsesCodec!Noted(ev).items = codec.items
         /\ ResponsesCodec!Noted(ev).nextOutput = codec.nextOutput
<1> DEFINE usage  == Merge(codec.usage, ev.usage)
           reason == IF ev.reason # "none" THEN ev.reason ELSE codec.reason
           noted  == ResponsesCodec!Noted(ev)
<1>1. PICK t : t = TRUE
  OBVIOUS
<1>2. noted = [codec EXCEPT !.started = t, !.usage = usage, !.reason = reason]
  BY <1>1, Zenon DEF ResponsesCodec!Noted, ResponsesCodec!Merge, Merge
<1> HIDE DEF usage, reason, noted
<1>3. noted.items = codec.items /\ noted.nextOutput = codec.nextOutput
  BY <1>2 DEF IsResponsesCodec
<1> QED
  BY <1>3 DEF noted

LEMMA StartedIf ==
  ASSUME IsResponsesCodec(codec), NEW started, NEW usage, NEW k,
         k = [codec EXCEPT !.started = started, !.usage = usage]
  PROVE  k.items = codec.items /\ k.nextOutput = codec.nextOutput
BY DEF IsResponsesCodec

LEMMA StartedItems ==
  ASSUME IsResponsesCodec(codec), NEW usage, NEW k,
         k = [codec EXCEPT !.started = TRUE, !.usage = usage]
  PROVE  k.items = codec.items /\ k.nextOutput = codec.nextOutput
BY StartedIf, Zenon

-----------------------------------------------------------------------------
(* The items of the codec, when it writes what an event tells.             *)

\* The item for an index and a kind is there, or is added, or the kind has none.
ItemsAfter(items, index, part, more) ==
    \/ part.kind \notin ResponsesCodec!ItemKinds /\ more = items
    \/ ResponsesCodec!Position(items, index, part.kind) # 0 /\ more = items
    \/ /\ part.kind \in ResponsesCodec!ItemKinds
       /\ ResponsesCodec!Position(items, index, part.kind) = 0
       /\ more = Append(items, ResponsesCodec!NewItem(index, part))

\* ensureItem: codec and client have the same items after it.
LEMMA ResponsesEnsures ==
  ASSUME NEW c, Ready(c), ItemsMatch(codec.items, codec.nextOutput, c.items),
         NEW k, IsResponsesCodec(k), k.items = codec.items, k.nextOutput = codec.nextOutput,
         NEW index \in Indices, NEW part, part.id \in CallIds,
         NEW l, l = ResponsesCodec!Ensured(k, index, part),
         NEW d, d = ResponsesCodec!ClientEnsured(c, index, part)
  PROVE  /\ IsResponsesCodec(l) /\ ItemsAfter(codec.items, index, part, l.items)
         /\ ItemsMatch(l.items, l.nextOutput, d.items) /\ GoesOnWell(c, d)
<1> DEFINE item  == ResponsesCodec!NewItem(index, part)
           items == codec.items
           at    == ResponsesCodec!Position(items, index, part.kind)
           next  == k.nextOutput + 1
           more  == IF part.kind \in ResponsesCodec!ItemKinds THEN Append(k.items, item) ELSE k.items
           added == [k EXCEPT !.nextOutput = next, !.items = more]
<1>1. /\ l = IF at # 0 THEN k ELSE added
      /\ d = IF at # 0 \/ part.kind \notin ResponsesCodec!ItemKinds THEN c
             ELSE ResponsesCodec!SeesItemAdded(c, item)
  BY Zenon DEF ResponsesCodec!Ensured, ResponsesCodec!ClientEnsured, ResponsesCodec!ItemAt
<1>2. GoesOnWell(c, c)
  BY ResponsesSame DEF GoesOnWell, Ready
<1>3. CASE at # 0
  <2>1. l = k /\ d = c
    BY <1>1, <1>3, Zenon
  <2> HIDE DEF item, more, added
  <2> QED
    BY <1>2, <1>3, <2>1 DEF ItemsAfter
<1>4. ASSUME at = 0
      PROVE  IsResponsesCodec(l) /\ l.items = more /\ l.nextOutput = next
  <2>1. l = added
    BY <1>1, <1>4, Zenon
  <2> HIDE DEF more, next, at
  <2>2. l = ResponsesCodecOf(k.pc, k.started, k.usage, k.reason, next, more)
    BY <2>1 DEF IsResponsesCodec, ResponsesCodecOf
  <2> HIDE DEF added
  <2> QED
    BY <2>2, ResponsesCodecFields
<1>5. CASE at = 0 /\ part.kind \notin ResponsesCodec!ItemKinds
  <2>1. d = c
    BY <1>1, <1>5, Zenon
  <2>2. more = items
    BY <1>5
  <2> HIDE DEF more, at, item, added
  <2>3. ItemsMatch(l.items, l.nextOutput, d.items)
    BY <1>4, <1>5, <2>1, <2>2, OutputTaken
  <2> QED
    BY <1>2, <1>4, <1>5, <2>1, <2>2, <2>3 DEF ItemsAfter
<1>6. CASE at = 0 /\ part.kind \in ResponsesCodec!ItemKinds
  <2>1. d = ResponsesCodec!SeesItemAdded(c, item)
    BY <1>1, <1>6, Zenon
  <2>2. more = Append(items, item)
    BY <1>6
  <2>3. codec.nextOutput \in Nat /\ Len(items) \in Nat
    BY DEF ItemsMatch
  <2>4. /\ item \in Items /\ item.source = index /\ item.kind = part.kind
        /\ item.output = codec.nextOutput
        /\ ItemSeen(item) = [output |-> item.output, kind |-> item.kind,
                             call |-> item.call, open |-> TRUE]
    BY <1>6, <2>3, ResponsesNewItem, Zenon
  <2> HIDE DEF item, more, added
  <2>5. GoesOnWell(c, d) /\ d.items = Append(c.items, ItemSeen(item))
    BY <2>1, <2>4, SeesItemAddedWell, Zenon
  <2>6. \A i \in 1..Len(items) : ResponsesCodec!Key(items[i]) # ResponsesCodec!Key(item)
    <3>1. ResponsesCodec!Key(item) = <<index, part.kind>>
      BY <2>4, KeyIs
    <3> QED
      BY <1>6, <2>3, <3>1, PositionOf
  <2> HIDE DEF at
  <2>7. item \in Items /\ item.output = codec.nextOutput
    BY <2>4
  <2>8. ItemsMatch(Append(items, item), next, Append(c.items, ItemSeen(item)))
    <3> HIDE <2>4
    <3> QED
      BY <2>6, <2>7, ItemAdded, Zenon
  <2>9. ItemsMatch(l.items, l.nextOutput, d.items)
    <3> HIDE <2>4
    <3> QED
      BY <1>4, <1>6, <2>2, <2>5, <2>8, Zenon
  <2>10. ItemsAfter(items, index, part, l.items)
    BY <1>4, <1>6, <2>2, Zenon DEF ItemsAfter, at, item
  <2> QED
    BY <1>4, <1>6, <2>5, <2>9, <2>10, Zenon
<1> QED
  BY <1>3, <1>5, <1>6

\* The items then, one by one.
LEMMA ItemsAfterEach ==
  ASSUME NEW items \in Seq(Items), codec.nextOutput \in Nat,
         NEW index \in Indices, NEW part, part.id \in CallIds,
         NEW more, ItemsAfter(items, index, part, more)
  PROVE  /\ more \in Seq(Items) /\ Len(more) \in Nat /\ Len(items) \in Nat
         /\ Len(items) <= Len(more)
         /\ \A i \in 1..Len(items) : more[i] = items[i]
         /\ \A i \in 1..Len(more) :
              \/ i \in 1..Len(items) /\ more[i] = items[i]
              \/ /\ part.kind \in ResponsesCodec!ItemKinds
                 /\ ResponsesCodec!Position(items, index, part.kind) = 0
                 /\ more[i].source = index /\ more[i].kind = part.kind
                 /\ more[i].call = part.id /\ ~more[i].closed
<1>1. CASE more = items
  BY <1>1
<1>2. CASE /\ part.kind \in ResponsesCodec!ItemKinds
           /\ ResponsesCodec!Position(items, index, part.kind) = 0
           /\ more = Append(items, ResponsesCodec!NewItem(index, part))
  <2> DEFINE item == ResponsesCodec!NewItem(index, part)
  <2>1. /\ item \in Items /\ item.source = index /\ item.kind = part.kind
        /\ item.call = part.id /\ ~item.closed
    BY <1>2, ResponsesNewItem, Zenon
  <2>2. more = Append(items, item)
    BY <1>2
  <2> HIDE DEF item
  <2>3. /\ more \in Seq(Items) /\ Len(more) = Len(items) + 1 /\ Len(items) \in Nat
        /\ more[Len(items) + 1] = item
        /\ \A i \in 1..Len(items) : more[i] = items[i]
    BY <2>1, <2>2
  <2>4. \A i \in 1..Len(more) : i \in 1..Len(items) \/ i = Len(items) + 1
    BY <2>3
  <2> QED
    BY <1>2, <2>1, <2>3, <2>4
<1> QED
  BY <1>1, <1>2 DEF ItemsAfter

\* writeDelta names the call of an item: only a new one has a call, and that very name.
LEMMA ResponsesNames ==
  ASSUME codec.items \in Seq(Items), codec.nextOutput \in Nat,
         NEW index \in Indices, NEW part, part.id \in CallIds,
         part.id # NoId /\ part.kind \in ResponsesCodec!ItemKinds =>
           ResponsesCodec!Position(codec.items, index, part.kind) = 0,
         NEW l, IsResponsesCodec(l), ItemsAfter(codec.items, index, part, l.items),
         NEW m, m = ResponsesCodec!Named(l, index, part)
  PROVE  m.items = l.items /\ m.nextOutput = l.nextOutput
<1> DEFINE items == codec.items
           more  == l.items
           Name(i) == IF ResponsesCodec!Key(more[i]) = <<index, part.kind>> /\ part.id # NoId
                      THEN [more[i] EXCEPT !.call = part.id] ELSE more[i]
           named == [i \in 1..Len(more) |-> Name(i)]
<1>1. /\ more \in Seq(Items) /\ Len(more) \in Nat /\ Len(items) \in Nat
      /\ \A i \in 1..Len(more) :
           \/ i \in 1..Len(items) /\ more[i] = items[i]
           \/ /\ part.kind \in ResponsesCodec!ItemKinds
              /\ ResponsesCodec!Position(items, index, part.kind) = 0
              /\ more[i].source = index /\ more[i].kind = part.kind
              /\ more[i].call = part.id /\ ~more[i].closed
  BY ItemsAfterEach
<1>2. m = [l EXCEPT !.items = named]
  BY Zenon DEF ResponsesCodec!Named, NoId, ResponsesCodec!NoId
<1>3. ASSUME NEW i \in 1..Len(more)
      PROVE  Name(i) = more[i]
  <2>1. CASE ResponsesCodec!Key(more[i]) = <<index, part.kind>> /\ part.id # NoId
    <3>0. more[i] \in Items
      BY <1>1
    <3>1. more[i] \in Items /\ more[i].kind = part.kind
      BY <2>1, <3>0, KeyOf
    <3>2. part.kind \in ResponsesCodec!ItemKinds
      BY <3>1 DEF Items
    <3>3. ResponsesCodec!Position(items, index, part.kind) = 0
      BY <2>1, <3>2
    <3>4. ~(i \in 1..Len(items) /\ more[i] = items[i])
      BY <1>1, <2>1, <3>3, PositionOf
    <3>5. more[i].call = part.id
      BY <1>1, <3>4
    <3>6. [more[i] EXCEPT !.call = part.id] = more[i]
      BY <3>1, <3>5 DEF Items
    <3> QED
      BY <2>1, <3>6
  <2>2. CASE ~(ResponsesCodec!Key(more[i]) = <<index, part.kind>> /\ part.id # NoId)
    BY <2>2
  <2> QED
    BY <2>1, <2>2
<1> HIDE DEF Name
<1>4. named = more
  <2>1. named = [i \in 1..Len(more) |-> more[i]]
    BY <1>3
  <2> HIDE DEF named
  <2> QED
    BY <1>1, <2>1
<1> HIDE DEF named
<1>5. m.items = named /\ m.nextOutput = l.nextOutput
  BY <1>2 DEF IsResponsesCodec
<1> QED
  BY <1>4, <1>5

\* What the client has after a delta, and after the end of an item.
AfterDelta(d, c, l, index, part) == d = ResponsesCodec!ClientDelta(c, l, index, part)

AfterClose(d, c, item) == d = ResponsesCodec!ClientClosed(c, {item})

\* The client sees a delta of an item that is there and open.
LEMMA ResponsesDeltaWell ==
  ASSUME NEW c, Ready(c), NEW l, ItemsMatch(l.items, l.nextOutput, c.items),
         codec.items \in Seq(Items), codec.nextOutput \in Nat,
         NEW index \in Indices, NEW part, part.id \in CallIds,
         inbound = "responses", part.kind \in ResponsesCodec!ItemKinds => NotClosedAt(index),
         ItemsAfter(codec.items, index, part, l.items),
         NEW d, AfterDelta(d, c, l, index, part)
  PROVE  GoesOnWell(c, d) /\ d.items = c.items
<1> DEFINE at == ResponsesCodec!Position(l.items, index, part.kind)
<1>1. d = IF at = 0 \/ part.frag = 0 THEN c
          ELSE ResponsesCodec!SeesDelta(c, l.items[at], part.frag)
  BY Zenon DEF AfterDelta, ResponsesCodec!ClientDelta
<1>2. CASE at = 0 \/ part.frag = 0
  <2>1. d = c
    BY <1>1, <1>2, Zenon
  <2> QED
    BY <2>1, ResponsesSame DEF GoesOnWell, Ready
<1>3. CASE ~(at = 0 \/ part.frag = 0)
  <2>1. d = ResponsesCodec!SeesDelta(c, l.items[at], part.frag)
    BY <1>1, <1>3, Zenon
  <2>2. /\ l.items \in Seq(Items) /\ Len(l.items) \in Nat
        /\ \A i \in 1..Len(l.items) :
             \/ i \in 1..Len(codec.items) /\ l.items[i] = codec.items[i]
             \/ ~l.items[i].closed
    BY ItemsAfterEach
  <2>3. at \in 1..Len(l.items) /\ ResponsesCodec!Key(l.items[at]) = <<index, part.kind>>
    BY <1>3, <2>2, PositionOf
  <2> HIDE DEF at
  <2>4. l.items[at] \in Items /\ l.items[at].source = index /\ l.items[at].kind = part.kind
    <3>1. l.items[at] \in Items
      BY <2>2, <2>3
    <3>2. l.items[at].source = index /\ l.items[at].kind = part.kind
      BY <2>3, KeyOf
    <3> QED
      BY <3>1, <3>2
  <2>5. part.kind \in ResponsesCodec!ItemKinds
    BY <2>4 DEF Items
  <2>6. PICK item : item = l.items[at]
    OBVIOUS
  <2>7. IsOpen(item, l.items)
    BY <2>2, <2>3, <2>4, <2>5, <2>6 DEF IsOpen, NotClosedAt
  <2>8. PICK frag : frag = part.frag
    OBVIOUS
  <2>9. d = ResponsesCodec!SeesDelta(c, item, frag)
    BY <2>1, <2>6, <2>8
  <2> QED
    BY <2>7, <2>9, SeesDeltaWell
<1> QED
  BY <1>2, <1>3

IsAmong(item, items) == \E i \in 1..Len(items) : item = items[i]

\* The client sees one item done.
LEMMA OneDone ==
  ASSUME NEW c, Ready(c), NEW items, NEW next, ItemsMatch(items, next, c.items),
         NEW item, IsOpen(item, items),
         NEW some, Only(some, item), NEW done, OutputOf(done, item),
         NEW d, d = ResponsesCodec!SeesItemsDone(c, some)
  PROVE  GoesOnWell(c, d) /\ d.items = Done(c.items, done)
<1>1. AreOpen(some, items)
  BY DEF AreOpen, IsOpen, Only
<1>2. done = {one.output : one \in some}
  BY DEF Only, OutputOf
<1> QED
  BY <1>1, <1>2, SeesItemsDoneWell

\* The client sees an item done, if it was not yet.
LEMMA ClientCloses ==
  ASSUME NEW c, Ready(c), NEW items, NEW next, ItemsMatch(items, next, c.items),
         NEW item, IsAmong(item, items), NEW done, OutputOf(done, item),
         NEW d, AfterClose(d, c, item)
  PROVE  /\ GoesOnWell(c, d)
         /\ IsOpen(item, items) => d.items = Done(c.items, done)
         /\ ~IsOpen(item, items) => d.items = c.items
<1>1. PICK some : Only(some, item)
  BY DEF Only
<1>2. IsOpen(item, items) <=> ~item.closed
  BY Zenon DEF IsAmong, IsOpen
<1>3. CASE ~IsOpen(item, items)
  <2>1. d = c
    BY <1>2, <1>3 DEF AfterClose, ResponsesCodec!ClientClosed
  <2>2. GoesOnWell(c, c)
    BY ResponsesSame DEF GoesOnWell, Ready
  <2> QED
    BY <1>3, <2>1, <2>2
<1>4. CASE IsOpen(item, items)
  <2>1. {one \in some : ~one.closed} = some
    BY <1>1, <1>2, <1>4 DEF Only
  <2>2. d = IF some = {} THEN c ELSE ResponsesCodec!SeesItemsDone(c, some)
    BY <1>1, <2>1, Zenon DEF AfterClose, Only, ResponsesCodec!ClientClosed
  <2>3. d = ResponsesCodec!SeesItemsDone(c, some)
    BY <1>1, <2>2 DEF Only
  <2>4. GoesOnWell(c, d) /\ d.items = Done(c.items, done)
    BY <1>1, <1>4, <2>3, OneDone
  <2> QED
    BY <1>4, <2>4
<1> QED
  BY <1>3, <1>4

\* closeItem: codec and client have closed the same item.
SameItems(k) ==
    IsResponsesCodec(k) /\ k.items = codec.items /\ k.nextOutput = codec.nextOutput

ItemAt(item, at) == item = codec.items[at]

LEMMA ResponsesCloses ==
  ASSUME NEW c, Ready(c), ItemsMatch(codec.items, codec.nextOutput, c.items),
         NEW k, SameItems(k), NEW at \in 1..Len(codec.items),
         NEW item, ItemAt(item, at),
         NEW l, l = ResponsesCodec!Closed(k, at), NEW d, AfterClose(d, c, item)
  PROVE  /\ l.items = ClosedAt(codec.items, at) /\ GoesOnWell(c, d)
         /\ ItemsMatch(l.items, l.nextOutput, d.items)
<1> DEFINE less == ClosedAt(codec.items, at)
<1>1. l.items = less /\ l.nextOutput = codec.nextOutput
  <2>1. l = [k EXCEPT !.items = less]
    BY Zenon DEF SameItems, ResponsesCodec!Closed, ClosedAt
  <2> HIDE DEF less
  <2> QED
    BY <2>1 DEF SameItems, IsResponsesCodec
<1>2. PICK done : OutputOf(done, item)
  BY DEF OutputOf
<1>3. IsAmong(item, codec.items)
  BY Zenon DEF IsAmong, ItemAt
<1>4. /\ GoesOnWell(c, d)
      /\ IsOpen(item, codec.items) => d.items = Done(c.items, done)
      /\ ~IsOpen(item, codec.items) => d.items = c.items
  BY <1>2, <1>3, ClientCloses
<1> HIDE DEF less
<1>5. ~IsOpen(item, codec.items) => codec.items[at].closed
  BY Zenon DEF IsOpen, ItemAt
<1>6. done = {codec.items[at].output}
  BY <1>2, Zenon DEF OutputOf, ItemAt
<1>7. ItemsMatch(less, codec.nextOutput, d.items)
  BY <1>4, <1>5, <1>6, ItemsMatchClosed DEF less
<1> QED
  BY <1>1, <1>4, <1>7 DEF less

\* What an event does to the items of the codec.
ItemsChange(ev) ==
    \/ codec'.items = codec.items
    \/ ItemsAfter(codec.items, ev.index, ev.part, codec'.items)
    \/ /\ ev.type = "content_block_stop"
       /\ \E at \in 1..Len(codec.items) :
            codec.items[at].source = ev.index /\ codec'.items = ClosedAt(codec.items, at)

\* Then the codec has heeded the event.
LEMMA ResponsesHeeds ==
  ASSUME inbound = "responses", UNCHANGED inbound, NEW ev, ev.index \in Indices,
         ev.part.id \in CallIds, codec.items \in Seq(Items), codec.nextOutput \in Nat,
         ItemsChange(ev)
  PROVE  Heeds(ev)
<1> DEFINE items == codec.items
           more  == codec'.items
<1>1. \A i \in Indices : KnowsCall(i)'
  BY SMTT(20) DEF KnowsCall
<1>2. NothingBuffered'
  BY DEF NothingBuffered
<1>3. \A i \in Indices :
        /\ NoCallAt(i) <=> \A j \in 1..Len(items) : items[j].source = i => items[j].kind # "tool_use"
        /\ NoCallAt(i)' <=> \A j \in 1..Len(more) : more[j].source = i => more[j].kind # "tool_use"
  BY SMTT(20) DEF NoCallAt
<1>4. \A i \in Indices :
        /\ NotClosedAt(i) <=> \A j \in 1..Len(items) : items[j].closed => items[j].source # i
        /\ NotClosedAt(i)' <=> \A j \in 1..Len(more) : more[j].closed => more[j].source # i
  BY Zenon DEF NotClosedAt
<1>5. CASE more = items
  BY <1>1, <1>2, <1>3, <1>4, <1>5 DEF Heeds
<1>6. CASE ItemsAfter(items, ev.index, ev.part, more)
  <2>1. /\ Len(more) \in Nat /\ Len(items) \in Nat
        /\ \A i \in 1..Len(more) :
             \/ i \in 1..Len(items) /\ more[i] = items[i]
             \/ more[i].source = ev.index /\ more[i].kind = ev.part.kind /\ ~more[i].closed
    BY <1>6, ItemsAfterEach
  <2> HIDE DEF more, items
  <2>2. ASSUME NEW i \in Indices, NotClosedAt(i) PROVE NotClosedAt(i)'
    BY <1>4, <2>1, <2>2
  <2>3. ASSUME NEW i \in Indices, NoCallAt(i), ev.part.kind = "tool_use" => ev.index # i
        PROVE  NoCallAt(i)'
    BY <1>3, <2>1, <2>3
  <2> QED
    BY <1>1, <1>2, <2>2, <2>3 DEF Heeds
<1>7. CASE /\ ev.type = "content_block_stop"
           /\ \E at \in 1..Len(items) : items[at].source = ev.index /\ more = ClosedAt(items, at)
  <2>1. PICK at \in 1..Len(items) : items[at].source = ev.index /\ more = ClosedAt(items, at)
    BY <1>7
  <2>2. /\ Len(more) = Len(items)
        /\ \A i \in 1..Len(items) :
             /\ more[i].source = items[i].source /\ more[i].kind = items[i].kind
             /\ more[i].closed <=> (items[i].closed \/ i = at)
    BY <2>1, ItemClosed
  <2> HIDE DEF more, items
  <2>3. ASSUME NEW i \in Indices, NotClosedAt(i), ev.index # i PROVE NotClosedAt(i)'
    BY <1>4, <2>1, <2>2, <2>3
  <2>4. ASSUME NEW i \in Indices, NoCallAt(i) PROVE NoCallAt(i)'
    BY <1>3, <2>2, <2>4
  <2> QED
    BY <1>1, <1>2, <1>7, <2>3, <2>4 DEF Heeds
<1> QED
  BY <1>5, <1>6, <1>7 DEF ItemsChange

\* The client that the codec writes to, once the response has been created.
LEMMA ResponsesReady ==
  ASSUME ResponsesAgrees, codec.pc = "ranging", ~client.broken,
         NEW c, c = ResponsesCodec!ClientStarted
  PROVE  Ready(c) /\ c.items = client.items /\ ~c.broken
<1>1. /\ ResponsesClient(client) /\ client.created = codec.started /\ codec.started \in BOOLEAN
      /\ client.answer.end = "none"
  BY DEF ResponsesAgrees
<1>2. ResponsesClient(c) /\ SameEnd(client, c) /\ ~c.broken /\ c.items = client.items
  BY <1>1, ResponsesSeesCreated, SeesCreatedWell
<1>3. c.created
  BY <1>1, ResponsesSeesCreated, Zenon
<1>4. c.answer.end = "none"
  BY <1>1, <1>2 DEF SameEnd
<1> QED
  BY <1>2, <1>3, <1>4, Zenon DEF Ready

\* What the events of content leave of codec and client.
GoesWell(ev, c) ==
    /\ ItemsMatch(codec'.items, codec'.nextOutput, client'.items)
    /\ GoesOnWell(c, client') /\ ItemsChange(ev)

\* A block starts: its item is there.
LEMMA BlockStartWell ==
  ASSUME IsResponsesCodec(codec), NEW ev, ev.index \in Indices, ev.part.id \in CallIds,
         NEW c, Ready(c), c = ResponsesCodec!ClientStarted,
         ItemsMatch(codec.items, codec.nextOutput, c.items), ResponsesCodec!OnBlockStart(ev)
  PROVE  GoesWell(ev, c)
<1>1. PICK k : k = ResponsesCodec!Noted(ev)
  OBVIOUS
<1>2. IsResponsesCodec(k) /\ k.items = codec.items /\ k.nextOutput = codec.nextOutput
  BY <1>1, ResponsesNoted, NotedItems
<1>3. \/ codec' = k /\ client' = c
      \/ /\ codec' = ResponsesCodec!Ensured(k, ev.index, ev.part)
         /\ client' = ResponsesCodec!ClientEnsured(c, ev.index, ev.part)
  BY <1>1, Zenon DEF ResponsesCodec!OnBlockStart
<1>4. GoesOnWell(c, c)
  BY ResponsesSame DEF GoesOnWell, Ready
<1>5. CASE codec' = k /\ client' = c
  BY <1>2, <1>4, <1>5 DEF GoesWell, ItemsChange
<1>6. CASE /\ codec' = ResponsesCodec!Ensured(k, ev.index, ev.part)
           /\ client' = ResponsesCodec!ClientEnsured(c, ev.index, ev.part)
  <2>1. /\ ItemsAfter(codec.items, ev.index, ev.part, codec'.items)
        /\ ItemsMatch(codec'.items, codec'.nextOutput, client'.items) /\ GoesOnWell(c, client')
    BY <1>2, <1>6, ResponsesEnsures
  <2> QED
    BY <2>1, Zenon DEF GoesWell, ItemsChange
<1> QED
  BY <1>3, <1>5, <1>6

\* Content comes: its item is there, has its name, and has not been closed.
LEMMA DeltaWell ==
  ASSUME inbound = "responses", BlocksHeard, codec.pc = "ranging", ~Over, IsResponsesCodec(codec),
         NEW ev \in AnthropicCodec!AnyEvent, BlockPassed(ev),
         NEW c, Ready(c), c = ResponsesCodec!ClientStarted,
         ItemsMatch(codec.items, codec.nextOutput, c.items), ResponsesCodec!OnDelta(ev)
  PROVE  GoesWell(ev, c)
<1> DEFINE index == ev.index
           part  == ev.part
<1>1. PICK k : k = ResponsesCodec!Noted(ev)
  OBVIOUS
<1>2. IsResponsesCodec(k) /\ k.items = codec.items /\ k.nextOutput = codec.nextOutput
  BY <1>1, ResponsesNoted, NotedItems
<1>3. PICK l, d : /\ l = ResponsesCodec!Ensured(k, index, part)
                  /\ d = ResponsesCodec!ClientEnsured(c, index, part)
  OBVIOUS
<1>4. PICK m, e : m = ResponsesCodec!Named(l, index, part) /\ e = ResponsesCodec!ClientDelta(d, l, index, part)
  OBVIOUS
<1>5. (codec' = k /\ client' = c) \/ (codec' = m /\ client' = e)
  BY <1>1, <1>3, <1>4, Zenon DEF ResponsesCodec!OnDelta
<1>6. index \in Indices /\ part.id \in CallIds /\ codec.items \in Seq(Items)
      /\ codec.nextOutput \in Nat /\ Len(codec.items) \in Nat
  BY EventFields DEF ItemsMatch
<1>7. part.kind \in ResponsesCodec!ItemKinds => NotClosedAt(index)
  BY <1>6 DEF BlockPassed, BlocksHeard
<1>8. part.id # NoId /\ part.kind \in ResponsesCodec!ItemKinds =>
        ResponsesCodec!Position(codec.items, index, part.kind) = 0
  <2> SUFFICES ASSUME part.id # NoId, part.kind \in ResponsesCodec!ItemKinds
               PROVE  ResponsesCodec!Position(codec.items, index, part.kind) = 0
    OBVIOUS
  <2>1. part.kind = "tool_use"
    BY DEF BlockPassed, ResponsesCodec!ItemKinds
  <2>2. NoCallAt(index)
    BY <1>6, <2>1 DEF BlockPassed, BlocksHeard
  <2>3. \A j \in 1..Len(codec.items) : codec.items[j].source = index => codec.items[j].kind # "tool_use"
    BY <2>2, SMTT(20) DEF NoCallAt
  <2>4. \A j \in 1..Len(codec.items) : ResponsesCodec!Key(codec.items[j]) # <<index, part.kind>>
    BY <2>1, <2>3, KeyOf
  <2> QED
    BY <1>6, <2>4, PositionOf
<1> HIDE DEF index, part
<1>9. /\ IsResponsesCodec(l) /\ ItemsAfter(codec.items, index, part, l.items)
      /\ ItemsMatch(l.items, l.nextOutput, d.items) /\ GoesOnWell(c, d)
  BY <1>2, <1>3, <1>6, ResponsesEnsures
<1>10. Ready(d)
  BY <1>9, Zenon DEF Ready, GoesOnWell, GoesOn, SameEnd
<1>11. m.items = l.items /\ m.nextOutput = l.nextOutput
  BY <1>4, <1>6, <1>8, <1>9, ResponsesNames
<1>12. GoesOnWell(d, e) /\ e.items = d.items
  <2>1. AfterDelta(e, d, l, index, part)
    BY <1>4, Zenon DEF AfterDelta
  <2> QED
    BY <1>6, <1>7, <1>9, <1>10, <2>1, ResponsesDeltaWell
<1>13. GoesOnWell(c, e)
  BY <1>9, <1>12, GoesOnTwice DEF GoesOnWell
<1>14. GoesOnWell(c, c)
  BY ResponsesSame DEF GoesOnWell, Ready
<1>15. CASE codec' = k /\ client' = c
  BY <1>2, <1>14, <1>15 DEF GoesWell, ItemsChange
<1>16. CASE codec' = m /\ client' = e
  <2>1. codec'.items = l.items /\ codec'.nextOutput = l.nextOutput /\ client'.items = d.items
    BY <1>11, <1>12, <1>16
  <2> QED
    BY <1>9, <1>13, <1>16, <2>1, Zenon DEF GoesWell, ItemsChange, index, part
<1> QED
  BY <1>5, <1>15, <1>16

\* A block stops: an item of it is done, or none.
LEMMA BlockStopWell ==
  ASSUME IsResponsesCodec(codec), NEW ev,
         NEW c, Ready(c), c = ResponsesCodec!ClientStarted,
         ItemsMatch(codec.items, codec.nextOutput, c.items), ResponsesCodec!OnBlockStop(ev)
  PROVE  GoesWell(ev, c)
<1> DEFINE candidates == {i \in 1..Len(codec.items) : codec.items[i].source = ev.index}
<1>1. PICK k : k = ResponsesCodec!Noted(ev)
  OBVIOUS
<1>2. IsResponsesCodec(k) /\ k.items = codec.items /\ k.nextOutput = codec.nextOutput
  BY <1>1, ResponsesNoted, NotedItems
<1>3. /\ ev.type = "content_block_stop"
      /\ IF candidates = {} THEN codec' = k /\ client' = c
         ELSE \E i \in candidates :
                /\ codec' = ResponsesCodec!Closed(k, i)
                /\ client' = ResponsesCodec!ClientClosed(c, {codec.items[i]})
  BY <1>1, Zenon DEF ResponsesCodec!OnBlockStop
<1>4. GoesOnWell(c, c)
  BY ResponsesSame DEF GoesOnWell, Ready
<1>5. CASE candidates = {}
  BY <1>2, <1>3, <1>4, <1>5 DEF GoesWell, ItemsChange
<1>6. CASE candidates # {}
  <2>1. \E i \in candidates : /\ codec' = ResponsesCodec!Closed(k, i)
                              /\ client' = ResponsesCodec!ClientClosed(c, {codec.items[i]})
    BY <1>3, <1>6, Zenon
  <2>2. PICK at \in candidates : /\ codec' = ResponsesCodec!Closed(k, at)
                                 /\ client' = ResponsesCodec!ClientClosed(c, {codec.items[at]})
    BY <2>1, Zenon
  <2>3. at \in 1..Len(codec.items) /\ codec.items[at].source = ev.index
    OBVIOUS
  <2> HIDE DEF candidates
  <2>4. PICK item : ItemAt(item, at)
    BY DEF ItemAt
  <2>5. PICK l, d : l = codec' /\ d = client'
    OBVIOUS
  <2>6. SameItems(k) /\ AfterClose(d, c, item) /\ l = ResponsesCodec!Closed(k, at)
    BY <1>2, <2>2, <2>4, <2>5, Zenon DEF SameItems, AfterClose, ItemAt
  <2>7. /\ l.items = ClosedAt(codec.items, at) /\ GoesOnWell(c, d)
        /\ ItemsMatch(l.items, l.nextOutput, d.items)
    BY <2>3, <2>4, <2>6, ResponsesCloses
  <2>8. /\ codec'.items = ClosedAt(codec.items, at) /\ GoesOnWell(c, client')
        /\ ItemsMatch(codec'.items, codec'.nextOutput, client'.items)
    BY <2>5, <2>7
  <2> QED
    BY <1>3, <2>3, <2>8, Zenon DEF GoesWell, ItemsChange
<1> QED
  BY <1>5, <1>6

\* The response starts: the client sees it created.
LEMMA StartWell ==
  ASSUME IsResponsesCodec(codec), NEW ev,
         NEW c, Ready(c), c = ResponsesCodec!ClientStarted,
         ItemsMatch(codec.items, codec.nextOutput, c.items), ResponsesCodec!OnStart(ev)
  PROVE  GoesWell(ev, c)
<1> DEFINE usage == Merge(codec.usage, ev.response)
           k     == [codec EXCEPT !.started = TRUE, !.usage = usage]
<1>1. client' = c /\ codec' \in {codec, k}
  BY Zenon DEF ResponsesCodec!OnStart, ResponsesCodec!Merge, Merge
<1> HIDE DEF usage
<1>2. k.items = codec.items /\ k.nextOutput = codec.nextOutput
  BY StartedItems
<1> HIDE DEF k
<1>3. codec'.items = codec.items /\ codec'.nextOutput = codec.nextOutput
  BY <1>1, <1>2
<1>4. GoesOnWell(c, c)
  BY ResponsesSame DEF GoesOnWell, Ready
<1> QED
  BY <1>1, <1>3, <1>4 DEF GoesWell, ItemsChange

\* The Responses codec receives an event: the stream stays well formed.
LEMMA ResponsesTold ==
  ASSUME inbound = "responses", ResponsesAgrees, BlocksTold, queue # <<>>,
         NEW ev, Passed(ev), StopEndsCall(ev), ResponsesCodec!Receive(ev),
         UNCHANGED <<upstream, inbound, up, said>>
  PROVE  BlocksTold'
<1>1. /\ codec.pc = "ranging" /\ ~Over /\ ev \in AnthropicCodec!AnyEvent
      /\ BlockPassed(ev) /\ ~client.broken /\ BlocksHeard /\ ResponsesClient(client)
      /\ IsResponsesCodec(codec) /\ ItemsMatch(codec.items, codec.nextOutput, client.items)
  BY ItemsAgreeIs DEF ResponsesCodec!Receive, Over, Passed, BlocksTold, WellFormed, ResponsesAgrees,
     IsResponsesCodec
<1>2. BufferedAreKnown'
  BY DEF BufferedAreKnown
<1>3. PICK c : c = ResponsesCodec!ClientStarted
  OBVIOUS
<1>4. Ready(c) /\ c.items = client.items /\ ~c.broken
  BY <1>1, <1>3, ResponsesReady
<1>5. ItemsMatch(codec.items, codec.nextOutput, c.items)
  BY <1>1, <1>4
<1>6. /\ ev.index \in Indices /\ ev.part.id \in CallIds
      /\ ev.type \in {"start", "content_block_start", "content_block_stop", "delta", "stop",
                      "error", "err"}
      /\ ev.type \notin {"delta", "content_block_start"} => ev.part = NoPart
  BY <1>1, EventFields, NoPartOf
<1>7. CASE \/ ResponsesCodec!OnStart(ev) \/ ResponsesCodec!OnBlockStart(ev)
           \/ ResponsesCodec!OnDelta(ev) \/ ResponsesCodec!OnBlockStop(ev)
  <2>1. GoesWell(ev, c)
    BY <1>1, <1>3, <1>4, <1>5, <1>6, <1>7, StartWell, BlockStartWell, DeltaWell, BlockStopWell, Zenon
  <2>2. ~client'.broken
    BY <1>4, <2>1 DEF GoesWell, GoesOnWell
  <2>3. codec.items \in Seq(Items) /\ codec.nextOutput \in Nat
    BY <1>1 DEF ItemsMatch
  <2>4. Heeds(ev)
    BY <1>6, <2>1, <2>3, ResponsesHeeds DEF GoesWell
  <2>5. BlocksHeard'
    BY <1>1, <1>6, <2>4, BlocksPassed
  <2>6. ItemsAgree'
    BY <2>1, ItemsAgreeIsNext, Zenon DEF GoesWell
  <2> QED
    BY <1>2, <2>2, <2>5, <2>6 DEF BlocksTold, WellFormed
<1>8. CASE ResponsesCodec!OnStop(ev) \/ ResponsesCodec!OnError(ev)
  <2>1. ~client'.broken
    <3>1. CASE ResponsesCodec!OnStop(ev)
      <4>1. PICK k : k = ResponsesCodec!Noted(ev)
        OBVIOUS
      <4>2. client' = ResponsesCodec!ClientCompleted(c, k)
        BY <1>3, <3>1, <4>1, Zenon DEF ResponsesCodec!OnStop
      <4>3. PICK items : items = k.items
        OBVIOUS
      <4>4. items = codec.items
        BY <1>1, <4>1, <4>3, NotedItems
      <4>5. ItemsMatch(items, codec.nextOutput, c.items)
        BY <1>5, <4>4
      <4> QED
        BY <1>4, <4>2, <4>3, <4>5, CompletedWell, Zenon
    <3>2. CASE ResponsesCodec!OnError(ev)
      <4>1. client' \in {EndsAs(c, "error"), EndsAs(client, "error")}
        BY <1>3, <3>2, Zenon DEF ResponsesCodec!OnError, ResponsesCodec!SeesError, EndsAs
      <4>2. EndsAs(c, "error").broken = c.broken /\ EndsAs(client, "error").broken = client.broken
        BY <1>1, <1>4, ResponsesEndKeeps DEF Ready
      <4> QED
        BY <1>1, <1>4, <4>1, <4>2
    <3> QED
      BY <1>8, <3>1, <3>2
  <2>2. codec'.pc = "returned"
    <3>1. PICK k : k = ResponsesCodec!Noted(ev)
      OBVIOUS
    <3>2. IsResponsesCodec(k)
      BY <1>1, <3>1, ResponsesNoted
    <3>3. codec' = [k EXCEPT !.pc = "returned"] \/ codec' = [codec EXCEPT !.pc = "returned"]
      BY <1>8, <3>1, Zenon DEF ResponsesCodec!OnStop, ResponsesCodec!OnError
    <3> QED
      BY <1>1, <3>2, <3>3, ResponsesCodecPc
  <2> QED
    BY <1>2, <2>1, <2>2 DEF BlocksTold, WellFormed, BlocksHeard, ItemsAgree
<1> QED
  BY <1>7, <1>8 DEF ResponsesCodec!Receive

\* The channel is closed, or the client has left.
LEMMA ResponsesToldEnd ==
  ASSUME inbound = "responses", ResponsesAgrees, BlocksTold, UNCHANGED <<upstream, inbound>>,
         ResponsesCodec!SeesEnd \/ ResponsesCodec!WriteFails
  PROVE  BlocksTold'
<1>1. ResponsesClient(client) /\ IsResponsesCodec(codec) /\ ~client.broken
  BY DEF ResponsesAgrees, IsResponsesCodec, BlocksTold, WellFormed
<1>2. codec' = [codec EXCEPT !.pc = "returned"] /\ client' \in {EndsAs(client, "cut"), EndsAs(client, "gone")}
  BY Zenon DEF ResponsesCodec!SeesEnd, ResponsesCodec!WriteFails, EndsAs
<1>3. codec'.pc = "returned"
  BY <1>1, <1>2, ResponsesCodecPc
<1>4. ~client'.broken
  BY <1>1, <1>2, ResponsesEndKeeps
<1> QED
  BY <1>3, <1>4 DEF BlocksTold, WellFormed, BlocksHeard, BufferedAreKnown, ItemsAgree

-----------------------------------------------------------------------------
(* An Anthropic client.  That its stream is well formed is part of the     *)
(* invariant of the codec; of blocks and calls nothing need be heard.      *)

LEMMA AnthropicBlocksTold == inbound = "anthropic" /\ AnthropicAgrees => BlocksTold
<1> SUFFICES ASSUME inbound = "anthropic", AnthropicAgrees PROVE BlocksTold
  OBVIOUS
<1>1. ~client.broken
  <2>1. AnthropicCodec!Follows(client, codec.current, codec.nextIndex, codec.startSent)
    BY Zenon DEF AnthropicAgrees, AnthropicCodec!CodecInv
  <2> QED
    BY <2>1, Zenon DEF AnthropicCodec!Follows
<1>2. \A i \in Indices : NotClosedAt(i) /\ NoCallAt(i) /\ KnowsCall(i)
  BY SMTT(20) DEF NotClosedAt, NoCallAt, KnowsCall
<1>3. NothingBuffered /\ BufferedAreKnown /\ ItemsAgree
  BY DEF NothingBuffered, BufferedAreKnown, ItemsAgree
<1> QED
  BY <1>1, <1>2, <1>3 DEF BlocksTold, WellFormed, BlocksHeard

\* The same after a step.
LEMMA AnthropicBlocksToldNext == (inbound = "anthropic" /\ AnthropicAgrees => BlocksTold)'
BY AnthropicBlocksTold, PTL

-----------------------------------------------------------------------------
(* Whatever the inbound protocol.                                          *)

\* At first there is no call that might go on.
LEMMA NoneGoOn ==
  ASSUME Init
  PROVE  \A i \in Indices : ~MayGoOn(i)
<1>1. upstream \in Protocols /\ queue = <<>> /\ said = Answer
  BY ProtocolsAssumption DEF Init
<1>2. /\ upstream = "anthropic" => up = AnthropicUp!UpInit
      /\ upstream = "responses" => up = ResponsesUp!UpInit
  BY SMTT(20) DEF Init
<1>3. CASE upstream = "anthropic"
  <2>1. ~up.open
    BY <1>2, <1>3 DEF AnthropicUp!UpInit
  <2> QED
    BY <1>3, <2>1, SMTT(20) DEF MayGoOn
<1>4. CASE upstream = "chat"
  <2>1. Len(said.calls) = 0
    BY <1>1 DEF Answer
  <2> QED
    BY <1>1, <1>4, <2>1, SMTT(20) DEF MayGoOn, CallsHeard, Indices
<1>5. CASE upstream = "responses"
  <2>1. up.item.type # "function_call"
    BY <1>2, <1>5 DEF ResponsesUp!UpInit, ResponsesUp!NoItem
  <2> QED
    BY <1>5, <2>1, SMTT(20) DEF MayGoOn
<1>6. CASE upstream = "gemini"
  BY <1>6, SMTT(20) DEF MayGoOn
<1> QED
  BY <1>1, <1>3, <1>4, <1>5, <1>6 DEF Protocols

\* At first nothing has been heard, and nothing is open.
LEMMA BlocksToldInit == Init => BlocksTold
<1> SUFFICES ASSUME Init PROVE BlocksTold
  OBVIOUS
<1>1. /\ inbound = "anthropic" =>
           codec = AnthropicCodec!CodecInit /\ client = AnthropicCodec!ClientInit
      /\ inbound = "chat" => codec = ChatCodec!CodecInit /\ client = ChatCodec!ClientInit
      /\ inbound = "responses" =>
           codec = ResponsesCodec!CodecInit /\ client = ResponsesCodec!ClientInit
      /\ inbound = "gemini" => codec = GeminiCodec!CodecInit /\ client = GeminiCodec!ClientInit
  BY SMTT(20) DEF Init
<1>2. /\ upstream \in Protocols /\ inbound \in Protocols /\ queue = <<>> /\ said = Answer
  BY ProtocolsAssumption DEF Init
<1>3. CASE inbound = "anthropic"
  <2>1. AnthropicAgrees
    BY <1>3, FeedInit, EndToldInit, EndToldIs DEF Agree
  <2> QED
    BY <1>3, <2>1, AnthropicBlocksTold
<1>4. CASE inbound = "chat"
  <2>1. ~client.broken /\ \A i \in Indices : client.ids[i] = NoId
    <3>1. client.broken = FALSE /\ client.ids = [i \in Indices |-> ChatCodec!NoId]
      BY <1>1, <1>4 DEF ChatCodec!ClientInit
    <3>2. ChatCodec!NoId = NoId
      BY Zenon DEF ChatCodec!NoId, NoId
    <3> QED
      BY <3>1, <3>2, Zenon
  <2>2. \A i \in Indices : NotClosedAt(i) /\ NoCallAt(i) /\ ~MayGoOn(i)
    <3>1. \A i \in Indices : NotClosedAt(i) /\ NoCallAt(i)
      BY <1>4, <2>1, SMTT(20) DEF NotClosedAt, NoCallAt
    <3>2. \A i \in Indices : ~MayGoOn(i)
      BY NoneGoOn
    <3> QED
      BY <3>1, <3>2
  <2>3. NothingBuffered /\ BufferedAreKnown /\ ItemsAgree
    BY <1>4 DEF NothingBuffered, BufferedAreKnown, ItemsAgree
  <2> QED
    BY <2>1, <2>2, <2>3 DEF BlocksTold, WellFormed, BlocksHeard
<1>5. CASE inbound = "gemini"
  <2>1. /\ ~client.broken /\ codec.order = <<>>
        /\ codec.pending = [i \in Indices |-> GeminiCodec!NoCall]
    BY <1>1, <1>5 DEF GeminiCodec!ClientInit, GeminiCodec!CodecInit
  <2>2. GeminiCodec!NoCall \in [id : CallIds, args : Seq(Nat)]
    BY DEF GeminiCodec!NoCall, GeminiCodec!NoId, CallIds, NoId
  <2>3. \A i \in Indices : NotClosedAt(i) /\ NoCallAt(i) /\ ~MayGoOn(i)
    <3>1. \A i \in Indices : NotClosedAt(i) /\ NoCallAt(i)
      BY <1>5, SMTT(20) DEF NotClosedAt, NoCallAt
    <3> QED
      BY <3>1, NoneGoOn
  <2>4. NothingBuffered /\ BufferedAreKnown /\ ItemsAgree
    BY <1>5, <2>1, <2>2 DEF NothingBuffered, BufferedAreKnown, ItemsAgree
  <2> QED
    BY <2>1, <2>3, <2>4 DEF BlocksTold, WellFormed, BlocksHeard
<1>6. CASE inbound = "responses"
  <2>1. ~client.broken /\ codec.items = <<>> /\ client.items = <<>> /\ codec.nextOutput = 0
    BY <1>1, <1>6 DEF ResponsesCodec!ClientInit, ResponsesCodec!CodecInit
  <2>2. \A i \in Indices : NotClosedAt(i) /\ NoCallAt(i) /\ KnowsCall(i)
    BY <1>6, <2>1, SMTT(20) DEF NotClosedAt, NoCallAt, KnowsCall
  <2>3. NothingBuffered /\ BufferedAreKnown
    BY <1>6 DEF NothingBuffered, BufferedAreKnown
  <2>4. ItemsAgree
    BY <2>1 DEF ItemsAgree
  <2> QED
    BY <2>1, <2>2, <2>3, <2>4 DEF BlocksTold, WellFormed, BlocksHeard
<1> QED
  BY <1>2, <1>3, <1>4, <1>5, <1>6 DEF Protocols

\* What the provider says meanwhile is not heard of.
LEMMA BlocksToldUpstream ==
  ASSUME Feed, BlocksTold, Upstream
  PROVE  BlocksTold'
<1>1. Quiet /\ UNCHANGED <<upstream, inbound, codec, client>>
  BY FeedUpstream DEF Upstream
<1>2. BlocksHeard'
  BY <1>1, BlocksQuiet DEF BlocksTold
<1>3. HeardReason' = HeardReason
  BY <1>1 DEF Quiet
<1>4. BufferedAreKnown'
  BY <1>1, <1>3 DEF BlocksTold, BufferedAreKnown
<1>5. ItemsAgree'
  BY <1>1, ItemsAgreeIs, ItemsAgreeIsNext DEF BlocksTold
<1> QED
  BY <1>1, <1>2, <1>4, <1>5 DEF BlocksTold, WellFormed

\* The deltas of a server tool bear the type of a client tool: the codecs of Chat
\* Completions and Gemini take them for arguments of a call that has not begun.
CallsBegin == inbound \in {"chat", "gemini"} => "server_tool_use" \notin Kinds

\* The codec receives an event.
LEMMA BlocksToldPassOn ==
  ASSUME CallsBegin, Feed, AnswerOK, Agree, BlocksTold, PassOn
  PROVE  BlocksTold'
<1> DEFINE ev == Head(queue)
<1>1. /\ queue # <<>> /\ queue' = Tail(queue) /\ UNCHANGED <<upstream, inbound, up, said>>
      /\ inbound \in Protocols
  BY InboundProtocol DEF PassOn
<1>2. /\ inbound = "chat" => ChatCodec!Receive(ev)
      /\ inbound = "responses" => ResponsesCodec!Receive(ev)
      /\ inbound = "gemini" => GeminiCodec!Receive(ev)
  BY DEF PassOn
<1>3. Passed(ev) /\ StopEndsCall(ev)
  BY <1>1, FeedPassOn, StopsEndCalls
<1> HIDE DEF ev
<1>4. CASE inbound = "anthropic"
  <2>1. Agree' /\ inbound' = "anthropic"
    BY <1>1, <1>4, EndToldPassOn
  <2> QED
    BY <2>1, AnthropicBlocksToldNext DEF Agree
<1>5. CASE inbound = "chat"
  BY <1>1, <1>2, <1>3, <1>5, ChatTold DEF Agree, CallsBegin
<1>6. CASE inbound = "responses"
  BY <1>1, <1>2, <1>3, <1>6, ResponsesTold DEF Agree
<1>7. CASE inbound = "gemini"
  BY <1>1, <1>2, <1>3, <1>7, GeminiTold DEF Agree, CallsBegin
<1> QED
  BY <1>1, <1>4, <1>5, <1>6, <1>7 DEF Protocols

\* The codec goes on by itself, or is at its end.
LEMMA BlocksToldGoesOn ==
  ASSUME Feed, AnswerOK, Agree, BlocksTold, Flush \/ SeesEnd \/ ClientLeaves
  PROVE  BlocksTold'
<1>1. UNCHANGED <<upstream, inbound, up, queue, said>> /\ inbound \in Protocols
  BY InboundProtocol DEF Flush, SeesEnd, ClientLeaves
<1>2. CASE inbound = "anthropic"
  <2>1. Agree' /\ inbound' = "anthropic"
    BY <1>1, <1>2, EndToldGoesOn
  <2> QED
    BY <2>1, AnthropicBlocksToldNext DEF Agree
<1>3. CASE inbound = "chat"
  <2>1. ChatCodec!SeesEnd \/ ChatCodec!WriteFails
    BY <1>3 DEF Flush, SeesEnd, ClientLeaves
  <2>2. ChatAgrees /\ ChatClient(client) /\ ~client.broken
    BY <1>3 DEF Agree, ChatAgrees, BlocksTold, WellFormed
  <2>3. CASE ChatCodec!SeesEnd
    <3>1. codec' = [codec EXCEPT !.pc = "returned"]
      BY <2>3, Zenon DEF ChatCodec!SeesEnd
    <3>2. \E end : client' = EndsAs(client, end)
      BY <2>3, Zenon DEF ChatCodec!SeesEnd, ChatCodec!SeesDone, EndsAs
    <3> QED
      BY <1>1, <1>3, <2>2, <3>1, <3>2, ChatToldEnd
  <2>4. CASE ChatCodec!WriteFails
    <3>1. codec' = [codec EXCEPT !.pc = "returned"] /\ client' = EndsAs(client, "gone")
      BY <2>4, Zenon DEF ChatCodec!WriteFails, EndsAs
    <3> QED
      BY <1>1, <1>3, <2>2, <3>1, ChatToldEnd
  <2> QED
    BY <2>1, <2>3, <2>4
<1>4. CASE inbound = "responses"
  <2>1. ResponsesCodec!SeesEnd \/ ResponsesCodec!WriteFails
    BY <1>4 DEF Flush, SeesEnd, ClientLeaves
  <2> QED
    BY <1>1, <1>4, <2>1, ResponsesToldEnd DEF Agree
<1>5. CASE inbound = "gemini"
  <2>1. GeminiCodec!SeesEnd \/ GeminiCodec!WriteFails
    BY <1>5 DEF Flush, SeesEnd, ClientLeaves
  <2> QED
    BY <1>1, <1>5, <2>1, GeminiToldEnd DEF Agree
<1> QED
  BY <1>1, <1>2, <1>3, <1>4, <1>5 DEF Protocols

\* When nothing changes.
LEMMA BlocksToldUnchanged ==
  ASSUME BlocksTold, UNCHANGED <<upstream, inbound, up, queue, said, codec, client>>
  PROVE  BlocksTold'
<1>1. \A i \in Indices : /\ MayCome(i)' <=> MayCome(i)
                         /\ MayBegin(i)' <=> MayBegin(i)
                         /\ MayGoOn(i)' <=> MayGoOn(i)
  BY Zenon DEF MayCome, MayBegin, MayGoOn, ItemOpen, Starting, CallsHeard, IsMapped, Latest
<1>2. HeardReason' = HeardReason /\ (Over' <=> Over) /\ (OpenHeard' <=> OpenHeard)
  BY Zenon DEF HeardReason, Over, OpenHeard
<1>3. BlocksHeard'
  BY <1>1, <1>2, KnownUnchanged DEF BlocksTold, BlocksHeard
<1>4. BufferedAreKnown'
  BY <1>2 DEF BlocksTold, BufferedAreKnown
<1>5. ItemsAgree'
  BY ItemsAgreeIs, ItemsAgreeIsNext DEF BlocksTold
<1> QED
  BY <1>3, <1>4, <1>5 DEF BlocksTold, WellFormed

-----------------------------------------------------------------------------
(* The theorems.                                                           *)

\* What has been heard of blocks and calls agrees with what codec and client have of
\* them.  This is the inductive invariant of a well-formed stream.
THEOREM BlocksToldHolds ==
  ASSUME "server_tool_use" \in Kinds => Inbounds \subseteq {"anthropic", "responses"}
  PROVE  Spec => []BlocksTold
<1>1. Init => inbound \in Inbounds
  BY DEF Init
<1>2. inbound \in Inbounds /\ [Next]_vars => (inbound \in Inbounds)'
  BY Zenon DEF Next, Upstream, PassOn, Flush, SeesEnd, ClientLeaves, Terminated, vars
<1>3. /\ Feed /\ EndTold /\ inbound \in Inbounds /\ BlocksTold
      /\ [Next]_vars
      => BlocksTold'
  <2> SUFFICES ASSUME Feed, EndTold, inbound \in Inbounds, BlocksTold, [Next]_vars
               PROVE  BlocksTold'
    OBVIOUS
  <2>1. AnswerOK /\ Agree
    BY EndToldIs
  <2>2. CASE Upstream
    BY <2>2, BlocksToldUpstream
  <2>3. CASE PassOn
    <3>1. CallsBegin
      BY DEF CallsBegin
    <3> QED
      BY <2>1, <2>3, <3>1, BlocksToldPassOn
  <2>4. CASE Flush \/ SeesEnd \/ ClientLeaves
    BY <2>1, <2>4, BlocksToldGoesOn
  <2>5. CASE UNCHANGED vars
    BY <2>5, BlocksToldUnchanged DEF vars
  <2> QED
    BY <2>2, <2>3, <2>4, <2>5 DEF Next, Terminated
<1>4. Init => BlocksTold
  BY BlocksToldInit
<1> QED
  BY <1>1, <1>2, <1>3, <1>4, EndToldHolds, PTL DEF Spec

\* Whatever the provider says, in whatever order and under whatever indices, the
\* client receives a well-formed stream of its protocol.  For Chat Completions and
\* Gemini this is not so of a provider's server tools: the deltas of such a block bear
\* the type of a client tool, and the codecs take them for a call without an id.
THEOREM StreamIsWellFormed ==
  ASSUME "server_tool_use" \in Kinds => Inbounds \subseteq {"anthropic", "responses"}
  PROVE  Spec => []WellFormed
<1>1. BlocksTold => WellFormed
  BY DEF BlocksTold
<1> QED
  BY <1>1, BlocksToldHolds, PTL

=============================================================================
