-------------------------- MODULE TranslationProofs --------------------------
(***************************************************************************)
(* What the translation promises, for every upstream and every inbound     *)
(* protocol.  FeedProofs says what a codec may rely on; here follows, codec*)
(* by codec, what it and its client make of it.                            *)
(***************************************************************************)
EXTENDS FeedProofs

(* The usages, and the operators on them, are those of StreamEvents in every codec. *)
USE DEF Part, NoPart, NoId, Usage, NoUsage, Merge, Piece,
        ChatCodec!NoUsage, ChatCodec!Usage, ChatCodec!Merge, ChatCodec!NoId, ChatCodec!Piece,
        ChatCodec!NoPart, ChatCodec!Part,
        GeminiCodec!NoUsage, GeminiCodec!Usage, GeminiCodec!Merge, GeminiCodec!NoId,
        GeminiCodec!Piece, GeminiCodec!NoPart, GeminiCodec!Part,
        ResponsesCodec!NoUsage, ResponsesCodec!Usage, ResponsesCodec!Merge,
        ResponsesCodec!NoId, ResponsesCodec!Piece, ResponsesCodec!NoPart, ResponsesCodec!Part

-----------------------------------------------------------------------------
(* What has been heard, and how an answer ends.                            *)

\* What Feed says of the end of an answer.
EndKnown ==
    /\ said.reason \in StopReasons /\ said.usage \in Counts
    /\ said.end \in {"none", "clean", "error", "unheard", "cut"}
    /\ Over => queue = <<>> /\ HeardReason = said.reason
    /\ Over /\ said.end = "clean" => said.reason # "none" /\ said.usage \in {NoUsage, Total}
    /\ queue = <<>> /\ up.phase = "closed" => Over /\ said.end # "none"
    /\ HeardReason \in StopReasons

\* What the provider, reader and channel imply of the end of the answer.
LEMMA FeedKnowsEnd == Feed => EndKnown
<1> SUFFICES ASSUME Feed PROVE EndKnown
  OBVIOUS
<1>1. /\ said.reason \in StopReasons /\ said.usage \in Counts
      /\ said.end \in {"none", "clean", "error", "unheard", "cut"}
      /\ up.phase = "closed" => said.end # "none"
  BY DEF Feed, SaidOK
<1>2. Over => queue = <<>> /\ HeardReason = said.reason
  <2> SUFFICES ASSUME Over PROVE queue = <<>> /\ HeardReason = said.reason
    OBVIOUS
  <2>1. /\ queue = <<>> /\ up.phase \in {"ended", "closed"}
        /\ upstream = "responses" => up.batch = <<>>
    BY DEF Over
  <2> QED
    BY <2>1 DEF HeardReason
<1>3. Over /\ said.end = "clean" => said.reason # "none" /\ said.usage \in {NoUsage, Total}
  BY ContentAssumption DEF Feed, EndedWell, Over
<1>4. queue = <<>> /\ up.phase = "closed" => Over
  <2>1. upstream = "responses" /\ up.phase = "closed" => up.batch = <<>>
    <3>1. upstream = "responses" => ResponsesOK
      BY FeedIsOf DEF AnthropicOK, ChatOK, GeminiOK, ResponsesOK
    <3> QED
      BY <3>1 DEF ResponsesOK, ResponsesFeed, ResponsesStage, ResponsesSilent, ResponsesBetween,
         ResponsesInside, ResponsesSkipping, ResponsesSearching, ResponsesStart, ResponsesAdded,
         ResponsesDelta, ResponsesDone, ResponsesSearch, ResponsesLast, ResponsesOver
  <2> QED
    BY <2>1 DEF Over
<1>5. HeardReason \in StopReasons
  BY <1>1 DEF HeardReason, StopReasons
<1> QED
  BY <1>1, <1>2, <1>3, <1>4, <1>5 DEF EndKnown

\* The same after a step.
LEMMA FeedKnowsEndNext == Feed' => EndKnown'
BY FeedKnowsEnd, PTL

\* The usage that a codec has collected, when it has collected that of an event.
Collected(usage, ev) ==
    IF ev.response.prompt = 0 THEN Merge(usage, ev.usage)
    ELSE Merge(Merge(usage, ev.usage), ev.response)

\* The usage that a codec has merged is what has been heard of it, also after an event.
LEMMA UsageCollected ==
  ASSUME NEW usage, UsageHeard(usage), NEW ev, UsagePassed(ev), upstream' = upstream,
         said' = said, NEW next, next = Collected(usage, ev)
  PROVE  /\ next \in Counts
         /\ said'.usage = NoUsage => next = NoUsage
         /\ upstream' = "anthropic" => next = HeardUsage'
<1>1. usage \in Counts /\ ev.usage \in Counts /\ ev.response \in Counts
  BY DEF UsageHeard, UsagePassed
<1>2. Collected(usage, ev) \in Counts
  BY <1>1 DEF Collected, Counts
<1>3. said.usage = NoUsage => Collected(usage, ev) = NoUsage
  BY DEF UsageHeard, UsagePassed, Collected
<1>4. upstream = "anthropic" => Collected(usage, ev) = HeardUsage'
  <2> SUFFICES ASSUME upstream = "anthropic" PROVE Collected(usage, ev) = HeardUsage'
    OBVIOUS
  <2>1. /\ usage = HeardUsage
        /\ HeardUsage' = Merge(Merge(HeardUsage, ev.usage), ev.response)
        /\ ev.response \in {NoUsage, Usage(1, 1)}
    BY DEF UsageHeard, UsagePassed
  <2> QED
    BY <1>1, <2>1 DEF Collected, Counts
<1> QED
  BY <1>2, <1>3, <1>4

\* The usage that a codec adds to a stop is all that the provider told.
AtStop(usage, ev) ==
    LET total == Collected(usage, ev)
    IN  IF total.prompt # 0 /\ ev.usage.prompt = 0 THEN Merge(ev.usage, total) ELSE ev.usage

\* With the stop, the usage of an answer that tells all or nothing of it is all there.
LEMMA UsageAtStop ==
  ASSUME NEW usage, UsageHeard(usage), NEW ev, UsagePassed(ev), ev.type = "stop",
         said.usage \in {NoUsage, Total}
  PROVE  AtStop(usage, ev) = said.usage
<1>1. usage \in Counts /\ ev.usage \in Counts /\ ev.response \in Counts
  BY DEF UsageHeard, UsagePassed
<1>2. CASE upstream = "anthropic"
  <2>1. usage = said.usage /\ ev.usage = NoUsage /\ ev.response = NoUsage
    BY <1>2 DEF UsageHeard, UsagePassed
  <2>2. Collected(usage, ev) = said.usage
    BY <1>1, <2>1 DEF Collected, Counts, Total
  <2> QED
    BY <2>1, <2>2 DEF AtStop, Total
<1>3. CASE upstream # "anthropic"
  <2>1. ev.usage = said.usage /\ ev.response = NoUsage
    BY <1>3 DEF UsagePassed
  <2>2. said.usage = NoUsage => usage = NoUsage
    BY DEF UsageHeard
  <2> QED
    BY <1>1, <2>1, <2>2 DEF AtStop, Collected, Counts, Total
<1> QED
  BY <1>2, <1>3

\* What the provider says meanwhile does not change what has been collected.
LEMMA UsageQuiet ==
  ASSUME NEW usage, UsageHeard(usage), Quiet, upstream' = upstream
  PROVE  /\ usage \in Counts
         /\ said'.usage = NoUsage => usage = NoUsage
         /\ upstream' = "anthropic" => usage = HeardUsage'
BY DEF UsageHeard, Quiet

-----------------------------------------------------------------------------
(* A Chat Completions client.                                              *)

ChatClientOf(answer, ids, shown, broken) ==
    [answer |-> answer, ids |-> ids, shown |-> shown, broken |-> broken]

\* What a client is told of the answer, and how its stream ends.
TellsUsage(c, usage)   == [c EXCEPT !.answer.usage = usage]
TellsReason(c, reason) == [c EXCEPT !.answer.reason = reason]
EndsAs(c, end)         == [c EXCEPT !.answer.end = end]

\* What a client that has taken content knows of the end.
SameEnd(c, d) ==
    /\ d.answer.end = c.answer.end /\ d.answer.reason = c.answer.reason
    /\ d.answer.usage = c.answer.usage

\* The fields of an answer.
LEMMA AnswerFields ==
  ASSUME NEW pieces, NEW calls, NEW reason, NEW usage, NEW end
  PROVE  LET answer == AnswerOf(pieces, calls, reason, usage, end)
         IN  /\ IsAnswer(answer)
             /\ answer.reason = reason /\ answer.usage = usage /\ answer.end = end
BY DEF AnswerOf, IsAnswer

\* The fields of a Chat Completions client.
LEMMA ChatClientFields ==
  ASSUME NEW answer, IsAnswer(answer), NEW ids \in [Indices -> CallIds], NEW shown, NEW broken
  PROVE  /\ ChatClient(ChatClientOf(answer, ids, shown, broken))
         /\ ChatClientOf(answer, ids, shown, broken).answer = answer
         /\ ChatClientOf(answer, ids, shown, broken).ids = ids
         /\ ChatClientOf(answer, ids, shown, broken).broken = broken
<1> DEFINE c == ChatClientOf(answer, ids, shown, broken)
<1>1. c.answer = answer /\ c.ids = ids /\ c.shown = shown /\ c.broken = broken
  BY DEF ChatClientOf
<1>2. c = [answer |-> c.answer, ids |-> c.ids, shown |-> c.shown, broken |-> c.broken]
  BY <1>1, Zenon DEF ChatClientOf
<1> HIDE DEF c
<1>3. ChatClient(c)
  BY <1>1, <1>2 DEF ChatClient
<1> QED
  BY <1>1, <1>3 DEF c

ChatUpdate(c, shown, ids, calls, pieces) ==
    [c EXCEPT !.shown = shown, !.ids = ids, !.answer.calls = calls, !.answer.pieces = pieces]

\* An update of such a client, as a record.
LEMMA ChatUpdated ==
  ASSUME NEW c, ChatClient(c), NEW shown, NEW ids, NEW calls, NEW pieces
  PROVE  ChatUpdate(c, shown, ids, calls, pieces)
           = ChatClientOf(AnswerOf(pieces, calls, c.answer.reason, c.answer.usage, c.answer.end),
                          ids, shown, c.broken)
<1>1. PICK a, i, h, b : c = ChatClientOf(a, i, h, b)
  BY DEF ChatClient, ChatClientOf
<1>2. a = c.answer /\ b = c.broken
  BY <1>1 DEF ChatClientOf
<1>3. IsAnswer(a)
  BY <1>2 DEF ChatClient
<1> DEFINE c1 == [c EXCEPT !.shown = shown]
           c2 == [c1 EXCEPT !.ids = ids]
           a2 == [c2.answer EXCEPT !.calls = calls]
           c3 == [c2 EXCEPT !.answer = a2]
           a3 == [c3.answer EXCEPT !.pieces = pieces]
           c4 == [c3 EXCEPT !.answer = a3]
<1>4. c1 = ChatClientOf(a, i, shown, b)
  BY <1>1 DEF ChatClientOf
<1> HIDE DEF c1
<1>5. c2 = ChatClientOf(a, ids, shown, b) /\ c2.answer = a
  BY <1>4 DEF ChatClientOf
<1> HIDE DEF c2
<1>6. a2 = AnswerOf(a.pieces, calls, a.reason, a.usage, a.end)
  BY <1>3, <1>5 DEF AnswerOf, IsAnswer
<1> HIDE DEF a2
<1>7. c3 = ChatClientOf(a2, ids, shown, b) /\ c3.answer = a2
  BY <1>5 DEF ChatClientOf
<1> HIDE DEF c3
<1>8. a3 = AnswerOf(pieces, calls, a.reason, a.usage, a.end)
  BY <1>6, <1>7 DEF AnswerOf
<1> HIDE DEF a3
<1>9. c4 = ChatClientOf(a3, ids, shown, b)
  BY <1>7 DEF ChatClientOf
<1>10. c4 = ChatClientOf(AnswerOf(pieces, calls, c.answer.reason, c.answer.usage, c.answer.end),
                         ids, shown, c.broken)
  BY <1>2, <1>8, <1>9
<1> QED
  BY <1>10, Zenon DEF c1, c2, c3, a2, a3, ChatUpdate

\* The same of its flag that the stream is ill formed.
LEMMA ChatBroken ==
  ASSUME NEW c, ChatClient(c), NEW broken
  PROVE  [c EXCEPT !.broken = broken] = ChatClientOf(c.answer, c.ids, c.shown, broken)
BY DEF ChatClient, ChatClientOf

\* A client that takes content keeps the end of the answer that it knows.
LEMMA ChatTakesContent ==
  ASSUME NEW c, ChatClient(c), NEW shown, NEW ids \in [Indices -> CallIds], NEW calls,
         NEW pieces, NEW wellFormed, NEW taken,
         taken = ChatClientOf(AnswerOf(pieces, calls, c.answer.reason, c.answer.usage,
                                       c.answer.end), ids, shown, c.broken),
         NEW d, d = ChatCodec!Takes(c, wellFormed, taken)
  PROVE  ChatClient(d) /\ SameEnd(c, d)
<1>1. ChatClient(taken) /\ SameEnd(c, taken)
  BY ChatClientFields, AnswerFields DEF SameEnd
<1> DEFINE e == [c EXCEPT !.broken = TRUE]
<1>2. e = ChatClientOf(c.answer, c.ids, c.shown, TRUE)
  BY ChatBroken, Zenon
<1>3. ChatClient(e) /\ SameEnd(c, e)
  BY <1>2, ChatClientFields DEF ChatClient, SameEnd
<1>4. d \in {taken, e}
  BY Zenon DEF ChatCodec!Takes
<1> HIDE DEF e
<1> QED
  BY <1>1, <1>3, <1>4

\* Before the reason is told, a client takes content that may come.
LEMMA ChatTaken ==
  ASSUME NEW c, NEW wellFormed, wellFormed, c.answer.reason = "none", NEW taken
  PROVE  ChatCodec!Takes(c, wellFormed, taken) = taken
BY Zenon DEF ChatCodec!Takes

\* The client sees a delta of text, reasoning or refusal: the end and the calls that it
\* knows are the same.
LEMMA ChatSeesContent ==
  ASSUME NEW c, ChatClient(c), NEW choice, NEW kind, NEW frag
  PROVE  LET d == ChatCodec!SeesContent(c, choice, kind, frag)
         IN  /\ ChatClient(d) /\ SameEnd(c, d)
             /\ c.answer.reason = "none" => d.ids = c.ids /\ d.broken = c.broken
<1> DEFINE pieces == IF frag = 0 \/ choice # 0 THEN c.answer.pieces
                     ELSE Append(c.answer.pieces, Piece(kind, NoId, frag))
           shown  == IF frag = 0 THEN c.shown ELSE Append(c.shown, Piece(kind, NoId, frag))
           taken  == [c EXCEPT !.shown = shown, !.answer.pieces = pieces]
           d      == ChatCodec!SeesContent(c, choice, kind, frag)
<1>1. taken = [c EXCEPT !.shown = IF frag = 0 THEN @ ELSE Append(@, Piece(kind, NoId, frag)),
                        !.answer.pieces = IF frag = 0 \/ choice # 0 THEN @
                                          ELSE Append(@, Piece(kind, NoId, frag))]
  BY DEF ChatClient, IsAnswer
<1>2. d = ChatCodec!Takes(c, TRUE, taken)
  BY <1>1, Zenon DEF ChatCodec!SeesContent
<1> HIDE DEF d, pieces, shown
<1>3. taken = ChatUpdate(c, shown, c.ids, c.answer.calls, pieces)
  BY DEF ChatClient, IsAnswer, ChatUpdate
<1>4. c.ids \in [Indices -> CallIds]
  BY DEF ChatClient
<1>5. taken = ChatClientOf(AnswerOf(pieces, c.answer.calls, c.answer.reason, c.answer.usage,
                                    c.answer.end), c.ids, shown, c.broken)
  BY <1>3, ChatUpdated
<1> HIDE DEF taken
<1>6. ChatClient(d) /\ SameEnd(c, d)
  BY <1>2, <1>4, <1>5, ChatTakesContent
<1>7. ASSUME c.answer.reason = "none"
      PROVE  d.ids = c.ids /\ d.broken = c.broken
  <2>1. d = taken
    BY <1>2, <1>7, ChatTaken, Zenon
  <2> QED
    BY <1>4, <1>5, <2>1, ChatClientFields, AnswerFields
<1> QED
  BY <1>6, <1>7, Zenon DEF d

\* The id that a call is known by after a delta, and whether the delta may come.
CallOf(c, index, id)    == IF c.ids[index] = NoId THEN id ELSE c.ids[index]
IsCallOf(c, index, id) == CallOf(c, index, id) # NoId /\ id \in {NoId, CallOf(c, index, id)}

\* The client sees a delta of a call: the end that it knows is the same.
LEMMA ChatSeesToolCall ==
  ASSUME NEW c, ChatClient(c), NEW index \in Indices, NEW id \in CallIds, NEW frag
  PROVE  LET d == ChatCodec!SeesToolCall(c, index, id, frag)
         IN  /\ ChatClient(d) /\ SameEnd(c, d)
             /\ IsCallOf(c, index, id) /\ c.answer.reason = "none" =>
                  /\ d.ids = [c.ids EXCEPT ![index] = CallOf(c, index, id)]
                  /\ d.broken = c.broken
<1> DEFINE known   == c.ids[index]
           call    == IF known = NoId THEN id ELSE known
           calls   == IF known = NoId THEN Append(c.answer.calls, call) ELSE c.answer.calls
           pieces  == IF frag = 0 THEN c.answer.pieces
                      ELSE Append(c.answer.pieces, Piece("tool_use", call, frag))
           ids     == [c.ids EXCEPT ![index] = call]
           good    == call # NoId /\ id \in {NoId, call}
           taken   == ChatUpdate(c, c.shown, ids, calls, pieces)
           d       == ChatCodec!SeesToolCall(c, index, id, frag)
<1>1. ids \in [Indices -> CallIds] /\ good \in BOOLEAN
  BY DEF ChatClient
<1>2. taken = [c EXCEPT !.ids[index] = call,
                        !.answer.calls = IF known = NoId THEN Append(@, call) ELSE @,
                        !.answer.pieces =
                            IF frag = 0 THEN @ ELSE Append(@, Piece("tool_use", call, frag))]
  <2> HIDE DEF call, known
  <2> QED
    BY DEF ChatClient, IsAnswer, ChatUpdate
<1>3. d = ChatCodec!Takes(c, good, taken)
  BY <1>2, Zenon DEF ChatCodec!SeesToolCall
<1>4. call = CallOf(c, index, id) /\ (IsCallOf(c, index, id) <=> good)
  BY Zenon DEF CallOf, IsCallOf
<1>5. ids = [c.ids EXCEPT ![index] = CallOf(c, index, id)]
  BY <1>4
<1> HIDE DEF calls, pieces, ids, good, d, call
<1>6. taken = ChatClientOf(AnswerOf(pieces, calls, c.answer.reason, c.answer.usage,
                                    c.answer.end), ids, c.shown, c.broken)
  BY ChatUpdated
<1> HIDE DEF taken
<1>7. ChatClient(d) /\ SameEnd(c, d)
  BY <1>1, <1>3, <1>6, ChatTakesContent
<1>8. ASSUME good, c.answer.reason = "none"
      PROVE  d.ids = ids /\ d.broken = c.broken
  <2>1. d = taken
    BY <1>3, <1>8, ChatTaken, Zenon
  <2> QED
    BY <1>1, <1>6, <2>1, ChatClientFields, AnswerFields
<1>9. IsCallOf(c, index, id) /\ c.answer.reason = "none" =>
        /\ d.ids = [c.ids EXCEPT ![index] = CallOf(c, index, id)]
        /\ d.broken = c.broken
  BY <1>4, <1>5, <1>8, Zenon
<1> QED
  BY <1>7, <1>9, Zenon DEF d

\* The client sees a chunk of usage: it has that usage, unless none is told.
LEMMA ChatSeesUsage ==
  ASSUME NEW c, ChatClient(c), NEW usage
  PROVE  LET d == ChatCodec!SeesUsage(c, usage)
         IN  /\ ChatClient(d) /\ d.ids = c.ids /\ d.broken = c.broken
             /\ d.answer.end = c.answer.end /\ d.answer.reason = c.answer.reason
             /\ d.answer.usage = IF usage = NoUsage THEN c.answer.usage ELSE usage
<1> DEFINE answer == [c.answer EXCEPT !.usage = usage]
           e == [c EXCEPT !.answer.usage = usage]
           d == ChatCodec!SeesUsage(c, usage)
<1>1. e = ChatClientOf(answer, c.ids, c.shown, c.broken)
  BY DEF ChatClient, IsAnswer, ChatClientOf
<1>2. /\ IsAnswer(answer) /\ answer.end = c.answer.end /\ answer.reason = c.answer.reason
      /\ answer.usage = usage
  BY DEF ChatClient, IsAnswer
<1>3. c.ids \in [Indices -> CallIds]
  BY DEF ChatClient
<1>4. d = IF usage = NoUsage THEN c ELSE e
  BY Zenon DEF ChatCodec!SeesUsage
<1> HIDE DEF answer, e, d
<1>5. ChatClient(e) /\ e.answer = answer /\ e.ids = c.ids /\ e.broken = c.broken
  BY <1>1, <1>2, <1>3, ChatClientFields
<1>6. /\ ChatClient(d) /\ d.ids = c.ids /\ d.broken = c.broken
      /\ d.answer.end = c.answer.end /\ d.answer.reason = c.answer.reason
      /\ d.answer.usage = IF usage = NoUsage THEN c.answer.usage ELSE usage
  BY <1>2, <1>4, <1>5
<1> QED
  BY <1>6 DEF d

\* What the types of its fields say of an event.
LEMMA EventFields ==
  ASSUME NEW ev \in AnthropicCodec!AnyEvent
  PROVE  /\ ev.index \in Indices /\ ev.part.id \in CallIds
         /\ ev.type \in {"start", "content_block_start", "content_block_stop", "delta", "stop",
                         "error", "err"}
BY DEF AnthropicCodec!AnyEvent, AnthropicCodec!Events, AnthropicCodec!Parts, AnthropicCodec!CallIds,
       AnthropicCodec!NoPart, AnthropicCodec!Part, AnthropicCodec!NoId, CallIds

\* What is written of an event that does not end the answer.
LEMMA ChatWritten ==
  ASSUME ChatClient(client), NEW ev \in AnthropicCodec!AnyEvent
  PROVE  LET d == ChatCodec!Written(ev)
         IN  /\ ChatClient(d)
             /\ d.answer.end = client.answer.end /\ d.answer.reason = client.answer.reason
             /\ d.answer.usage \in {client.answer.usage, ev.usage}
<1> DEFINE content == ChatCodec!SeesContent(client, ev.index, ev.part.kind, ev.part.frag)
           call    == ChatCodec!SeesToolCall(client, ev.index, ev.part.id, ev.part.frag)
           d       == ChatCodec!Written(ev)
<1>1. d \in {client, ChatCodec!SeesUsage(client, ev.usage),
             ChatCodec!SeesUsage(content, ev.usage), ChatCodec!SeesUsage(call, ev.usage)}
  BY Zenon DEF ChatCodec!Written
<1>2. ChatClient(content) /\ SameEnd(client, content)
  BY ChatSeesContent
<1>3. ChatClient(call) /\ SameEnd(client, call)
  BY EventFields, ChatSeesToolCall
<1> HIDE DEF content, call, d
<1>4. /\ ChatClient(d)
      /\ d.answer.end = client.answer.end /\ d.answer.reason = client.answer.reason
      /\ d.answer.usage \in {client.answer.usage, ev.usage}
  <2>1. CASE d = client
    BY <2>1
  <2>2. ASSUME NEW c, ChatClient(c), SameEnd(client, c), d = ChatCodec!SeesUsage(c, ev.usage)
        PROVE  /\ ChatClient(d)
               /\ d.answer.end = client.answer.end /\ d.answer.reason = client.answer.reason
               /\ d.answer.usage \in {client.answer.usage, ev.usage}
    BY <2>2, ChatSeesUsage DEF SameEnd
  <2>3. SameEnd(client, client)
    BY DEF SameEnd
  <2> QED
    BY <1>1, <1>2, <1>3, <2>1, <2>2, <2>3
<1> QED
  BY <1>4 DEF d

\* While the provider speaks and the reader reads, codec and client are as they were.
LEMMA ChatQuiet ==
  ASSUME ChatAgrees, AnswerOK, Quiet, codec.pc # "returned",
         UNCHANGED <<upstream, inbound, codec, client>>
  PROVE  ChatAgrees' /\ AnswerOK'
<1>1. codec.pc = "ranging"
  BY DEF ChatAgrees
<1>2. AnswerOK'
  BY DEF AnswerOK, Quiet
<1>3. UsageHeard(codec.usage)'
  BY <1>1, UsageQuiet DEF ChatAgrees, UsageHeard
<1>4. codec'.reason = HeardReason'
  BY <1>1 DEF ChatAgrees, Quiet
<1>5. /\ codec'.completed <=> Over' /\ said'.end = "clean"
      /\ Over' => said'.end # "error"
      /\ codec.completed => said' = said
  BY <1>1 DEF ChatAgrees, Quiet
<1>6. IF codec'.completed THEN Complete(ChatCodec!FinishReason(said.reason))'
      ELSE client'.answer.reason = "none"
  BY <1>1, <1>5 DEF ChatAgrees, Complete, ChatCodec!FinishReason
<1>7. /\ ChatClient(client)' /\ codec'.pc = "ranging" /\ client'.answer.end = "none"
      /\ codec' \in [pc : {"ranging", "returned"}, completed : BOOLEAN, usage : Counts,
                     reason : StopReasons]
  BY <1>1 DEF ChatAgrees
<1> QED
  BY <1>2, <1>3, <1>4, <1>5, <1>6, <1>7 DEF ChatAgrees

\* The loop ends.
LEMMA ChatEnds ==
  ASSUME ChatAgrees, AnswerOK, codec.pc = "ranging",
         NEW end \in {"error", "cut", "gone", "clean"},
         codec' = [codec EXCEPT !.pc = "returned"],
         client' = EndsAs(client, end),
         said.end = "error" => end \in {"error", "gone"},
         end = "error" => said.end = "error",
         end = "clean" => codec.completed /\ said.reason # "none",
         UNCHANGED <<upstream, inbound, said>>,
         end = "clean" => Over'
  PROVE  ChatAgrees' /\ AnswerOK'
<1> DEFINE answer == [client.answer EXCEPT !.end = end]
<1>1. client' = ChatClientOf(answer, client.ids, client.shown, client.broken)
  BY DEF ChatAgrees, ChatClient, IsAnswer, ChatClientOf, EndsAs
<1>2. IsAnswer(answer) /\ answer.end = end /\ answer.reason = client.answer.reason
      /\ answer.usage = client.answer.usage
  BY DEF ChatAgrees, ChatClient, IsAnswer
<1>3. client.ids \in [Indices -> CallIds]
  BY DEF ChatAgrees, ChatClient
<1> HIDE DEF answer
<1>4. ChatClient(client)' /\ client'.answer = answer
  BY <1>1, <1>2, <1>3, ChatClientFields
<1>5. codec' \in [pc : {"ranging", "returned"}, completed : BOOLEAN, usage : Counts,
                  reason : StopReasons]
      /\ codec'.pc = "returned"
  BY DEF ChatAgrees
<1>6. AnswerOK'
  BY <1>2, <1>4 DEF AnswerOK
<1>7. Returned(ChatCodec!FinishReason(said.reason))'
  BY <1>2, <1>4 DEF Returned, Complete, ChatAgrees, ChatCodec!FinishReason
<1> QED
  BY <1>4, <1>5, <1>6, <1>7 DEF ChatAgrees

\* The Chat codec receives an event: codec and client agree with what has then been heard.
LEMMA ChatEvent ==
  ASSUME ChatAgrees, AnswerOK, EndKnown, EndKnown', queue # <<>>,
         NEW ev, Passed(ev), ChatCodec!Receive(ev), UNCHANGED <<upstream, inbound, up, said>>
  PROVE  ChatAgrees' /\ AnswerOK'
<1>1. /\ codec.pc = "ranging" /\ ~Over /\ ~codec.completed /\ client.answer.reason = "none"
      /\ client.answer.end = "none"
  BY DEF ChatAgrees, ChatCodec!Receive, Over
<1>2. /\ ev \in AnthropicCodec!AnyEvent /\ EndPassed(ev) /\ UsagePassed(ev)
      /\ ev.usage \in Counts /\ ev.response \in Counts
      /\ codec.usage \in Counts /\ UsageHeard(codec.usage) /\ codec.reason = HeardReason
      /\ codec.reason \in StopReasons /\ codec.completed \in BOOLEAN
      /\ ChatClient(client)
  BY <1>1 DEF Passed, ChatAgrees, UsagePassed
<1> DEFINE usage  == Collected(codec.usage, ev)
           reason == IF ev.reason # "none" THEN ev.reason ELSE codec.reason
<1>3. /\ usage \in Counts
      /\ said'.usage = NoUsage => usage = NoUsage
      /\ upstream' = "anthropic" => usage = HeardUsage'
  BY <1>2, UsageCollected
<1>4. reason = HeardReason' /\ reason \in StopReasons
  BY <1>2 DEF EndPassed, EndKnown
<1>5. ChatCodec!Noted(ev) = [pc |-> "ranging", completed |-> FALSE, usage |-> usage,
                             reason |-> reason]
  <2>1. ChatCodec!Noted(ev) = [codec EXCEPT !.usage = usage, !.reason = reason]
    BY Zenon DEF ChatCodec!Noted, Collected
  <2> HIDE DEF usage, reason
  <2> QED
    BY <1>1, <2>1 DEF ChatAgrees
<1>6. ChatCodec!StopUsage(ev) = AtStop(codec.usage, ev) /\ ChatCodec!StopReason(ev) = reason
  <2>1. ChatCodec!Noted(ev).usage = usage
    BY <1>5
  <2> QED
    BY <2>1, Zenon DEF ChatCodec!StopUsage, ChatCodec!StopReason, AtStop
<1> HIDE DEF usage, reason
<1>7. CASE ChatCodec!OnEvent(ev)
  <2>1. /\ codec' = [pc |-> "ranging", completed |-> FALSE, usage |-> usage, reason |-> reason]
        /\ client' = ChatCodec!Written(ev) /\ ~Over'
    BY <1>2, <1>5, <1>7 DEF ChatCodec!OnEvent, EndPassed
  <2>2. /\ ChatClient(client)' /\ client'.answer.end = "none" /\ client'.answer.reason = "none"
        /\ client'.answer.usage \in {client.answer.usage, ev.usage}
    BY <1>1, <1>2, <2>1, ChatWritten
  <2>3. UsageHeard(codec.usage)'
    BY <1>3, <2>1 DEF UsageHeard
  <2>4. AnswerOK'
    BY <1>2, <2>2 DEF AnswerOK, ChatClient, UsagePassed
  <2>5. codec' \in [pc : {"ranging", "returned"}, completed : BOOLEAN, usage : Counts,
                    reason : StopReasons]
    BY <1>3, <1>4, <2>1
  <2> QED
    BY <1>4, <2>1, <2>2, <2>3, <2>4, <2>5 DEF ChatAgrees
<1>8. CASE ChatCodec!OnStop(ev)
  <2> DEFINE told  == ChatCodec!FinishReason(reason)
             ended == [client EXCEPT !.answer.reason = told]
             next  == ChatCodec!SeesUsage(ended, said.usage)
  <2>1. Over' /\ said.end = "clean" /\ reason = said.reason /\ said.usage \in {NoUsage, Total}
    BY <1>2, <1>4, <1>8 DEF ChatCodec!OnStop, EndPassed, EndKnown
  <2>2. ChatCodec!StopUsage(ev) = said.usage
    BY <1>2, <1>6, <1>8, <2>1, UsageAtStop DEF ChatCodec!OnStop
  <2>3. /\ codec' = [ChatCodec!Noted(ev) EXCEPT !.completed = TRUE]
        /\ client' = next
    <3>1. client' = ChatCodec!Takes(client, TRUE, next)
      BY <1>6, <1>8, <2>2, Zenon DEF ChatCodec!OnStop, ChatCodec!SeesFinish
    <3> HIDE DEF next
    <3> QED
      BY <1>1, <1>8, <3>1, Zenon DEF ChatCodec!OnStop, ChatCodec!Takes
  <2>4. codec' = [pc |-> "ranging", completed |-> TRUE, usage |-> usage, reason |-> reason]
    <3>1. PICK k : k = ChatCodec!Noted(ev)
      OBVIOUS
    <3>2. k = [pc |-> "ranging", completed |-> FALSE, usage |-> usage, reason |-> reason]
      BY <1>5, <3>1
    <3>3. codec' = [k EXCEPT !.completed = TRUE]
      BY <2>3, <3>1, Zenon
    <3> QED
      BY <3>2, <3>3
  <2>5. /\ ChatClient(ended) /\ ended.answer.end = "none" /\ ended.answer.usage = client.answer.usage
        /\ ended.answer.reason = told
    <3> HIDE DEF told
    <3> DEFINE answer == [client.answer EXCEPT !.reason = told]
    <3>1. ended = ChatClientOf(answer, client.ids, client.shown, client.broken)
      BY <1>2 DEF ChatClient, IsAnswer, ChatClientOf
    <3>2. IsAnswer(answer) /\ answer.end = client.answer.end /\ answer.reason = told
          /\ answer.usage = client.answer.usage
      BY <1>2 DEF ChatClient, IsAnswer
    <3>3. client.ids \in [Indices -> CallIds]
      BY <1>2 DEF ChatClient
    <3> HIDE DEF answer, ended
    <3>4. ChatClient(ended) /\ ended.answer = answer
      BY <3>1, <3>2, <3>3, ChatClientFields
    <3> QED
      BY <1>1, <3>2, <3>4
  <2> HIDE DEF ended
  <2>6. /\ ChatClient(client)' /\ client'.answer.end = "none"
        /\ client'.answer.reason = ChatCodec!FinishReason(said.reason)
        /\ client'.answer.usage = said.usage
    <3>1. said.usage = NoUsage => client.answer.usage = NoUsage
      BY DEF AnswerOK
    <3> QED
      BY <2>1, <2>3, <2>5, <3>1, ChatSeesUsage
  <2>7. UsageHeard(codec.usage)'
    BY <1>3, <2>4 DEF UsageHeard
  <2>8. AnswerOK'
    BY <2>6 DEF AnswerOK, ChatClient, EndKnown
  <2>9. Complete(ChatCodec!FinishReason(said.reason))'
    BY <2>6 DEF Complete, ChatCodec!FinishReason
  <2>10. codec' \in [pc : {"ranging", "returned"}, completed : BOOLEAN, usage : Counts,
                     reason : StopReasons]
    BY <1>3, <1>4, <2>4
  <2> QED
    BY <1>4, <2>1, <2>4, <2>6, <2>7, <2>8, <2>9, <2>10 DEF ChatAgrees
<1>9. CASE ChatCodec!OnError(ev)
  <2>1. /\ codec' = [codec EXCEPT !.pc = "returned"] /\ client' = EndsAs(client, "error")
    BY <1>9, Zenon DEF ChatCodec!OnError, ChatCodec!SeesError, EndsAs
  <2>2. said.end = "error"
    BY <1>2, <1>9 DEF EndPassed, ChatCodec!OnError
  <2> QED
    BY <1>1, <2>1, <2>2, ChatEnds
<1> QED
  BY <1>7, <1>8, <1>9 DEF ChatCodec!Receive

\* The channel is closed, or the client has left.
LEMMA ChatEndsLoop ==
  ASSUME ChatAgrees, AnswerOK, EndKnown, UNCHANGED <<upstream, inbound, up, queue, said>>,
         \/ ChatCodec!SeesEnd /\ queue = <<>> /\ up.phase = "closed"
         \/ ChatCodec!WriteFails
  PROVE  ChatAgrees' /\ AnswerOK'
<1>1. CASE ChatCodec!SeesEnd /\ queue = <<>> /\ up.phase = "closed"
  <2>1. Over /\ Over'
    BY <1>1 DEF EndKnown, Over
  <2>2. codec.pc = "ranging" /\ codec' = [codec EXCEPT !.pc = "returned"]
    BY <1>1 DEF ChatCodec!SeesEnd
  <2>3. said.end # "error"
    BY <2>1, <2>2 DEF ChatAgrees
  <2>4. CASE codec.completed
    <3>1. client' = EndsAs(client, "clean")
      BY <1>1, <2>4, Zenon DEF ChatCodec!SeesEnd, ChatCodec!SeesDone, EndsAs
    <3>2. said.reason # "none"
      BY <2>1, <2>2, <2>4 DEF ChatAgrees, EndKnown
    <3> QED
      BY <2>1, <2>2, <2>3, <2>4, <3>1, <3>2, ChatEnds
  <2>5. CASE ~codec.completed
    <3>1. client' = EndsAs(client, "cut")
      BY <1>1, <2>5, Zenon DEF ChatCodec!SeesEnd, EndsAs
    <3> QED
      BY <2>2, <2>3, <3>1, ChatEnds
  <2> QED
    BY <2>4, <2>5
<1>2. CASE ChatCodec!WriteFails
  <2>1. /\ codec.pc = "ranging" /\ codec' = [codec EXCEPT !.pc = "returned"]
        /\ client' = EndsAs(client, "gone")
    BY <1>2, Zenon DEF ChatCodec!WriteFails, EndsAs
  <2> QED
    BY <2>1, ChatEnds
<1> QED
  BY <1>1, <1>2

-----------------------------------------------------------------------------
(* A Gemini client.                                                        *)

GeminiClientOf(answer, broken) == [answer |-> answer, broken |-> broken]

\* The fields of a Gemini client.
LEMMA GeminiClientFields ==
  ASSUME NEW answer, IsAnswer(answer), NEW broken
  PROVE  /\ GeminiClient(GeminiClientOf(answer, broken))
         /\ GeminiClientOf(answer, broken).answer = answer
         /\ GeminiClientOf(answer, broken).broken = broken
<1> DEFINE c == GeminiClientOf(answer, broken)
<1>1. c.answer = answer /\ c.broken = broken
  BY DEF GeminiClientOf
<1>2. c = [answer |-> c.answer, broken |-> c.broken]
  BY <1>1, Zenon DEF GeminiClientOf
<1> HIDE DEF c
<1>3. GeminiClient(c)
  BY <1>1, <1>2 DEF GeminiClient
<1> QED
  BY <1>1, <1>3 DEF c

\* What updates leave of a client.
GeminiUpdate(c, pieces, calls) == [c EXCEPT !.answer.pieces = pieces, !.answer.calls = calls]

\* An update of such a client keeps the end that it knows.
LEMMA GeminiUpdated ==
  ASSUME NEW c, GeminiClient(c), NEW pieces, NEW calls, NEW d, d = GeminiUpdate(c, pieces, calls)
  PROVE  GeminiClient(d) /\ SameEnd(c, d) /\ d.broken = c.broken
<1>1. IsAnswer(c.answer)
  BY DEF GeminiClient
<1>2. PICK a, b : c = GeminiClientOf(a, b)
  BY DEF GeminiClient, GeminiClientOf
<1>3. a = c.answer /\ b = c.broken
  BY <1>2 DEF GeminiClientOf
<1> DEFINE a1 == [c.answer EXCEPT !.pieces = pieces]
           c1 == [c EXCEPT !.answer = a1]
           a2 == [c1.answer EXCEPT !.calls = calls]
           c2 == [c1 EXCEPT !.answer = a2]
<1>4. a1 = AnswerOf(pieces, a.calls, a.reason, a.usage, a.end)
  BY <1>1, <1>3 DEF IsAnswer, AnswerOf
<1> HIDE DEF a1
<1>5. c1 = GeminiClientOf(a1, b) /\ c1.answer = a1
  BY <1>2 DEF GeminiClientOf
<1> HIDE DEF c1
<1>6. a2 = AnswerOf(pieces, calls, a.reason, a.usage, a.end)
  BY <1>4, <1>5 DEF AnswerOf
<1> HIDE DEF a2
<1>7. c2 = GeminiClientOf(a2, b)
  BY <1>5 DEF GeminiClientOf
<1>8. d = c2
  BY Zenon DEF GeminiUpdate, c1, a1, a2
<1> HIDE DEF c2
<1> QED
  BY <1>3, <1>6, <1>7, <1>8, AnswerFields, GeminiClientFields DEF SameEnd

\* The same of its flag that the stream is ill formed.
LEMMA GeminiBroken ==
  ASSUME NEW c, GeminiClient(c), NEW broken
  PROVE  LET d == [c EXCEPT !.broken = broken]
         IN  GeminiClient(d) /\ SameEnd(c, d)
<1> DEFINE d == [c EXCEPT !.broken = broken]
<1>1. d = GeminiClientOf(c.answer, broken)
  BY DEF GeminiClient, GeminiClientOf
<1> HIDE DEF d
<1>2. GeminiClient(d) /\ SameEnd(c, d)
  BY <1>1, GeminiClientFields DEF GeminiClient, SameEnd
<1> QED
  BY <1>2 DEF d

\* The client sees a part: the end that it knows is the same.
LEMMA GeminiSeesPart ==
  ASSUME NEW c, GeminiClient(c), NEW kind, NEW frags
  PROVE  LET d == GeminiCodec!SeesPart(c, kind, frags)
         IN  /\ GeminiClient(d) /\ SameEnd(c, d)
             /\ c.answer.reason = "none" => d.broken = c.broken
<1> DEFINE pieces == c.answer.pieces \o GeminiCodec!Fragments(kind, NoId, frags)
           taken  == [c EXCEPT !.answer.pieces = pieces]
           broken == [c EXCEPT !.broken = TRUE]
           d      == GeminiCodec!SeesPart(c, kind, frags)
<1>1. d \in {taken, broken}
  <2>1. taken = [c EXCEPT !.answer.pieces = @ \o GeminiCodec!Fragments(kind, NoId, frags)]
    BY DEF GeminiClient, IsAnswer
  <2> QED
    BY <2>1, Zenon DEF GeminiCodec!SeesPart
<1> HIDE DEF pieces
<1>2. taken = GeminiUpdate(c, pieces, c.answer.calls)
  BY DEF GeminiUpdate, GeminiClient, IsAnswer
<1>3. GeminiClient(broken) /\ SameEnd(c, broken)
  BY GeminiBroken
<1>4. c.answer.reason = "none" => d = taken
  <2>1. taken = [c EXCEPT !.answer.pieces = @ \o GeminiCodec!Fragments(kind, NoId, frags)]
    BY DEF GeminiClient, IsAnswer, pieces
  <2> QED
    BY <2>1, Zenon DEF GeminiCodec!SeesPart
<1> HIDE DEF taken, broken, d
<1>5. GeminiClient(d) /\ SameEnd(c, d)
  BY <1>1, <1>2, <1>3, GeminiUpdated
<1>6. c.answer.reason = "none" => d.broken = c.broken
  BY <1>2, <1>4, GeminiUpdated
<1> QED
  BY <1>5, <1>6, Zenon DEF d

\* The calls may come: each has its id, and the reason has not been told.
CallsFit(c, calls) ==
    \/ calls = <<>>
    \/ c.answer.reason = "none" /\ \A i \in 1..Len(calls) : calls[i].id # NoId

\* The client sees the calls that were buffered: the end that it knows is the same.
LEMMA GeminiSeesCalls ==
  ASSUME NEW c, GeminiClient(c), NEW calls
  PROVE  LET d == GeminiCodec!SeesCalls(c, calls)
         IN  /\ GeminiClient(d) /\ SameEnd(c, d)
             /\ CallsFit(c, calls) => d.broken = c.broken
<1> DEFINE args   == [i \in 1..Len(calls) |->
                        GeminiCodec!Fragments("tool_use", calls[i].id, calls[i].args)]
           pieces == c.answer.pieces \o GeminiCodec!FlattenSeq(args)
           made   == c.answer.calls \o [i \in 1..Len(calls) |-> calls[i].id]
           taken  == [c EXCEPT !.answer.pieces = @ \o GeminiCodec!FlattenSeq(args),
                               !.answer.calls = @ \o [i \in 1..Len(calls) |-> calls[i].id]]
           broken == [c EXCEPT !.broken = TRUE]
           d      == GeminiCodec!SeesCalls(c, calls)
<1>1. d \in {c, taken, broken}
  BY Zenon DEF GeminiCodec!SeesCalls
<1>2. taken = GeminiUpdate(c, pieces, made)
  BY DEF GeminiUpdate, GeminiClient, IsAnswer
<1>3. GeminiClient(broken) /\ SameEnd(c, broken)
  BY GeminiBroken
<1>4. CallsFit(c, calls) => d = c \/ d = taken
  BY Zenon DEF GeminiCodec!SeesCalls, CallsFit, NoId, GeminiCodec!NoId
<1> HIDE DEF taken, broken, d, pieces, made
<1>5. GeminiClient(d) /\ SameEnd(c, d)
  BY <1>1, <1>2, <1>3, GeminiUpdated DEF SameEnd
<1>6. CallsFit(c, calls) => d.broken = c.broken
  BY <1>2, <1>4, GeminiUpdated
<1> QED
  BY <1>5, <1>6, Zenon DEF d

\* A field of the answer that is told.
LEMMA GeminiAnswers ==
  ASSUME NEW c, GeminiClient(c), NEW x
  PROVE  /\ GeminiClient(TellsUsage(c, x)) /\ TellsUsage(c, x).answer.usage = x
         /\ TellsUsage(c, x).answer.end = c.answer.end
         /\ TellsUsage(c, x).answer.reason = c.answer.reason
         /\ GeminiClient(TellsReason(c, x)) /\ TellsReason(c, x).answer.reason = x
         /\ TellsReason(c, x).answer.end = c.answer.end
         /\ TellsReason(c, x).answer.usage = c.answer.usage
         /\ GeminiClient(EndsAs(c, x)) /\ EndsAs(c, x).answer.end = x
         /\ EndsAs(c, x).answer.reason = c.answer.reason
         /\ EndsAs(c, x).answer.usage = c.answer.usage
         /\ TellsUsage(c, x).broken = c.broken /\ TellsReason(c, x).broken = c.broken
         /\ EndsAs(c, x).broken = c.broken
<1> DEFINE a1 == [c.answer EXCEPT !.usage = x]
           a2 == [c.answer EXCEPT !.reason = x]
           a3 == [c.answer EXCEPT !.end = x]
           d1 == TellsUsage(c, x)
           d2 == TellsReason(c, x)
           d3 == EndsAs(c, x)
<1>1. /\ d1 = GeminiClientOf(a1, c.broken)
      /\ d2 = GeminiClientOf(a2, c.broken)
      /\ d3 = GeminiClientOf(a3, c.broken)
  BY DEF GeminiClient, IsAnswer, GeminiClientOf, TellsUsage, TellsReason, EndsAs
<1>2. /\ IsAnswer(a1) /\ a1.usage = x /\ a1.end = c.answer.end /\ a1.reason = c.answer.reason
      /\ IsAnswer(a2) /\ a2.reason = x /\ a2.end = c.answer.end /\ a2.usage = c.answer.usage
      /\ IsAnswer(a3) /\ a3.end = x /\ a3.reason = c.answer.reason /\ a3.usage = c.answer.usage
  BY DEF GeminiClient, IsAnswer
<1> HIDE DEF a1, a2, a3, d1, d2, d3
<1>3. /\ GeminiClient(d1) /\ d1.answer = a1 /\ d1.broken = c.broken
      /\ GeminiClient(d2) /\ d2.answer = a2 /\ d2.broken = c.broken
      /\ GeminiClient(d3) /\ d3.answer = a3 /\ d3.broken = c.broken
  BY <1>1, <1>2, GeminiClientFields
<1> QED
  BY <1>2, <1>3 DEF d1, d2, d3

\* The client sees usage metadata: it has that usage, unless none is told.
LEMMA GeminiSeesUsage ==
  ASSUME NEW c, GeminiClient(c), NEW usage
  PROVE  LET d == GeminiCodec!SeesUsage(c, usage)
         IN  /\ GeminiClient(d) /\ d.broken = c.broken
             /\ d.answer.end = c.answer.end /\ d.answer.reason = c.answer.reason
             /\ d.answer.usage = IF usage = NoUsage THEN c.answer.usage ELSE usage
<1> DEFINE e == TellsUsage(c, usage)
           d == GeminiCodec!SeesUsage(c, usage)
<1>1. d = IF usage = NoUsage THEN c ELSE e
  BY Zenon DEF GeminiCodec!SeesUsage, TellsUsage
<1>2. /\ GeminiClient(e) /\ e.answer.usage = usage /\ e.broken = c.broken
      /\ e.answer.end = c.answer.end /\ e.answer.reason = c.answer.reason
  BY GeminiAnswers
<1> HIDE DEF d, e
<1>3. /\ GeminiClient(d) /\ d.broken = c.broken
      /\ d.answer.end = c.answer.end /\ d.answer.reason = c.answer.reason
      /\ d.answer.usage = IF usage = NoUsage THEN c.answer.usage ELSE usage
  BY <1>1, <1>2
<1> QED
  BY <1>3 DEF d

\* What is written of a delta.
LEMMA GeminiWritten ==
  ASSUME GeminiClient(client), NEW ev
  PROVE  LET d == GeminiCodec!WrittenDelta(ev)
         IN  /\ GeminiClient(d) /\ d.answer.end = client.answer.end
             /\ d.answer.reason = IF ev.reason = "none" THEN client.answer.reason
                                  ELSE GeminiCodec!FinishReason(ev.reason)
             /\ d.answer.usage \in {client.answer.usage, ev.usage}
             /\ ev.part.kind \notin {"text", "thinking"} \/ client.answer.reason = "none"
                  => d.broken = client.broken
<1> DEFINE frags   == IF ev.part.frag = 0 THEN <<>> ELSE <<ev.part.frag>>
           part    == GeminiCodec!SeesPart(client, ev.part.kind, frags)
           content == IF ev.part.kind \in {"text", "thinking"} THEN part ELSE client
           told    == GeminiCodec!FinishReason(ev.reason)
           finish  == TellsReason(content, told)
           ended   == IF ev.reason = "none" THEN content ELSE finish
           d       == GeminiCodec!WrittenDelta(ev)
<1>1. d = GeminiCodec!SeesUsage(ended, ev.usage)
  BY Zenon DEF GeminiCodec!WrittenDelta, GeminiCodec!SeesFinish, TellsReason
<1>2. GeminiClient(content) /\ SameEnd(client, content)
  <2>1. GeminiClient(part) /\ SameEnd(client, part)
    BY GeminiSeesPart
  <2> HIDE DEF part
  <2> QED
    BY <2>1 DEF SameEnd
<1> DEFINE fits == ev.part.kind \notin {"text", "thinking"} \/ client.answer.reason = "none"
<1>3. fits => content.broken = client.broken
  <2>1. client.answer.reason = "none" => part.broken = client.broken
    BY GeminiSeesPart
  <2> HIDE DEF part
  <2> QED
    BY <2>1
<1> HIDE DEF content, told, d
<1>4. /\ GeminiClient(finish) /\ finish.answer.reason = told /\ finish.broken = content.broken
      /\ finish.answer.end = content.answer.end /\ finish.answer.usage = content.answer.usage
  BY <1>2, GeminiAnswers
<1> HIDE DEF finish
<1>5. /\ GeminiClient(ended) /\ ended.answer.end = client.answer.end
      /\ ended.answer.reason = IF ev.reason = "none" THEN client.answer.reason ELSE told
      /\ ended.answer.usage = client.answer.usage /\ ended.broken = content.broken
  BY <1>2, <1>4 DEF SameEnd
<1> HIDE DEF ended
<1>6. /\ GeminiClient(d) /\ d.answer.end = client.answer.end
      /\ d.answer.reason = IF ev.reason = "none" THEN client.answer.reason ELSE told
      /\ d.answer.usage \in {client.answer.usage, ev.usage} /\ d.broken = content.broken
  BY <1>1, <1>5, GeminiSeesUsage
<1> QED
  BY <1>6, <1>3 DEF d, told

GeminiCodecOf(pc, usage, reason, pending, order) ==
    [pc |-> pc, usage |-> usage, reason |-> reason, pending |-> pending, order |-> order]

\* While the provider speaks and the reader reads, codec and client are as they were.
LEMMA GeminiQuiet ==
  ASSUME GeminiAgrees, AnswerOK, Quiet, codec.pc # "returned",
         UNCHANGED <<upstream, inbound, codec, client>>
  PROVE  GeminiAgrees' /\ AnswerOK'
<1>1. codec.pc = "ranging"
  BY DEF GeminiAgrees
<1>2. AnswerOK'
  BY DEF AnswerOK, Quiet
<1>3. UsageHeard(codec.usage)'
  BY <1>1, UsageQuiet DEF GeminiAgrees, UsageHeard
<1>4. codec'.reason = HeardReason' /\ HeardReason' = HeardReason
  BY <1>1 DEF GeminiAgrees, Quiet
<1>5. /\ Over' => said'.end # "error"
      /\ Over' /\ said'.end = "clean" => client'.answer.usage = said'.usage
  BY <1>1 DEF GeminiAgrees, Quiet
<1>6. client'.answer.reason = IF HeardReason' = "none" THEN "none"
                              ELSE GeminiCodec!FinishReason(HeardReason)'
  BY <1>1, <1>4 DEF GeminiAgrees, GeminiCodec!FinishReason
<1>7. /\ GeminiClient(client)' /\ codec'.pc = "ranging" /\ client'.answer.end = "none"
      /\ codec' = [pc |-> codec'.pc, usage |-> codec'.usage, reason |-> codec'.reason,
                   pending |-> codec'.pending, order |-> codec'.order]
  BY <1>1 DEF GeminiAgrees
<1> QED
  BY <1>2, <1>3, <1>4, <1>5, <1>6, <1>7 DEF GeminiAgrees

\* The codec goes on.
LEMMA GeminiGoes ==
  ASSUME NEW usage, NEW reason, NEW pending, NEW order,
         codec' = GeminiCodecOf("ranging", usage, reason, pending, order),
         usage \in Counts, said'.usage = NoUsage => usage = NoUsage,
         upstream' = "anthropic" => usage = HeardUsage',
         reason = HeardReason', GeminiClient(client'),
         client'.answer.end = "none", client'.answer.usage \in Counts,
         said'.usage = NoUsage => client'.answer.usage = NoUsage,
         Over' => said'.end # "error",
         Over' /\ said'.end = "clean" => client'.answer.usage = said'.usage,
         client'.answer.reason = IF HeardReason' = "none" THEN "none"
                                 ELSE GeminiCodec!FinishReason(HeardReason')
  PROVE  GeminiAgrees' /\ AnswerOK'
<1>1. /\ codec'.pc = "ranging" /\ codec'.usage = usage /\ codec'.reason = HeardReason'
      /\ codec' = [pc |-> codec'.pc, usage |-> codec'.usage, reason |-> codec'.reason,
                   pending |-> codec'.pending, order |-> codec'.order]
  BY DEF GeminiCodecOf
<1>2. AnswerOK'
  BY DEF AnswerOK, GeminiClient
<1>3. UsageHeard(codec.usage)'
  BY <1>1 DEF UsageHeard
<1> QED
  BY <1>1, <1>2, <1>3 DEF GeminiAgrees, GeminiCodec!FinishReason

\* The loop ends.
LEMMA GeminiEnds ==
  ASSUME inbound = "gemini", GeminiAgrees, AnswerOK, codec.pc = "ranging", codec'.pc = "returned",
         codec' = [pc |-> codec'.pc, usage |-> codec'.usage, reason |-> codec'.reason,
                   pending |-> codec'.pending, order |-> codec'.order],
         NEW end \in {"error", "cut", "gone", "clean"},
         NEW c, GeminiClient(c), SameEnd(client, c), client' = EndsAs(c, end),
         said.end = "error" => end \in {"error", "gone"},
         end = "error" => said.end = "error",
         UNCHANGED <<upstream, inbound, said>>,
         end = "clean" => Over /\ Over' /\ EndKnown /\ client.answer.reason # "none"
  PROVE  GeminiAgrees' /\ AnswerOK'
<1>1. /\ GeminiClient(client)' /\ client'.answer.end = end
      /\ client'.answer.reason = client.answer.reason
      /\ client'.answer.usage = client.answer.usage
  BY GeminiAnswers DEF SameEnd
<1>2. AnswerOK'
  BY <1>1 DEF AnswerOK, GeminiClient
<1>3. Returned(GeminiCodec!FinishReason(said.reason))'
  <2>1. CASE end = "clean"
    <3>1. /\ said.reason # "none" /\ Over' /\ HeardReason = said.reason
          /\ client.answer.reason = GeminiCodec!FinishReason(said.reason)
          /\ said.end = "clean" => client.answer.usage = said.usage
      BY <2>1 DEF GeminiAgrees, EndKnown
    <3> QED
      BY <1>1, <2>1, <3>1 DEF Returned, Complete, GeminiCodec!FinishReason
  <2>2. CASE end # "clean"
    BY <1>1, <2>2 DEF Returned
  <2> QED
    BY <2>1, <2>2
<1> QED
  BY <1>1, <1>2, <1>3 DEF GeminiAgrees

\* An event is received.
LEMMA GeminiEvent ==
  ASSUME inbound = "gemini", GeminiAgrees, AnswerOK, EndKnown, EndKnown', queue # <<>>,
         NEW ev, Passed(ev), GeminiCodec!Receive(ev), UNCHANGED <<upstream, inbound, up, said>>
  PROVE  GeminiAgrees' /\ AnswerOK'
<1>1. /\ codec.pc = "ranging" /\ ~Over /\ client.answer.end = "none"
      /\ client.answer.reason = IF HeardReason = "none" THEN "none"
                                ELSE GeminiCodec!FinishReason(HeardReason)
      /\ codec = [pc |-> codec.pc, usage |-> codec.usage, reason |-> codec.reason,
                  pending |-> codec.pending, order |-> codec.order]
  BY DEF GeminiAgrees, GeminiCodec!Receive, Over
<1>2. /\ ev \in AnthropicCodec!AnyEvent /\ EndPassed(ev) /\ UsagePassed(ev)
      /\ ev.usage \in Counts /\ ev.response \in Counts
      /\ said.usage = NoUsage => ev.usage = NoUsage
      /\ UsageHeard(codec.usage) /\ codec.reason = HeardReason /\ GeminiClient(client)
      /\ client.answer.usage \in Counts
      /\ said.usage = NoUsage => client.answer.usage = NoUsage
  BY <1>1 DEF Passed, GeminiAgrees, UsagePassed, AnswerOK
<1> DEFINE usage  == Collected(codec.usage, ev)
           reason == IF ev.reason # "none" THEN ev.reason ELSE codec.reason
           noted  == GeminiCodec!Noted(ev)
<1>3. /\ usage \in Counts
      /\ said'.usage = NoUsage => usage = NoUsage
      /\ upstream' = "anthropic" => usage = HeardUsage'
  BY <1>2, UsageCollected
<1>4. reason = HeardReason'
  BY <1>2 DEF EndPassed
<1>5. noted = GeminiCodecOf("ranging", usage, reason, codec.pending, codec.order)
  <2>1. noted = [codec EXCEPT !.usage = usage, !.reason = reason]
    BY Zenon DEF GeminiCodec!Noted, Collected
  <2> HIDE DEF usage, reason
  <2> QED
    BY <1>1, <2>1 DEF GeminiCodecOf
<1>6. GeminiCodec!StopUsage(ev) = AtStop(codec.usage, ev) /\ GeminiCodec!StopReason(ev) = reason
  <2>1. noted.usage = usage
    BY <1>5 DEF GeminiCodecOf
  <2> QED
    BY <2>1, Zenon DEF GeminiCodec!StopUsage, GeminiCodec!StopReason, AtStop
<1> DEFINE flushed == GeminiCodec!ClientFlushed(client)
<1>7. GeminiClient(flushed) /\ SameEnd(client, flushed)
  BY <1>2, GeminiSeesCalls DEF GeminiCodec!ClientFlushed
<1> DEFINE calls == [i \in Indices |-> GeminiCodec!NoCall]
<1>8. GeminiCodec!Flushed(noted) = GeminiCodecOf("ranging", usage, reason, calls, <<>>)
  <2>1. GeminiCodec!Flushed(noted) = [noted EXCEPT !.pending = calls, !.order = <<>>]
    BY Zenon DEF GeminiCodec!Flushed
  <2> HIDE DEF usage, reason, noted, calls
  <2> QED
    BY <1>5, <2>1 DEF GeminiCodecOf
<1> HIDE DEF usage, reason, noted, flushed, calls
<1>9. CASE GeminiCodec!OnTool(ev)
  <2>1. ~Over' /\ client' = client /\ ev.part # NoPart
    BY <1>2, <1>9 DEF GeminiCodec!OnTool, EndPassed
  <2>2. HeardReason' = HeardReason
    BY <1>2, <2>1, <1>9 DEF EndPassed, GeminiCodec!OnTool
  <2>3. PICK pending, order : codec' = GeminiCodecOf("ranging", usage, reason, pending, order)
    <3>1. PICK p, o : codec' = [noted EXCEPT !.pending = p, !.order = o]
      <4> DEFINE call == GeminiCodec!Buffered(noted.pending[ev.index], ev.part)
                 p == [noted.pending EXCEPT ![ev.index] = call]
                 o == IF GeminiCodec!Contains(noted.order, ev.index) THEN noted.order
                      ELSE Append(noted.order, ev.index)
      <4>1. codec' = [noted EXCEPT !.pending[ev.index] = GeminiCodec!Buffered(@, ev.part),
                                   !.order = IF GeminiCodec!Contains(@, ev.index) THEN @
                                             ELSE Append(@, ev.index)]
        BY <1>9, Zenon DEF GeminiCodec!OnTool, noted
      <4>2. codec' = [noted EXCEPT !.pending = p, !.order = o]
        <5> HIDE DEF call
        <5> QED
          BY <1>5, <4>1 DEF GeminiCodecOf, call
      <4> QED
        BY <4>2
    <3> QED
      BY <1>5, <3>1 DEF GeminiCodecOf
  <2> QED
    BY <1>1, <1>2, <1>3, <1>4, <2>1, <2>2, <2>3, GeminiGoes
<1>10. CASE GeminiCodec!OnOther(ev)
  <2>1. codec' = noted /\ ~Over' /\ ev.type \in {"start", "content_block_start", "delta"}
    BY <1>2, <1>10 DEF GeminiCodec!OnOther, EndPassed, noted
  <2>2. /\ GeminiClient(client') /\ client'.answer.end = "none"
        /\ client'.answer.reason = IF HeardReason' = "none" THEN "none"
                                   ELSE GeminiCodec!FinishReason(HeardReason')
        /\ client'.answer.usage \in {client.answer.usage, ev.usage}
    <3>1. CASE ev.type = "delta"
      <4>1. client' = GeminiCodec!WrittenDelta(ev)
        BY <1>10, <3>1, Zenon DEF GeminiCodec!OnOther
      <4>2. /\ GeminiClient(client') /\ client'.answer.end = client.answer.end
            /\ client'.answer.reason = IF ev.reason = "none" THEN client.answer.reason
                                       ELSE GeminiCodec!FinishReason(ev.reason)
            /\ client'.answer.usage \in {client.answer.usage, ev.usage}
        BY <1>2, <4>1, GeminiWritten
      <4>3. HeardReason' = IF ev.reason # "none" THEN ev.reason ELSE HeardReason
        BY <1>2 DEF EndPassed
      <4> QED
        BY <1>1, <4>2, <4>3
    <3>2. CASE ev.type # "delta"
      <4>1. client' \in {client, GeminiCodec!SeesUsage(client, ev.usage)}
        BY <1>10, <3>2, Zenon DEF GeminiCodec!OnOther
      <4>2. HeardReason' = HeardReason
        BY <1>2, <2>1, <3>2 DEF EndPassed
      <4>3. /\ GeminiClient(client') /\ client'.answer.end = client.answer.end
            /\ client'.answer.reason = client.answer.reason
            /\ client'.answer.usage \in {client.answer.usage, ev.usage}
        BY <1>2, <4>1, GeminiSeesUsage
      <4> QED
        BY <1>1, <4>2, <4>3
    <3> QED
      BY <3>1, <3>2
  <2> QED
    BY <1>2, <1>3, <1>4, <1>5, <2>1, <2>2, GeminiGoes
<1>11. CASE GeminiCodec!OnBlockStop(ev)
  <2>1. /\ codec' = GeminiCodecOf("ranging", usage, reason, calls, <<>>)
        /\ client' = flushed /\ ~Over'
    BY <1>2, <1>8, <1>11 DEF GeminiCodec!OnBlockStop, EndPassed, noted, flushed
  <2>2. HeardReason' = HeardReason
    BY <1>2, <1>11 DEF EndPassed, GeminiCodec!OnBlockStop
  <2> QED
    BY <1>1, <1>2, <1>3, <1>4, <1>7, <2>1, <2>2, GeminiGoes DEF SameEnd
<1>12. CASE GeminiCodec!OnStop(ev)
  <2> DEFINE told  == GeminiCodec!FinishReason(reason)
             ended == TellsReason(flushed, told)
  <2>1. Over' /\ said.end = "clean" /\ reason = said.reason /\ said.usage \in {NoUsage, Total}
        /\ said.reason # "none"
    BY <1>2, <1>4, <1>12 DEF GeminiCodec!OnStop, EndPassed, EndKnown
  <2>2. GeminiCodec!StopUsage(ev) = said.usage
    BY <1>2, <1>6, <1>12, <2>1, UsageAtStop DEF GeminiCodec!OnStop
  <2>3. /\ codec' = GeminiCodecOf("ranging", usage, reason, calls, <<>>)
        /\ client' = GeminiCodec!SeesUsage(ended, said.usage)
    BY <1>6, <1>8, <1>12, <2>2, Zenon DEF GeminiCodec!OnStop, GeminiCodec!SeesFinish, TellsReason,
      noted, flushed
  <2>4. /\ GeminiClient(ended) /\ ended.answer.reason = told
        /\ ended.answer.end = flushed.answer.end /\ ended.answer.usage = flushed.answer.usage
    BY <1>7, GeminiAnswers
  <2> HIDE DEF ended, told
  <2>5. /\ GeminiClient(client') /\ client'.answer.end = "none"
        /\ client'.answer.reason = told
        /\ client'.answer.usage = said.usage
    <3>1. /\ ended.answer.end = "none" /\ ended.answer.usage = client.answer.usage
      BY <1>1, <1>7, <2>4 DEF SameEnd
    <3> QED
      BY <1>2, <2>1, <2>3, <2>4, <3>1, GeminiSeesUsage
  <2>6. HeardReason' = said.reason
    BY <1>4, <2>1
  <2> QED
    BY <1>3, <1>4, <2>1, <2>3, <2>5, <2>6, GeminiGoes DEF EndKnown, told
<1>13. CASE GeminiCodec!OnError(ev)
  <2>1. /\ codec' = [codec EXCEPT !.pc = "returned"] /\ client' = EndsAs(client, "error")
    BY <1>13, Zenon DEF GeminiCodec!OnError, GeminiCodec!SeesError, EndsAs
  <2>2. codec' = GeminiCodecOf("returned", codec.usage, codec.reason, codec.pending, codec.order)
    BY <1>1, <2>1 DEF GeminiCodecOf
  <2>3. /\ codec'.pc = "returned"
        /\ codec' = [pc |-> codec'.pc, usage |-> codec'.usage, reason |-> codec'.reason,
                     pending |-> codec'.pending, order |-> codec'.order]
    BY <2>2 DEF GeminiCodecOf
  <2>4. SameEnd(client, client)
    BY DEF SameEnd
  <2>5. said.end = "error"
    BY <1>1, <1>13 DEF Passed, EndPassed, GeminiCodec!OnError
  <2> QED
    BY <1>1, <1>2, <2>1, <2>3, <2>4, <2>5, GeminiEnds
<1> QED
  BY <1>9, <1>10, <1>11, <1>12, <1>13 DEF GeminiCodec!Receive

\* The channel is closed, or the client has left.
LEMMA GeminiEndsLoop ==
  ASSUME inbound = "gemini", GeminiAgrees, AnswerOK, EndKnown,
         UNCHANGED <<upstream, inbound, up, queue, said>>,
         \/ GeminiCodec!SeesEnd /\ queue = <<>> /\ up.phase = "closed"
         \/ GeminiCodec!WriteFails
  PROVE  GeminiAgrees' /\ AnswerOK'
<1>1. /\ GeminiClient(client) /\ SameEnd(client, client)
      /\ codec = GeminiCodecOf(codec.pc, codec.usage, codec.reason, codec.pending, codec.order)
  BY DEF GeminiAgrees, SameEnd, GeminiCodecOf
<1>2. CASE GeminiCodec!SeesEnd /\ queue = <<>> /\ up.phase = "closed"
  <2> DEFINE calls == [i \in Indices |-> GeminiCodec!NoCall]
  <2>1. Over /\ Over'
    BY <1>2 DEF EndKnown, Over
  <2>2. codec.pc = "ranging" /\ said.end # "error"
    BY <1>2, <2>1 DEF GeminiCodec!SeesEnd, GeminiAgrees
  <2>3. /\ codec'.pc = "returned"
        /\ codec' = [pc |-> codec'.pc, usage |-> codec'.usage, reason |-> codec'.reason,
                     pending |-> codec'.pending, order |-> codec'.order]
    <3>1. PICK k : k = GeminiCodec!Flushed(codec)
      OBVIOUS
    <3>2. k = [codec EXCEPT !.pending = calls, !.order = <<>>] /\ codec' = [k EXCEPT !.pc = "returned"]
      BY <1>2, <3>1, Zenon DEF GeminiCodec!SeesEnd, GeminiCodec!Flushed
    <3> HIDE DEF calls
    <3>3. k = GeminiCodecOf(codec.pc, codec.usage, codec.reason, calls, <<>>)
      BY <1>1, <3>2 DEF GeminiCodecOf
    <3>4. codec' = GeminiCodecOf("returned", codec.usage, codec.reason, calls, <<>>)
      BY <3>2, <3>3 DEF GeminiCodecOf
    <3> QED
      BY <3>4 DEF GeminiCodecOf
  <2>4. PICK buffer : client' = GeminiCodec!SeesClose(GeminiCodec!SeesCalls(client, buffer))
    BY <1>2, Zenon DEF GeminiCodec!SeesEnd, GeminiCodec!ClientFlushedEmpty
  <2> DEFINE flushed == GeminiCodec!SeesCalls(client, buffer)
             end == IF flushed.answer.reason # "none" THEN "clean" ELSE "cut"
  <2>5. GeminiClient(flushed) /\ SameEnd(client, flushed)
    BY <1>1, GeminiSeesCalls
  <2>6. client' = EndsAs(flushed, end)
    BY <2>4, Zenon DEF GeminiCodec!SeesClose, EndsAs
  <2>7. end = "clean" => client.answer.reason # "none"
    BY <2>5 DEF SameEnd
  <2>8. end \in {"clean", "cut"}
    OBVIOUS
  <2> HIDE DEF flushed, end
  <2> QED
    BY <2>1, <2>2, <2>3, <2>5, <2>6, <2>7, <2>8, GeminiEnds
<1>3. CASE GeminiCodec!WriteFails
  <2>1. /\ codec.pc = "ranging" /\ codec' = [codec EXCEPT !.pc = "returned"]
        /\ client' = EndsAs(client, "gone")
    BY <1>3, Zenon DEF GeminiCodec!WriteFails, EndsAs
  <2>2. codec' = GeminiCodecOf("returned", codec.usage, codec.reason, codec.pending, codec.order)
    BY <1>1, <2>1 DEF GeminiCodecOf
  <2>3. /\ codec'.pc = "returned"
        /\ codec' = [pc |-> codec'.pc, usage |-> codec'.usage, reason |-> codec'.reason,
                     pending |-> codec'.pending, order |-> codec'.order]
    BY <2>2 DEF GeminiCodecOf
  <2> QED
    BY <1>1, <2>1, <2>3, GeminiEnds
<1> QED
  BY <1>2, <1>3

-----------------------------------------------------------------------------
(* A Responses client.                                                     *)

ResponsesClientOf(answer, created, items, broken) ==
    [answer |-> answer, created |-> created, items |-> items, broken |-> broken]

\* The fields of a Responses client.
LEMMA ResponsesClientFields ==
  ASSUME NEW answer, IsAnswer(answer), NEW created, NEW items, NEW broken
  PROVE  /\ ResponsesClient(ResponsesClientOf(answer, created, items, broken))
         /\ ResponsesClientOf(answer, created, items, broken).answer = answer
         /\ ResponsesClientOf(answer, created, items, broken).created = created
         /\ ResponsesClientOf(answer, created, items, broken).items = items
         /\ ResponsesClientOf(answer, created, items, broken).broken = broken
<1> DEFINE c == ResponsesClientOf(answer, created, items, broken)
<1>1. c.answer = answer /\ c.created = created /\ c.items = items /\ c.broken = broken
  BY DEF ResponsesClientOf
<1>2. c = [answer |-> c.answer, created |-> c.created, items |-> c.items, broken |-> c.broken]
  BY <1>1, Zenon DEF ResponsesClientOf
<1> HIDE DEF c
<1>3. ResponsesClient(c)
  BY <1>1, <1>2 DEF ResponsesClient
<1> QED
  BY <1>1, <1>3 DEF c

\* A client that is told nothing of the end.
GoesOn(c, d) == ResponsesClient(d) /\ SameEnd(c, d) /\ d.created = c.created

\* A client that sees nothing goes on as it is.
LEMMA ResponsesSame ==
  ASSUME NEW c, ResponsesClient(c)
  PROVE  GoesOn(c, c)
BY DEF GoesOn, SameEnd

\* One that goes on twice goes on.
LEMMA GoesOnTwice ==
  ASSUME NEW c, NEW d, NEW e, GoesOn(c, d), GoesOn(d, e)
  PROVE  GoesOn(c, e)
BY DEF GoesOn, SameEnd

\* What updates leave of a client.
ResponsesUpdate(c, items, pieces, calls) ==
    [c EXCEPT !.items = items, !.answer.pieces = pieces, !.answer.calls = calls]

\* An update of such a client keeps the end that it knows.
LEMMA ResponsesUpdated ==
  ASSUME NEW c, ResponsesClient(c), NEW items, NEW pieces, NEW calls
  PROVE  /\ GoesOn(c, ResponsesUpdate(c, items, pieces, calls))
         /\ ResponsesUpdate(c, items, pieces, calls).items = items
         /\ ResponsesUpdate(c, items, pieces, calls).broken = c.broken
<1>1. IsAnswer(c.answer)
  BY DEF ResponsesClient
<1>2. PICK a, k, i, b : c = ResponsesClientOf(a, k, i, b)
  BY DEF ResponsesClient, ResponsesClientOf
<1>3. a = c.answer /\ b = c.broken /\ k = c.created
  BY <1>2 DEF ResponsesClientOf
<1> DEFINE c1 == [c EXCEPT !.items = items]
           a2 == [c1.answer EXCEPT !.pieces = pieces]
           c2 == [c1 EXCEPT !.answer = a2]
           a3 == [c2.answer EXCEPT !.calls = calls]
           c3 == [c2 EXCEPT !.answer = a3]
<1>4. c1 = ResponsesClientOf(a, k, items, b) /\ c1.answer = a
  BY <1>2 DEF ResponsesClientOf
<1> HIDE DEF c1
<1>5. a2 = AnswerOf(pieces, a.calls, a.reason, a.usage, a.end)
  BY <1>1, <1>3, <1>4 DEF IsAnswer, AnswerOf
<1> HIDE DEF a2
<1>6. c2 = ResponsesClientOf(a2, k, items, b) /\ c2.answer = a2
  BY <1>4 DEF ResponsesClientOf
<1> HIDE DEF c2
<1>7. a3 = AnswerOf(pieces, calls, a.reason, a.usage, a.end)
  BY <1>5, <1>6 DEF AnswerOf
<1> HIDE DEF a3
<1>8. c3 = ResponsesClientOf(a3, k, items, b)
  BY <1>6 DEF ResponsesClientOf
<1>9. ResponsesUpdate(c, items, pieces, calls) = c3
  BY Zenon DEF ResponsesUpdate, c1, c2, a2, a3
<1> HIDE DEF c3
<1>10. /\ IsAnswer(a3) /\ a3.reason = a.reason /\ a3.usage = a.usage /\ a3.end = a.end
  BY <1>7, AnswerFields
<1>11. /\ ResponsesClient(c3) /\ c3.answer = a3 /\ c3.created = k /\ c3.items = items
       /\ c3.broken = b
  BY <1>8, <1>10, ResponsesClientFields
<1> QED
  BY <1>3, <1>9, <1>10, <1>11 DEF GoesOn, SameEnd

\* The same of its flag that the stream is ill formed.
LEMMA ResponsesBroken ==
  ASSUME NEW c, ResponsesClient(c), NEW broken
  PROVE  [c EXCEPT !.broken = broken] = ResponsesClientOf(c.answer, c.created, c.items, broken)
BY DEF ResponsesClient, ResponsesClientOf

\* The same of its flag that the response was created.
LEMMA ResponsesMade ==
  ASSUME NEW c, ResponsesClient(c), NEW created, NEW broken
  PROVE  [c EXCEPT !.created = created, !.broken = broken]
           = ResponsesClientOf(c.answer, created, c.items, broken)
<1> DEFINE c1 == [c EXCEPT !.created = created]
<1>1. c1 = ResponsesClientOf(c.answer, created, c.items, c.broken)
  BY DEF ResponsesClient, ResponsesClientOf
<1>2. [c EXCEPT !.created = created, !.broken = broken] = [c1 EXCEPT !.broken = broken]
  BY Zenon DEF c1
<1> HIDE DEF c1
<1>3. [c1 EXCEPT !.broken = broken] = ResponsesClientOf(c.answer, created, c.items, broken)
  BY <1>1 DEF ResponsesClientOf
<1> QED
  BY <1>2, <1>3

\* A client that takes content goes on.
LEMMA ResponsesTakes ==
  ASSUME NEW c, ResponsesClient(c), NEW wellFormed, NEW taken, GoesOn(c, taken)
  PROVE  GoesOn(c, ResponsesCodec!Takes(c, wellFormed, taken))
<1> DEFINE e == [c EXCEPT !.broken = TRUE]
           d == ResponsesCodec!Takes(c, wellFormed, taken)
<1>1. e = ResponsesClientOf(c.answer, c.created, c.items, TRUE)
  BY ResponsesBroken, Zenon
<1>2. d \in {taken, e}
  BY Zenon DEF ResponsesCodec!Takes
<1> HIDE DEF d, e
<1>3. GoesOn(c, e)
  <2>1. IsAnswer(c.answer)
    BY DEF ResponsesClient
  <2>2. PICK t : t = TRUE
    OBVIOUS
  <2>3. e = ResponsesClientOf(c.answer, c.created, c.items, t)
    BY <1>1, <2>2, Zenon
  <2>4. ResponsesClient(e) /\ e.answer = c.answer /\ e.created = c.created
    BY <2>1, <2>3, ResponsesClientFields
  <2> QED
    BY <2>4 DEF GoesOn, SameEnd
<1>4. GoesOn(c, d)
  BY <1>2, <1>3
<1> QED
  BY <1>4 DEF d

\* The client sees an item added.
LEMMA ResponsesSeesItemAdded ==
  ASSUME NEW c, ResponsesClient(c), NEW item
  PROVE  GoesOn(c, ResponsesCodec!SeesItemAdded(c, item))
<1> DEFINE new    == [output |-> item.output, kind |-> item.kind, call |-> item.call, open |-> TRUE]
           items  == Append(c.items, new)
           calls  == IF item.kind = "tool_use" THEN Append(c.answer.calls, item.call)
                     ELSE c.answer.calls
           taken  == [c EXCEPT !.items = Append(@, new),
                               !.answer.calls = IF item.kind = "tool_use"
                                                THEN Append(@, item.call) ELSE @]
           first  == \A i \in 1..Len(c.items) : c.items[i].output < item.output
<1>1. taken = ResponsesUpdate(c, items, c.answer.pieces, calls)
  <2> HIDE DEF new
  <2> QED
    BY DEF ResponsesUpdate, ResponsesClient, IsAnswer
<1>2. ResponsesCodec!SeesItemAdded(c, item) = ResponsesCodec!Takes(c, first, taken)
  BY Zenon DEF ResponsesCodec!SeesItemAdded
<1> HIDE DEF items, calls, taken, first
<1> QED
  BY <1>1, <1>2, ResponsesUpdated, ResponsesTakes

\* The client sees a delta of an item.
LEMMA ResponsesSeesDelta ==
  ASSUME NEW c, ResponsesClient(c), NEW item, NEW frag
  PROVE  GoesOn(c, ResponsesCodec!SeesDelta(c, item, frag))
<1> DEFINE piece  == ResponsesCodec!Piece(item.kind, item.call, frag)
           pieces == Append(c.answer.pieces, piece)
           taken  == [c EXCEPT !.answer.pieces = Append(@, piece)]
           open   == ResponsesCodec!OpenAt(c, item.output) # {}
<1>1. taken = ResponsesUpdate(c, c.items, pieces, c.answer.calls)
  <2> HIDE DEF piece
  <2> QED
    BY DEF ResponsesUpdate, ResponsesClient, IsAnswer
<1>2. ResponsesCodec!SeesDelta(c, item, frag) = ResponsesCodec!Takes(c, open, taken)
  BY Zenon DEF ResponsesCodec!SeesDelta
<1> HIDE DEF pieces, taken, open
<1> QED
  BY <1>1, <1>2, ResponsesUpdated, ResponsesTakes

\* The client sees items done.
LEMMA ResponsesSeesItemsDone ==
  ASSUME NEW c, ResponsesClient(c), NEW items
  PROVE  GoesOn(c, ResponsesCodec!SeesItemsDone(c, items))
<1> DEFINE done   == {item.output : item \in items}
           closed == [i \in 1..Len(c.items) |->
                        [c.items[i] EXCEPT !.open = @ /\ c.items[i].output \notin done]]
           taken  == [c EXCEPT !.items = closed]
           named  == \A item \in items :
                       \E i \in ResponsesCodec!OpenAt(c, item.output) : c.items[i].call = item.call
<1>1. ResponsesCodec!SeesItemsDone(c, items) = ResponsesCodec!Takes(c, named, taken)
  BY Zenon DEF ResponsesCodec!SeesItemsDone
<1> HIDE DEF closed, named
<1>2. taken = ResponsesUpdate(c, closed, c.answer.pieces, c.answer.calls)
  BY DEF ResponsesUpdate, ResponsesClient, IsAnswer
<1> HIDE DEF taken
<1> QED
  BY <1>1, <1>2, ResponsesUpdated, ResponsesTakes

\* The start of the response, and what the state machine writes of an event.
LEMMA ResponsesSeesCreated ==
  ASSUME ResponsesClient(client), client.created = codec.started, codec.started \in BOOLEAN
  PROVE  /\ ResponsesClient(ResponsesCodec!ClientStarted)
         /\ SameEnd(client, ResponsesCodec!ClientStarted)
         /\ ResponsesCodec!ClientStarted.created = TRUE
<1> DEFINE broken  == client.broken \/ client.created
           created == [client EXCEPT !.created = TRUE, !.broken = @ \/ client.created]
<1>1. ResponsesCodec!ClientStarted = IF codec.started THEN client ELSE created
  BY Zenon DEF ResponsesCodec!ClientStarted, ResponsesCodec!SeesCreated
<1>2. created = ResponsesClientOf(client.answer, TRUE, client.items, broken)
  <2>1. created = [client EXCEPT !.created = TRUE, !.broken = broken]
    BY DEF ResponsesClient
  <2> HIDE DEF broken, created
  <2> QED
    BY <2>1, ResponsesMade, Zenon
<1> HIDE DEF created, broken
<1>3. ResponsesClient(created) /\ SameEnd(client, created) /\ created.created = TRUE
  <2>1. IsAnswer(client.answer)
    BY DEF ResponsesClient
  <2>2. PICK t : t = TRUE
    OBVIOUS
  <2>3. created = ResponsesClientOf(client.answer, t, client.items, broken)
    BY <1>2, <2>2, Zenon
  <2>4. ResponsesClient(created) /\ created.answer = client.answer /\ created.created = t
    BY <2>1, <2>3, ResponsesClientFields
  <2> QED
    BY <2>2, <2>4 DEF SameEnd
<1>4. SameEnd(client, client)
  BY DEF SameEnd
<1> QED
  BY <1>1, <1>3, <1>4

\* The client sees what a codec writes to have an item.
LEMMA ResponsesClientEnsured ==
  ASSUME NEW c, ResponsesClient(c), NEW index, NEW part
  PROVE  GoesOn(c, ResponsesCodec!ClientEnsured(c, index, part))
<1>1. ResponsesCodec!ClientEnsured(c, index, part) \in
        {c, ResponsesCodec!SeesItemAdded(c, ResponsesCodec!NewItem(index, part))}
  BY Zenon DEF ResponsesCodec!ClientEnsured
<1> QED
  BY <1>1, ResponsesSame, ResponsesSeesItemAdded

\* The client sees a delta, and the item that it needs.
LEMMA ResponsesClientDelta ==
  ASSUME NEW c, ResponsesClient(c), NEW k, NEW index, NEW part
  PROVE  GoesOn(c, ResponsesCodec!ClientDelta(c, k, index, part))
<1>1. \E at : ResponsesCodec!ClientDelta(c, k, index, part) \in
                {c, ResponsesCodec!SeesDelta(c, k.items[at], part.frag)}
  BY Zenon DEF ResponsesCodec!ClientDelta
<1> QED
  BY <1>1, ResponsesSame, ResponsesSeesDelta

\* The client sees the items that the codec closes.
LEMMA ResponsesClientClosed ==
  ASSUME NEW c, ResponsesClient(c), NEW items
  PROVE  GoesOn(c, ResponsesCodec!ClientClosed(c, items))
<1>1. \E open : ResponsesCodec!ClientClosed(c, items) \in
                {c, ResponsesCodec!SeesItemsDone(c, open)}
  BY Zenon DEF ResponsesCodec!ClientClosed
<1> QED
  BY <1>1, ResponsesSame, ResponsesSeesItemsDone

\* The end of a Responses client, and of a response that is complete.
LEMMA ResponsesEndsAs ==
  ASSUME NEW c, ResponsesClient(c), NEW x
  PROVE  /\ ResponsesClient(EndsAs(c, x)) /\ EndsAs(c, x).answer.end = x
         /\ EndsAs(c, x).answer.reason = c.answer.reason
         /\ EndsAs(c, x).answer.usage = c.answer.usage
<1> DEFINE a == [c.answer EXCEPT !.end = x]
           d == EndsAs(c, x)
<1>1. d = ResponsesClientOf(a, c.created, c.items, c.broken)
  BY DEF ResponsesClient, IsAnswer, ResponsesClientOf, EndsAs
<1>2. IsAnswer(a) /\ a.end = x /\ a.reason = c.answer.reason /\ a.usage = c.answer.usage
  BY DEF ResponsesClient, IsAnswer
<1> HIDE DEF a, d
<1>3. ResponsesClient(d) /\ d.answer = a
  BY <1>1, <1>2, ResponsesClientFields
<1> QED
  BY <1>2, <1>3 DEF d

Completes(c, reason, usage, end) ==
    [c EXCEPT !.answer.reason = reason, !.answer.usage = usage, !.answer.end = end]

\* The client sees the end of the response: it has the reason, the usage and the end told.
LEMMA ResponsesCompletes ==
  ASSUME NEW c, ResponsesClient(c), NEW reason, NEW usage, NEW end
  PROVE  /\ ResponsesClient(Completes(c, reason, usage, end))
         /\ Completes(c, reason, usage, end).answer.end = end
         /\ Completes(c, reason, usage, end).answer.reason = reason
         /\ Completes(c, reason, usage, end).answer.usage = usage
<1>1. IsAnswer(c.answer)
  BY DEF ResponsesClient
<1>2. PICK a, k, i, b : c = ResponsesClientOf(a, k, i, b)
  BY DEF ResponsesClient, ResponsesClientOf
<1>3. a = c.answer
  BY <1>2 DEF ResponsesClientOf
<1> DEFINE a1 == [c.answer EXCEPT !.reason = reason]
           c1 == [c EXCEPT !.answer = a1]
           a2 == [c1.answer EXCEPT !.usage = usage]
           c2 == [c1 EXCEPT !.answer = a2]
           a3 == [c2.answer EXCEPT !.end = end]
           c3 == [c2 EXCEPT !.answer = a3]
<1>4. a1 = AnswerOf(a.pieces, a.calls, reason, a.usage, a.end)
  BY <1>1, <1>3 DEF IsAnswer, AnswerOf
<1> HIDE DEF a1
<1>5. c1 = ResponsesClientOf(a1, k, i, b) /\ c1.answer = a1
  BY <1>2 DEF ResponsesClientOf
<1> HIDE DEF c1
<1>6. a2 = AnswerOf(a.pieces, a.calls, reason, usage, a.end)
  BY <1>4, <1>5 DEF AnswerOf
<1> HIDE DEF a2
<1>7. c2 = ResponsesClientOf(a2, k, i, b) /\ c2.answer = a2
  BY <1>5 DEF ResponsesClientOf
<1> HIDE DEF c2
<1>8. a3 = AnswerOf(a.pieces, a.calls, reason, usage, end)
  BY <1>6, <1>7 DEF AnswerOf
<1> HIDE DEF a3
<1>9. c3 = ResponsesClientOf(a3, k, i, b)
  BY <1>7 DEF ResponsesClientOf
<1>10. Completes(c, reason, usage, end) = c3
  BY Zenon DEF Completes, c1, c2, c3, a1, a2, a3
<1> HIDE DEF c3
<1>11. IsAnswer(a3) /\ a3.reason = reason /\ a3.usage = usage /\ a3.end = end
  BY <1>8, AnswerFields
<1>12. ResponsesClient(c3) /\ c3.answer = a3
  BY <1>9, <1>11, ResponsesClientFields
<1> QED
  BY <1>10, <1>11, <1>12

\* The codec, and what its items leave of it.
ResponsesCodecOf(pc, started, usage, reason, nextOutput, items) ==
    [pc |-> pc, started |-> started, usage |-> usage, reason |-> reason,
     nextOutput |-> nextOutput, items |-> items]

IsResponsesCodec(k) ==
    k = [pc |-> k.pc, started |-> k.started, usage |-> k.usage, reason |-> k.reason,
         nextOutput |-> k.nextOutput, items |-> k.items]

KeepsTold(k, l) ==
    /\ IsResponsesCodec(l) /\ l.pc = k.pc /\ l.started = k.started
    /\ l.usage = k.usage /\ l.reason = k.reason

\* The fields of the Responses codec.
LEMMA ResponsesCodecFields ==
  ASSUME NEW pc, NEW started, NEW usage, NEW reason, NEW nextOutput, NEW items, NEW k,
         k = ResponsesCodecOf(pc, started, usage, reason, nextOutput, items)
  PROVE  /\ IsResponsesCodec(k) /\ k.pc = pc /\ k.started = started /\ k.usage = usage
         /\ k.reason = reason /\ k.nextOutput = nextOutput /\ k.items = items
<1>1. /\ k.pc = pc /\ k.started = started /\ k.usage = usage
      /\ k.reason = reason /\ k.nextOutput = nextOutput /\ k.items = items
  BY DEF ResponsesCodecOf
<1>2. IsResponsesCodec(k)
  BY <1>1, Zenon DEF ResponsesCodecOf, IsResponsesCodec
<1> QED
  BY <1>1, <1>2

\* The codec that has other items has collected the same.
LEMMA ResponsesCodecItems ==
  ASSUME NEW k, IsResponsesCodec(k), NEW nextOutput, NEW items
  PROVE  KeepsTold(k, [k EXCEPT !.nextOutput = nextOutput, !.items = items])
<1> DEFINE k1 == [k EXCEPT !.nextOutput = nextOutput]
           k2 == [k1 EXCEPT !.items = items]
<1>1. k1 = ResponsesCodecOf(k.pc, k.started, k.usage, k.reason, nextOutput, k.items)
  BY DEF IsResponsesCodec, ResponsesCodecOf
<1>2. [k EXCEPT !.nextOutput = nextOutput, !.items = items] = k2
  BY Zenon DEF k1, k2
<1> HIDE DEF k1
<1>3. k2 = ResponsesCodecOf(k.pc, k.started, k.usage, k.reason, nextOutput, items)
  BY <1>1 DEF ResponsesCodecOf
<1> HIDE DEF k2
<1>4. KeepsTold(k, k2)
  BY <1>3, ResponsesCodecFields DEF KeepsTold
<1> QED
  BY <1>2, <1>4

\* The same of one item that changes.
LEMMA ResponsesCodecItem ==
  ASSUME NEW k, IsResponsesCodec(k), NEW items
  PROVE  KeepsTold(k, [k EXCEPT !.items = items])
<1> DEFINE k2 == [k EXCEPT !.items = items]
<1>1. k2 = ResponsesCodecOf(k.pc, k.started, k.usage, k.reason, k.nextOutput, items)
  BY DEF IsResponsesCodec, ResponsesCodecOf
<1> HIDE DEF k2
<1>2. KeepsTold(k, k2)
  BY <1>1, ResponsesCodecFields DEF KeepsTold
<1> QED
  BY <1>2 DEF k2

\* The codec at another place in its loop.
LEMMA ResponsesCodecPc ==
  ASSUME NEW k, IsResponsesCodec(k), NEW pc
  PROVE  IsResponsesCodec([k EXCEPT !.pc = pc]) /\ [k EXCEPT !.pc = pc].pc = pc
<1> DEFINE k2 == [k EXCEPT !.pc = pc]
<1>1. k2 = ResponsesCodecOf(pc, k.started, k.usage, k.reason, k.nextOutput, k.items)
  BY DEF IsResponsesCodec, ResponsesCodecOf
<1> HIDE DEF k2
<1>2. IsResponsesCodec(k2) /\ k2.pc = pc
  BY <1>1, ResponsesCodecFields
<1> QED
  BY <1>2 DEF k2

\* A codec that makes an item has collected the same.
LEMMA ResponsesEnsured ==
  ASSUME NEW k, IsResponsesCodec(k), NEW index, NEW part
  PROVE  KeepsTold(k, ResponsesCodec!Ensured(k, index, part))
<1> DEFINE items == IF part.kind \in ResponsesCodec!ItemKinds
                    THEN Append(k.items, ResponsesCodec!NewItem(index, part)) ELSE k.items
           next  == k.nextOutput + 1
           added == [k EXCEPT !.nextOutput = next, !.items = items]
<1>1. ResponsesCodec!Ensured(k, index, part) \in {k, added}
  BY Zenon DEF ResponsesCodec!Ensured
<1> HIDE DEF items, next
<1>2. KeepsTold(k, added)
  BY ResponsesCodecItems
<1>3. KeepsTold(k, k)
  BY DEF KeepsTold
<1> HIDE DEF added
<1> QED
  BY <1>1, <1>2, <1>3

\* The same when it names the call of an item.
LEMMA ResponsesNamed ==
  ASSUME NEW k, IsResponsesCodec(k), NEW index, NEW part
  PROVE  KeepsTold(k, ResponsesCodec!Named(k, index, part))
<1>1. PICK items : ResponsesCodec!Named(k, index, part) = [k EXCEPT !.items = items]
  BY Zenon DEF ResponsesCodec!Named
<1> QED
  BY <1>1, ResponsesCodecItem

\* The same when it closes an item.
LEMMA ResponsesClosed ==
  ASSUME NEW k, IsResponsesCodec(k), NEW at
  PROVE  KeepsTold(k, ResponsesCodec!Closed(k, at))
<1>1. PICK items : items = [k.items EXCEPT ![at].closed = TRUE]
  OBVIOUS
<1>2. ResponsesCodec!Closed(k, at) = [k EXCEPT !.items = items]
  BY <1>1, Zenon DEF ResponsesCodec!Closed
<1> QED
  BY <1>2, ResponsesCodecItem

\* The usage that the codec has after an event.
LEMMA ResponsesUsage ==
  ASSUME NEW usage, UsageHeard(usage), NEW ev, UsagePassed(ev), upstream' = upstream,
         said' = said, NEW next,
         \/ ev.type = "start" /\ next = Merge(usage, ev.response)
         \/ ev.type = "start" /\ next = usage /\ upstream # "anthropic"
         \/ ev.type # "start" /\ next = Merge(usage, ev.usage)
  PROVE  /\ next \in Counts
         /\ said'.usage = NoUsage => next = NoUsage
         /\ upstream' = "anthropic" => next = HeardUsage'
<1>1. usage \in Counts /\ ev.usage \in Counts /\ ev.response \in Counts
  BY DEF UsageHeard, UsagePassed
<1>2. next \in Counts
  BY <1>1 DEF Counts
<1>3. said.usage = NoUsage => next = NoUsage
  BY DEF UsageHeard, UsagePassed
<1>4. ASSUME upstream = "anthropic" PROVE next = HeardUsage'
  <2>1. /\ usage = HeardUsage
        /\ HeardUsage' = Merge(Merge(HeardUsage, ev.usage), ev.response)
        /\ IF ev.type = "start" THEN ev.usage = NoUsage ELSE ev.response = NoUsage
    BY <1>4 DEF UsageHeard, UsagePassed
  <2> QED
    BY <1>1, <1>4, <2>1 DEF Counts
<1> QED
  BY <1>2, <1>3, <1>4

\* With the stop, the usage of an answer that tells all or nothing of it is all there.
LEMMA ResponsesStopUsage ==
  ASSUME NEW usage, UsageHeard(usage), NEW ev, UsagePassed(ev), ev.type = "stop",
         said.usage \in {NoUsage, Total}
  PROVE  Merge(usage, ev.usage) = said.usage
<1>1. usage \in Counts /\ ev.usage \in Counts
  BY DEF UsageHeard, UsagePassed
<1>2. CASE upstream = "anthropic"
  <2>1. usage = said.usage /\ ev.usage = NoUsage
    BY <1>2 DEF UsageHeard, UsagePassed
  <2> QED
    BY <1>1, <2>1 DEF Counts, Total
<1>3. CASE upstream # "anthropic"
  <2>1. ev.usage = said.usage /\ (said.usage = NoUsage => usage = NoUsage)
    BY <1>3 DEF UsageHeard, UsagePassed
  <2> QED
    BY <1>1, <2>1 DEF Counts, Total
<1> QED
  BY <1>2, <1>3

\* Provider and reader go on unheard: codec and client agree as before.
LEMMA ResponsesQuiet ==
  ASSUME ResponsesAgrees, AnswerOK, Quiet, codec.pc # "returned",
         UNCHANGED <<upstream, inbound, codec, client>>
  PROVE  ResponsesAgrees' /\ AnswerOK'
<1>1. codec.pc = "ranging"
  BY DEF ResponsesAgrees
<1>2. AnswerOK'
  BY DEF AnswerOK, Quiet
<1>3. UsageHeard(codec.usage)'
  BY <1>1, UsageQuiet DEF ResponsesAgrees, UsageHeard
<1>4. codec'.reason = HeardReason' /\ (Over' => said'.end \in {"cut", "unheard"})
  BY <1>1 DEF ResponsesAgrees, Quiet
<1>5. StartAwaited' => ~codec'.started
  BY <1>1 DEF ResponsesAgrees, Quiet
<1>6. /\ ResponsesClient(client)' /\ codec'.pc = "ranging"
      /\ client'.answer.end = "none" /\ client'.answer.reason = "none"
      /\ codec'.started \in BOOLEAN /\ client'.created = codec'.started
      /\ codec' = [pc |-> codec'.pc, started |-> codec'.started, usage |-> codec'.usage,
                   reason |-> codec'.reason, nextOutput |-> codec'.nextOutput,
                   items |-> codec'.items]
  BY <1>1 DEF ResponsesAgrees
<1> QED
  BY <1>2, <1>3, <1>4, <1>5, <1>6 DEF ResponsesAgrees

\* The codec goes on, with a client that it has told nothing of the end.
LEMMA ResponsesGoes ==
  ASSUME NEW c, ResponsesClient(c), GoesOn(c, client'), c.answer.end = "none",
         c.answer.reason = "none", c.answer.usage \in Counts,
         said'.usage = NoUsage => c.answer.usage = NoUsage,
         IsResponsesCodec(codec'), codec'.pc = "ranging", codec'.usage \in Counts,
         said'.usage = NoUsage => codec'.usage = NoUsage,
         upstream' = "anthropic" => codec'.usage = HeardUsage',
         codec'.reason = HeardReason', Over' => said'.end \in {"cut", "unheard"},
         codec'.started \in BOOLEAN, c.created = codec'.started, ~StartAwaited'
  PROVE  ResponsesAgrees' /\ AnswerOK'
<1>1. /\ ResponsesClient(client') /\ client'.answer.end = "none"
      /\ client'.answer.reason = "none" /\ client'.answer.usage = c.answer.usage
      /\ client'.created = codec'.started
  BY DEF GoesOn, SameEnd
<1>2. AnswerOK'
  BY <1>1 DEF AnswerOK, ResponsesClient
<1>3. UsageHeard(codec.usage)'
  BY DEF UsageHeard
<1>4. codec' = [pc |-> codec'.pc, started |-> codec'.started, usage |-> codec'.usage,
                reason |-> codec'.reason, nextOutput |-> codec'.nextOutput,
                items |-> codec'.items]
  BY DEF IsResponsesCodec
<1>5. ResponsesClient(client)'
  BY <1>1 DEF ResponsesClient
<1> QED
  BY <1>1, <1>2, <1>3, <1>4, <1>5 DEF ResponsesAgrees

\* The loop ends; only a response that is complete ends cleanly.
LEMMA ResponsesEnds ==
  ASSUME AnswerOK, IsResponsesCodec(codec'), codec'.pc = "returned",
         ResponsesClient(client'), client'.answer.end \in {"none", "error", "cut", "gone", "clean"},
         client'.answer.usage \in {client.answer.usage, said.usage}, said.usage \in Counts,
         UNCHANGED <<upstream, inbound, said>>,
         said.end = "error" => client'.answer.end \in {"error", "gone"},
         client'.answer.end = "error" => said.end = "error",
         client'.answer.end = "clean" =>
           /\ Over' /\ said.reason # "none" /\ said.end = "clean"
           /\ client'.answer.reason = ResponsesCodec!Status(said.reason)
           /\ client'.answer.usage = said.usage
  PROVE  ResponsesAgrees' /\ AnswerOK'
<1>1. AnswerOK'
  BY DEF AnswerOK, ResponsesClient
<1>2. Returned(ResponsesCodec!Status(said.reason))'
  <2>1. CASE client'.answer.end = "clean"
    BY <2>1 DEF Returned, Complete, ResponsesCodec!Status
  <2>2. CASE client'.answer.end # "clean"
    BY <2>2 DEF Returned
  <2> QED
    BY <2>1, <2>2
<1>3. codec' = [pc |-> codec'.pc, started |-> codec'.started, usage |-> codec'.usage,
                reason |-> codec'.reason, nextOutput |-> codec'.nextOutput,
                items |-> codec'.items]
  BY DEF IsResponsesCodec
<1>4. ResponsesClient(client)'
  BY DEF ResponsesClient
<1> QED
  BY <1>1, <1>2, <1>3, <1>4 DEF ResponsesAgrees

\* What is noted of an event, of whatever kind.
LEMMA ResponsesNoted ==
  ASSUME IsResponsesCodec(codec), NEW ev
  PROVE  /\ IsResponsesCodec(ResponsesCodec!Noted(ev))
         /\ ResponsesCodec!Noted(ev).pc = codec.pc
         /\ ResponsesCodec!Noted(ev).started = TRUE
         /\ ResponsesCodec!Noted(ev).usage = Merge(codec.usage, ev.usage)
         /\ ResponsesCodec!Noted(ev).reason =
              IF ev.reason # "none" THEN ev.reason ELSE codec.reason
<1> DEFINE usage  == Merge(codec.usage, ev.usage)
           reason == IF ev.reason # "none" THEN ev.reason ELSE codec.reason
           noted  == ResponsesCodec!Noted(ev)
<1>1. PICK t : t = TRUE
  OBVIOUS
<1> DEFINE k1 == [codec EXCEPT !.started = t]
           k2 == [k1 EXCEPT !.usage = usage]
           k3 == [k2 EXCEPT !.reason = reason]
<1>2. noted = [codec EXCEPT !.started = t, !.usage = usage, !.reason = reason]
  BY <1>1, Zenon DEF ResponsesCodec!Noted
<1>3. noted = k3
  BY <1>2, Zenon DEF k1, k2, k3
<1> HIDE DEF usage, reason, noted
<1>4. k1 = ResponsesCodecOf(codec.pc, t, codec.usage, codec.reason, codec.nextOutput, codec.items)
  BY DEF IsResponsesCodec, ResponsesCodecOf
<1> HIDE DEF k1
<1>5. k2 = ResponsesCodecOf(codec.pc, t, usage, codec.reason, codec.nextOutput, codec.items)
  BY <1>4 DEF ResponsesCodecOf
<1> HIDE DEF k2
<1>6. k3 = ResponsesCodecOf(codec.pc, t, usage, reason, codec.nextOutput, codec.items)
  BY <1>5 DEF ResponsesCodecOf
<1> HIDE DEF k3
<1>7. /\ IsResponsesCodec(noted) /\ noted.pc = codec.pc /\ noted.started = t
      /\ noted.usage = usage /\ noted.reason = reason
  BY <1>3, <1>6, ResponsesCodecFields
<1>8. noted.started = TRUE
  BY <1>1, <1>7, Zenon
<1> QED
  BY <1>7, <1>8 DEF noted, usage, reason

\* The codec once it has created the response.
LEMMA ResponsesStarted ==
  ASSUME IsResponsesCodec(codec), NEW usage, NEW k,
         k = [codec EXCEPT !.started = TRUE, !.usage = usage]
  PROVE  /\ IsResponsesCodec(k) /\ k.pc = codec.pc /\ k.started = TRUE
         /\ k.usage = usage /\ k.reason = codec.reason
<1>1. PICK t : t = TRUE
  OBVIOUS
<1> DEFINE k1 == [codec EXCEPT !.started = t]
           k2 == [k1 EXCEPT !.usage = usage]
<1>2. k = k2
  BY <1>1, Zenon DEF k1, k2
<1>3. k1 = ResponsesCodecOf(codec.pc, t, codec.usage, codec.reason, codec.nextOutput, codec.items)
  BY DEF IsResponsesCodec, ResponsesCodecOf
<1> HIDE DEF k1
<1>4. k2 = ResponsesCodecOf(codec.pc, t, usage, codec.reason, codec.nextOutput, codec.items)
  BY <1>3 DEF ResponsesCodecOf
<1> HIDE DEF k2
<1>5. /\ IsResponsesCodec(k2) /\ k2.pc = codec.pc /\ k2.started = t
      /\ k2.usage = usage /\ k2.reason = codec.reason
  BY <1>4, ResponsesCodecFields
<1>6. k2.started = TRUE
  BY <1>1, <1>5, Zenon
<1>7. /\ IsResponsesCodec(k2) /\ k2.pc = codec.pc
      /\ k2.usage = usage /\ k2.reason = codec.reason
  BY <1>5
<1> QED
  BY <1>2, <1>6, <1>7, Zenon

\* The response that a stop completes, or a stream that is broken.
LEMMA ResponsesStops ==
  ASSUME NEW c, ResponsesClient(c), NEW k
  PROVE  /\ ResponsesClient(ResponsesCodec!ClientCompleted(c, k))
         /\ \/ SameEnd(c, ResponsesCodec!ClientCompleted(c, k))
            \/ /\ ResponsesCodec!ClientCompleted(c, k).answer.end = "clean"
               /\ ResponsesCodec!ClientCompleted(c, k).answer.reason = ResponsesCodec!Status(k.reason)
               /\ ResponsesCodec!ClientCompleted(c, k).answer.usage = k.usage
<1> DEFINE d     == ResponsesCodec!ClientClosed(c, {k.items[i] : i \in 1..Len(k.items)})
           told  == ResponsesCodec!Status(k.reason)
           taken == Completes(d, told, k.usage, "clean")
           whole == \A i \in 1..Len(d.items) : ~d.items[i].open
           e     == [d EXCEPT !.broken = TRUE]
           done  == ResponsesCodec!ClientCompleted(c, k)
<1>1. GoesOn(c, d)
  BY ResponsesClientClosed
<1>2. done \in {taken, e}
  BY Zenon DEF ResponsesCodec!ClientCompleted, ResponsesCodec!SeesCompleted, ResponsesCodec!Takes,
    Completes
<1> HIDE DEF d, told
<1>3. /\ ResponsesClient(taken) /\ taken.answer.end = "clean"
      /\ taken.answer.reason = told /\ taken.answer.usage = k.usage
  BY <1>1, ResponsesCompletes DEF GoesOn
<1>4. ResponsesClient(e) /\ SameEnd(c, e)
  <2>1. ResponsesClient(d) /\ IsAnswer(d.answer)
    BY <1>1 DEF GoesOn, ResponsesClient
  <2>2. PICK t : t = TRUE
    OBVIOUS
  <2>3. e = ResponsesClientOf(d.answer, d.created, d.items, t)
    BY <2>1, <2>2, ResponsesBroken, Zenon
  <2>4. ResponsesClient(e) /\ e.answer = d.answer
    BY <2>1, <2>3, ResponsesClientFields
  <2> QED
    BY <1>1, <2>4 DEF GoesOn, SameEnd
<1> HIDE DEF taken, e, done
<1>5. /\ ResponsesClient(done)
      /\ \/ SameEnd(c, done)
         \/ done.answer.end = "clean" /\ done.answer.reason = told /\ done.answer.usage = k.usage
  BY <1>2, <1>3, <1>4
<1> QED
  BY <1>5 DEF done, told

\* An event is received.
LEMMA ResponsesEvent ==
  ASSUME ResponsesAgrees, AnswerOK, EndKnown, EndKnown', queue # <<>>,
         NEW ev, Passed(ev), ResponsesCodec!Receive(ev), UNCHANGED <<upstream, inbound, up, said>>
  PROVE  ResponsesAgrees' /\ AnswerOK'
<1>1. /\ codec.pc = "ranging" /\ client.answer.end = "none" /\ client.answer.reason = "none"
      /\ IsResponsesCodec(codec) /\ UsageHeard(codec.usage) /\ codec.reason = HeardReason
      /\ ResponsesClient(client)
      /\ codec.started \in BOOLEAN /\ client.created = codec.started
      /\ StartAwaited => ~codec.started
  BY DEF ResponsesAgrees, ResponsesCodec!Receive, IsResponsesCodec
<1>2. /\ ev \in AnthropicCodec!AnyEvent /\ EndPassed(ev) /\ UsagePassed(ev)
      /\ client.answer.usage \in Counts
      /\ said.usage = NoUsage => client.answer.usage = NoUsage
      /\ ~StartAwaited' /\ said.usage \in Counts
  BY DEF Passed, UsagePassed, AnswerOK, EndKnown
<1> DEFINE noted   == ResponsesCodec!Noted(ev)
           started == ResponsesCodec!ClientStarted
<1>3. /\ IsResponsesCodec(noted) /\ noted.pc = "ranging"
      /\ noted.usage = Merge(codec.usage, ev.usage)
      /\ noted.reason = IF ev.reason # "none" THEN ev.reason ELSE codec.reason
  BY <1>1, ResponsesNoted
<1>4. noted.started = TRUE
  BY <1>1, ResponsesNoted, Zenon
<1>5. noted.reason = HeardReason'
  BY <1>1, <1>2, <1>3 DEF EndPassed
<1>7. ResponsesClient(started) /\ SameEnd(client, started)
  BY <1>1, ResponsesSeesCreated
<1>8. started.created = TRUE
  BY <1>1, ResponsesSeesCreated, Zenon
<1>9. /\ started.answer.end = "none" /\ started.answer.reason = "none"
      /\ started.answer.usage = client.answer.usage
  BY <1>1, <1>7 DEF SameEnd
<1> HIDE DEF noted, started
<1>10. ASSUME KeepsTold(noted, codec'), GoesOn(started, client'), ev.type \notin {"start"}, ~Over'
       PROVE  ResponsesAgrees' /\ AnswerOK'
  <2>1. /\ codec'.pc = "ranging" /\ codec'.usage = noted.usage /\ codec'.reason = HeardReason'
        /\ IsResponsesCodec(codec')
    BY <1>3, <1>5, <1>10 DEF KeepsTold
  <2>2. codec'.started = TRUE /\ codec'.started \in BOOLEAN
    BY <1>4, <1>10 DEF KeepsTold
  <2>3. started.created = codec'.started
    BY <1>8, <2>2, Zenon
  <2>4. /\ codec'.usage \in Counts
        /\ said'.usage = NoUsage => codec'.usage = NoUsage
        /\ upstream' = "anthropic" => codec'.usage = HeardUsage'
    BY <1>1, <1>2, <1>3, <1>10, <2>1, ResponsesUsage
  <2> QED
    BY <1>2, <1>7, <1>9, <1>10, <2>1, <2>2, <2>3, <2>4, ResponsesGoes
<1>11. CASE ResponsesCodec!OnStart(ev)
  <2>1. ev.type = "start" /\ ev.reason = "none" /\ ~Over' /\ HeardReason' = codec.reason
        /\ client' = started
    BY <1>1, <1>2, <1>11 DEF ResponsesCodec!OnStart, EndPassed, started
  <2>2. GoesOn(started, client')
    BY <1>7, <2>1, ResponsesSame
  <2>3. CASE codec.started
    <3>1. codec' = codec /\ upstream # "anthropic"
      BY <1>1, <1>2, <1>11, <2>1, <2>3 DEF ResponsesCodec!OnStart, UsagePassed
    <3>2. /\ codec'.usage \in Counts
          /\ said'.usage = NoUsage => codec'.usage = NoUsage
          /\ upstream' = "anthropic" => codec'.usage = HeardUsage'
      BY <1>1, <1>2, <2>1, <3>1, ResponsesUsage
    <3>3. started.created = codec'.started /\ codec'.started \in BOOLEAN
      BY <1>1, <1>8, <2>3, <3>1, Zenon
    <3> QED
      BY <1>1, <1>2, <1>7, <1>9, <2>1, <2>2, <3>1, <3>2, <3>3, ResponsesGoes
  <2>4. CASE ~codec.started
    <3> DEFINE usage == Merge(codec.usage, ev.response)
    <3>1. codec' = [codec EXCEPT !.started = TRUE, !.usage = usage]
      BY <1>11, <2>4, Zenon DEF ResponsesCodec!OnStart
    <3> HIDE DEF usage
    <3>2. /\ IsResponsesCodec(codec') /\ codec'.pc = codec.pc
          /\ codec'.usage = usage /\ codec'.reason = codec.reason
      BY <1>1, <3>1, ResponsesStarted, ZenonT(30)
    <3>3. codec'.started = TRUE
      BY <1>1, <3>1, ResponsesStarted, Zenon
    <3>4. started.created = codec'.started /\ codec'.started \in BOOLEAN
      BY <1>8, <3>3, Zenon
    <3>5. /\ codec'.usage \in Counts
          /\ said'.usage = NoUsage => codec'.usage = NoUsage
          /\ upstream' = "anthropic" => codec'.usage = HeardUsage'
      BY <1>1, <1>2, <2>1, <3>2, ResponsesUsage DEF usage
    <3> QED
      BY <1>1, <1>2, <1>7, <1>9, <2>1, <2>2, <3>2, <3>4, <3>5, ResponsesGoes
  <2> QED
    BY <2>3, <2>4
<1>12. CASE ResponsesCodec!OnBlockStart(ev)
  <2>1. ev.type = "content_block_start" /\ ~Over'
    BY <1>2, <1>12 DEF ResponsesCodec!OnBlockStart, EndPassed
  <2>2. /\ codec' \in {noted, ResponsesCodec!Ensured(noted, ev.index, ev.part)}
        /\ client' \in {started, ResponsesCodec!ClientEnsured(started, ev.index, ev.part)}
    BY <1>12, Zenon DEF ResponsesCodec!OnBlockStart, noted, started
  <2>3. KeepsTold(noted, codec')
    BY <1>3, <2>2, ResponsesEnsured DEF KeepsTold
  <2>4. GoesOn(started, client')
    BY <1>7, <2>2, ResponsesSame, ResponsesClientEnsured
  <2> QED
    BY <1>10, <2>1, <2>3, <2>4
<1>13. CASE ResponsesCodec!OnDelta(ev)
  <2> DEFINE k == ResponsesCodec!Ensured(noted, ev.index, ev.part)
             c == ResponsesCodec!ClientEnsured(started, ev.index, ev.part)
  <2>1. ev.type = "delta" /\ ~Over'
    BY <1>2, <1>13 DEF ResponsesCodec!OnDelta, EndPassed
  <2>2. /\ codec' \in {noted, ResponsesCodec!Named(k, ev.index, ev.part)}
        /\ client' \in {started, ResponsesCodec!ClientDelta(c, k, ev.index, ev.part)}
    BY <1>13, Zenon DEF ResponsesCodec!OnDelta, noted, started
  <2>3. KeepsTold(noted, codec')
    <3>1. KeepsTold(noted, k)
      BY <1>3, ResponsesEnsured
    <3> HIDE DEF k
    <3>2. KeepsTold(k, ResponsesCodec!Named(k, ev.index, ev.part))
      BY <3>1, ResponsesNamed DEF KeepsTold
    <3> QED
      BY <1>3, <2>2, <3>1, <3>2 DEF KeepsTold
  <2>4. GoesOn(started, client')
    <3>1. GoesOn(started, c)
      BY <1>7, ResponsesClientEnsured
    <3> HIDE DEF c, k
    <3>2. GoesOn(c, ResponsesCodec!ClientDelta(c, k, ev.index, ev.part))
      BY <3>1, ResponsesClientDelta DEF GoesOn
    <3>3. GoesOn(started, ResponsesCodec!ClientDelta(c, k, ev.index, ev.part))
      BY <3>1, <3>2, GoesOnTwice
    <3> QED
      BY <1>7, <2>2, <3>3, ResponsesSame
  <2> QED
    BY <1>10, <2>1, <2>3, <2>4
<1>14. CASE ResponsesCodec!OnBlockStop(ev)
  <2>1. ev.type = "content_block_stop" /\ ~Over'
    BY <1>2, <1>14 DEF ResponsesCodec!OnBlockStop, EndPassed
  <2> DEFINE candidates == {i \in 1..Len(codec.items) : codec.items[i].source = ev.index}
  <2>2. PICK at, items : /\ codec' \in {noted, ResponsesCodec!Closed(noted, at)}
                         /\ client' \in {started, ResponsesCodec!ClientClosed(started, items)}
    <3>1. IF candidates = {} THEN codec' = noted /\ client' = started
          ELSE \E i \in candidates :
                 /\ codec' = ResponsesCodec!Closed(noted, i)
                 /\ client' = ResponsesCodec!ClientClosed(started, {codec.items[i]})
      BY <1>14, Zenon DEF ResponsesCodec!OnBlockStop, noted, started
    <3> HIDE DEF candidates
    <3>2. CASE candidates = {}
      BY <3>1, <3>2
    <3>3. CASE candidates # {}
      <4>1. PICK i \in candidates : /\ codec' = ResponsesCodec!Closed(noted, i)
                                    /\ client' = ResponsesCodec!ClientClosed(started, {codec.items[i]})
        BY <3>1, <3>3
      <4>2. PICK closed : closed = {codec.items[i]}
        OBVIOUS
      <4> QED
        BY <4>1, <4>2
    <3> QED
      BY <3>2, <3>3
  <2>3. KeepsTold(noted, codec')
    BY <1>3, <2>2, ResponsesClosed DEF KeepsTold
  <2>4. GoesOn(started, client')
    BY <1>7, <2>2, ResponsesSame, ResponsesClientClosed
  <2> QED
    BY <1>10, <2>1, <2>3, <2>4
<1>15. CASE ResponsesCodec!OnStop(ev)
  <2>1. /\ ev.type = "stop" /\ Over' /\ said.end = "clean" /\ noted.reason = said.reason
        /\ said.usage \in {NoUsage, Total} /\ said.reason # "none"
    BY <1>2, <1>5, <1>15 DEF ResponsesCodec!OnStop, EndPassed, EndKnown
  <2>2. noted.usage = said.usage
    BY <1>1, <1>2, <1>3, <2>1, ResponsesStopUsage
  <2>3. IsResponsesCodec(codec') /\ codec'.pc = "returned"
    <3>1. codec' = [noted EXCEPT !.pc = "returned"]
      BY <1>15 DEF ResponsesCodec!OnStop, noted
    <3> QED
      BY <1>3, <3>1, ResponsesCodecPc
  <2>4. client' = ResponsesCodec!ClientCompleted(started, noted)
    BY <1>15 DEF ResponsesCodec!OnStop, noted, started
  <2>5. /\ ResponsesClient(client')
        /\ \/ SameEnd(started, client')
           \/ /\ client'.answer.end = "clean" /\ client'.answer.usage = said.usage
              /\ client'.answer.reason = ResponsesCodec!Status(said.reason)
    BY <1>7, <2>1, <2>2, <2>4, ResponsesStops
  <2>6. /\ client'.answer.end \in {"none", "clean"}
        /\ client'.answer.usage \in {client.answer.usage, said.usage}
        /\ client'.answer.end = "clean" =>
             /\ client'.answer.usage = said.usage
             /\ client'.answer.reason = ResponsesCodec!Status(said.reason)
    BY <1>9, <2>5 DEF SameEnd
  <2> QED
    BY <1>2, <2>1, <2>3, <2>5, <2>6, ResponsesEnds
<1>16. CASE ResponsesCodec!OnError(ev)
  <2>1. /\ codec' = [codec EXCEPT !.pc = "returned"]
        /\ client' \in {EndsAs(started, "error"), EndsAs(client, "error")}
    BY <1>16, Zenon DEF ResponsesCodec!OnError, ResponsesCodec!SeesError, EndsAs, started
  <2>2. IsResponsesCodec(codec') /\ codec'.pc = "returned"
    BY <1>1, <2>1, ResponsesCodecPc
  <2>3. /\ ResponsesClient(client') /\ client'.answer.end = "error"
        /\ client'.answer.usage = client.answer.usage
    BY <1>1, <1>7, <1>9, <2>1, ResponsesEndsAs
  <2>4. said.end = "error"
    BY <1>16 DEF Passed, EndPassed, ResponsesCodec!OnError
  <2> QED
    BY <1>2, <2>2, <2>3, <2>4, ResponsesEnds
<1> QED
  BY <1>11, <1>12, <1>13, <1>14, <1>15, <1>16 DEF ResponsesCodec!Receive

\* The channel is closed, or the client has left.
LEMMA ResponsesEndsLoop ==
  ASSUME ResponsesAgrees, AnswerOK, EndKnown,
         UNCHANGED <<upstream, inbound, up, queue, said>>,
         \/ ResponsesCodec!SeesEnd /\ queue = <<>> /\ up.phase = "closed"
         \/ ResponsesCodec!WriteFails
  PROVE  ResponsesAgrees' /\ AnswerOK'
<1>1. PICK end \in {"cut", "gone"} :
        /\ codec.pc = "ranging" /\ codec' = [codec EXCEPT !.pc = "returned"]
        /\ client' = EndsAs(client, end)
        /\ end = "cut" => queue = <<>> /\ up.phase = "closed"
  BY Zenon DEF ResponsesCodec!SeesEnd, ResponsesCodec!WriteFails, EndsAs
<1>2. ResponsesClient(client) /\ IsResponsesCodec(codec) /\ said.usage \in Counts
  BY DEF ResponsesAgrees, IsResponsesCodec, EndKnown
<1>3. end = "cut" => said.end # "error"
  BY <1>1 DEF ResponsesAgrees, EndKnown
<1>4. IsResponsesCodec(codec') /\ codec'.pc = "returned"
  BY <1>1, <1>2, ResponsesCodecPc
<1>5. /\ ResponsesClient(client') /\ client'.answer.end = end
      /\ client'.answer.usage = client.answer.usage
  BY <1>1, <1>2, ResponsesEndsAs
<1> QED
  BY <1>2, <1>3, <1>4, <1>5, ResponsesEnds

-----------------------------------------------------------------------------
(* The Anthropic codec.  What AnthropicStreamProofs proves of it for any   *)
(* upstream holds of the codec of a translation: the instances are equal.  *)

AP == INSTANCE AnthropicStreamProofs

\* The client sees blocks in the same way.
LEMMA AnthropicSameBlocks ==
  /\ \A c, wellFormed, taken :
       AnthropicCodec!Takes(c, wellFormed, taken) = AP!Takes(c, wellFormed, taken)
  /\ \A c, index : AnthropicCodec!SeesBlockStop(c, index) = AP!SeesBlockStop(c, index)
  /\ \A c, index, part :
       AnthropicCodec!SeesBlockStart(c, index, part) = AP!SeesBlockStart(c, index, part)
  /\ \A c, index, kind, frags :
       AnthropicCodec!SeesDelta(c, index, kind, frags) = AP!SeesDelta(c, index, kind, frags)
  /\ \A c : AnthropicCodec!ClientClosed(c) = AP!ClientClosed(c)
  /\ \A c, kind, part :
       AnthropicCodec!ClientOpened(c, kind, part) = AP!ClientOpened(c, kind, part)
  /\ AnthropicCodec!NoBlock = AP!NoBlock /\ AnthropicCodec!ToolKinds = AP!ToolKinds
<1>1. \A c, wellFormed, taken :
        AnthropicCodec!Takes(c, wellFormed, taken) = AP!Takes(c, wellFormed, taken)
  BY Zenon DEF AnthropicCodec!Takes, AP!Takes
<1>2. AnthropicCodec!NoBlock = AP!NoBlock /\ AnthropicCodec!ToolKinds = AP!ToolKinds
  BY Zenon DEF AnthropicCodec!NoBlock, AP!NoBlock, AnthropicCodec!NoId, AP!NoId,
     AnthropicCodec!ToolKinds, AP!ToolKinds
<1>3. \A kind, call, n : AnthropicCodec!Piece(kind, call, n) = AP!Piece(kind, call, n)
  BY Zenon DEF AnthropicCodec!Piece, AP!Piece
<1>4. \A c, index : AnthropicCodec!SeesBlockStop(c, index) = AP!SeesBlockStop(c, index)
  BY <1>1, <1>2, Zenon DEF AnthropicCodec!SeesBlockStop, AP!SeesBlockStop
<1>5. \A c, index, part :
        AnthropicCodec!SeesBlockStart(c, index, part) = AP!SeesBlockStart(c, index, part)
  <2> SUFFICES ASSUME NEW c, NEW index, NEW part
               PROVE  AnthropicCodec!SeesBlockStart(c, index, part)
                        = AP!SeesBlockStart(c, index, part)
    OBVIOUS
  <2> DEFINE piece == AP!Piece(part.kind, part.id, part.frag)
             taken == [c EXCEPT
                         !.open = [index |-> index, kind |-> part.kind, call |-> part.id],
                         !.next = @ + 1,
                         !.answer.calls = IF part.kind = "tool_use" THEN Append(@, part.id) ELSE @,
                         !.answer.pieces = IF part.frag = 0 THEN @ ELSE Append(@, piece)]
             fits  == c.started /\ c.open = AP!NoBlock /\ index = c.next
  <2>1. AP!SeesBlockStart(c, index, part) = AP!Takes(c, fits, taken)
    BY Zenon DEF AP!SeesBlockStart
  <2>2. piece = AnthropicCodec!Piece(part.kind, part.id, part.frag)
    BY <1>3, Zenon
  <2> HIDE DEF piece
  <2>3. AnthropicCodec!SeesBlockStart(c, index, part) = AnthropicCodec!Takes(c, fits, taken)
    BY <1>2, <2>2, Zenon DEF AnthropicCodec!SeesBlockStart
  <2> HIDE DEF taken, fits
  <2> QED
    BY <1>1, <2>1, <2>3, Zenon
<1>6. \A c, index, kind, frags :
        AnthropicCodec!SeesDelta(c, index, kind, frags) = AP!SeesDelta(c, index, kind, frags)
  <2>1. \A kind, open : AnthropicCodec!FitsBlock(kind, open) <=> AP!FitsBlock(kind, open)
    BY <1>2, Zenon DEF AnthropicCodec!FitsBlock, AP!FitsBlock
  <2>2. \A kind, call, frags :
          AnthropicCodec!Fragments(kind, call, frags) = AP!Fragments(kind, call, frags)
    BY Zenon DEF AnthropicCodec!Fragments, AP!Fragments, AnthropicCodec!Piece, AP!Piece
  <2> QED
    BY <1>1, <2>1, <2>2, Zenon DEF AnthropicCodec!SeesDelta, AP!SeesDelta
<1>7. \A c : AnthropicCodec!ClientClosed(c) = AP!ClientClosed(c)
  BY <1>2, <1>4, Zenon DEF AnthropicCodec!ClientClosed, AP!ClientClosed
<1>8. \A kind, part : AnthropicCodec!BlockStartPart(kind, part) = AP!BlockStartPart(kind, part)
  BY Zenon DEF AnthropicCodec!BlockStartPart, AP!BlockStartPart, AnthropicCodec!WireKind,
     AP!WireKind, AnthropicCodec!Part, AP!Part, AnthropicCodec!NoId, AP!NoId,
     AnthropicCodec!ToolKinds, AP!ToolKinds
<1>9. \A c, kind, part :
        AnthropicCodec!ClientOpened(c, kind, part) = AP!ClientOpened(c, kind, part)
  BY <1>5, <1>7, <1>8, Zenon DEF AnthropicCodec!ClientOpened, AP!ClientOpened
<1> QED
  BY <1>1, <1>2, <1>4, <1>5, <1>6, <1>7, <1>9, Zenon

\* The instance of the codec in Translation and the one of its proofs flush in the same way.
LEMMA AnthropicSameFlush == AnthropicCodec!FlushTool <=> AP!FlushTool
<1>1. /\ \A kind, id, frag : AnthropicCodec!Part(kind, id, frag) = AP!Part(kind, id, frag)
      /\ AnthropicCodec!NoCall = AP!NoCall
  BY Zenon DEF AnthropicCodec!Part, AP!Part, AnthropicCodec!NoCall, AP!NoCall,
     AnthropicCodec!NoId, AP!NoId
<1> QED
  BY <1>1, AnthropicSameBlocks, Zenon DEF AnthropicCodec!FlushTool, AP!FlushTool

\* They finish, see the end and fail in the same way.
LEMMA AnthropicSameEnd ==
  /\ AnthropicCodec!Finish <=> AP!Finish
  /\ AnthropicCodec!SeesEnd <=> AP!SeesEnd
  /\ AnthropicCodec!WriteFails <=> AP!WriteFails
BY Zenon DEF AnthropicCodec!Finish, AP!Finish, AnthropicCodec!ClientFinished, AP!ClientFinished,
   AnthropicCodec!SeesStop, AP!SeesStop, AnthropicCodec!SeesMessageDelta, AP!SeesMessageDelta,
   AnthropicCodec!Takes, AP!Takes, AnthropicCodec!NoBlock, AP!NoBlock, AnthropicCodec!NoId,
   AP!NoId, AnthropicCodec!NoUsage, AP!NoUsage, AnthropicCodec!Usage, AP!Usage,
   AnthropicCodec!Merge, AP!Merge, AnthropicCodec!SeesEnd, AP!SeesEnd,
   AnthropicCodec!WriteFails, AP!WriteFails

\* They know the same events, and admit the same.
LEMMA AnthropicSameEvents ==
  /\ AnthropicCodec!AnyEvent = AP!AnyEvent
  /\ \A ev : AnthropicCodec!Admissible(ev) <=> AP!Admissible(ev)
BY Zenon DEF AnthropicCodec!Admissible, AP!Admissible, AnthropicCodec!AnyEvent, AP!AnyEvent,
   AnthropicCodec!Events, AP!Events, AnthropicCodec!Parts, AP!Parts, AnthropicCodec!PartKinds,
   AP!PartKinds, AnthropicCodec!CallIds, AP!CallIds, AnthropicCodec!Usages, AP!Usages,
   AnthropicCodec!NoPart, AP!NoPart, AnthropicCodec!Part, AP!Part, AnthropicCodec!NoBlock,
   AP!NoBlock, AnthropicCodec!NoId, AP!NoId, AnthropicCodec!StartKinds, AP!StartKinds,
   AnthropicCodec!BlockKinds, AP!BlockKinds, AnthropicCodec!OpaqueKinds, AP!OpaqueKinds,
   AnthropicCodec!ToolKinds, AP!ToolKinds

\* They receive an event in the same way.
LEMMA AnthropicSameReceive ==
  \A ev : AnthropicCodec!Receive(ev) <=> AP!Receive(ev)
<1>1. \A ev : AnthropicCodec!Noted(ev) = AP!Noted(ev)
  BY Zenon DEF AnthropicCodec!Noted, AP!Noted, AnthropicCodec!Merge, AP!Merge
<1>2. \A ev : AnthropicCodec!ClientGreeted(ev) = AP!ClientGreeted(ev)
  BY Zenon DEF AnthropicCodec!ClientGreeted, AP!ClientGreeted, AnthropicCodec!SeesStart,
     AP!SeesStart, AnthropicCodec!Takes, AP!Takes, AnthropicCodec!NoUsage, AP!NoUsage,
     AnthropicCodec!Usage, AP!Usage, AnthropicCodec!Merge, AP!Merge
<1>3. \A c : AnthropicCodec!ClientClosed(c) = AP!ClientClosed(c)
  BY AnthropicSameBlocks, Zenon
<1>4. \A c, kind, part :
        AnthropicCodec!ClientOpened(c, kind, part) = AP!ClientOpened(c, kind, part)
  BY AnthropicSameBlocks, Zenon
<1>5. \A c, index, kind, frags :
        AnthropicCodec!SeesDelta(c, index, kind, frags) = AP!SeesDelta(c, index, kind, frags)
  BY AnthropicSameBlocks, Zenon
<1>6. \A c, index, ev : AnthropicCodec!WriteDelta(c, index, ev) = AP!WriteDelta(c, index, ev)
  <2>1. \A c, reason, usage :
          AnthropicCodec!SeesMessageDelta(c, reason, usage) = AP!SeesMessageDelta(c, reason, usage)
    BY AnthropicSameBlocks, Zenon DEF AnthropicCodec!SeesMessageDelta, AP!SeesMessageDelta,
       AnthropicCodec!Merge, AP!Merge
  <2>2. AnthropicCodec!NoPart = AP!NoPart
    BY Zenon DEF AnthropicCodec!NoPart, AP!NoPart, AnthropicCodec!Part, AP!Part,
       AnthropicCodec!NoId, AP!NoId
  <2>3. \A kind : AnthropicCodec!WireKind(kind) = AP!WireKind(kind)
    BY Zenon DEF AnthropicCodec!WireKind, AP!WireKind
  <2> QED
    BY <1>5, <2>1, <2>2, <2>3, Zenon DEF AnthropicCodec!WriteDelta, AP!WriteDelta
<1>7. \A k, kind : AnthropicCodec!Opened(k, kind) = AP!Opened(k, kind)
  BY Zenon DEF AnthropicCodec!Opened, AP!Opened, AnthropicCodec!NoId, AP!NoId
<1>8. \A ev : AnthropicCodec!IsSynthetic(ev) <=> AP!IsSynthetic(ev)
  BY Zenon DEF AnthropicCodec!IsSynthetic, AP!IsSynthetic, AnthropicCodec!ToolKinds,
     AP!ToolKinds
<1>9. \A ev : AnthropicCodec!OnStart(ev) <=> AP!OnStart(ev)
  BY <1>1, Zenon DEF AnthropicCodec!OnStart, AP!OnStart, AnthropicCodec!SeesStart,
     AP!SeesStart, AnthropicCodec!Takes, AP!Takes, AnthropicCodec!Merge, AP!Merge
<1>10. \A ev : AnthropicCodec!OnBlockStart(ev) <=> AP!OnBlockStart(ev)
  <2>1. /\ AnthropicCodec!NoPart = AP!NoPart /\ AnthropicCodec!NoCall = AP!NoCall
        /\ AnthropicCodec!ToolKinds = AP!ToolKinds
    BY Zenon DEF AnthropicCodec!NoPart, AP!NoPart, AnthropicCodec!Part, AP!Part,
       AnthropicCodec!NoId, AP!NoId, AnthropicCodec!NoCall, AP!NoCall,
       AnthropicCodec!ToolKinds, AP!ToolKinds
  <2>2. \A order, index : AnthropicCodec!Dropped(order, index) = AP!Dropped(order, index)
    BY Zenon DEF AnthropicCodec!Dropped, AP!Dropped, AnthropicCodec!IsPending, AP!IsPending
  <2> SUFFICES ASSUME NEW ev
               PROVE  AnthropicCodec!OnBlockStart(ev) <=> AP!OnBlockStart(ev)
    OBVIOUS
  <2> DEFINE kind  == IF ev.part = AP!NoPart THEN "text" ELSE ev.part.kind
             k     == [AP!Opened(AP!Noted(ev), kind) EXCEPT
                         !.sourceIndex[ev.index] = codec.nextIndex]
             tool  == [k EXCEPT !.live = @ \cup {ev.index}, !.order = AP!Dropped(@, ev.index),
                                !.pending[ev.index] = AP!NoCall]
             after == IF kind \in AP!ToolKinds THEN tool ELSE k
             sees  == AP!ClientOpened(AP!ClientGreeted(ev), kind, ev.part)
  <2>3. AP!OnBlockStart(ev) <=>
          ev.type = "content_block_start" /\ codec' = after /\ client' = sees
    BY Zenon DEF AP!OnBlockStart
  <2>4. AnthropicCodec!OnBlockStart(ev) <=>
          ev.type = "content_block_start" /\ codec' = after /\ client' = sees
    BY <1>1, <1>2, <1>4, <1>7, <2>1, <2>2 DEF AnthropicCodec!OnBlockStart
  <2> QED
    BY <2>3, <2>4
<1>11. \A ev : AnthropicCodec!OnBlockStop(ev) <=> AP!OnBlockStop(ev)
  BY <1>1, <1>2, <1>3, Zenon DEF AnthropicCodec!OnBlockStop, AP!OnBlockStop,
     AnthropicCodec!StopsCurrent, AP!StopsCurrent, AnthropicCodec!Unmapped, AP!Unmapped,
     AnthropicCodec!NoBlock, AP!NoBlock, AnthropicCodec!NoId, AP!NoId
<1>12. \A ev : AnthropicCodec!OnToolDelta(ev) <=> AP!OnToolDelta(ev)
  BY <1>1, <1>2, <1>8, ZenonT(30) DEF AnthropicCodec!OnToolDelta, AP!OnToolDelta,
     AnthropicCodec!Buffered, AP!Buffered, AnthropicCodec!IsPending, AP!IsPending,
     AnthropicCodec!NoId, AP!NoId
<1>13. \A ev : AnthropicCodec!OnContentDelta(ev) <=> AP!OnContentDelta(ev)
  BY <1>1, <1>2, <1>4, <1>6, <1>7, <1>8, Zenon DEF AnthropicCodec!OnContentDelta,
     AP!OnContentDelta, AnthropicCodec!NeedsNewBlock, AP!NeedsNewBlock,
     AnthropicCodec!Unmapped, AP!Unmapped, AnthropicCodec!NoBlock, AP!NoBlock,
     AnthropicCodec!NoId, AP!NoId, AnthropicCodec!BlockKinds, AP!BlockKinds,
     AnthropicCodec!ToolKinds, AP!ToolKinds
<1>14. \A ev : AnthropicCodec!OnBareDelta(ev) <=> AP!OnBareDelta(ev)
  BY <1>1, <1>2, <1>6, Zenon DEF AnthropicCodec!OnBareDelta, AP!OnBareDelta,
     AnthropicCodec!NoUsage, AP!NoUsage, AnthropicCodec!Usage, AP!Usage,
     AnthropicCodec!NoPart, AP!NoPart, AnthropicCodec!Part, AP!Part, AnthropicCodec!NoId,
     AP!NoId
<1>15. \A ev : AnthropicCodec!OnStop(ev) <=> AP!OnStop(ev)
  BY <1>1, <1>2, <1>3, Zenon DEF AnthropicCodec!OnStop, AP!OnStop, AnthropicCodec!NoBlock,
     AP!NoBlock, AnthropicCodec!NoId, AP!NoId
<1>16. \A ev : AnthropicCodec!OnError(ev) <=> AP!OnError(ev)
  BY <1>1, <1>2, Zenon DEF AnthropicCodec!OnError, AP!OnError, AnthropicCodec!SeesError,
     AP!SeesError, AnthropicCodec!Takes, AP!Takes
<1>17. \A ev : AnthropicCodec!OnErr(ev) <=> AP!OnErr(ev)
  BY Zenon DEF AnthropicCodec!OnErr, AP!OnErr, AnthropicCodec!SeesError, AP!SeesError,
     AnthropicCodec!Takes, AP!Takes
<1> QED
  BY <1>9, <1>10, <1>11, <1>12, <1>13, <1>14, <1>15, <1>16, <1>17, Zenon DEF
     AnthropicCodec!Receive, AP!Receive

\* They have the same inductive invariant.
LEMMA AnthropicSameInv == AnthropicCodec!CodecInv <=> AP!CodecInv
BY Zenon DEF AnthropicCodec!CodecInv, AP!CodecInv, AnthropicCodec!TypeOK, AP!TypeOK,
   AnthropicCodec!Follows, AP!Follows, AnthropicCodec!OrderListsPending, AP!OrderListsPending,
   AnthropicCodec!FlushBeforeStop, AP!FlushBeforeStop, AnthropicCodec!IsPending, AP!IsPending,
   AnthropicCodec!WireKind, AP!WireKind, AnthropicCodec!NoBlock, AP!NoBlock,
   AnthropicCodec!NoId, AP!NoId, AnthropicCodec!Codecs, AP!Codecs, AnthropicCodec!Clients,
   AP!Clients, AnthropicCodec!Answers, AP!Answers, AnthropicCodec!StopReasons, AP!StopReasons,
   AnthropicCodec!Pieces, AP!Pieces, AnthropicCodec!BufferedCalls, AP!BufferedCalls,
   AnthropicCodec!Blocks, AP!Blocks, AnthropicCodec!PartKinds, AP!PartKinds,
   AnthropicCodec!CallIds, AP!CallIds, AnthropicCodec!Usages, AP!Usages,
   AnthropicCodec!StartKinds, AP!StartKinds, AnthropicCodec!BlockKinds, AP!BlockKinds,
   AnthropicCodec!OpaqueKinds, AP!OpaqueKinds, AnthropicCodec!ToolKinds, AP!ToolKinds

\* The same after a step.
LEMMA AnthropicSameInvNext == AnthropicCodec!CodecInv' <=> AP!CodecInv'
BY AnthropicSameInv, PTL

\* They start in the same way.
LEMMA AnthropicSameInit == AnthropicCodec!Init <=> AP!Init
BY Zenon DEF AnthropicCodec!Init, AP!Init, AnthropicCodec!CodecInit, AP!CodecInit,
   AnthropicCodec!ClientInit, AP!ClientInit, AnthropicCodec!NoUsage, AP!NoUsage,
   AnthropicCodec!Usage, AP!Usage, AnthropicCodec!NoBlock, AP!NoBlock, AnthropicCodec!NoCall,
   AP!NoCall, AnthropicCodec!NoId, AP!NoId, AnthropicCodec!Unmapped, AP!Unmapped,
   AnthropicCodec!Answer, AP!Answer

\* What AnthropicStreamProofs proves, of this codec.
LEMMA AnthropicInit == AnthropicCodec!Init => AnthropicCodec!CodecInv
BY AnthropicSameInit, AnthropicSameInv, AP!InitCodecInv

\* An admissible event keeps the invariant of the codec.
LEMMA AnthropicReceives ==
  ASSUME AnthropicCodec!CodecInv, NEW ev \in AnthropicCodec!AnyEvent,
         AnthropicCodec!Admissible(ev), AnthropicCodec!Receive(ev)
  PROVE  AnthropicCodec!CodecInv'
<1>1. AP!CodecInv /\ ev \in AP!AnyEvent /\ AP!Admissible(ev) /\ AP!Receive(ev)
  BY AnthropicSameInv, AnthropicSameEvents, AnthropicSameReceive
<1>2. AP!CodecInv'
  BY <1>1, AP!ReceiveStep
<1> QED
  BY <1>2, AnthropicSameInvNext

\* So does every step of the codec that receives none.
LEMMA AnthropicGoesOn ==
  ASSUME AnthropicCodec!CodecInv,
         \/ AnthropicCodec!FlushTool \/ AnthropicCodec!Finish
         \/ AnthropicCodec!SeesEnd \/ AnthropicCodec!WriteFails
  PROVE  AnthropicCodec!CodecInv'
<1>1. AP!CodecInv /\ (AP!FlushTool \/ AP!Finish \/ AP!SeesEnd \/ AP!WriteFails)
  BY AnthropicSameInv, AnthropicSameFlush, AnthropicSameEnd
<1>2. AP!CodecInv'
  BY <1>1, AP!FlushStep, AP!FinishStep, AP!EndStep
<1> QED
  BY <1>2, AnthropicSameInvNext

-----------------------------------------------------------------------------
(* An Anthropic client.                                                    *)

USE DEF AnthropicCodec!NoUsage, AnthropicCodec!Usage, AnthropicCodec!Merge, AnthropicCodec!NoId,
        AnthropicCodec!Piece, AnthropicCodec!NoPart, AnthropicCodec!Part

AnthropicClientOf(answer, started, restarted, open, next, broken) ==
    [answer |-> answer, started |-> started, restarted |-> restarted, open |-> open,
     next |-> next, broken |-> broken]

AnthropicClient(c) ==
    /\ c = [answer |-> c.answer, started |-> c.started, restarted |-> c.restarted,
            open |-> c.open, next |-> c.next, broken |-> c.broken]
    /\ IsAnswer(c.answer)

\* The fields of an Anthropic client.
LEMMA AnthropicClientFields ==
  ASSUME NEW answer, IsAnswer(answer), NEW started, NEW restarted, NEW open, NEW next, NEW broken,
         NEW c, c = AnthropicClientOf(answer, started, restarted, open, next, broken)
  PROVE  /\ AnthropicClient(c) /\ c.answer = answer /\ c.started = started
         /\ c.restarted = restarted /\ c.open = open /\ c.next = next /\ c.broken = broken
<1>1. /\ c.answer = answer /\ c.started = started /\ c.restarted = restarted
      /\ c.open = open /\ c.next = next /\ c.broken = broken
  BY DEF AnthropicClientOf
<1>2. c = [answer |-> c.answer, started |-> c.started, restarted |-> c.restarted,
           open |-> c.open, next |-> c.next, broken |-> c.broken]
  BY <1>1, Zenon DEF AnthropicClientOf
<1> QED
  BY <1>1, <1>2 DEF AnthropicClient

\* A client that is told nothing of the end; and what has broken stays so.
Continues(c, d) == AnthropicClient(d) /\ SameEnd(c, d) /\ (c.broken => d.broken)

\* A client that sees nothing continues as it is.
LEMMA AnthropicSame ==
  ASSUME NEW c, AnthropicClient(c)
  PROVE  Continues(c, c)
BY DEF Continues, SameEnd

\* One that continues twice continues.
LEMMA ContinuesTwice ==
  ASSUME NEW c, NEW d, NEW e, Continues(c, d), Continues(d, e)
  PROVE  Continues(c, e)
BY DEF Continues, SameEnd

AnthropicUpdate(c, open, next, calls, pieces) ==
    [c EXCEPT !.open = open, !.next = next, !.answer.calls = calls, !.answer.pieces = pieces]

\* An update of such a client keeps the end that it knows.
LEMMA AnthropicUpdated ==
  ASSUME NEW c, AnthropicClient(c), NEW open, NEW next, NEW calls, NEW pieces
  PROVE  Continues(c, AnthropicUpdate(c, open, next, calls, pieces))
<1>1. IsAnswer(c.answer)
  BY DEF AnthropicClient
<1>2. PICK a, s, r, o, n, b : c = AnthropicClientOf(a, s, r, o, n, b)
  BY DEF AnthropicClient, AnthropicClientOf
<1>3. a = c.answer /\ b = c.broken
  BY <1>2 DEF AnthropicClientOf
<1> DEFINE c1 == [c EXCEPT !.open = open]
           c2 == [c1 EXCEPT !.next = next]
           a3 == [c2.answer EXCEPT !.calls = calls]
           c3 == [c2 EXCEPT !.answer = a3]
           a4 == [c3.answer EXCEPT !.pieces = pieces]
           c4 == [c3 EXCEPT !.answer = a4]
<1>4. c1 = AnthropicClientOf(a, s, r, open, n, b)
  BY <1>2 DEF AnthropicClientOf
<1> HIDE DEF c1
<1>5. c2 = AnthropicClientOf(a, s, r, open, next, b) /\ c2.answer = a
  BY <1>4 DEF AnthropicClientOf
<1> HIDE DEF c2
<1>6. a3 = AnswerOf(a.pieces, calls, a.reason, a.usage, a.end)
  BY <1>1, <1>3, <1>5 DEF IsAnswer, AnswerOf
<1> HIDE DEF a3
<1>7. c3 = AnthropicClientOf(a3, s, r, open, next, b) /\ c3.answer = a3
  BY <1>5 DEF AnthropicClientOf
<1> HIDE DEF c3
<1>8. a4 = AnswerOf(pieces, calls, a.reason, a.usage, a.end)
  BY <1>6, <1>7 DEF AnswerOf
<1> HIDE DEF a4
<1>9. c4 = AnthropicClientOf(a4, s, r, open, next, b)
  BY <1>7 DEF AnthropicClientOf
<1>10. AnthropicUpdate(c, open, next, calls, pieces) = c4
  BY Zenon DEF AnthropicUpdate, c1, c2, c3, c4, a3, a4
<1> HIDE DEF c4
<1>11. IsAnswer(a4) /\ a4.reason = a.reason /\ a4.usage = a.usage /\ a4.end = a.end
  BY <1>8, AnswerFields
<1>12. AnthropicClient(c4) /\ c4.answer = a4 /\ c4.broken = b
  BY <1>9, <1>11, AnthropicClientFields
<1> QED
  BY <1>3, <1>10, <1>11, <1>12 DEF Continues, SameEnd

\* The same of its flag that the stream is ill formed.
LEMMA AnthropicBroken ==
  ASSUME NEW c, AnthropicClient(c), NEW broken, NEW d, d = [c EXCEPT !.broken = broken]
  PROVE  AnthropicClient(d) /\ SameEnd(c, d) /\ d.broken = broken
<1>1. d = AnthropicClientOf(c.answer, c.started, c.restarted, c.open, c.next, broken)
  BY DEF AnthropicClient, AnthropicClientOf
<1>2. IsAnswer(c.answer)
  BY DEF AnthropicClient
<1>3. AnthropicClient(d) /\ d.answer = c.answer /\ d.broken = broken
  BY <1>1, <1>2, AnthropicClientFields
<1> QED
  BY <1>3 DEF SameEnd

\* What a client makes of what it is sent, when it does not end the stream.
LEMMA AnthropicTakes ==
  ASSUME NEW c, AnthropicClient(c), NEW wellFormed, NEW taken, Continues(c, taken)
  PROVE  Continues(c, AnthropicCodec!Takes(c, wellFormed, taken))
<1> DEFINE after  == c.broken \/ c.answer.end = "clean"
           late   == [c EXCEPT !.broken = after]
           broken == [c EXCEPT !.broken = TRUE]
           d      == AnthropicCodec!Takes(c, wellFormed, taken)
<1>1. d \in {late, taken, broken}
  <2>1. [c EXCEPT !.broken = (@ \/ c.answer.end = "clean")] = late
    BY DEF AnthropicClient
  <2> HIDE DEF late, broken
  <2> QED
    BY <2>1, Zenon DEF AnthropicCodec!Takes, broken
<1>2. Continues(c, late)
  <2>1. c.broken => after
    OBVIOUS
  <2> HIDE DEF after
  <2>2. AnthropicClient(late) /\ SameEnd(c, late) /\ late.broken = after
    BY AnthropicBroken
  <2> HIDE DEF late
  <2> QED
    BY <2>1, <2>2, Zenon DEF Continues
<1>3. Continues(c, broken)
  <2>1. PICK t : t = TRUE
    OBVIOUS
  <2>2. broken = [c EXCEPT !.broken = t]
    BY <2>1, Zenon
  <2> HIDE DEF broken
  <2>3. AnthropicClient(broken) /\ SameEnd(c, broken) /\ broken.broken = t
    BY <2>2, AnthropicBroken
  <2> QED
    BY <2>1, <2>3, Zenon DEF Continues
<1> HIDE DEF late, broken, d, after
<1>4. Continues(c, d)
  BY <1>1, <1>2, <1>3
<1> QED
  BY <1>4 DEF d

\* A client that is not broken has taken what it was told before the end.
LEMMA AnthropicTaken ==
  ASSUME NEW c, AnthropicClient(c), c.answer.end = "none", NEW wellFormed, NEW taken,
         ~AnthropicCodec!Takes(c, wellFormed, taken).broken
  PROVE  AnthropicCodec!Takes(c, wellFormed, taken) = taken
<1> DEFINE broken == [c EXCEPT !.broken = TRUE]
           d      == AnthropicCodec!Takes(c, wellFormed, taken)
<1>1. d \in {taken, broken}
  BY Zenon DEF AnthropicCodec!Takes
<1>2. broken.broken = TRUE
  <2>1. PICK t : t = TRUE
    OBVIOUS
  <2>2. broken = [c EXCEPT !.broken = t]
    BY <2>1, Zenon
  <2> HIDE DEF broken
  <2>3. broken.broken = t
    BY <2>2, AnthropicBroken
  <2> QED
    BY <2>1, <2>3, Zenon
<1>3. ~d.broken
  BY Zenon DEF d
<1> HIDE DEF d, broken
<1>4. d = taken
  BY <1>1, <1>2, <1>3, Zenon
<1> QED
  BY <1>4 DEF d

\* The client sees a block start.
LEMMA AnthropicSeesBlockStart ==
  ASSUME NEW c, AnthropicClient(c), NEW index, NEW part
  PROVE  Continues(c, AnthropicCodec!SeesBlockStart(c, index, part))
<1> DEFINE open   == [index |-> index, kind |-> part.kind, call |-> part.id]
           piece  == AnthropicCodec!Piece(part.kind, part.id, part.frag)
           calls  == IF part.kind = "tool_use" THEN Append(c.answer.calls, part.id)
                     ELSE c.answer.calls
           pieces == IF part.frag = 0 THEN c.answer.pieces ELSE Append(c.answer.pieces, piece)
           next   == c.next + 1
           taken  == [c EXCEPT !.open = open, !.next = @ + 1,
                               !.answer.calls = IF part.kind = "tool_use"
                                                THEN Append(@, part.id) ELSE @,
                               !.answer.pieces = IF part.frag = 0 THEN @ ELSE Append(@, piece)]
           whole  == c.started /\ c.open = AnthropicCodec!NoBlock /\ index = c.next
<1>1. AnthropicCodec!SeesBlockStart(c, index, part) = AnthropicCodec!Takes(c, whole, taken)
  BY Zenon DEF AnthropicCodec!SeesBlockStart
<1>2. taken = AnthropicUpdate(c, open, next, calls, pieces)
  <2> HIDE DEF open, piece, whole
  <2> QED
    BY DEF AnthropicUpdate, AnthropicClient, IsAnswer
<1> HIDE DEF open, next, calls, pieces, taken, whole
<1> QED
  BY <1>1, <1>2, AnthropicUpdated, AnthropicTakes

\* The client sees a delta of a block.
LEMMA AnthropicSeesDelta ==
  ASSUME NEW c, AnthropicClient(c), NEW index, NEW kind, NEW frags
  PROVE  Continues(c, AnthropicCodec!SeesDelta(c, index, kind, frags))
<1> DEFINE new    == AnthropicCodec!Fragments(c.open.kind, c.open.call, frags)
           pieces == c.answer.pieces \o new
           taken  == [c EXCEPT !.answer.pieces = @ \o new]
           whole  == c.open.index = index /\ AnthropicCodec!FitsBlock(kind, c.open.kind)
<1>1. AnthropicCodec!SeesDelta(c, index, kind, frags) = AnthropicCodec!Takes(c, whole, taken)
  BY Zenon DEF AnthropicCodec!SeesDelta
<1>2. taken = AnthropicUpdate(c, c.open, c.next, c.answer.calls, pieces)
  <2> HIDE DEF new, whole
  <2> QED
    BY DEF AnthropicUpdate, AnthropicClient, IsAnswer
<1> HIDE DEF pieces, taken, whole
<1> QED
  BY <1>1, <1>2, AnthropicUpdated, AnthropicTakes

\* The client sees a block stop.
LEMMA AnthropicSeesBlockStop ==
  ASSUME NEW c, AnthropicClient(c), NEW index
  PROVE  Continues(c, AnthropicCodec!SeesBlockStop(c, index))
<1> DEFINE taken  == [c EXCEPT !.open = AnthropicCodec!NoBlock]
           whole  == c.open # AnthropicCodec!NoBlock /\ c.open.index = index
<1>1. AnthropicCodec!SeesBlockStop(c, index) = AnthropicCodec!Takes(c, whole, taken)
  BY Zenon DEF AnthropicCodec!SeesBlockStop
<1>2. taken = AnthropicUpdate(c, AnthropicCodec!NoBlock, c.next, c.answer.calls, c.answer.pieces)
  <2> HIDE DEF whole
  <2> QED
    BY DEF AnthropicUpdate, AnthropicClient, IsAnswer
<1> HIDE DEF taken, whole
<1> QED
  BY <1>1, <1>2, AnthropicUpdated, AnthropicTakes

\* The usage and the reason that a client is told of, and the ends.
AnthropicTold(c, d, reason, usage, end) ==
    /\ AnthropicClient(d) /\ (c.broken => d.broken)
    /\ d.answer.reason = reason /\ d.answer.usage = usage /\ d.answer.end = end

\* The client sees message_start: it has the usage that comes with it, too.
LEMMA AnthropicSeesStart ==
  ASSUME NEW c, AnthropicClient(c), c.answer.end = "none", NEW usage
  PROVE  AnthropicTold(c, AnthropicCodec!SeesStart(c, usage), c.answer.reason,
                       Merge(c.answer.usage, usage), "none")
<1>1. IsAnswer(c.answer)
  BY DEF AnthropicClient
<1>2. PICK a, s, r, o, n, b : c = AnthropicClientOf(a, s, r, o, n, b)
  BY DEF AnthropicClient, AnthropicClientOf
<1>3. a = c.answer /\ b = c.broken /\ s = c.started /\ r = c.restarted
  BY <1>2 DEF AnthropicClientOf
<1>4. PICK t : t = TRUE
  OBVIOUS
<1> DEFINE again == r \/ s
           total == AnthropicCodec!Merge(a.usage, usage)
           c1 == [c EXCEPT !.started = t]
           c2 == [c1 EXCEPT !.restarted = again]
           a3 == [c2.answer EXCEPT !.usage = total]
           c3 == [c2 EXCEPT !.answer = a3]
           d  == AnthropicCodec!SeesStart(c, usage)
<1>5. d = c3
  <2>1. /\ c1.restarted = c.restarted /\ c2.answer = c.answer
        /\ c2.answer.usage = c.answer.usage
    BY <1>2 DEF AnthropicClientOf
  <2>2. d = [c EXCEPT !.started = TRUE, !.restarted = (@ \/ c.started),
                      !.answer.usage = AnthropicCodec!Merge(@, usage)]
    BY Zenon DEF AnthropicCodec!SeesStart, AnthropicCodec!Takes
  <2>3. d = [c EXCEPT !.started = t, !.restarted = again, !.answer.usage = total]
    <3>1. (c.restarted \/ c.started) = again /\ AnthropicCodec!Merge(c.answer.usage, usage) = total
      BY <1>3, Zenon
    <3> HIDE DEF d, again, total
    <3> QED
      BY <1>4, <2>2, <3>1, Zenon
  <2> HIDE DEF again, total, d
  <2> QED
    BY <2>3, Zenon
<1> HIDE DEF again, total, d
<1>6. c1 = AnthropicClientOf(a, t, r, o, n, b)
  BY <1>2 DEF AnthropicClientOf
<1> HIDE DEF c1
<1>7. c2 = AnthropicClientOf(a, t, again, o, n, b) /\ c2.answer = a
  BY <1>6 DEF AnthropicClientOf
<1> HIDE DEF c2
<1>8. a3 = AnswerOf(a.pieces, a.calls, a.reason, total, a.end)
  BY <1>1, <1>3, <1>7 DEF IsAnswer, AnswerOf
<1> HIDE DEF a3
<1>9. c3 = AnthropicClientOf(a3, t, again, o, n, b)
  BY <1>7 DEF AnthropicClientOf
<1> HIDE DEF c3
<1>10. IsAnswer(a3) /\ a3.reason = a.reason /\ a3.usage = total /\ a3.end = a.end
  BY <1>8, AnswerFields
<1>11. AnthropicClient(c3) /\ c3.answer = a3 /\ c3.broken = b
  BY <1>9, <1>10, AnthropicClientFields
<1>12. total = Merge(c.answer.usage, usage)
  BY <1>3, Zenon DEF total
<1>13. AnthropicTold(c, d, c.answer.reason, Merge(c.answer.usage, usage), "none")
  BY <1>3, <1>5, <1>10, <1>11, <1>12 DEF AnthropicTold
<1> QED
  BY <1>13 DEF d

\* A client for which the answer ends.
LEMMA AnthropicEndsAs ==
  ASSUME NEW c, AnthropicClient(c), NEW end
  PROVE  AnthropicTold(c, EndsAs(c, end), c.answer.reason, c.answer.usage, end)
<1> DEFINE a == [c.answer EXCEPT !.end = end]
           d == EndsAs(c, end)
<1>1. d = AnthropicClientOf(a, c.started, c.restarted, c.open, c.next, c.broken)
  BY DEF AnthropicClient, IsAnswer, AnthropicClientOf, EndsAs
<1>2. IsAnswer(a) /\ a.end = end /\ a.reason = c.answer.reason /\ a.usage = c.answer.usage
  BY DEF AnthropicClient, IsAnswer
<1> HIDE DEF a, d
<1>3. AnthropicClient(d) /\ d.answer = a /\ d.broken = c.broken
  BY <1>1, <1>2, AnthropicClientFields
<1>4. AnthropicTold(c, d, c.answer.reason, c.answer.usage, end)
  BY <1>2, <1>3 DEF AnthropicTold
<1> QED
  BY <1>4 DEF d

\* The client sees an error: for it the answer has ended so.
LEMMA AnthropicSeesError ==
  ASSUME NEW c, AnthropicClient(c), c.answer.end = "none"
  PROVE  AnthropicTold(c, AnthropicCodec!SeesError(c), c.answer.reason, c.answer.usage, "error")
<1>1. AnthropicCodec!SeesError(c) = EndsAs(c, "error")
  BY Zenon DEF AnthropicCodec!SeesError, AnthropicCodec!Takes, EndsAs
<1> QED
  BY <1>1, AnthropicEndsAs

\* The reason and the usage of a message_delta.
TellsBoth(c, reason, usage) == [c EXCEPT !.answer.reason = reason, !.answer.usage = usage]

\* A client that is told reason and usage.
LEMMA AnthropicTellsBoth ==
  ASSUME NEW c, AnthropicClient(c), NEW reason, NEW usage
  PROVE  AnthropicTold(c, TellsBoth(c, reason, usage), reason, usage, c.answer.end)
<1>1. IsAnswer(c.answer)
  BY DEF AnthropicClient
<1>2. PICK a, s, r, o, n, b : c = AnthropicClientOf(a, s, r, o, n, b)
  BY DEF AnthropicClient, AnthropicClientOf
<1>3. a = c.answer /\ b = c.broken
  BY <1>2 DEF AnthropicClientOf
<1> DEFINE a1 == [c.answer EXCEPT !.reason = reason]
           c1 == [c EXCEPT !.answer = a1]
           a2 == [c1.answer EXCEPT !.usage = usage]
           c2 == [c1 EXCEPT !.answer = a2]
<1>4. a1 = AnswerOf(a.pieces, a.calls, reason, a.usage, a.end)
  BY <1>1, <1>3 DEF IsAnswer, AnswerOf
<1> HIDE DEF a1
<1>5. c1 = AnthropicClientOf(a1, s, r, o, n, b) /\ c1.answer = a1
  BY <1>2 DEF AnthropicClientOf
<1> HIDE DEF c1
<1>6. a2 = AnswerOf(a.pieces, a.calls, reason, usage, a.end)
  BY <1>4, <1>5 DEF AnswerOf
<1> HIDE DEF a2
<1>7. c2 = AnthropicClientOf(a2, s, r, o, n, b)
  BY <1>5 DEF AnthropicClientOf
<1>8. TellsBoth(c, reason, usage) = c2
  BY Zenon DEF TellsBoth, c1, c2, a1, a2
<1> HIDE DEF c2
<1>9. IsAnswer(a2) /\ a2.reason = reason /\ a2.usage = usage /\ a2.end = a.end
  BY <1>6, AnswerFields
<1>10. AnthropicClient(c2) /\ c2.answer = a2 /\ c2.broken = b
  BY <1>7, <1>9, AnthropicClientFields
<1> QED
  BY <1>3, <1>8, <1>9, <1>10 DEF AnthropicTold

\* A message_delta that a client which is not broken has taken, or any client.
LEMMA AnthropicSeesMessageDelta ==
  ASSUME NEW c, AnthropicClient(c), c.answer.end = "none", NEW reason, NEW usage,
         ~AnthropicCodec!SeesMessageDelta(c, reason, usage).broken
  PROVE  AnthropicTold(c, AnthropicCodec!SeesMessageDelta(c, reason, usage), reason,
                       Merge(c.answer.usage, usage), "none")
<1> DEFINE total == AnthropicCodec!Merge(c.answer.usage, usage)
           taken == TellsBoth(c, reason, total)
           whole == c.started /\ c.open = AnthropicCodec!NoBlock
           d     == AnthropicCodec!SeesMessageDelta(c, reason, usage)
<1>1. d = AnthropicCodec!Takes(c, whole, taken)
  <2>1. [c EXCEPT !.answer.reason = reason, !.answer.usage = AnthropicCodec!Merge(@, usage)] = taken
    BY DEF AnthropicClient, IsAnswer, TellsBoth
  <2> HIDE DEF taken
  <2> QED
    BY <2>1, Zenon DEF AnthropicCodec!SeesMessageDelta
<1>2. total = Merge(c.answer.usage, usage)
  BY Zenon
<1>3. ~d.broken
  BY Zenon DEF d
<1> HIDE DEF d, whole, taken, total
<1>4. d = taken
  BY <1>1, <1>3, AnthropicTaken, Zenon
<1>5. AnthropicTold(c, taken, reason, total, c.answer.end)
  BY AnthropicTellsBoth, Zenon DEF taken
<1>6. AnthropicTold(c, d, reason, Merge(c.answer.usage, usage), "none")
  BY <1>2, <1>4, <1>5, Zenon
<1> QED
  BY <1>6 DEF d

\* The client sees message_delta: the answer has not ended.
LEMMA AnthropicSeesMessage ==
  ASSUME NEW c, AnthropicClient(c), c.answer.end = "none", NEW reason, NEW usage
  PROVE  LET d == AnthropicCodec!SeesMessageDelta(c, reason, usage)
         IN  AnthropicClient(d) /\ (c.broken => d.broken) /\ d.answer.end = "none"
<1> DEFINE total == AnthropicCodec!Merge(c.answer.usage, usage)
           taken == TellsBoth(c, reason, total)
           broken == [c EXCEPT !.broken = TRUE]
           d     == AnthropicCodec!SeesMessageDelta(c, reason, usage)
<1>1. d \in {taken, broken}
  <2>1. [c EXCEPT !.answer.reason = reason, !.answer.usage = AnthropicCodec!Merge(@, usage)] = taken
    BY DEF AnthropicClient, IsAnswer, TellsBoth
  <2> HIDE DEF taken
  <2> QED
    BY <2>1, Zenon DEF AnthropicCodec!SeesMessageDelta, AnthropicCodec!Takes
<1>2. AnthropicClient(taken) /\ (c.broken => taken.broken) /\ taken.answer.end = "none"
  <2> HIDE DEF total
  <2> QED
    BY AnthropicTellsBoth DEF AnthropicTold
<1>3. AnthropicClient(broken) /\ (c.broken => broken.broken) /\ broken.answer.end = "none"
  <2>1. PICK t : t = TRUE
    OBVIOUS
  <2>2. broken = [c EXCEPT !.broken = t]
    BY <2>1, Zenon
  <2> HIDE DEF broken
  <2>3. AnthropicClient(broken) /\ SameEnd(c, broken) /\ broken.broken = t
    BY <2>2, AnthropicBroken
  <2>4. broken.broken
    BY <2>1, <2>3, Zenon
  <2> QED
    BY <2>3, <2>4 DEF SameEnd
<1> HIDE DEF d, taken, broken, total
<1>4. AnthropicClient(d) /\ (c.broken => d.broken) /\ d.answer.end = "none"
  BY <1>1, <1>2, <1>3, Zenon
<1> QED
  BY <1>4 DEF d

\* The client sees message_stop: if the stream is well formed, the answer has ended cleanly.
LEMMA AnthropicSeesStop ==
  ASSUME NEW c, AnthropicClient(c), c.answer.end = "none", ~AnthropicCodec!SeesStop(c).broken
  PROVE  /\ ~c.broken
         /\ AnthropicTold(c, AnthropicCodec!SeesStop(c), c.answer.reason, c.answer.usage, "clean")
<1> DEFINE taken == EndsAs(c, "clean")
           whole == c.started /\ c.open = AnthropicCodec!NoBlock
           d     == AnthropicCodec!SeesStop(c)
<1>1. d = AnthropicCodec!Takes(c, whole, taken)
  BY Zenon DEF AnthropicCodec!SeesStop, EndsAs
<1>2. ~d.broken
  BY Zenon DEF d
<1> HIDE DEF d, whole, taken
<1>3. d = taken
  BY <1>1, <1>2, AnthropicTaken, Zenon
<1>4. AnthropicTold(c, taken, c.answer.reason, c.answer.usage, "clean")
  BY AnthropicEndsAs, Zenon DEF taken
<1>5. ~c.broken /\ AnthropicTold(c, d, c.answer.reason, c.answer.usage, "clean")
  BY <1>2, <1>3, <1>4, Zenon DEF AnthropicTold
<1> QED
  BY <1>5 DEF d

\* The closures of the codec tell a client nothing of the end.
LEMMA AnthropicClientClosed ==
  ASSUME NEW c, AnthropicClient(c)
  PROVE  Continues(c, AnthropicCodec!ClientClosed(c))
<1>1. AnthropicCodec!ClientClosed(c) \in
        {c, AnthropicCodec!SeesBlockStop(c, codec.current.index)}
  BY Zenon DEF AnthropicCodec!ClientClosed
<1> QED
  BY <1>1, AnthropicSame, AnthropicSeesBlockStop

\* The client sees the block that the codec opens, and the one closed before it.
LEMMA AnthropicClientOpened ==
  ASSUME NEW c, AnthropicClient(c), NEW kind, NEW part
  PROVE  Continues(c, AnthropicCodec!ClientOpened(c, kind, part))
<1> DEFINE d     == AnthropicCodec!ClientClosed(c)
           start == AnthropicCodec!BlockStartPart(kind, part)
           e     == AnthropicCodec!SeesBlockStart(d, codec.nextIndex, start)
<1>1. AnthropicCodec!ClientOpened(c, kind, part) = e
  BY Zenon DEF AnthropicCodec!ClientOpened
<1>2. Continues(c, d)
  BY AnthropicClientClosed
<1> HIDE DEF d, start
<1>3. Continues(d, e)
  BY <1>2, AnthropicSeesBlockStart DEF Continues
<1> HIDE DEF e
<1> QED
  BY <1>1, <1>2, <1>3, ContinuesTwice

\* The client sees a delta that tells no reason.
LEMMA AnthropicWriteDelta ==
  ASSUME NEW c, AnthropicClient(c), NEW index, NEW ev, ev.reason = "none"
  PROVE  Continues(c, AnthropicCodec!WriteDelta(c, index, ev))
<1>1. PICK frags : frags = IF ev.part.frag = 0 THEN <<>> ELSE <<ev.part.frag>>
  OBVIOUS
<1>2. AnthropicCodec!WriteDelta(c, index, ev) \in
        {c, AnthropicCodec!SeesDelta(c, index, AnthropicCodec!WireKind(ev.part.kind), frags)}
  BY <1>1, Zenon DEF AnthropicCodec!WriteDelta
<1> QED
  BY <1>2, AnthropicSame, AnthropicSeesDelta

\* The client sees the message_start that the codec makes up.
LEMMA AnthropicClientGreeted ==
  ASSUME AnthropicClient(client), client.answer.end = "none", client.answer.usage \in Counts,
         NEW ev
  PROVE  Continues(client, AnthropicCodec!ClientGreeted(ev))
<1> DEFINE d == AnthropicCodec!SeesStart(client, AnthropicCodec!NoUsage)
<1>1. AnthropicCodec!ClientGreeted(ev) \in {client, d}
  BY Zenon DEF AnthropicCodec!ClientGreeted
<1>2. AnthropicTold(client, d, client.answer.reason, Merge(client.answer.usage, NoUsage), "none")
  BY AnthropicSeesStart, Zenon
<1>3. Merge(client.answer.usage, NoUsage) = client.answer.usage
  BY DEF Counts
<1> HIDE DEF d
<1>4. Continues(client, d)
  BY <1>2, <1>3 DEF AnthropicTold, Continues, SameEnd
<1> QED
  BY <1>1, <1>4, AnthropicSame

-----------------------------------------------------------------------------
(* The Anthropic codec.                                                    *)

\* What the codec notes of an event, and what updates leave of that.
Notes(ev, k) ==
    /\ k.usage = Merge(Merge(codec.usage, ev.usage), ev.response)
    /\ k.reason = IF ev.reason # "none" THEN ev.reason ELSE codec.reason

SameTold(k, l) ==
    /\ l.pc = k.pc /\ l.usage = k.usage /\ l.reason = k.reason /\ l.deltaSent = k.deltaSent

\* What the codec notes of an event: reason and usage, and nothing of the blocks.
LEMMA AnthropicNoted ==
  ASSUME codec \in AnthropicCodec!Codecs, NEW ev \in AnthropicCodec!AnyEvent
  PROVE  /\ AnthropicCodec!Noted(ev) \in AnthropicCodec!Codecs
         /\ Notes(ev, AnthropicCodec!Noted(ev))
         /\ AnthropicCodec!Noted(ev).pc = codec.pc
         /\ AnthropicCodec!Noted(ev).deltaSent = codec.deltaSent
         /\ AnthropicCodec!Noted(ev).current = codec.current
         /\ AnthropicCodec!Noted(ev).nextIndex = codec.nextIndex
         /\ AnthropicCodec!Noted(ev).sourceIndex = codec.sourceIndex
<1>1. /\ ev.usage \in AnthropicCodec!Usages /\ ev.response \in AnthropicCodec!Usages
      /\ ev.reason \in AnthropicCodec!StopReasons
  BY DEF AnthropicCodec!AnyEvent, AnthropicCodec!Events, AnthropicCodec!StopReasons
<1> DEFINE usage  == Merge(Merge(codec.usage, ev.usage), ev.response)
           reason == IF ev.reason # "none" THEN ev.reason ELSE codec.reason
<1>2. usage \in AnthropicCodec!Usages /\ reason \in AnthropicCodec!StopReasons
  BY <1>1 DEF AnthropicCodec!Usages, AnthropicCodec!Codecs
<1>3. AnthropicCodec!Noted(ev)
        = [codec EXCEPT !.usage = usage, !.reason = reason, !.startSent = TRUE]
  BY Zenon DEF AnthropicCodec!Noted
<1> HIDE DEF usage, reason
<1>4. /\ AnthropicCodec!Noted(ev) \in AnthropicCodec!Codecs
      /\ AnthropicCodec!Noted(ev).usage = usage /\ AnthropicCodec!Noted(ev).reason = reason
      /\ AnthropicCodec!Noted(ev).pc = codec.pc
      /\ AnthropicCodec!Noted(ev).deltaSent = codec.deltaSent
      /\ AnthropicCodec!Noted(ev).current = codec.current
      /\ AnthropicCodec!Noted(ev).nextIndex = codec.nextIndex
      /\ AnthropicCodec!Noted(ev).sourceIndex = codec.sourceIndex
  BY <1>2, <1>3 DEF AnthropicCodec!Codecs
<1> QED
  BY <1>4 DEF Notes, usage, reason

-----------------------------------------------------------------------------
(* What codec and client agree about.                                      *)

\* The usage that the codec has merged is what has been heard of it, also after an event.
LEMMA AnthropicUsage ==
  ASSUME NEW usage, UsageHeard(usage), NEW ev, UsagePassed(ev), upstream' = upstream,
         said' = said, NEW next, next = Merge(Merge(usage, ev.usage), ev.response)
  PROVE  /\ next \in Counts
         /\ said'.usage = NoUsage => next = NoUsage
         /\ upstream' = "anthropic" => next = HeardUsage'
<1>1. usage \in Counts /\ ev.usage \in Counts /\ ev.response \in Counts
  BY DEF UsageHeard, UsagePassed
<1>2. next \in Counts
  BY <1>1 DEF Counts
<1>3. said.usage = NoUsage => next = NoUsage
  BY DEF UsageHeard, UsagePassed
<1>4. upstream = "anthropic" => next = HeardUsage'
  BY DEF UsageHeard, UsagePassed
<1> QED
  BY <1>2, <1>3, <1>4

\* With the stop, the usage of an answer that tells all or nothing of it is all there.
LEMMA AnthropicStopUsage ==
  ASSUME NEW usage, UsageHeard(usage), NEW ev, UsagePassed(ev), ev.type = "stop",
         said.usage \in {NoUsage, Total}
  PROVE  Merge(Merge(usage, ev.usage), ev.response) = said.usage
<1>1. usage \in Counts /\ ev.usage \in Counts /\ ev.response = NoUsage
  BY DEF UsageHeard, UsagePassed
<1>2. CASE upstream = "anthropic"
  <2>1. usage = said.usage /\ ev.usage = NoUsage
    BY <1>2 DEF UsageHeard, UsagePassed
  <2> QED
    BY <1>1, <2>1 DEF Counts, Total
<1>3. CASE upstream # "anthropic"
  <2>1. ev.usage = said.usage /\ (said.usage = NoUsage => usage = NoUsage)
    BY <1>3 DEF UsageHeard, UsagePassed
  <2> QED
    BY <1>1, <2>1 DEF Counts, Total
<1> QED
  BY <1>2, <1>3

\* Of an Anthropic provider's usage an event about content tells nothing.
NoUsageTold(ev) ==
    upstream = "anthropic" /\ ev.type # "start" /\ ~(ev.type = "delta" /\ ev.part = NoPart) =>
        HeardUsage' = HeardUsage

\* Of an Anthropic provider only the start and the message_delta tell usage.
LEMMA AnthropicHeard ==
  ASSUME Feed, queue # <<>>, queue' = Tail(queue), said' = said
  PROVE  NoUsageTold(Head(queue))
<1> SUFFICES ASSUME upstream = "anthropic", Head(queue).type # "start",
                    ~(Head(queue).type = "delta" /\ Head(queue).part = NoPart)
             PROVE  HeardUsage' = HeardUsage
  BY DEF NoUsageTold
<1>1. AnthropicFeed
  BY SMTT(20) DEF Feed
<1>2. Len(queue) = 1 /\ queue = <<queue[1]>>
  BY <1>1 DEF AnthropicFeed
<1>3. Head(queue) = queue[1] /\ queue' = <<>>
  BY <1>2, OneEvent
<1>4. HeardUsage = said.usage
  BY <1>3 DEF HeardUsage
<1>5. HeardUsage' = said.usage
  BY <1>3 DEF HeardUsage
<1> QED
  BY <1>4, <1>5

\* The codec goes on, and the answer with it.
LEMMA AnthropicGoes ==
  ASSUME AnthropicCodec!CodecInv', codec'.pc \in {"ranging", "flushing"},
         client'.answer.end = "none", codec'.reason = HeardReason', codec'.usage \in Counts,
         said'.usage = NoUsage => codec'.usage = NoUsage,
         upstream' = "anthropic" => codec'.usage = HeardUsage',
         client'.answer.usage \in Counts,
         said'.usage = NoUsage => client'.answer.usage = NoUsage,
         upstream' = "anthropic" => client'.answer.usage = HeardUsage',
         codec'.deltaSent =>
           upstream' = "anthropic" /\ HeardReason' # "none" /\ client'.answer.reason = HeardReason',
         IF codec'.pc = "flushing"
         THEN Over' /\ said'.end = "clean" /\ codec'.usage = said'.usage
         ELSE Over' => said'.end \notin {"error", "clean"}
  PROVE  AnthropicAgrees' /\ AnswerOK'
<1>1. IsAnswer(client.answer)'
  BY DEF AnthropicCodec!CodecInv, AnthropicCodec!TypeOK, AnthropicCodec!Clients,
         AnthropicCodec!Answers, IsAnswer
<1>2. AnswerOK'
  BY <1>1 DEF AnswerOK
<1>3. UsageHeard(codec.usage)'
  BY DEF UsageHeard
<1> QED
  BY <1>2, <1>3 DEF AnthropicAgrees

\* The loop ends.
LEMMA AnthropicEnds ==
  ASSUME AnthropicCodec!CodecInv', codec'.pc = "returned",
         client'.answer.usage \in Counts,
         said'.usage = NoUsage => client'.answer.usage = NoUsage,
         said'.end = "error" => client'.answer.end \in {"error", "gone"},
         client'.answer.end = "error" => said'.end = "error",
         client'.answer.end = "clean" =>
           /\ Over' /\ said'.reason # "none" /\ said'.end = "clean"
           /\ client'.answer.reason = said'.reason /\ client'.answer.usage = said'.usage
  PROVE  AnthropicAgrees' /\ AnswerOK' /\ NoBlockLeftOpen'
<1>1. IsAnswer(client.answer)' /\ client'.answer.end \in {"none", "clean", "error", "cut", "gone"}
  BY DEF AnthropicCodec!CodecInv, AnthropicCodec!TypeOK, AnthropicCodec!Clients,
         AnthropicCodec!Answers, IsAnswer
<1>2. AnswerOK'
  BY <1>1 DEF AnswerOK
<1>3. Returned(said.reason)'
  BY DEF Returned, Complete
<1>4. NoBlockLeftOpen'
  BY DEF NoBlockLeftOpen
<1> QED
  BY <1>2, <1>3, <1>4 DEF AnthropicAgrees

\* Provider and reader go on unheard: codec and client agree as before.
LEMMA AnthropicQuiet ==
  ASSUME AnthropicAgrees, AnswerOK, NoBlockLeftOpen, Quiet, codec.pc # "returned",
         UNCHANGED <<upstream, inbound, codec, client>>
  PROVE  AnthropicAgrees' /\ AnswerOK' /\ NoBlockLeftOpen'
<1>1. AnswerOK'
  BY DEF AnswerOK, Quiet
<1>2. UsageHeard(codec.usage)'
  BY UsageQuiet DEF AnthropicAgrees, UsageHeard
<1>3. codec'.reason = HeardReason'
  BY DEF AnthropicAgrees, Quiet
<1>4. AnthropicCodec!CodecInv'
  <2>1. AnthropicCodec!CodecInv
    BY DEF AnthropicAgrees
  <2> QED
    BY <2>1, Zenon DEF AnthropicCodec!CodecInv, AnthropicCodec!TypeOK, AnthropicCodec!Follows,
       AnthropicCodec!OrderListsPending, AnthropicCodec!FlushBeforeStop, AnthropicCodec!IsPending
<1>5. NoBlockLeftOpen'
  BY DEF NoBlockLeftOpen, Quiet
<1>6. /\ \/ client'.answer.end = "none"
         \/ client'.answer.end = "clean" /\ codec'.pc = "ranging" /\ Over' /\ said'.end = "clean"
         \/ client'.answer.end = "error" /\ codec'.pc = "ranging" /\ Over' /\ said'.end = "error"
      /\ Over' /\ said'.end = "error" => client'.answer.end = "error"
      /\ Over' /\ said'.end = "clean" => codec'.pc = "flushing" \/ client'.answer.end = "clean"
      /\ codec'.pc = "flushing" => Over' /\ said'.end = "clean" /\ codec'.usage = said'.usage
  BY DEF AnthropicAgrees, Quiet
<1>7. /\ upstream' = "anthropic" /\ client'.answer.end = "none" =>
           client'.answer.usage = HeardUsage'
      /\ client'.answer.end = "none" /\ codec'.deltaSent =>
           /\ upstream' = "anthropic" /\ HeardReason' # "none"
           /\ client'.answer.reason = HeardReason'
  BY DEF AnthropicAgrees, Quiet
<1>8. client'.answer.end = "clean" => Complete(said.reason)'
  BY DEF AnthropicAgrees, Quiet, Complete
<1> QED
  BY <1>1, <1>2, <1>3, <1>4, <1>5, <1>6, <1>7, <1>8 DEF AnthropicAgrees

\* The block that the codec has open, when it has passed on an event that is not
\* about it.
LEMMA BlockStays ==
  ASSUME NoBlockLeftOpen, NEW ev, BlockPassed(ev), UNCHANGED <<upstream, inbound>>,
         ev.type \notin {"content_block_start", "content_block_stop"}, codec.pc = "ranging",
         codec'.current = codec.current, codec'.sourceIndex = codec.sourceIndex
  PROVE  NoBlockLeftOpen'
BY DEF NoBlockLeftOpen, BlockPassed

\* The codec opens the block that the provider has opened.
LEMMA BlockOpens ==
  ASSUME AnthropicCodec!CodecInv, NEW ev \in AnthropicCodec!AnyEvent, BlockPassed(ev),
         UNCHANGED <<upstream, inbound>>,
         \/ ev.type = "content_block_start" \/ (ev.type = "delta" /\ ev.part # NoPart),
         codec'.current.index = codec.nextIndex,
         codec'.sourceIndex = [codec.sourceIndex EXCEPT ![ev.index] = codec.nextIndex]
  PROVE  NoBlockLeftOpen'
<1>1. codec.sourceIndex \in [Indices -> Int] /\ ev.index \in Indices
  BY DEF AnthropicCodec!CodecInv, AnthropicCodec!TypeOK, AnthropicCodec!Codecs,
         AnthropicCodec!AnyEvent, AnthropicCodec!Events
<1>2. upstream = "anthropic" => OpenHeard' /\ BlockHeard' = ev.index
  BY DEF BlockPassed
<1> QED
  BY <1>1, <1>2 DEF NoBlockLeftOpen

\* The codec closes it with the provider.
LEMMA BlockCloses ==
  ASSUME NoBlockLeftOpen, NEW ev, BlockPassed(ev), UNCHANGED <<upstream, inbound>>,
         ev.type = "content_block_stop", codec.pc = "ranging",
         codec'.current = IF AnthropicCodec!StopsCurrent(ev.index) THEN AnthropicCodec!NoBlock
                          ELSE codec.current
  PROVE  NoBlockLeftOpen'
<1>1. ASSUME inbound = "anthropic", upstream = "anthropic", codec.current # AnthropicCodec!NoBlock
      PROVE  AnthropicCodec!StopsCurrent(ev.index)
  BY <1>1 DEF NoBlockLeftOpen, BlockPassed, AnthropicCodec!StopsCurrent
<1> QED
  BY <1>1 DEF NoBlockLeftOpen

\* What a delta without a part tells, if it tells of the end.
LEMMA AnthropicReasonTold ==
  ASSUME NEW c, AnthropicClient(c), c.answer.end = "none", NEW index, NEW ev,
         ev.reason # "none", ~AnthropicCodec!WriteDelta(c, index, ev).broken
  PROVE  AnthropicTold(c, AnthropicCodec!WriteDelta(c, index, ev), ev.reason,
                       Merge(c.answer.usage, ev.usage), "none")
<1>1. AnthropicCodec!WriteDelta(c, index, ev)
        = AnthropicCodec!SeesMessageDelta(c, ev.reason, ev.usage)
  BY Zenon DEF AnthropicCodec!WriteDelta
<1> QED
  BY <1>1, AnthropicSeesMessageDelta

\* An event is received.
LEMMA AnthropicEvent ==
  ASSUME AnthropicAgrees, AnswerOK, NoBlockLeftOpen, EndKnown, EndKnown', queue # <<>>,
         inbound = "anthropic",
         NEW ev, Passed(ev), Known(ev), NoUsageTold(ev), AnthropicCodec!Receive(ev),
         UNCHANGED <<upstream, inbound, up, said>>
  PROVE  AnthropicAgrees' /\ AnswerOK' /\ NoBlockLeftOpen'
<1>1. /\ codec.pc = "ranging" /\ codec.reason = HeardReason /\ UsageHeard(codec.usage)
      /\ AnthropicCodec!CodecInv /\ codec \in AnthropicCodec!Codecs
      /\ client \in AnthropicCodec!Clients /\ ~client.broken
  BY DEF AnthropicAgrees, AnthropicCodec!Receive, AnthropicCodec!CodecInv,
         AnthropicCodec!TypeOK, AnthropicCodec!Follows
<1>2. /\ ev \in AnthropicCodec!AnyEvent /\ EndPassed(ev) /\ UsagePassed(ev) /\ BlockPassed(ev)
      /\ client.answer.usage \in Counts
      /\ said.usage = NoUsage => client.answer.usage = NoUsage
      /\ ev.usage \in Counts /\ ev.response \in Counts
      /\ said.usage = NoUsage => ev.usage = NoUsage /\ ev.response = NoUsage
  BY DEF Passed, UsagePassed, AnswerOK
<1>3. /\ client.answer.end = "none"
      /\ upstream = "anthropic" => client.answer.usage = HeardUsage
      /\ codec.deltaSent =>
           /\ upstream = "anthropic" /\ HeardReason # "none"
           /\ client.answer.reason = HeardReason
  <2>1. ~Over
    BY DEF EndKnown
  <2> QED
    BY <1>1, <2>1 DEF AnthropicAgrees
<1>4. AnthropicClient(client)
  BY <1>1 DEF AnthropicCodec!Clients, AnthropicCodec!Answers, AnthropicClient, IsAnswer
<1>5. AnthropicCodec!Admissible(ev)
  <2>1. ASSUME ev.type = "delta", ev.reason # "none"
        PROVE  ev.part = NoPart /\ codec.current = AnthropicCodec!NoBlock
    <3>1. ev.part = NoPart /\ upstream = "anthropic" /\ ~OpenHeard
      BY <1>2, <2>1 DEF EndPassed, BlockPassed
    <3> QED
      BY <1>1, <3>1 DEF NoBlockLeftOpen
  <2> QED
    BY <1>3, <2>1 DEF AnthropicCodec!Admissible
<1>6. AnthropicCodec!CodecInv' /\ ~client'.broken
  <2>1. AnthropicCodec!CodecInv'
    BY <1>1, <1>2, <1>5, AnthropicReceives
  <2> QED
    BY <2>1 DEF AnthropicCodec!CodecInv, AnthropicCodec!Follows
<1> DEFINE noted   == AnthropicCodec!Noted(ev)
           greeted == AnthropicCodec!ClientGreeted(ev)
<1>7. /\ noted \in AnthropicCodec!Codecs /\ Notes(ev, noted)
      /\ noted.pc = "ranging" /\ noted.deltaSent = codec.deltaSent
      /\ noted.current = codec.current /\ noted.nextIndex = codec.nextIndex
      /\ noted.sourceIndex = codec.sourceIndex
  BY <1>1, <1>2, AnthropicNoted
<1>8. Continues(client, greeted) /\ AnthropicClient(greeted) /\ greeted.answer.end = "none"
  <2>1. Continues(client, greeted)
    BY <1>2, <1>3, <1>4, AnthropicClientGreeted
  <2> QED
    BY <1>3, <2>1 DEF Continues, SameEnd
<1>9. codec.nextIndex \in Nat /\ ev.index \in Indices
  BY <1>1, <1>2 DEF AnthropicCodec!Codecs, AnthropicCodec!AnyEvent, AnthropicCodec!Events
<1> HIDE DEF noted, greeted
<1>10. ASSUME Notes(ev, codec')
       PROVE  /\ codec'.usage \in Counts
              /\ said'.usage = NoUsage => codec'.usage = NoUsage
              /\ upstream' = "anthropic" => codec'.usage = HeardUsage'
              /\ codec'.reason = HeardReason'
  <2>1. codec'.reason = HeardReason'
    BY <1>1, <1>2, <1>10 DEF Notes, EndPassed
  <2> QED
    BY <1>1, <1>2, <1>10, <2>1, AnthropicUsage DEF Notes
<1>11. ASSUME SameTold(noted, codec'), Continues(client, client'),
              ev.type \in {"content_block_start", "content_block_stop", "delta"},
              ~(ev.type = "delta" /\ ev.part = NoPart)
       PROVE  AnthropicAgrees' /\ AnswerOK'
  <2>1. Notes(ev, codec') /\ codec'.pc = "ranging" /\ codec'.deltaSent = codec.deltaSent
    BY <1>7, <1>11 DEF SameTold, Notes
  <2>2. ev.reason = "none" /\ ~Over' /\ HeardReason' = HeardReason
    BY <1>2, <1>11 DEF EndPassed
  <2>3. upstream = "anthropic" => HeardUsage' = HeardUsage
    BY <1>11 DEF NoUsageTold
  <2>4. /\ client'.answer.end = "none" /\ client'.answer.reason = client.answer.reason
        /\ client'.answer.usage = client.answer.usage
    BY <1>3, <1>11 DEF Continues, SameEnd
  <2> QED
    BY <1>2, <1>3, <1>6, <1>10, <2>1, <2>2, <2>3, <2>4, AnthropicGoes
<1>12. CASE AnthropicCodec!OnStart(ev)
  <2>1. /\ ev.type = "start" /\ codec' = noted
        /\ client' = AnthropicCodec!SeesStart(client, ev.response)
    BY <1>12, Zenon DEF AnthropicCodec!OnStart, noted
  <2>2. ~Over' /\ ev.reason = "none" /\ HeardReason' = HeardReason
    BY <1>2, <2>1 DEF EndPassed
  <2>3. AnthropicTold(client, client', client.answer.reason,
                      Merge(client.answer.usage, ev.response), "none")
    BY <1>3, <1>4, <2>1, AnthropicSeesStart
  <2>4. /\ client'.answer.usage \in Counts
        /\ said'.usage = NoUsage => client'.answer.usage = NoUsage
        /\ upstream' = "anthropic" => client'.answer.usage = HeardUsage'
    <3>1. client'.answer.usage = Merge(client.answer.usage, ev.response)
      BY <2>3 DEF AnthropicTold
    <3>2. upstream = "anthropic" => HeardUsage' = Merge(Merge(HeardUsage, NoUsage), ev.response)
      BY <1>2, <2>1 DEF UsagePassed
    <3> QED
      BY <1>2, <1>3, <3>1, <3>2 DEF Counts
  <2>5. client'.answer.end = "none" /\ client'.answer.reason = client.answer.reason
    BY <2>3 DEF AnthropicTold
  <2>6. AnthropicAgrees' /\ AnswerOK'
    BY <1>3, <1>6, <1>7, <1>10, <2>1, <2>2, <2>4, <2>5, AnthropicGoes
  <2>7. NoBlockLeftOpen'
    BY <1>1, <1>2, <1>7, <2>1, BlockStays
  <2> QED
    BY <2>6, <2>7
<1>13. CASE AnthropicCodec!OnBlockStart(ev)
  <2> DEFINE kind   == IF ev.part = AnthropicCodec!NoPart THEN "text" ELSE ev.part.kind
             opened == AnthropicCodec!Opened(noted, kind)
             placed == [opened EXCEPT !.sourceIndex[ev.index] = codec.nextIndex]
  <2>1. /\ ev.type = "content_block_start"
        /\ client' = AnthropicCodec!ClientOpened(greeted, kind, ev.part)
    BY <1>13, Zenon DEF AnthropicCodec!OnBlockStart, greeted
  <2>2. PICK live, order :
          codec' \in {placed, [placed EXCEPT !.live = live, !.order = order,
                                             !.pending[ev.index] = AnthropicCodec!NoCall]}
    <3>1. codec' = IF kind \in AnthropicCodec!ToolKinds
                   THEN [placed EXCEPT !.live = @ \cup {ev.index},
                                       !.order = AnthropicCodec!Dropped(@, ev.index),
                                       !.pending[ev.index] = AnthropicCodec!NoCall]
                   ELSE placed
      BY <1>13, Zenon DEF AnthropicCodec!OnBlockStart, noted
    <3> HIDE DEF placed, kind
    <3>2. PICK live, order : /\ live = placed.live \cup {ev.index}
                             /\ order = AnthropicCodec!Dropped(placed.order, ev.index)
      OBVIOUS
    <3> QED
      BY <3>1, <3>2, Zenon
  <2> HIDE DEF kind
  <2>3. /\ SameTold(noted, placed) /\ placed.current.index = codec.nextIndex
        /\ placed.sourceIndex = [codec.sourceIndex EXCEPT ![ev.index] = codec.nextIndex]
    BY <1>7, <1>9 DEF AnthropicCodec!Opened, AnthropicCodec!Codecs, SameTold
  <2> DEFINE dropped == [placed EXCEPT !.live = live, !.order = order,
                                       !.pending[ev.index] = AnthropicCodec!NoCall]
  <2>4. /\ SameTold(placed, dropped) /\ dropped.current = placed.current
        /\ dropped.sourceIndex = placed.sourceIndex
    BY <1>7, <1>9 DEF AnthropicCodec!Opened, AnthropicCodec!Codecs, SameTold
  <2>5. codec' \in {placed, dropped}
    BY <2>2, Zenon
  <2> HIDE DEF placed, dropped
  <2>6. /\ SameTold(noted, codec') /\ codec'.current.index = codec.nextIndex
        /\ codec'.sourceIndex = [codec.sourceIndex EXCEPT ![ev.index] = codec.nextIndex]
    BY <2>3, <2>4, <2>5 DEF SameTold
  <2>7. Continues(client, client')
    BY <1>8, <2>1, AnthropicClientOpened, ContinuesTwice
  <2>8. NoBlockLeftOpen'
    BY <1>1, <1>2, <2>1, <2>6, BlockOpens
  <2> QED
    BY <1>11, <2>1, <2>6, <2>7, <2>8
<1>14. CASE AnthropicCodec!OnBlockStop(ev)
  <2> DEFINE current == IF AnthropicCodec!StopsCurrent(ev.index) THEN AnthropicCodec!NoBlock
                        ELSE codec.current
             closed  == [noted EXCEPT !.current = current,
                                      !.sourceIndex[ev.index] = AnthropicCodec!Unmapped]
  <2>1. /\ ev.type = "content_block_stop"
        /\ client' \in {greeted, AnthropicCodec!ClientClosed(greeted)}
    BY <1>14, Zenon DEF AnthropicCodec!OnBlockStop, greeted
  <2>2. codec' = closed
    <3>1. codec' = [noted EXCEPT !.current = IF AnthropicCodec!StopsCurrent(ev.index)
                                             THEN AnthropicCodec!NoBlock ELSE @,
                                 !.sourceIndex[ev.index] = AnthropicCodec!Unmapped]
      BY <1>14, Zenon DEF AnthropicCodec!OnBlockStop, noted
    <3> QED
      BY <1>7, <3>1, Zenon
  <2> HIDE DEF current
  <2>3. SameTold(noted, closed) /\ closed.current = current
    <3> DEFINE unmapped == AnthropicCodec!Unmapped
    <3>1. closed = [noted EXCEPT !.current = current, !.sourceIndex[ev.index] = unmapped]
      OBVIOUS
    <3> HIDE DEF unmapped, closed
    <3> QED
      BY <1>7, <1>9, <3>1 DEF AnthropicCodec!Codecs, SameTold
  <2> HIDE DEF closed
  <2>4. SameTold(noted, codec') /\ codec'.current = current
    BY <2>2, <2>3
  <2>5. Continues(client, client')
    BY <1>8, <2>1, AnthropicClientClosed, ContinuesTwice
  <2>6. NoBlockLeftOpen'
    BY <1>1, <1>2, <2>1, <2>4, BlockCloses DEF current
  <2> QED
    BY <1>11, <2>1, <2>4, <2>5, <2>6
<1>15. CASE AnthropicCodec!OnToolDelta(ev)
  <2>1. /\ ev.type = "delta" /\ ev.part.kind \in AnthropicCodec!ToolKinds /\ client' = greeted
    BY <1>15, Zenon DEF AnthropicCodec!OnToolDelta, AnthropicCodec!IsSynthetic, greeted
  <2>2. ev.part # NoPart
    BY <2>1 DEF AnthropicCodec!ToolKinds
  <2>3. PICK call, order : codec' = [noted EXCEPT !.pending[ev.index] = call, !.order = order]
    <3> DEFINE call  == AnthropicCodec!Buffered(codec.pending[ev.index], ev.part)
               order == IF AnthropicCodec!IsPending(ev.index) THEN codec.order
                        ELSE Append(codec.order, ev.index)
    <3>1. noted.pending = codec.pending /\ noted.order = codec.order
      BY <1>1 DEF noted, AnthropicCodec!Noted, AnthropicCodec!Codecs
    <3>2. codec' = [noted EXCEPT
                      !.pending[ev.index] = AnthropicCodec!Buffered(@, ev.part),
                      !.order = IF AnthropicCodec!IsPending(ev.index) THEN @
                                ELSE Append(@, ev.index)]
      BY <1>15, Zenon DEF AnthropicCodec!OnToolDelta, noted
    <3>3. codec' = [noted EXCEPT !.pending[ev.index] = call, !.order = order]
      BY <3>1, <3>2, Zenon
    <3> QED
      BY <3>3, Zenon
  <2>4. /\ SameTold(noted, codec') /\ codec'.current = codec.current
        /\ codec'.sourceIndex = codec.sourceIndex
    BY <1>7, <1>9, <2>3 DEF AnthropicCodec!Codecs, SameTold
  <2>5. NoBlockLeftOpen'
    BY <1>1, <1>2, <2>1, <2>4, BlockStays
  <2> QED
    BY <1>8, <1>11, <2>1, <2>2, <2>4, <2>5
<1>16. CASE AnthropicCodec!OnContentDelta(ev)
  <2>1. ev.type = "delta" /\ ev.part.kind \in AnthropicCodec!BlockKinds
    BY <1>16, Zenon DEF AnthropicCodec!OnContentDelta
  <2>2. ev.part # NoPart /\ ev.reason = "none"
    BY <1>2, <2>1 DEF AnthropicCodec!BlockKinds, AnthropicCodec!ToolKinds, EndPassed
  <2>3. CASE AnthropicCodec!NeedsNewBlock(ev)
    <3> DEFINE opened == AnthropicCodec!Opened(noted, ev.part.kind)
               placed == [opened EXCEPT !.sourceIndex[ev.index] = codec.nextIndex]
               c      == AnthropicCodec!ClientOpened(greeted, ev.part.kind, ev.part)
    <3>1. codec' = placed /\ client' = AnthropicCodec!WriteDelta(c, codec.nextIndex, ev)
      BY <1>16, <2>3, Zenon DEF AnthropicCodec!OnContentDelta, noted, greeted
    <3>2. /\ SameTold(noted, placed) /\ placed.current.index = codec.nextIndex
          /\ placed.sourceIndex = [codec.sourceIndex EXCEPT ![ev.index] = codec.nextIndex]
      BY <1>7, <1>9 DEF AnthropicCodec!Opened, AnthropicCodec!Codecs, SameTold
    <3> HIDE DEF placed
    <3>3. Continues(client, c)
      BY <1>8, AnthropicClientOpened, ContinuesTwice
    <3> HIDE DEF c
    <3>4. Continues(client, client')
      <4>1. Continues(c, client')
        BY <2>2, <3>1, <3>3, AnthropicWriteDelta DEF Continues
      <4> QED
        BY <3>3, <4>1, ContinuesTwice
    <3>5. NoBlockLeftOpen'
      BY <1>1, <1>2, <2>1, <2>2, <3>1, <3>2, BlockOpens
    <3> QED
      BY <1>11, <2>1, <2>2, <3>1, <3>2, <3>4, <3>5
  <2>4. CASE ~AnthropicCodec!NeedsNewBlock(ev)
    <3>1. /\ codec' = noted
          /\ client' = AnthropicCodec!WriteDelta(greeted, codec.sourceIndex[ev.index], ev)
      BY <1>16, <2>4, Zenon DEF AnthropicCodec!OnContentDelta, noted, greeted
    <3>2. Continues(client, client')
      <4>1. Continues(greeted, client')
        BY <1>8, <2>2, <3>1, AnthropicWriteDelta
      <4> QED
        BY <1>8, <4>1, ContinuesTwice
    <3>3. NoBlockLeftOpen'
      BY <1>1, <1>2, <1>7, <2>1, <3>1, BlockStays
    <3>4. SameTold(noted, codec')
      BY <3>1 DEF SameTold
    <3> QED
      BY <1>11, <2>1, <2>2, <3>2, <3>3, <3>4
  <2> QED
    BY <2>3, <2>4
<1>17. CASE AnthropicCodec!OnBareDelta(ev)
  <2>1. /\ ev.type = "delta" /\ ev.part = NoPart
        /\ client' = AnthropicCodec!WriteDelta(greeted, ev.index, ev)
    BY <1>17, Zenon DEF AnthropicCodec!OnBareDelta, greeted
  <2>2. upstream = "anthropic" /\ ev.reason # "none" /\ ev.response = NoUsage
    <3>1. upstream = "anthropic"
      BY <2>1 DEF Known
    <3> QED
      BY <1>2, <2>1, <3>1 DEF UsagePassed
  <2>3. PICK sent, pc : /\ codec' = [noted EXCEPT !.deltaSent = sent, !.pc = pc]
                        /\ pc = "ranging"
    <3> DEFINE sent == noted.deltaSent \/ ev.reason # "none"
               pc   == IF ev.reason = "none" /\ ev.usage = NoUsage THEN "returned" ELSE noted.pc
    <3>1. codec' = [noted EXCEPT !.deltaSent = sent, !.pc = pc]
      BY <1>17, Zenon DEF AnthropicCodec!OnBareDelta, noted
    <3>2. pc = "ranging"
      BY <1>7, <2>2
    <3> QED
      BY <3>1, <3>2, Zenon
  <2>4. /\ Notes(ev, codec') /\ codec'.pc = "ranging" /\ codec'.current = codec.current
        /\ codec'.sourceIndex = codec.sourceIndex
    BY <1>7, <2>3 DEF AnthropicCodec!Codecs, Notes
  <2>5. AnthropicTold(greeted, client', ev.reason, Merge(greeted.answer.usage, ev.usage), "none")
    BY <1>6, <1>8, <2>1, <2>2, AnthropicReasonTold
  <2>6. ~Over' /\ HeardReason' = ev.reason
    BY <1>2, <2>1, <2>2 DEF EndPassed
  <2>7. /\ client'.answer.usage = HeardUsage' /\ client'.answer.usage \in Counts
        /\ said'.usage = NoUsage => client'.answer.usage = NoUsage
    <3>1. greeted.answer.usage = client.answer.usage /\ client.answer.usage = HeardUsage
      BY <1>3, <1>8, <2>2 DEF Continues, SameEnd
    <3>2. HeardUsage' = Merge(Merge(HeardUsage, ev.usage), NoUsage)
      BY <1>2, <2>2 DEF UsagePassed
    <3>3. client'.answer.usage = Merge(client.answer.usage, ev.usage)
      BY <2>5, <3>1 DEF AnthropicTold
    <3> QED
      BY <1>2, <3>1, <3>2, <3>3 DEF Counts
  <2>8. client'.answer.end = "none" /\ client'.answer.reason = HeardReason'
    BY <2>5, <2>6 DEF AnthropicTold
  <2>9. AnthropicAgrees' /\ AnswerOK'
    BY <1>6, <1>10, <2>2, <2>4, <2>6, <2>7, <2>8, AnthropicGoes
  <2>10. NoBlockLeftOpen'
    BY <1>1, <1>2, <2>1, <2>4, BlockStays
  <2> QED
    BY <2>9, <2>10
<1>18. CASE AnthropicCodec!OnStop(ev)
  <2>1. ev.type = "stop" /\ client' = AnthropicCodec!ClientClosed(greeted)
    BY <1>18, Zenon DEF AnthropicCodec!OnStop, greeted
  <2>2. PICK none : codec' = [noted EXCEPT !.current = none, !.pc = "flushing"]
    BY <1>18, Zenon DEF AnthropicCodec!OnStop, noted
  <2>3. Notes(ev, codec') /\ codec'.pc = "flushing" /\ codec'.deltaSent = codec.deltaSent
    BY <1>7, <2>2 DEF AnthropicCodec!Codecs, Notes
  <2>4. Continues(client, client')
    BY <1>8, <2>1, AnthropicClientClosed, ContinuesTwice
  <2>5. Over' /\ said.end = "clean" /\ HeardReason' = said.reason
    BY <1>2, <2>1 DEF EndPassed
  <2>6. codec'.usage = said.usage
    <3>1. said.usage \in {NoUsage, Total}
      BY <2>5 DEF EndKnown
    <3> QED
      BY <1>1, <1>2, <2>1, <2>3, <3>1, AnthropicStopUsage DEF Notes
  <2>7. /\ client'.answer.end = "none" /\ client'.answer.reason = client.answer.reason
        /\ client'.answer.usage = client.answer.usage
    BY <1>3, <2>4 DEF Continues, SameEnd
  <2>8. upstream = "anthropic" => HeardUsage' = HeardUsage
    <3>1. ASSUME upstream = "anthropic"
          PROVE  /\ HeardUsage' = Merge(Merge(HeardUsage, NoUsage), NoUsage)
                 /\ HeardUsage \in Counts
      BY <1>2, <1>3, <2>1, <3>1 DEF UsagePassed
    <3> QED
      BY <3>1 DEF Counts
  <2>9. HeardReason # "none" => HeardReason = said.reason
    BY DEF HeardReason
  <2>10. AnthropicAgrees' /\ AnswerOK'
    BY <1>2, <1>3, <1>6, <1>10, <2>3, <2>5, <2>6, <2>7, <2>8, <2>9, AnthropicGoes
  <2>11. NoBlockLeftOpen'
    BY <2>3 DEF NoBlockLeftOpen
  <2> QED
    BY <2>10, <2>11
<1>19. CASE AnthropicCodec!OnError(ev)
  <2>1. ev.type = "error" /\ codec' = noted /\ client' = AnthropicCodec!SeesError(greeted)
    BY <1>19, Zenon DEF AnthropicCodec!OnError, noted, greeted
  <2>2. AnthropicTold(greeted, client', greeted.answer.reason, greeted.answer.usage, "error")
    BY <1>8, <2>1, AnthropicSeesError
  <2>3. Over' /\ said.end = "error"
    BY <1>2, <2>1 DEF EndPassed
  <2>4. client'.answer.end = "error" /\ client'.answer.usage = client.answer.usage
    BY <1>8, <2>2 DEF AnthropicTold, Continues, SameEnd
  <2>5. AnswerOK'
    <3>1. IsAnswer(client'.answer)
      BY <2>2 DEF AnthropicTold, AnthropicClient
    <3>2. IsAnswer(client.answer)' <=> IsAnswer(client'.answer)
      BY DEF IsAnswer
    <3> QED
      BY <1>2, <2>4, <3>1, <3>2 DEF AnswerOK
  <2>6. UsageHeard(codec.usage)'
    BY <1>7, <1>10, <2>1 DEF UsageHeard
  <2>7. AnthropicAgrees'
    BY <1>6, <1>7, <1>10, <2>1, <2>3, <2>4, <2>6 DEF AnthropicAgrees
  <2>8. NoBlockLeftOpen'
    BY <1>1, <1>2, <1>7, <2>1, BlockStays
  <2> QED
    BY <2>5, <2>7, <2>8
<1>20. CASE AnthropicCodec!OnErr(ev)
  <2>1. /\ ev.type = "err" /\ codec' = [codec EXCEPT !.pc = "returned"]
        /\ client' = AnthropicCodec!SeesError(client)
    BY <1>20, Zenon DEF AnthropicCodec!OnErr
  <2>2. codec'.pc = "returned"
    BY <1>1, <2>1 DEF AnthropicCodec!Codecs
  <2>3. AnthropicTold(client, client', client.answer.reason, client.answer.usage, "error")
    BY <1>3, <1>4, <2>1, AnthropicSeesError
  <2>4. client'.answer.end = "error" /\ client'.answer.usage = client.answer.usage
    BY <2>3 DEF AnthropicTold
  <2>5. said'.end = "error"
    BY <2>1 DEF Passed, EndPassed
  <2> QED
    BY <1>2, <1>6, <2>2, <2>4, <2>5, AnthropicEnds
<1> QED
  BY <1>12, <1>13, <1>14, <1>15, <1>16, <1>17, <1>18, <1>19, <1>20 DEF AnthropicCodec!Receive

\* Where nothing is heard, as the codec goes on by itself.
LEMMA AnthropicUnheard ==
  ASSUME UNCHANGED <<upstream, inbound, up, queue, said>>
  PROVE  /\ HeardReason' = HeardReason /\ HeardUsage' = HeardUsage /\ (Over' <=> Over)
         /\ \A usage : UsageHeard(usage)' <=> UsageHeard(usage)
<1>1. HeardReason' = HeardReason
  BY DEF HeardReason
<1>2. HeardUsage' = HeardUsage
  BY DEF HeardUsage
<1>3. Over' <=> Over
  BY DEF Over
<1> QED
  BY <1>1, <1>2, <1>3 DEF UsageHeard

\* A buffered call is written, and tells nothing of the end.
LEMMA AnthropicFlushesTool ==
  ASSUME AnthropicAgrees, AnswerOK, EndKnown, AnthropicCodec!FlushTool,
         UNCHANGED <<upstream, inbound, up, queue, said>>
  PROVE  AnthropicAgrees' /\ AnswerOK' /\ NoBlockLeftOpen'
<1>1. /\ codec.pc = "flushing" /\ codec.reason = HeardReason /\ UsageHeard(codec.usage)
      /\ AnthropicCodec!CodecInv /\ codec \in AnthropicCodec!Codecs
      /\ client \in AnthropicCodec!Clients /\ client.answer.end = "none"
      /\ Over /\ said.end = "clean" /\ codec.usage = said.usage
  BY DEF AnthropicAgrees, AnthropicCodec!FlushTool, AnthropicCodec!CodecInv,
         AnthropicCodec!TypeOK
<1>2. AnthropicClient(client)
  BY <1>1 DEF AnthropicCodec!Clients, AnthropicCodec!Answers, AnthropicClient, IsAnswer
<1>3. AnthropicCodec!CodecInv'
  BY <1>1, AnthropicGoesOn
<1>4. PICK next, index, call, order :
        codec' = [codec EXCEPT !.nextIndex = next, !.pending[index] = call, !.order = order]
  <2>1. codec' = [codec EXCEPT !.nextIndex = codec.nextIndex + 1,
                               !.pending[Head(codec.order)] = AnthropicCodec!NoCall,
                               !.order = Tail(codec.order)]
    BY Zenon DEF AnthropicCodec!FlushTool
  <2> QED
    BY <2>1, Zenon
<1>5. /\ codec'.pc = "flushing" /\ codec'.reason = codec.reason /\ codec'.usage = codec.usage
      /\ codec'.deltaSent = codec.deltaSent
  BY <1>1, <1>4 DEF AnthropicCodec!Codecs
<1>6. Continues(client, client')
  <2> DEFINE tool   == codec.pending[Head(codec.order)]
             opened == AnthropicCodec!ClientOpened(client, tool.kind,
                                                   AnthropicCodec!Part(tool.kind, tool.id, 0))
             delta  == AnthropicCodec!SeesDelta(opened, codec.nextIndex, tool.kind, tool.args)
             filled == IF tool.args = <<>> THEN opened ELSE delta
  <2>1. client' = AnthropicCodec!SeesBlockStop(filled, codec.nextIndex)
    BY Zenon DEF AnthropicCodec!FlushTool
  <2>2. filled \in {opened, delta}
    BY Zenon
  <2>3. Continues(client, opened)
    BY <1>2, AnthropicClientOpened, Zenon
  <2> HIDE DEF opened, filled
  <2>4. Continues(opened, delta)
    BY <2>3, AnthropicSeesDelta DEF Continues
  <2> HIDE DEF delta
  <2>5. Continues(client, filled)
    BY <2>2, <2>3, <2>4, ContinuesTwice
  <2>6. Continues(filled, client')
    BY <2>1, <2>5, AnthropicSeesBlockStop DEF Continues
  <2> QED
    BY <2>5, <2>6, ContinuesTwice
<1>7. /\ client'.answer.end = "none" /\ client'.answer.reason = client.answer.reason
      /\ client'.answer.usage = client.answer.usage
  BY <1>1, <1>6 DEF Continues, SameEnd
<1>8. /\ client.answer.usage \in Counts
      /\ said.usage = NoUsage => client.answer.usage = NoUsage
      /\ said.usage = NoUsage => codec.usage = NoUsage
      /\ codec.usage \in Counts
      /\ upstream = "anthropic" =>
           client.answer.usage = HeardUsage /\ codec.usage = HeardUsage
      /\ codec.deltaSent => /\ upstream = "anthropic" /\ HeardReason # "none"
                            /\ client.answer.reason = HeardReason
  BY <1>1 DEF AnswerOK, AnthropicAgrees, UsageHeard
<1>9. HeardReason' = HeardReason /\ HeardUsage' = HeardUsage /\ Over'
  BY <1>1, AnthropicUnheard
<1>10. AnthropicAgrees' /\ AnswerOK'
  BY <1>1, <1>3, <1>5, <1>7, <1>8, <1>9, AnthropicGoes
<1>11. NoBlockLeftOpen'
  BY <1>5 DEF NoBlockLeftOpen
<1> QED
  BY <1>10, <1>11

\* The message ends, with all that was said of its reason and of the usage.
LEMMA AnthropicFinishes ==
  ASSUME AnthropicAgrees, AnswerOK, EndKnown, AnthropicCodec!Finish,
         UNCHANGED <<upstream, inbound, up, queue, said>>
  PROVE  AnthropicAgrees' /\ AnswerOK' /\ NoBlockLeftOpen'
<1>1. /\ codec.pc = "flushing" /\ codec.reason = HeardReason /\ UsageHeard(codec.usage)
      /\ AnthropicCodec!CodecInv /\ codec \in AnthropicCodec!Codecs
      /\ client \in AnthropicCodec!Clients /\ client.answer.end = "none"
      /\ Over /\ said.end = "clean" /\ codec.usage = said.usage
      /\ codec.current = AnthropicCodec!NoBlock
  BY DEF AnthropicAgrees, AnthropicCodec!Finish, AnthropicCodec!CodecInv,
         AnthropicCodec!TypeOK, AnthropicCodec!FlushBeforeStop
<1>2. AnthropicClient(client)
  BY <1>1 DEF AnthropicCodec!Clients, AnthropicCodec!Answers, AnthropicClient, IsAnswer
<1>3. AnthropicCodec!CodecInv' /\ ~client'.broken
  <2>1. AnthropicCodec!CodecInv'
    BY <1>1, AnthropicGoesOn
  <2> QED
    BY <2>1 DEF AnthropicCodec!CodecInv, AnthropicCodec!Follows
<1>4. /\ said.reason # "none" /\ said.usage \in {NoUsage, Total} /\ codec.reason = said.reason
      /\ HeardReason = said.reason
  BY <1>1 DEF EndKnown
<1>5. PICK sent : codec' = [codec EXCEPT !.pc = "ranging", !.deltaSent = sent]
  BY Zenon DEF AnthropicCodec!Finish
<1>6. /\ codec'.pc = "ranging" /\ codec'.reason = codec.reason /\ codec'.usage = codec.usage
      /\ codec'.current = AnthropicCodec!NoBlock
  <2>1. codec'.current = codec.current
    BY <1>1, <1>5 DEF AnthropicCodec!Codecs
  <2> QED
    BY <1>1, <1>5, <2>1 DEF AnthropicCodec!Codecs
<1>7. /\ client'.answer.end = "clean" /\ client'.answer.reason = said.reason
      /\ client'.answer.usage = said.usage /\ AnthropicClient(client')
  <2>1. CASE codec.deltaSent
    <3>1. client' = AnthropicCodec!SeesStop(client)
      BY <2>1, Zenon DEF AnthropicCodec!Finish, AnthropicCodec!ClientFinished
    <3>2. AnthropicTold(client, client', client.answer.reason, client.answer.usage, "clean")
      BY <1>1, <1>2, <1>3, <3>1, AnthropicSeesStop
    <3>3. client.answer.reason = HeardReason /\ client.answer.usage = HeardUsage
      BY <1>1, <2>1 DEF AnthropicAgrees
    <3>4. codec.usage = HeardUsage
      BY <1>1, <2>1 DEF AnthropicAgrees, UsageHeard
    <3> QED
      BY <1>1, <1>4, <3>2, <3>3, <3>4 DEF AnthropicTold
  <2>2. CASE ~codec.deltaSent
    <3> DEFINE d == AnthropicCodec!SeesMessageDelta(client, codec.reason, codec.usage)
    <3>1. client' = AnthropicCodec!SeesStop(d)
      BY <1>4, <2>2, Zenon DEF AnthropicCodec!Finish, AnthropicCodec!ClientFinished
    <3>2. AnthropicClient(d) /\ d.answer.end = "none"
      BY <1>1, <1>2, AnthropicSeesMessage
    <3>3. ~d.broken => AnthropicTold(client, d, codec.reason,
                                     Merge(client.answer.usage, codec.usage), "none")
      BY <1>1, <1>2, AnthropicSeesMessageDelta
    <3> HIDE DEF d
    <3>4. ~d.broken /\ AnthropicTold(d, client', d.answer.reason, d.answer.usage, "clean")
      BY <1>3, <3>1, <3>2, AnthropicSeesStop
    <3>5. Merge(client.answer.usage, said.usage) = said.usage
      <4>1. client.answer.usage \in Counts /\ (said.usage = NoUsage => client.answer.usage = NoUsage)
        BY DEF AnswerOK
      <4> QED
        BY <1>4, <4>1 DEF Counts, Total
    <3> QED
      BY <1>1, <1>4, <3>3, <3>4, <3>5 DEF AnthropicTold
  <2> QED
    BY <2>1, <2>2
<1>8. HeardReason' = HeardReason /\ Over' /\ UsageHeard(codec.usage)'
  <2>1. UsageHeard(codec.usage)'
    <3>1. HeardUsage' = HeardUsage
      BY AnthropicUnheard
    <3> QED
      BY <1>1, <1>6, <3>1 DEF UsageHeard
  <2> QED
    BY <1>1, <2>1, AnthropicUnheard
<1>9. AnswerOK'
  <2>1. IsAnswer(client'.answer)
    BY <1>7 DEF AnthropicClient
  <2>2. IsAnswer(client.answer)' <=> IsAnswer(client'.answer)
    BY DEF IsAnswer
  <2>3. said.usage \in Counts
    BY DEF EndKnown
  <2> QED
    BY <1>7, <2>1, <2>2, <2>3 DEF AnswerOK
<1>10. Complete(said.reason)'
  BY <1>7 DEF Complete
<1>11. AnthropicAgrees'
  BY <1>1, <1>3, <1>6, <1>7, <1>8, <1>10 DEF AnthropicAgrees
<1>12. NoBlockLeftOpen'
  BY <1>6 DEF NoBlockLeftOpen
<1> QED
  BY <1>9, <1>11, <1>12

\* The channel is closed, or a write fails.
LEMMA AnthropicEndsLoop ==
  ASSUME AnthropicAgrees, AnswerOK, EndKnown,
         \/ AnthropicCodec!SeesEnd /\ queue = <<>> /\ up.phase = "closed"
         \/ AnthropicCodec!WriteFails,
         UNCHANGED <<upstream, inbound, up, queue, said>>
  PROVE  AnthropicAgrees' /\ AnswerOK' /\ NoBlockLeftOpen'
<1>1. /\ codec.pc # "returned" /\ AnthropicCodec!CodecInv /\ codec \in AnthropicCodec!Codecs
      /\ client \in AnthropicCodec!Clients
  BY DEF AnthropicAgrees, AnthropicCodec!SeesEnd, AnthropicCodec!WriteFails,
         AnthropicCodec!CodecInv, AnthropicCodec!TypeOK
<1>2. AnthropicClient(client)
  BY <1>1 DEF AnthropicCodec!Clients, AnthropicCodec!Answers, AnthropicClient, IsAnswer
<1>3. AnthropicCodec!CodecInv'
  BY <1>1, AnthropicGoesOn
<1>4. codec'.pc = "returned"
  <2>1. codec' = [codec EXCEPT !.pc = "returned"]
    BY Zenon DEF AnthropicCodec!SeesEnd, AnthropicCodec!WriteFails
  <2> QED
    BY <1>1, <2>1 DEF AnthropicCodec!Codecs
<1>5. /\ client.answer.usage \in Counts
      /\ said.usage = NoUsage => client.answer.usage = NoUsage
  BY DEF AnswerOK
<1>6. CASE AnthropicCodec!WriteFails
  <2>1. client' = EndsAs(client, "gone")
    BY <1>6, Zenon DEF AnthropicCodec!WriteFails, EndsAs
  <2>2. AnthropicTold(client, client', client.answer.reason, client.answer.usage, "gone")
    BY <1>2, <2>1, AnthropicEndsAs
  <2>3. client'.answer.end = "gone" /\ client'.answer.usage = client.answer.usage
    BY <2>2 DEF AnthropicTold
  <2> QED
    BY <1>3, <1>4, <1>5, <2>3, AnthropicEnds
<1>7. CASE AnthropicCodec!SeesEnd /\ queue = <<>> /\ up.phase = "closed"
  <2>1. codec.pc = "ranging" /\ Over /\ Over'
    <3>1. codec.pc = "ranging" /\ Over
      BY <1>7 DEF AnthropicCodec!SeesEnd, EndKnown
    <3> QED
      BY <3>1, AnthropicUnheard
  <2>2. CASE client.answer.end = "none"
    <3>1. client' = EndsAs(client, "cut")
      BY <1>7, <2>2, Zenon DEF AnthropicCodec!SeesEnd, EndsAs
    <3>2. AnthropicTold(client, client', client.answer.reason, client.answer.usage, "cut")
      BY <1>2, <3>1, AnthropicEndsAs
    <3>3. client'.answer.end = "cut" /\ client'.answer.usage = client.answer.usage
      BY <3>2 DEF AnthropicTold
    <3>4. said.end # "error"
      BY <1>1, <2>1, <2>2 DEF AnthropicAgrees
    <3> QED
      BY <1>3, <1>4, <1>5, <3>3, <3>4, AnthropicEnds
  <2>3. CASE client.answer.end # "none"
    <3>1. client' = client
      BY <1>7, <2>3, Zenon DEF AnthropicCodec!SeesEnd
    <3>2. /\ client.answer.end = "clean" => said.end = "clean" /\ Complete(said.reason)
          /\ said.end = "error" <=> client.answer.end = "error"
      BY <1>1, <2>1 DEF AnthropicAgrees
    <3>3. said.end = "clean" => said.reason # "none"
      BY <2>1 DEF EndKnown
    <3>4. client'.answer = client.answer
      BY <3>1
    <3> QED
      BY <1>3, <1>4, <1>5, <2>1, <3>2, <3>3, <3>4, AnthropicEnds DEF Complete
  <2> QED
    BY <2>2, <2>3
<1> QED
  BY <1>6, <1>7

-----------------------------------------------------------------------------
(* Whatever the inbound protocol.                                          *)

Agree ==
    /\ inbound = "anthropic" => AnthropicAgrees /\ NoBlockLeftOpen
    /\ inbound = "chat" => ChatAgrees
    /\ inbound = "responses" => ResponsesAgrees
    /\ inbound = "gemini" => GeminiAgrees

\* The inbound protocol is one of the four.
LEMMA InboundProtocol == Feed => inbound \in Protocols
BY DEF Feed

\* What the client has been told of the end, by inbound protocol.
LEMMA EndToldIs == Feed => (EndTold <=> AnswerOK /\ Agree)
<1> SUFFICES ASSUME inbound \in Protocols
             PROVE  EndTold <=> AnswerOK /\ Agree
  BY InboundProtocol
<1>1. CASE inbound = "anthropic"
  BY <1>1, SMTT(20) DEF EndTold, Agree
<1>2. CASE inbound = "chat"
  BY <1>2, SMTT(20) DEF EndTold, Agree
<1>3. CASE inbound = "responses"
  BY <1>3, SMTT(20) DEF EndTold, Agree
<1>4. CASE inbound = "gemini"
  BY <1>4, SMTT(20) DEF EndTold, Agree
<1> QED
  BY <1>1, <1>2, <1>3, <1>4 DEF Protocols

\* The same after a step.
LEMMA EndToldIsNext == Feed' => (EndTold' <=> AnswerOK' /\ Agree')
BY EndToldIs, PTL

\* At first nothing has been told.
LEMMA EndToldInit == Init => EndTold
<1> SUFFICES ASSUME Init PROVE EndTold
  OBVIOUS
<1>1. Feed
  BY FeedInit
<1>2. /\ inbound \in Protocols /\ queue = <<>> /\ said = Answer /\ up.phase = "silent"
  <2>1. /\ upstream \in Protocols /\ inbound \in Protocols /\ queue = <<>> /\ said = Answer
    BY ProtocolsAssumption DEF Init
  <2>2. /\ upstream = "anthropic" => up = AnthropicUp!UpInit
        /\ upstream = "chat" => up = ChatUp!UpInit
        /\ upstream = "responses" => up = ResponsesUp!UpInit
        /\ upstream = "gemini" => up = GeminiUp!UpInit
    BY SMTT(20) DEF Init
  <2>3. up.phase = "silent"
    BY <2>1, <2>2 DEF Protocols, AnthropicUp!UpInit, ChatUp!UpInit, ResponsesUp!UpInit,
                      GeminiUp!UpInit
  <2> QED
    BY <2>1, <2>3
<1>3. said.usage = NoUsage /\ said.end = "none" /\ said.reason = "none"
  BY <1>2 DEF Answer
<1>4. /\ HeardReason = "none" /\ ~Over /\ UsageHeard(NoUsage)
  <2>1. HeardReason = "none"
    BY <1>2 DEF HeardReason
  <2>2. ~Over
    BY <1>2 DEF Over
  <2>3. HeardUsage = NoUsage
    BY <1>2, <1>3 DEF HeardUsage
  <2>4. NoUsage \in Counts
    BY DEF Counts
  <2> QED
    BY <2>1, <2>2, <2>3, <2>4 DEF UsageHeard
<1>5. /\ inbound = "anthropic" =>
           codec = AnthropicCodec!CodecInit /\ client = AnthropicCodec!ClientInit
      /\ inbound = "chat" => codec = ChatCodec!CodecInit /\ client = ChatCodec!ClientInit
      /\ inbound = "responses" =>
           codec = ResponsesCodec!CodecInit /\ client = ResponsesCodec!ClientInit
      /\ inbound = "gemini" => codec = GeminiCodec!CodecInit /\ client = GeminiCodec!ClientInit
  BY SMTT(20) DEF Init
<1>6. client.answer \in {Answer, AnthropicCodec!Answer, ChatCodec!Answer, ResponsesCodec!Answer,
                         GeminiCodec!Answer}
  BY <1>2, <1>5 DEF Protocols, AnthropicCodec!ClientInit, ChatCodec!ClientInit,
                    ResponsesCodec!ClientInit, GeminiCodec!ClientInit
<1>7. client.answer = Answer
  BY <1>6, Zenon DEF Answer, AnthropicCodec!Answer, ChatCodec!Answer, ResponsesCodec!Answer,
                     GeminiCodec!Answer, NoUsage, Usage, AnthropicCodec!NoUsage,
                     AnthropicCodec!Usage, ChatCodec!NoUsage, ChatCodec!Usage,
                     ResponsesCodec!NoUsage, ResponsesCodec!Usage, GeminiCodec!NoUsage,
                     GeminiCodec!Usage
<1>8. /\ IsAnswer(client.answer) /\ client.answer.usage = NoUsage /\ client.answer.end = "none"
      /\ client.answer.reason = "none"
  BY <1>7 DEF Answer, IsAnswer
<1>9. AnswerOK
  BY <1>4, <1>8 DEF AnswerOK, UsageHeard
<1>10. CASE inbound = "anthropic"
  <2>1. codec = AnthropicCodec!CodecInit /\ client = AnthropicCodec!ClientInit
    BY <1>5, <1>10
  <2>2. AnthropicCodec!CodecInv
    BY <2>1, AnthropicInit DEF AnthropicCodec!Init
  <2>3. /\ codec.pc = "ranging" /\ codec.usage = NoUsage /\ codec.reason = "none"
        /\ ~codec.deltaSent /\ codec.current = AnthropicCodec!NoBlock
    BY <2>1 DEF AnthropicCodec!CodecInit
  <2>4. AnthropicAgrees
    BY <1>3, <1>4, <1>8, <2>2, <2>3 DEF AnthropicAgrees, UsageHeard
  <2>5. NoBlockLeftOpen
    BY <2>3 DEF NoBlockLeftOpen
  <2> QED
    BY <1>1, <1>2, <1>9, <1>10, <2>4, <2>5, EndToldIs DEF Agree
<1>11. CASE inbound = "chat"
  <2>1. codec = ChatCodec!CodecInit /\ client = ChatCodec!ClientInit
    BY <1>5, <1>11
  <2>2. ChatClient(client)
    <3>1. client.ids \in [Indices -> CallIds]
      BY <2>1 DEF ChatCodec!ClientInit, CallIds
    <3>2. client = [answer |-> client.answer, shown |-> client.shown, ids |-> client.ids,
                    broken |-> client.broken]
      BY <2>1 DEF ChatCodec!ClientInit
    <3> QED
      BY <1>8, <3>1, <3>2 DEF ChatClient
  <2>3. /\ codec \in [pc : {"ranging", "returned"}, completed : BOOLEAN, usage : Counts,
                      reason : StopReasons]
        /\ codec.pc = "ranging" /\ codec.usage = NoUsage /\ codec.reason = "none"
        /\ ~codec.completed
    BY <2>1 DEF ChatCodec!CodecInit, Counts, StopReasons
  <2>4. ChatAgrees
    BY <1>3, <1>4, <1>8, <2>2, <2>3 DEF ChatAgrees
  <2> QED
    BY <1>1, <1>2, <1>9, <1>11, <2>4, EndToldIs DEF Agree
<1>12. CASE inbound = "responses"
  <2>1. codec = ResponsesCodec!CodecInit /\ client = ResponsesCodec!ClientInit
    BY <1>5, <1>12
  <2>2. ResponsesClient(client) /\ client.created = FALSE
    <3>1. client = [answer |-> client.answer, created |-> client.created, items |-> client.items,
                    broken |-> client.broken]
      BY <2>1 DEF ResponsesCodec!ClientInit
    <3> QED
      BY <1>8, <2>1, <3>1 DEF ResponsesClient, ResponsesCodec!ClientInit
  <2>3. /\ codec = [pc |-> codec.pc, started |-> codec.started, usage |-> codec.usage,
                    reason |-> codec.reason, nextOutput |-> codec.nextOutput,
                    items |-> codec.items]
        /\ codec.pc = "ranging" /\ codec.usage = NoUsage /\ codec.reason = "none"
        /\ codec.started = FALSE
    BY <2>1 DEF ResponsesCodec!CodecInit
  <2>4. ResponsesAgrees
    BY <1>3, <1>4, <1>8, <2>2, <2>3 DEF ResponsesAgrees
  <2> QED
    BY <1>1, <1>2, <1>9, <1>12, <2>4, EndToldIs DEF Agree
<1>13. CASE inbound = "gemini"
  <2>1. codec = GeminiCodec!CodecInit /\ client = GeminiCodec!ClientInit
    BY <1>5, <1>13
  <2>2. GeminiClient(client)
    <3>1. client = [answer |-> client.answer, broken |-> client.broken]
      BY <2>1 DEF GeminiCodec!ClientInit
    <3> QED
      BY <1>8, <3>1 DEF GeminiClient
  <2>3. /\ codec = [pc |-> codec.pc, usage |-> codec.usage, reason |-> codec.reason,
                    pending |-> codec.pending, order |-> codec.order]
        /\ codec.pc = "ranging" /\ codec.usage = NoUsage /\ codec.reason = "none"
    BY <2>1 DEF GeminiCodec!CodecInit
  <2>4. GeminiAgrees
    BY <1>3, <1>4, <1>8, <2>2, <2>3 DEF GeminiAgrees
  <2> QED
    BY <1>1, <1>2, <1>9, <1>13, <2>4, EndToldIs DEF Agree
<1> QED
  BY <1>2, <1>10, <1>11, <1>12, <1>13 DEF Protocols

\* The provider speaks, or the reader reads.
LEMMA EndToldUpstream ==
  ASSUME Feed, AnswerOK, Agree, Upstream
  PROVE  AnswerOK' /\ Agree'
<1>1. /\ codec.pc # "returned" /\ UNCHANGED <<upstream, inbound, codec, client>>
      /\ inbound \in Protocols
  BY InboundProtocol DEF Upstream
<1>2. Quiet
  BY FeedUpstream
<1>3. CASE inbound = "anthropic"
  BY <1>1, <1>2, <1>3, AnthropicQuiet DEF Agree
<1>4. CASE inbound = "chat"
  BY <1>1, <1>2, <1>4, ChatQuiet DEF Agree
<1>5. CASE inbound = "responses"
  BY <1>1, <1>2, <1>5, ResponsesQuiet DEF Agree
<1>6. CASE inbound = "gemini"
  BY <1>1, <1>2, <1>6, GeminiQuiet DEF Agree
<1> QED
  BY <1>1, <1>3, <1>4, <1>5, <1>6 DEF Protocols

\* The codec receives an event.
LEMMA EndToldPassOn ==
  ASSUME Feed, AnswerOK, Agree, PassOn
  PROVE  AnswerOK' /\ Agree'
<1> DEFINE ev == Head(queue)
<1>1. /\ queue # <<>> /\ queue' = Tail(queue) /\ UNCHANGED <<upstream, inbound, up, said>>
      /\ inbound \in Protocols
  BY InboundProtocol DEF PassOn
<1>2. /\ inbound = "anthropic" => AnthropicCodec!Receive(ev)
      /\ inbound = "chat" => ChatCodec!Receive(ev)
      /\ inbound = "responses" => ResponsesCodec!Receive(ev)
      /\ inbound = "gemini" => GeminiCodec!Receive(ev)
  BY DEF PassOn
<1>3. Passed(ev) /\ EndKnown /\ EndKnown'
  BY <1>1, FeedPassOn, FeedKnowsEnd, FeedKnowsEndNext
<1>4. Known(ev) /\ NoUsageTold(ev)
  BY <1>1, EventKnown, AnthropicHeard
<1> HIDE DEF ev
<1>5. CASE inbound = "anthropic"
  BY <1>1, <1>2, <1>3, <1>4, <1>5, AnthropicEvent DEF Agree
<1>6. CASE inbound = "chat"
  BY <1>1, <1>2, <1>3, <1>6, ChatEvent DEF Agree
<1>7. CASE inbound = "responses"
  BY <1>1, <1>2, <1>3, <1>7, ResponsesEvent DEF Agree
<1>8. CASE inbound = "gemini"
  BY <1>1, <1>2, <1>3, <1>8, GeminiEvent DEF Agree
<1> QED
  BY <1>1, <1>5, <1>6, <1>7, <1>8 DEF Protocols

\* The codec goes on by itself, or is at its end.
LEMMA EndToldGoesOn ==
  ASSUME Feed, AnswerOK, Agree, Flush \/ SeesEnd \/ ClientLeaves
  PROVE  AnswerOK' /\ Agree'
<1>1. UNCHANGED <<upstream, inbound, up, queue, said>> /\ inbound \in Protocols /\ EndKnown
  BY InboundProtocol, FeedKnowsEnd DEF Flush, SeesEnd, ClientLeaves
<1>2. CASE inbound = "anthropic"
  <2>1. \/ AnthropicCodec!FlushTool \/ AnthropicCodec!Finish
        \/ AnthropicCodec!SeesEnd /\ queue = <<>> /\ up.phase = "closed"
        \/ AnthropicCodec!WriteFails
    BY <1>2 DEF Flush, SeesEnd, ClientLeaves
  <2> QED
    BY <1>1, <1>2, <2>1, AnthropicFlushesTool, AnthropicFinishes, AnthropicEndsLoop DEF Agree
<1>3. CASE inbound = "chat"
  <2>1. \/ ChatCodec!SeesEnd /\ queue = <<>> /\ up.phase = "closed"
        \/ ChatCodec!WriteFails
    BY <1>3 DEF Flush, SeesEnd, ClientLeaves
  <2> QED
    BY <1>1, <1>3, <2>1, ChatEndsLoop DEF Agree
<1>4. CASE inbound = "responses"
  <2>1. \/ ResponsesCodec!SeesEnd /\ queue = <<>> /\ up.phase = "closed"
        \/ ResponsesCodec!WriteFails
    BY <1>4 DEF Flush, SeesEnd, ClientLeaves
  <2> QED
    BY <1>1, <1>4, <2>1, ResponsesEndsLoop DEF Agree
<1>5. CASE inbound = "gemini"
  <2>1. \/ GeminiCodec!SeesEnd /\ queue = <<>> /\ up.phase = "closed"
        \/ GeminiCodec!WriteFails
    BY <1>5 DEF Flush, SeesEnd, ClientLeaves
  <2> QED
    BY <1>1, <1>5, <2>1, GeminiEndsLoop DEF Agree
<1> QED
  BY <1>1, <1>2, <1>3, <1>4, <1>5 DEF Protocols

-----------------------------------------------------------------------------
(* The theorems.                                                           *)

\* When nothing changes.
LEMMA EndToldUnchanged ==
  ASSUME EndTold, Feed, Feed', UNCHANGED <<upstream, inbound, up, queue, said, codec, client>>
  PROVE  EndTold'
<1>1. AnswerOK /\ Agree
  BY EndToldIs
<1>2. /\ HeardReason' = HeardReason /\ HeardUsage' = HeardUsage /\ (Over' <=> Over)
      /\ (StartAwaited' <=> StartAwaited)
  BY AnthropicUnheard DEF StartAwaited
<1>3. AnswerOK'
  BY <1>1 DEF AnswerOK, IsAnswer
<1>4. \A reason : Returned(reason) => Returned(reason)'
  BY <1>2 DEF Returned, Complete
<1>5. ASSUME ChatAgrees
      PROVE  ChatAgrees'
  BY <1>2, <1>5 DEF ChatAgrees, ChatClient, IsAnswer, UsageHeard, Returned, Complete
<1>6. ASSUME GeminiAgrees
      PROVE  GeminiAgrees'
  BY <1>2, <1>6 DEF GeminiAgrees, GeminiClient, IsAnswer, UsageHeard, Returned, Complete
<1>7. ASSUME ResponsesAgrees
      PROVE  ResponsesAgrees'
  BY <1>2, <1>7 DEF ResponsesAgrees, ResponsesClient, IsAnswer, UsageHeard, Returned, Complete
<1>8. ASSUME AnthropicAgrees, NoBlockLeftOpen
      PROVE  AnthropicAgrees' /\ NoBlockLeftOpen'
  <2>1. AnthropicCodec!CodecInv'
    <3>1. AnthropicCodec!CodecInv
      BY <1>8 DEF AnthropicAgrees
    <3> QED
      BY <3>1, Zenon DEF AnthropicCodec!CodecInv, AnthropicCodec!TypeOK, AnthropicCodec!Follows,
         AnthropicCodec!OrderListsPending, AnthropicCodec!FlushBeforeStop, AnthropicCodec!IsPending
  <2>2. NoBlockLeftOpen'
    BY <1>8 DEF NoBlockLeftOpen, OpenHeard, BlockHeard
  <2>3. AnthropicAgrees'
    BY <1>2, <1>8, <2>1 DEF AnthropicAgrees, UsageHeard, Returned, Complete
  <2> QED
    BY <2>2, <2>3
<1>9. Agree'
  BY <1>1, <1>5, <1>6, <1>7, <1>8 DEF Agree
<1> QED
  BY <1>3, <1>9, EndToldIsNext

\* What codec and client make of the events agrees with what the provider and the
\* reader have let be heard of the answer.  This is the inductive invariant of the
\* end of a translated stream.
THEOREM EndToldHolds == Spec => [](Feed /\ EndTold)
<1>1. Feed /\ EndTold /\ [Next]_vars => (Feed /\ EndTold)'
  <2> SUFFICES ASSUME Feed, EndTold, [Next]_vars
               PROVE  Feed' /\ EndTold'
    OBVIOUS
  <2>1. AnswerOK /\ Agree
    BY EndToldIs
  <2>2. CASE Upstream
    <3>1. Feed' /\ AnswerOK' /\ Agree'
      BY <2>1, <2>2, FeedUpstream, EndToldUpstream
    <3> QED
      BY <3>1, EndToldIsNext
  <2>3. CASE PassOn
    <3>1. Feed' /\ AnswerOK' /\ Agree'
      BY <2>1, <2>3, FeedPassOn, EndToldPassOn DEF PassOn
    <3> QED
      BY <3>1, EndToldIsNext
  <2>4. CASE Flush \/ SeesEnd \/ ClientLeaves
    <3>1. Feed'
      BY <2>4, FeedUnchanged DEF Flush, SeesEnd, ClientLeaves
    <3>2. AnswerOK' /\ Agree'
      BY <2>1, <2>4, EndToldGoesOn
    <3> QED
      BY <3>1, <3>2, EndToldIsNext
  <2>5. CASE UNCHANGED vars
    <3>1. Feed' /\ UNCHANGED <<upstream, inbound, up, queue, said, codec, client>>
      BY <2>5, FeedUnchanged DEF vars
    <3>2. EndTold'
      BY <3>1, EndToldUnchanged
    <3> QED
      BY <3>1, <3>2
  <2> QED
    BY <2>2, <2>3, <2>4, <2>5 DEF Next, Terminated
<1>2. Init => Feed /\ EndTold
  BY FeedInit, EndToldInit
<1> QED
  BY <1>1, <1>2, PTL DEF Spec

\* What EndTold says of an answer that has ended, in one form for all protocols.
LEMMA EndedHonestly ==
  ASSUME Feed, EndTold
  PROVE  /\ client.answer.end = "clean" =>
              /\ said.reason # "none" /\ Complete(Shown(said.reason))
              /\ said.end = "clean" \/ inbound = "gemini"
         /\ codec.pc = "returned" /\ said.end = "error" => client.answer.end \in {"error", "gone"}
         /\ client.answer.end = "error" => said.end = "error"
<1>1. AnswerOK /\ Agree /\ inbound \in Protocols /\ EndKnown
  BY EndToldIs, InboundProtocol, FeedKnowsEnd
<1>2. CASE inbound = "anthropic"
  <2>1. Shown(said.reason) = said.reason
    BY <1>2, SMTT(20) DEF Shown
  <2>2. AnthropicAgrees
    BY <1>1, <1>2 DEF Agree
  <2> QED
    BY <1>1, <2>1, <2>2 DEF AnthropicAgrees, Returned, EndKnown
<1>3. CASE inbound = "chat"
  <2>1. Shown(said.reason) = ChatCodec!FinishReason(said.reason)
    BY <1>3, SMTT(20) DEF Shown
  <2>2. ChatAgrees
    BY <1>1, <1>3 DEF Agree
  <2>3. codec.pc \in {"ranging", "returned"}
    BY <2>2 DEF ChatAgrees
  <2> QED
    BY <2>1, <2>2, <2>3 DEF ChatAgrees, Returned
<1>4. CASE inbound = "responses"
  <2>1. Shown(said.reason) = ResponsesCodec!Status(said.reason)
    BY <1>4, SMTT(20) DEF Shown
  <2>2. ResponsesAgrees
    BY <1>1, <1>4 DEF Agree
  <2> QED
    BY <2>1, <2>2 DEF ResponsesAgrees, Returned
<1>5. CASE inbound = "gemini"
  <2>1. Shown(said.reason) = GeminiCodec!FinishReason(said.reason)
    BY <1>5, SMTT(20) DEF Shown
  <2>2. GeminiAgrees
    BY <1>1, <1>5 DEF Agree
  <2> QED
    BY <2>1, <2>2 DEF GeminiAgrees, Returned
<1> QED
  BY <1>1, <1>2, <1>3, <1>4, <1>5 DEF Protocols

\* A stream ends cleanly for the client only when the provider has ended it so, and
\* with the provider's own stop reason in the words of the inbound protocol.
THEOREM EndIsHonest == Spec => []HonestEnd
<1>1. Feed /\ EndTold => HonestEnd
  BY EndedHonestly DEF HonestEnd, Complete
<1> QED
  BY <1>1, EndToldHolds, PTL

\* The usage with which a client ends up is all that the provider told, in whatever
\* events it came.
THEOREM UsageIsKept == Spec => []UsageKept
<1>1. Feed /\ EndTold => UsageKept
  BY EndedHonestly DEF UsageKept, Complete
<1> QED
  BY <1>1, EndToldHolds, PTL

\* A failure that the reader hears of or meets before it has the stop reaches the
\* client in band, no other failure does, and after one that is not heard of the
\* stream does not end cleanly.
THEOREM ErrorIsTold == Spec => []ErrorTold
<1>1. Feed /\ EndTold => ErrorTold
  <2> SUFFICES ASSUME Feed, EndTold PROVE ErrorTold
    OBVIOUS
  <2>1. said.end = "unheard" => said.reason = "none"
    BY DEF Feed, SaidOK
  <2>2. client.answer.end \in {"none", "clean", "error", "cut", "gone"}
    BY EndToldIs DEF AnswerOK
  <2> QED
    BY <2>1, <2>2, EndedHonestly DEF ErrorTold
<1> QED
  BY <1>1, EndToldHolds, PTL

\* Every reader gives the Anthropic codec only such events as BlocksAreSequential of
\* AnthropicStreamProofs assumes of any upstream.
THEOREM ReadersAreAdmissible == Spec => []EventsAdmissible
<1>1. Feed /\ EndTold => EventsAdmissible
  <2> SUFFICES ASSUME Feed, EndTold, inbound = "anthropic", queue # <<>>, codec.pc = "ranging"
               PROVE  /\ Head(queue) \in AnthropicCodec!AnyEvent
                      /\ AnthropicCodec!Admissible(Head(queue))
    BY DEF EventsAdmissible
  <2> DEFINE ev == Head(queue)
  <2>1. Known(ev)
    BY EventKnown
  <2>2. AnthropicAgrees /\ NoBlockLeftOpen
    BY EndToldIs DEF Agree
  <2>3. client.answer.end # "clean"
    BY <2>2 DEF AnthropicAgrees, Over
  <2>4. ASSUME ev.type = "delta", ev.reason # "none"
        PROVE  ev.part = NoPart /\ codec.current = AnthropicCodec!NoBlock
    <3>1. upstream = "anthropic" /\ SentReason(ev)
      BY <2>1, <2>4 DEF Known
    <3>2. up.phase = "stopping" /\ ev.part = NoPart
      BY <3>1 DEF SentReason, BareDelta, Event
    <3>3. AnthropicFeed
      BY <3>1, SMTT(20) DEF Feed
    <3>4. ~up.open /\ Len(queue) = 1 /\ queue = <<queue[1]>>
      BY <3>2, <3>3 DEF AnthropicFeed
    <3>5. queue[1] = ev
      BY <3>4, OneEvent
    <3>6. ~OpenHeard
      BY <2>4, <3>4, <3>5 DEF OpenHeard
    <3> QED
      BY <2>2, <3>1, <3>2, <3>6 DEF NoBlockLeftOpen
  <2> HIDE DEF ev
  <2>5. ev \in AnthropicCodec!AnyEvent
    BY <2>1 DEF Known
  <2>6. AnthropicCodec!Admissible(ev)
    BY <2>3, <2>4 DEF AnthropicCodec!Admissible
  <2> QED
    BY <2>5, <2>6 DEF ev
<1> QED
  BY <1>1, EndToldHolds, PTL
=============================================================================
