----------------------------- MODULE FeedProofs -----------------------------
(***************************************************************************)
(* What the codecs may rely on, whatever the upstream: Feed is an invariant*)
(* of Translation.  One lemma for every action of every provider and of    *)
(* its reader.                                                             *)
(***************************************************************************)
EXTENDS TranslationInvariants, TLAPS

(* The constructors of events are expanded everywhere. *)
USE DEF Event, Part, NoPart, NoId, Usage, NoUsage, StartEvent, BlockStart, Delta, BareDelta,
        BlockStop, StopEvent, ErrorEvent, ErrResult, Merge, Piece, ToolKinds, BlockKinds,
        OpaqueKinds, StartKinds, AnthropicUp!Event, AnthropicUp!Part, AnthropicUp!NoPart,
        AnthropicUp!NoId, AnthropicUp!Usage, AnthropicUp!NoUsage, AnthropicUp!StartEvent,
        AnthropicUp!BlockStart, AnthropicUp!Delta, AnthropicUp!BareDelta, AnthropicUp!BlockStop,
        AnthropicUp!StopEvent, AnthropicUp!ErrorEvent, AnthropicUp!ErrResult, AnthropicUp!Merge,
        AnthropicUp!Piece, AnthropicUp!ToolKinds, AnthropicUp!BlockKinds,
        AnthropicUp!OpaqueKinds, AnthropicUp!StartKinds, ChatUp!Event, ChatUp!Part,
        ChatUp!NoPart, ChatUp!NoId, ChatUp!Usage, ChatUp!NoUsage, ChatUp!StartEvent,
        ChatUp!BlockStart, ChatUp!Delta, ChatUp!BareDelta, ChatUp!BlockStop, ChatUp!StopEvent,
        ChatUp!ErrorEvent, ChatUp!ErrResult, ChatUp!Merge, ChatUp!Piece, ResponsesUp!Event,
        ResponsesUp!Part, ResponsesUp!NoPart, ResponsesUp!NoId, ResponsesUp!Usage,
        ResponsesUp!NoUsage, ResponsesUp!StartEvent, ResponsesUp!BlockStart, ResponsesUp!Delta,
        ResponsesUp!BareDelta, ResponsesUp!BlockStop, ResponsesUp!StopEvent,
        ResponsesUp!ErrorEvent, ResponsesUp!ErrResult, ResponsesUp!Merge, ResponsesUp!Piece,
        GeminiUp!Event, GeminiUp!Part, GeminiUp!NoPart, GeminiUp!NoId, GeminiUp!Usage,
        GeminiUp!NoUsage, GeminiUp!StartEvent, GeminiUp!BlockStart, GeminiUp!Delta,
        GeminiUp!BareDelta, GeminiUp!BlockStop, GeminiUp!StopEvent, GeminiUp!ErrorEvent,
        GeminiUp!ErrResult, GeminiUp!Merge, GeminiUp!Piece

\* The answer of a provider, and the state of each provider and its reader.
AnswerOf(pieces, calls, reason, usage, end) ==
    [pieces |-> pieces, calls |-> calls, reason |-> reason, usage |-> usage, end |-> end]

AnthropicState(phase, open, block, calls, next) ==
    [phase |-> phase, open |-> open, block |-> block, calls |-> calls, next |-> next]

-----------------------------------------------------------------------------
(* The events that a codec may be given.                                   *)

\* The values that the constructors are given.
LEMMA Values ==
  /\ \A i \in 0..2 * MaxBlocks : i \in Indices
  /\ 0 \in Indices /\ 1 \in Indices
  /\ "none" \in StopReasons
  /\ \A usage \in {NoUsage, Usage(1, 0), Usage(1, 1), Usage(0, 2), Total} : usage \in Counts
  /\ NoId \in CallIds /\ \A call \in Calls : call \in CallIds
  /\ \A frag \in Frags : frag \in Nat
BY BoundsAssumption DEF Indices, StopReasons, Counts, Total, CallIds, Frags

\* An event that bears no part is one that a codec may receive.
LEMMA BareEvent ==
  ASSUME NEW type \in {"start", "content_block_stop", "stop", "error", "err", "delta",
                       "content_block_start"},
         NEW index \in Indices, NEW reason \in StopReasons, NEW usage \in Counts,
         NEW response \in Counts
  PROVE  Event(type, index, NoPart, reason, usage, response) \in AnthropicCodec!AnyEvent
<1>1. usage \in AnthropicCodec!Usages /\ response \in AnthropicCodec!Usages
  BY DEF Counts, AnthropicCodec!Usages
<1> QED
  BY <1>1 DEF AnthropicCodec!AnyEvent, AnthropicCodec!Events, AnthropicCodec!NoPart,
              AnthropicCodec!Part, AnthropicCodec!NoId, StopReasons

\* An event that opens a block or continues it is one that a codec may receive.
LEMMA ContentEvent ==
  ASSUME NEW type \in {"delta", "content_block_start"},
         NEW kind \in StartKinds, NEW id \in CallIds, NEW frag \in Nat,
         type = "delta" => kind \in BlockKinds,
         NEW index \in Indices, NEW reason \in StopReasons, NEW usage \in Counts
  PROVE  Event(type, index, Part(kind, id, frag), reason, usage, NoUsage) \in AnthropicCodec!AnyEvent
<1>1. usage \in AnthropicCodec!Usages /\ NoUsage \in AnthropicCodec!Usages
  BY DEF Counts, AnthropicCodec!Usages
<1>2. /\ type = "delta" => Part(kind, id, frag) \in AnthropicCodec!Parts(AnthropicCodec!BlockKinds)
      /\ Part(kind, id, frag) \in AnthropicCodec!Parts(AnthropicCodec!StartKinds)
  BY DEF AnthropicCodec!Parts, AnthropicCodec!BlockKinds, AnthropicCodec!StartKinds,
         AnthropicCodec!ToolKinds, AnthropicCodec!OpaqueKinds, AnthropicCodec!CallIds,
         AnthropicCodec!NoId, CallIds
<1> QED
  BY <1>1, <1>2 DEF AnthropicCodec!AnyEvent, AnthropicCodec!Events, StopReasons

-----------------------------------------------------------------------------
(* An Anthropic provider.                                                  *)

AnthropicOK == upstream = "anthropic" /\ SaidOK /\ EndedWell /\ AnthropicFeed

\* The reader has put one event on the channel.
AnthropicPut(ev) ==
    up.phase \notin {"ended", "closed"} /\ queue = <<>> /\ queue' = <<ev>>

\* What the reader makes of every SSE event.
LEMMA AnthropicSays ==
  ASSUME NEW index, NEW part, NEW reason, NEW usage
  PROVE
    /\ AnthropicUp!Says(AnthropicUp!SSE("message_start", index, part, reason, usage)) =>
         AnthropicPut(StartEvent(usage, NoUsage))
    /\ AnthropicUp!Says(AnthropicUp!SSE("content_block_start", index, part, reason, usage)) =>
         AnthropicPut(BlockStart(index, part))
    /\ AnthropicUp!Says(AnthropicUp!SSE("content_block_delta", index, part, reason, usage)) =>
         AnthropicPut(Delta(index, AnthropicUp!DecodeDelta(part)))
    /\ AnthropicUp!Says(AnthropicUp!SSE("content_block_stop", index, part, reason, usage)) =>
         AnthropicPut(BlockStop(index))
    /\ AnthropicUp!Says(AnthropicUp!SSE("message_delta", index, part, reason, usage)) =>
         AnthropicPut(BareDelta(reason, usage))
    /\ AnthropicUp!Says(AnthropicUp!SSE("message_stop", index, part, reason, usage)) =>
         AnthropicPut(StopEvent("none", NoUsage))
    /\ AnthropicUp!Says(AnthropicUp!SSE("error", index, part, reason, usage)) =>
         AnthropicPut(ErrorEvent(NoUsage))
    /\ AnthropicUp!Says(AnthropicUp!SSE("garbage", index, part, reason, usage)) =>
         AnthropicPut(ErrResult)
BY SMTT(20) DEF AnthropicUp!Says, AnthropicUp!Reads, AnthropicUp!DecodeAnthropicStreamEvent,
                AnthropicUp!SSE, AnthropicPut

\* Records whose fields are known are equal field by field.
LEMMA AnthropicRecords ==
  ASSUME AnthropicOK
  PROVE  /\ said = AnswerOf(said.pieces, said.calls, said.reason, said.usage, said.end)
         /\ up = AnthropicState(up.phase, up.open, up.block, up.calls, up.next)
BY DEF AnthropicOK, SaidOK, AnthropicFeed, AnswerOf, AnthropicState

\* The message_start keeps what is known of the provider; the codec has heard nothing of it.
LEMMA AnthropicMessageStart ==
  ASSUME AnthropicOK, AnthropicUp!MessageStart, upstream' = upstream
  PROVE  AnthropicOK' /\ Quiet
<1>1. said' = AnswerOf(said.pieces, said.calls, said.reason, Usage(1, 1), said.end)
  BY AnthropicRecords DEF AnthropicUp!MessageStart, AnswerOf
<1>2. up' = AnthropicState("speaking", up.open, up.block, up.calls, up.next)
  BY AnthropicRecords DEF AnthropicUp!MessageStart, AnthropicState
<1>3. up.phase = "silent" /\ AnthropicPut(StartEvent(Usage(1, 1), NoUsage))
  BY AnthropicSays DEF AnthropicUp!MessageStart
<1>4. SaidOK' /\ EndedWell'
  BY <1>1, <1>2, <1>3 DEF AnthropicOK, AnthropicFeed, SaidOK, EndedWell, SilentOnReason,
                          AnswerOf, AnthropicState, Counts
<1>5. AnthropicFeed'
  BY <1>1, <1>2, <1>3 DEF AnthropicPut, AnthropicOK, AnthropicFeed, AnthropicSent, SentStart,
                          SilentOnReason, AnswerOf, AnthropicState
<1>q. Quiet
  BY <1>1, <1>2, <1>3
     DEF AnthropicPut, AnthropicOK, AnthropicFeed, SilentOnReason, Quiet, HeardReason, HeardUsage,
         OpenHeard, BlockHeard, Over, StartAwaited, Starting, MayCome, MayBegin, MayGoOn,
         AnswerOf, AnthropicState, Total, Counts
<1> QED
  BY <1>4, <1>5, <1>q DEF AnthropicOK

\* The same of a content_block_start.
LEMMA AnthropicContentBlockStart ==
  ASSUME AnthropicOK, AnthropicUp!ContentBlockStart, upstream' = upstream
  PROVE  AnthropicOK' /\ Quiet
<1> DEFINE Frag(kind) == IF kind \in OpaqueKinds THEN Len(said.pieces) + 1 ELSE 0
<1>1. PICK kind \in Kinds \ {"refusal"}, id \in CallIds :
        /\ IF kind \in ToolKinds THEN id \in Calls ELSE id = NoId
        /\ kind \in OpaqueKinds => Len(said.pieces) < MaxPieces
        /\ AnthropicUp!Says(AnthropicUp!SSE("content_block_start", up.next,
                                            Part(kind, id, Frag(kind)), "none", NoUsage))
        /\ up' = [up EXCEPT !.open = TRUE, !.block = Part(kind, id, 0),
                            !.calls = IF kind \in ToolKinds THEN @ \cup {id} ELSE @]
        /\ said' = [said EXCEPT
                     !.calls = IF kind = "tool_use" THEN Append(@, id) ELSE @,
                     !.pieces = IF Frag(kind) # 0 THEN Append(@, Piece(kind, id, Frag(kind)))
                                ELSE @]
  BY DEF AnthropicUp!ContentBlockStart, CallIds
<1> DEFINE pieces == IF Frag(kind) # 0 THEN Append(said.pieces, Piece(kind, id, Frag(kind)))
                     ELSE said.pieces
           calls == IF kind \in ToolKinds THEN up.calls \cup {id} ELSE up.calls
<1>2. /\ up.phase = "speaking" /\ ~up.open /\ up.next < MaxBlocks
      /\ AnthropicPut(BlockStart(up.next, Part(kind, id, Frag(kind))))
  BY <1>1, AnthropicSays DEF AnthropicUp!ContentBlockStart
<1>3. PICK told : said' = AnswerOf(pieces, told, said.reason, said.usage, said.end)
  BY <1>1, AnthropicRecords DEF AnswerOf
<1>4. up' = AnthropicState(up.phase, TRUE, Part(kind, id, 0), calls, up.next)
  BY <1>1, AnthropicRecords DEF AnthropicState
<1>a. /\ up'.phase = "speaking" /\ up'.open = TRUE /\ up'.next = up.next
      /\ up'.block = Part(kind, id, 0) /\ up'.calls = calls
      /\ up'.block.kind = kind /\ up'.block.id = id
  BY <1>2, <1>4 DEF AnthropicState
<1>5. Frag(kind) \in Frags /\ pieces \in Seq(Pieces) /\ Len(pieces) <= MaxPieces
  <2>1. /\ said.pieces \in Seq(Pieces) /\ Len(said.pieces) <= MaxPieces
        /\ Frag(kind) # 0 => Len(said.pieces) < MaxPieces
    BY <1>1 DEF AnthropicOK, SaidOK
  <2>2. Frag(kind) \in Frags /\ Frag(kind) \in Nat
    BY <1>1, <2>1, BoundsAssumption DEF Frags
  <2>3. Piece(kind, id, Frag(kind)) \in Pieces
    BY <2>2, ContentAssumption DEF Pieces
  <2> HIDE DEF Frag
  <2> QED
    BY <2>1, <2>2, <2>3, BoundsAssumption
<1>6. kind \in StartKinds /\ calls \in SUBSET Calls
  BY <1>1, ContentAssumption DEF AnthropicOK, AnthropicFeed
<1> HIDE DEF pieces, calls, Frag
<1>7. SaidOK' /\ EndedWell'
  BY <1>2, <1>3, <1>4, <1>5 DEF AnthropicOK, SaidOK, EndedWell, AnswerOf, AnthropicState
<1>8. queue' = <<queue'[1]>> /\ AnthropicSent(queue[1])'
  <2>1. /\ queue' = <<queue'[1]>>
        /\ \E frag \in Frags :
             queue'[1] = BlockStart(up'.next, Part(up'.block.kind, up'.block.id, frag))
    BY <1>2, <1>5, <1>a DEF AnthropicPut
  <2> QED
    BY <2>1, <1>a DEF AnthropicSent, SentBlockStart
<1>9. AnthropicFeed'
  <2>1. up' \in [phase : {"silent", "speaking", "stopping", "ended", "closed"},
               open : BOOLEAN, block : [kind : StartKinds \cup {"none"}, id : CallIds, frag : {0}],
               calls : SUBSET Calls, next : 0..MaxBlocks]
    <3>1. up.phase = "speaking" /\ up.next \in 0..MaxBlocks /\ kind \in StartKinds
            /\ Part(kind, id, 0) \in [kind : StartKinds \cup {"none"}, id : CallIds, frag : {0}]
      BY <1>1, <1>2, <1>6 DEF AnthropicOK, AnthropicFeed
    <3> QED
      BY <3>1, <1>4, <1>6 DEF AnthropicState
  <2>2. said'.usage = Usage(1, 1) /\ SilentOnReason'
    BY <1>2, <1>3 DEF AnthropicOK, AnthropicFeed, SilentOnReason, AnswerOf
  <2>3. /\ up'.block.kind \in Kinds \ {"refusal"}
        /\ IF up'.block.kind \in ToolKinds THEN up'.block.id \in Calls ELSE up'.block.id = NoId
    BY <1>1, <1>a
  <2>4. up'.next < MaxBlocks /\ Len(queue') = 1
    BY <1>2, <1>a DEF AnthropicPut
  <2> QED
    BY <1>a, <1>8, <2>1, <2>2, <2>3, <2>4 DEF AnthropicFeed
<1>q. Quiet
  BY <1>1, <1>2, <1>3, <1>4, <1>a, <1>5, <1>6
     DEF AnthropicPut, AnthropicOK, AnthropicFeed, SilentOnReason, Quiet, HeardReason, HeardUsage,
         OpenHeard, BlockHeard, Over, StartAwaited, Starting, MayCome, MayBegin, MayGoOn,
         AnswerOf, AnthropicState, Total, Counts
<1> QED
  BY <1>7, <1>9, <1>q DEF AnthropicOK

\* The same of a content_block_delta.
LEMMA AnthropicContentBlockDelta ==
  ASSUME AnthropicOK, AnthropicUp!ContentBlockDelta, upstream' = upstream
  PROVE  AnthropicOK' /\ Quiet
<1> DEFINE n == Len(said.pieces) + 1
           piece == Piece(up.block.kind, up.block.id, n)
           part == AnthropicUp!DecodeDelta(Part(up.block.kind, NoId, n))
<1>1. /\ up.open /\ up.block.kind \notin OpaqueKinds /\ Len(said.pieces) < MaxPieces
      /\ up' = up /\ said' = [said EXCEPT !.pieces = Append(@, piece)]
      /\ AnthropicPut(Delta(up.next, part))
  BY AnthropicSays DEF AnthropicUp!ContentBlockDelta
<1>2. said' = AnswerOf(Append(said.pieces, piece), said.calls, said.reason, said.usage, said.end)
  BY <1>1, AnthropicRecords DEF AnswerOf
<1>3. n \in Frags /\ piece \in Pieces
  BY <1>1, BoundsAssumption, ContentAssumption
     DEF AnthropicOK, SaidOK, AnthropicFeed, Frags, Pieces, CallIds
<1>4. /\ part = Part(IF up.block.kind \in ToolKinds THEN "tool_use" ELSE up.block.kind, NoId, n)
      /\ up.block.kind \in BlockKinds
  BY <1>1, ContentAssumption DEF AnthropicUp!DecodeDelta, AnthropicOK, AnthropicFeed
<1>5. up.phase = "speaking"
  BY <1>1 DEF AnthropicOK, AnthropicFeed, AnthropicPut
<1> HIDE DEF n, piece, part
<1>6. SaidOK' /\ EndedWell'
  <2>1. Append(said.pieces, piece) \in Seq(Pieces) /\ Len(Append(said.pieces, piece)) <= MaxPieces
    BY <1>1, <1>3, BoundsAssumption DEF AnthropicOK, SaidOK
  <2> QED
    BY <1>1, <1>2, <2>1 DEF AnthropicOK, SaidOK, EndedWell, AnswerOf
<1>7. queue' = <<queue'[1]>> /\ AnthropicSent(queue[1])'
  <2> DEFINE kind == IF up.block.kind \in ToolKinds THEN "tool_use" ELSE up.block.kind
  <2>1. kind \in BlockKinds \ {"server_tool_use"} /\ (kind = "tool_use" => up'.block.kind \in ToolKinds)
    BY <1>1, <1>4
  <2>2. queue' = <<queue'[1]>> /\ queue'[1] = Delta(up'.next, Part(kind, NoId, n))
    BY <1>1, <1>4 DEF AnthropicPut
  <2>3. up'.phase = "speaking" /\ up'.open
    BY <1>1, <1>5
  <2> HIDE DEF kind
  <2> QED
    BY <1>3, <2>1, <2>2, <2>3 DEF AnthropicSent, SentContent
<1>8. AnthropicFeed'
  <2>1. said'.usage = said.usage /\ said'.reason = said.reason /\ said'.end = said.end
    BY <1>2 DEF AnswerOf
  <2>2. queue' # <<>> /\ Len(queue') = 1
    BY <1>1 DEF AnthropicPut
  <2> QED
    BY <1>1, <1>5, <1>7, <2>1, <2>2 DEF AnthropicOK, AnthropicFeed, SilentOnReason
<1>q. Quiet
  BY <1>1, <1>2, <1>3, <1>4, <1>5
     DEF AnthropicPut, AnthropicOK, AnthropicFeed, SilentOnReason, Quiet, HeardReason, HeardUsage,
         OpenHeard, BlockHeard, Over, StartAwaited, Starting, MayCome, MayBegin, MayGoOn,
         AnswerOf, AnthropicState, Total, Counts
<1> QED
  BY <1>6, <1>8, <1>q DEF AnthropicOK

\* The same of a content_block_stop.
LEMMA AnthropicContentBlockStop ==
  ASSUME AnthropicOK, AnthropicUp!ContentBlockStop, upstream' = upstream
  PROVE  AnthropicOK' /\ Quiet
<1>1. up' = AnthropicState(up.phase, FALSE, NoPart, up.calls, up.next + 1)
  BY AnthropicRecords DEF AnthropicUp!ContentBlockStop, AnthropicState
<1>2. said' = said /\ up.open /\ AnthropicPut(BlockStop(up.next))
  BY AnthropicSays DEF AnthropicUp!ContentBlockStop
<1>3. SaidOK' /\ EndedWell'
  BY <1>1, <1>2 DEF AnthropicOK, AnthropicFeed, SaidOK, EndedWell, AnthropicState
<1>4. AnthropicFeed'
  BY <1>1, <1>2, BoundsAssumption
     DEF AnthropicPut, AnthropicOK, AnthropicFeed, AnthropicSent, SentBlockStop, SilentOnReason,
         AnthropicState, CallIds
<1>q. Quiet
  <2>1. /\ up'.phase = up.phase /\ ~up'.open /\ up'.next = up.next + 1 /\ said' = said
        /\ up.open /\ up.next \in Nat /\ up.phase = "speaking"
        /\ queue = <<>> /\ queue' = <<BlockStop(up.next)>>
        /\ upstream = "anthropic" /\ upstream' = "anthropic"
    BY <1>1, <1>2, BoundsAssumption DEF AnthropicPut, AnthropicOK, AnthropicFeed, AnthropicState
  <2>2. HeardReason' = HeardReason /\ ~Over /\ ~Over' /\ ~StartAwaited'
    BY <2>1 DEF HeardReason, Over, StartAwaited
  <2>3. HeardUsage' = HeardUsage /\ OpenHeard /\ OpenHeard' /\ BlockHeard' = BlockHeard
    BY <2>1 DEF HeardUsage, OpenHeard, BlockHeard
  <2>4. ASSUME NEW i \in Indices
        PROVE  /\ MayCome(i)' => MayCome(i)
               /\ MayBegin(i)' => MayBegin(i)
               /\ MayGoOn(i)' => MayGoOn(i)
    BY <2>1, BoundsAssumption DEF MayCome, MayBegin, MayGoOn, Starting, Indices
  <2> QED
    BY <2>1, <2>2, <2>3, <2>4 DEF Quiet
<1> QED
  BY <1>3, <1>4, <1>q DEF AnthropicOK

\* The same of the message_delta, which alone tells the reason.
LEMMA AnthropicMessageDelta ==
  ASSUME AnthropicOK, AnthropicUp!MessageDelta, upstream' = upstream
  PROVE  AnthropicOK' /\ Quiet
<1>1. PICK reason \in Reasons :
        /\ AnthropicUp!Says(AnthropicUp!SSE("message_delta", 0, NoPart, reason, Usage(0, 2)))
        /\ said' = [said EXCEPT !.reason = reason, !.usage = Merge(@, Usage(0, 2))]
  BY DEF AnthropicUp!MessageDelta
<1>2. said' = AnswerOf(said.pieces, said.calls, reason, Total, said.end)
  <2>1. said.usage = Usage(1, 1)
    BY DEF AnthropicUp!MessageDelta, AnthropicOK, AnthropicFeed
  <2>2. said' = [said EXCEPT !.reason = reason, !.usage = Total]
    BY <1>1, <2>1 DEF Total, AnthropicOK, SaidOK
  <2> QED
    BY <2>2, AnthropicRecords DEF AnswerOf
<1>3. up' = AnthropicState("stopping", up.open, up.block, up.calls, up.next)
  BY AnthropicRecords DEF AnthropicUp!MessageDelta, AnthropicState
<1>4. up.phase = "speaking" /\ ~up.open /\ AnthropicPut(BareDelta(reason, Usage(0, 2)))
  BY <1>1, AnthropicSays DEF AnthropicUp!MessageDelta
<1>5. SaidOK' /\ EndedWell'
  BY <1>2, <1>3, <1>4 DEF AnthropicOK, AnthropicFeed, SaidOK, EndedWell, SilentOnReason,
                          AnswerOf, AnthropicState, Counts, Total, StopReasons
<1>6. AnthropicFeed'
  BY <1>2, <1>3, <1>4 DEF AnthropicPut, AnthropicOK, AnthropicFeed, AnthropicSent, SentReason,
                          SilentOnReason, AnswerOf, AnthropicState
<1>q. Quiet
  BY <1>1, <1>2, <1>3, <1>4
     DEF AnthropicPut, AnthropicOK, AnthropicFeed, SilentOnReason, Quiet, HeardReason, HeardUsage,
         OpenHeard, BlockHeard, Over, StartAwaited, Starting, MayCome, MayBegin, MayGoOn,
         AnswerOf, AnthropicState, Total, Counts
<1> QED
  BY <1>5, <1>6, <1>q DEF AnthropicOK

\* The same of the message_stop, which ends a clean answer.
LEMMA AnthropicMessageStop ==
  ASSUME AnthropicOK, AnthropicUp!MessageStop, upstream' = upstream
  PROVE  AnthropicOK' /\ Quiet
<1>1. said' = AnswerOf(said.pieces, said.calls, said.reason, said.usage, "clean")
  BY AnthropicRecords DEF AnthropicUp!MessageStop, AnswerOf
<1>2. up' = AnthropicState("ended", up.open, up.block, up.calls, up.next)
  BY AnthropicRecords DEF AnthropicUp!MessageStop, AnthropicState
<1>3. up.phase = "stopping" /\ AnthropicPut(StopEvent("none", NoUsage))
  BY AnthropicSays DEF AnthropicUp!MessageStop
<1>4. SaidOK' /\ EndedWell'
  BY <1>1, <1>2, <1>3 DEF AnthropicOK, AnthropicFeed, SaidOK, EndedWell, AnswerOf,
                          AnthropicState
<1>5. AnthropicFeed'
  BY <1>1, <1>2, <1>3 DEF AnthropicPut, AnthropicOK, AnthropicFeed, AnthropicSent, SentStop, AnswerOf,
                          AnthropicState
<1>q. Quiet
  BY <1>1, <1>2, <1>3
     DEF AnthropicPut, AnthropicOK, AnthropicFeed, SilentOnReason, Quiet, HeardReason, HeardUsage,
         OpenHeard, BlockHeard, Over, StartAwaited, Starting, MayCome, MayBegin, MayGoOn,
         AnswerOf, AnthropicState, Total, Counts
<1> QED
  BY <1>4, <1>5, <1>q DEF AnthropicOK

\* The same of the error event.
LEMMA AnthropicError ==
  ASSUME AnthropicOK, AnthropicUp!Error, upstream' = upstream
  PROVE  AnthropicOK' /\ Quiet
<1>1. said' = AnswerOf(said.pieces, said.calls, said.reason, said.usage, "error")
  BY AnthropicRecords DEF AnthropicUp!Error, AnswerOf
<1>2. up' = AnthropicState("ended", up.open, up.block, up.calls, up.next)
  BY AnthropicRecords DEF AnthropicUp!Error, AnthropicState
<1>3. AnthropicPut(ErrorEvent(NoUsage))
  BY AnthropicSays DEF AnthropicUp!Error
<1>4. SaidOK' /\ EndedWell'
  BY <1>1, <1>2, <1>3 DEF AnthropicOK, AnthropicFeed, SaidOK, EndedWell, AnswerOf,
                          AnthropicState
<1>5. AnthropicFeed'
  BY <1>1, <1>2, <1>3 DEF AnthropicPut, AnthropicOK, AnthropicFeed, AnthropicSent, SentError, AnswerOf,
                          AnthropicState
<1>q. Quiet
  BY <1>1, <1>2, <1>3
     DEF AnthropicPut, AnthropicOK, AnthropicFeed, SilentOnReason, Quiet, HeardReason, HeardUsage,
         OpenHeard, BlockHeard, Over, StartAwaited, Starting, MayCome, MayBegin, MayGoOn,
         AnswerOf, AnthropicState, Total, Counts
<1> QED
  BY <1>4, <1>5, <1>q DEF AnthropicOK

\* The same of a read that fails: the reader passes the error on and ends.
LEMMA AnthropicReadFails ==
  ASSUME AnthropicOK, AnthropicUp!ReadFails, upstream' = upstream
  PROVE  AnthropicOK' /\ Quiet
<1>1. said' = AnswerOf(said.pieces, said.calls, said.reason, said.usage, "error")
  BY AnthropicRecords DEF AnthropicUp!ReadFails, AnswerOf
<1>2. up' = AnthropicState("ended", up.open, up.block, up.calls, up.next)
  BY AnthropicRecords DEF AnthropicUp!ReadFails, AnthropicState
<1>3. AnthropicPut(ErrResult)
  BY AnthropicSays DEF AnthropicUp!ReadFails
<1>4. SaidOK' /\ EndedWell'
  BY <1>1, <1>2, <1>3 DEF AnthropicOK, AnthropicFeed, SaidOK, EndedWell, AnswerOf,
                          AnthropicState
<1>5. AnthropicFeed'
  BY <1>1, <1>2, <1>3 DEF AnthropicPut, AnthropicOK, AnthropicFeed, AnthropicSent, SentError, AnswerOf,
                          AnthropicState
<1>q. Quiet
  BY <1>1, <1>2, <1>3
     DEF AnthropicPut, AnthropicOK, AnthropicFeed, SilentOnReason, Quiet, HeardReason, HeardUsage,
         OpenHeard, BlockHeard, Over, StartAwaited, Starting, MayCome, MayBegin, MayGoOn,
         AnswerOf, AnthropicState, Total, Counts
<1> QED
  BY <1>4, <1>5, <1>q DEF AnthropicOK

\* The same of the end of the stream: nothing comes any more.
LEMMA AnthropicClose ==
  ASSUME AnthropicOK, AnthropicUp!Close, upstream' = upstream
  PROVE  AnthropicOK' /\ Quiet
<1>1. PICK end \in {"clean", "error", "cut"} :
        /\ said.end = "none" => end = "cut"
        /\ said.end # "none" => end = said.end /\ said' = said
        /\ said' = AnswerOf(said.pieces, said.calls, said.reason, said.usage, end)
  <2>1. said.end \in {"none", "clean", "error", "cut"}
    BY DEF AnthropicUp!Close, AnthropicOK, AnthropicFeed, SaidOK
  <2> QED
    BY <2>1, AnthropicRecords DEF AnthropicUp!Close, AnswerOf, AnthropicOK
<1>2. up' = AnthropicState("closed", up.open, up.block, up.calls, up.next)
  BY AnthropicRecords DEF AnthropicUp!Close, AnthropicState
<1>3. up.phase # "closed" /\ queue = <<>> /\ queue' = <<>>
  BY DEF AnthropicUp!Close
<1>4. SaidOK' /\ EndedWell'
  BY <1>1, <1>2, <1>3 DEF AnthropicOK, AnthropicFeed, SaidOK, EndedWell, SilentOnReason,
                          AnswerOf, AnthropicState
<1>5. AnthropicFeed'
  BY <1>1, <1>2, <1>3 DEF AnthropicOK, AnthropicFeed, SaidOK, SilentOnReason, AnswerOf,
                          AnthropicState
<1>q. Quiet
  BY <1>1, <1>2, <1>3
     DEF AnthropicPut, AnthropicOK, AnthropicFeed, SilentOnReason, Quiet, HeardReason, HeardUsage,
         OpenHeard, BlockHeard, Over, StartAwaited, Starting, MayCome, MayBegin, MayGoOn,
         AnswerOf, AnthropicState, Total, Counts
<1> QED
  BY <1>4, <1>5, <1>q DEF AnthropicOK

\* The codec receives the event.
LEMMA OneEvent == \A ev : Head(<<ev>>) = ev /\ Tail(<<ev>>) = <<>>
OBVIOUS

\* The first of two events, and the rest.
LEMMA TwoEvents == \A ev, next : Head(<<ev, next>>) = ev /\ Tail(<<ev, next>>) = <<next>>
OBVIOUS

\* What the codec is about to receive is what the provider sent last, and is admissible.
LEMMA AnthropicKnown ==
  ASSUME AnthropicOK, queue # <<>>, NEW ev, ev = Head(queue)
  PROVE  AnthropicSent(ev) /\ Known(ev)
<1>1. AnthropicSent(ev)
  <2>1. Len(queue) = 1 /\ queue = <<queue[1]>> /\ AnthropicSent(queue[1])
    BY DEF AnthropicOK, AnthropicFeed
  <2>2. ev = queue[1]
    BY <2>1, OneEvent
  <2> QED
    BY <2>1, <2>2
<1>2. /\ upstream = "anthropic" /\ said.reason \in StopReasons
      /\ up.next \in 0..2 * MaxBlocks /\ up.next - 1 < 2 * MaxBlocks
      /\ up.block.kind \in StartKinds \cup {"none"} /\ up.block.id \in CallIds
  BY BoundsAssumption DEF AnthropicOK, SaidOK, AnthropicFeed
<1>3. CASE SentStart(ev)
  BY <1>1, <1>3, BareEvent, Values DEF SentStart, Known
<1>4. CASE SentBlockStart(ev)
  <2>1. PICK frag \in Frags :
          ev = BlockStart(up.next, Part(up.block.kind, up.block.id, frag)) /\ up.open
    BY <1>4 DEF SentBlockStart
  <2>2. up.block.kind \in StartKinds
    BY <2>1, ContentAssumption DEF AnthropicOK, AnthropicFeed
  <2>3. ev \in AnthropicCodec!AnyEvent
    BY <1>2, <2>1, <2>2, ContentEvent, Values
  <2>4. ev.type = "content_block_start"
    BY <2>1
  <2> QED
    BY <1>1, <2>3, <2>4 DEF Known
<1>5. CASE SentContent(ev)
  <2>1. PICK kind \in BlockKinds \ {"server_tool_use"}, frag \in Frags :
          ev = Delta(up.next, Part(kind, NoId, frag))
    BY <1>5 DEF SentContent
  <2>2. ev \in AnthropicCodec!AnyEvent
    BY <1>2, <2>1, ContentEvent, Values
  <2>3. ev.part # NoPart /\ ev.reason = "none"
    BY <2>1
  <2> QED
    BY <1>1, <2>2, <2>3 DEF Known
<1>6. CASE SentBlockStop(ev)
  <2>1. ev = BlockStop(up.next - 1) /\ up.next - 1 \in Indices
    BY <1>2, <1>6, Values, BoundsAssumption DEF SentBlockStop
  <2> QED
    BY <1>1, <2>1, BareEvent, Values DEF Known
<1>7. CASE SentReason(ev)
  <2>1. ev \in AnthropicCodec!AnyEvent
    BY <1>2, <1>7, BareEvent, Values DEF SentReason
  <2> QED
    BY <1>1, <1>2, <1>7, <2>1 DEF Known
<1>8. CASE SentStop(ev)
  BY <1>1, <1>8, BareEvent, Values DEF SentStop, Known
<1>9. CASE SentError(ev)
  <2>1. \E type \in {"error", "err"} : ev = Event(type, 0, NoPart, "none", NoUsage, NoUsage)
    BY <1>9 DEF SentError
  <2> QED
    BY <1>1, <2>1, BareEvent, Values DEF Known
<1> QED
  BY <1>1, <1>3, <1>4, <1>5, <1>6, <1>7, <1>8, <1>9 DEF AnthropicSent

\* The codec takes the event: what has been heard advances by what the event tells.
LEMMA AnthropicPassed ==
  ASSUME AnthropicOK, NEW ev, queue # <<>>, ev = Head(queue), queue' = Tail(queue),
         UNCHANGED <<upstream, up, said>>
  PROVE  AnthropicOK' /\ Passed(ev)
<1>1. queue = <<ev>> /\ queue' = <<>> /\ AnthropicSent(ev)
  <2>1. Len(queue) = 1 /\ queue = <<queue[1]>> /\ AnthropicSent(queue[1])
    BY DEF AnthropicOK, AnthropicFeed
  <2>2. ev = queue[1] /\ queue' = <<>>
    BY <2>1, OneEvent
  <2> QED
    BY <2>1, <2>2
<1>2. AnthropicOK'
  BY <1>1 DEF AnthropicOK, SaidOK, EndedWell, AnthropicFeed, SilentOnReason
<1>3. /\ upstream = "anthropic" /\ said.reason \in StopReasons /\ said.usage \in Counts
      /\ up.next \in 0..2 * MaxBlocks /\ up.next - 1 < 2 * MaxBlocks /\ up.block.kind \in StartKinds \cup {"none"}
      /\ up.block.id \in CallIds
  BY BoundsAssumption DEF AnthropicOK, SaidOK, AnthropicFeed
<1>4. CASE SentStart(ev)
  <2>1. /\ ev = StartEvent(Usage(1, 1), NoUsage)
        /\ up.phase = "speaking" /\ ~up.open /\ up.next = 0
    BY <1>4 DEF SentStart
  <2>2. said.usage = Usage(1, 1) /\ said.reason = "none" /\ said.end = "none"
    BY <2>1 DEF AnthropicOK, AnthropicFeed, SilentOnReason
  <2>3. ev \in AnthropicCodec!AnyEvent
    BY AnthropicKnown DEF Known
  <2>4. EndPassed(ev)
    BY <1>1, <1>3, <2>1, <2>2 DEF EndPassed, HeardReason, Over
  <2>5. UsagePassed(ev)
    BY <1>1, <1>3, <2>1, <2>2 DEF UsagePassed, HeardUsage, StartAwaited, Counts, Total
  <2>6. BlockPassed(ev)
    BY <1>1, <1>3, <2>1, <2>2 DEF BlockPassed, OpenHeard, BlockHeard, MayCome, MayBegin, MayGoOn,
                                  Starting, ResponsesCodec!ItemKinds
  <2> QED
    BY <1>2, <2>3, <2>4, <2>5, <2>6 DEF Passed
<1>5. CASE SentBlockStart(ev)
  <2>1. PICK frag \in Frags :
          /\ ev = BlockStart(up.next, Part(up.block.kind, up.block.id, frag))
          /\ up.phase = "speaking" /\ up.open
    BY <1>5 DEF SentBlockStart
  <2>2. /\ said.usage = Usage(1, 1) /\ said.reason = "none" /\ said.end = "none"
        /\ up.next < MaxBlocks /\ up.block.kind \in StartKinds \ {"refusal"}
        /\ IF up.block.kind \in ToolKinds THEN up.block.id \in Calls ELSE up.block.id = NoId
    BY <2>1, ContentAssumption DEF AnthropicOK, AnthropicFeed, SilentOnReason
  <2>3. ev \in AnthropicCodec!AnyEvent
    BY AnthropicKnown DEF Known
  <2>4. EndPassed(ev)
    BY <1>1, <1>3, <2>1, <2>2 DEF EndPassed, HeardReason, Over
  <2>5. UsagePassed(ev)
    BY <1>1, <1>3, <2>1, <2>2 DEF UsagePassed, HeardUsage, StartAwaited, Counts, Total
  <2>6. BlockPassed(ev)
    <3>1. /\ ev.type = "content_block_start" /\ ev.index = up.next
          /\ ev.part = Part(up.block.kind, up.block.id, frag)
          /\ queue = <<ev>> /\ queue' = <<>> /\ up' = up /\ upstream = "anthropic"
          /\ upstream' = upstream /\ up.next \in Nat
      BY <1>1, <1>3, <2>1
    <3>2. ~OpenHeard /\ OpenHeard' /\ BlockHeard' = ev.index
      BY <2>1, <3>1 DEF OpenHeard, BlockHeard
    <3>3. Starting /\ ~Starting'
      BY <3>1 DEF Starting
    <3>4. ASSUME NEW i \in Indices
          PROVE  /\ MayCome(i)' => MayCome(i)
                 /\ MayBegin(i)' => MayBegin(i) /\ ev.index # i
                 /\ MayGoOn(i)' => ev.part.kind = "tool_use" /\ ev.part.id # NoId /\ ev.index = i
      BY <2>1, <2>2, <3>1, <3>3, ContentAssumption DEF MayCome, MayBegin, MayGoOn, Indices
    <3>5. /\ MayCome(ev.index) /\ MayBegin(ev.index)
          /\ ev.part.kind = "tool_use" => ev.part.id # NoId
          /\ ev.part.kind \in {"text", "thinking", "refusal"} => ev.part.id = NoId
      BY <2>1, <2>2, <3>1, <3>3, ContentAssumption DEF MayCome, MayBegin
    <3> QED
      BY <3>1, <3>2, <3>4, <3>5 DEF BlockPassed
  <2> QED
    BY <1>2, <2>3, <2>4, <2>5, <2>6 DEF Passed
<1>6. CASE SentContent(ev)
  <2>1. PICK kind \in BlockKinds \ {"server_tool_use"}, frag \in Frags :
          /\ ev = Delta(up.next, Part(kind, NoId, frag))
          /\ kind = "tool_use" => up.block.kind \in ToolKinds
          /\ up.phase = "speaking" /\ up.open
    BY <1>6 DEF SentContent
  <2>2. /\ said.usage = Usage(1, 1) /\ said.reason = "none" /\ said.end = "none"
        /\ up.next < MaxBlocks /\ up.block.kind \in Kinds
    BY <2>1 DEF AnthropicOK, AnthropicFeed, SilentOnReason
  <2>3. ev \in AnthropicCodec!AnyEvent
    BY AnthropicKnown DEF Known
  <2>4. EndPassed(ev)
    BY <1>1, <1>3, <2>1, <2>2 DEF EndPassed, HeardReason, Over
  <2>5. UsagePassed(ev)
    BY <1>1, <1>3, <2>1, <2>2 DEF UsagePassed, HeardUsage, StartAwaited, Counts, Total
  <2>6. BlockPassed(ev)
    BY <1>1, <1>3, <2>1, <2>2 DEF BlockPassed, OpenHeard, BlockHeard, MayCome, MayBegin, MayGoOn,
                                  Starting, ResponsesCodec!ItemKinds
  <2> QED
    BY <1>2, <2>3, <2>4, <2>5, <2>6 DEF Passed
<1>7. CASE SentBlockStop(ev)
  <2>1. /\ ev = BlockStop(up.next - 1)
        /\ up.phase = "speaking" /\ ~up.open /\ up.next > 0
    BY <1>7 DEF SentBlockStop
  <2>2. /\ said.usage = Usage(1, 1) /\ said.reason = "none" /\ said.end = "none"
        /\ up.next - 1 \in Indices
    BY <1>3, <2>1, Values, BoundsAssumption DEF AnthropicOK, AnthropicFeed, SilentOnReason
  <2>3. ev \in AnthropicCodec!AnyEvent
    BY AnthropicKnown DEF Known
  <2>4. EndPassed(ev)
    BY <1>1, <1>3, <2>1, <2>2 DEF EndPassed, HeardReason, Over
  <2>5. UsagePassed(ev)
    BY <1>1, <1>3, <2>1, <2>2 DEF UsagePassed, HeardUsage, StartAwaited, Counts, Total
  <2>6. BlockPassed(ev)
    BY <1>1, <1>3, <2>1, <2>2 DEF BlockPassed, OpenHeard, BlockHeard, MayCome, MayBegin, MayGoOn,
                                  Starting, ResponsesCodec!ItemKinds
  <2> QED
    BY <1>2, <2>3, <2>4, <2>5, <2>6 DEF Passed
<1>8. CASE SentReason(ev)
  <2>1. ev = BareDelta(said.reason, Usage(0, 2)) /\ up.phase = "stopping"
    BY <1>8 DEF SentReason
  <2>2. said.usage = Total /\ said.reason # "none" /\ said.end = "none" /\ ~up.open
    BY <2>1, ContentAssumption DEF AnthropicOK, AnthropicFeed, SilentOnReason
  <2>3. ev \in AnthropicCodec!AnyEvent
    BY AnthropicKnown DEF Known
  <2>4. EndPassed(ev)
    BY <1>1, <1>3, <2>1, <2>2 DEF EndPassed, HeardReason, Over
  <2>5. UsagePassed(ev)
    BY <1>1, <1>3, <2>1, <2>2 DEF UsagePassed, HeardUsage, StartAwaited, Counts, Total
  <2>6. BlockPassed(ev)
    BY <1>1, <1>3, <2>1, <2>2 DEF BlockPassed, OpenHeard, BlockHeard, MayCome, MayBegin, MayGoOn,
                                  Starting, ResponsesCodec!ItemKinds
  <2> QED
    BY <1>2, <2>3, <2>4, <2>5, <2>6 DEF Passed
<1>9. CASE SentStop(ev)
  <2>1. ev = StopEvent("none", NoUsage) /\ up.phase = "ended" /\ said.end = "clean"
    BY <1>9 DEF SentStop
  <2>2. said.usage = Total /\ ~up.open
    BY <2>1 DEF AnthropicOK, AnthropicFeed, SilentOnReason
  <2>3. ev \in AnthropicCodec!AnyEvent
    BY AnthropicKnown DEF Known
  <2>4. EndPassed(ev)
    BY <1>1, <1>3, <2>1, <2>2 DEF EndPassed, HeardReason, Over
  <2>5. UsagePassed(ev)
    BY <1>1, <1>3, <2>1, <2>2 DEF UsagePassed, HeardUsage, StartAwaited, Counts, Total
  <2>6. BlockPassed(ev)
    BY <1>1, <1>3, <2>1, <2>2 DEF BlockPassed, OpenHeard, BlockHeard, MayCome, MayBegin, MayGoOn,
                                  Starting, ResponsesCodec!ItemKinds
  <2> QED
    BY <1>2, <2>3, <2>4, <2>5, <2>6 DEF Passed
<1>10. CASE SentError(ev)
  <2>1. /\ ev = ErrorEvent(NoUsage) \/ ev = ErrResult
        /\ up.phase = "ended" /\ said.end = "error"
    BY <1>10 DEF SentError
  <2>2. \E type \in {"error", "err"} : ev = Event(type, 0, NoPart, "none", NoUsage, NoUsage)
    BY <2>1
  <2>3. ev \in AnthropicCodec!AnyEvent
    BY AnthropicKnown DEF Known
  <2>4. EndPassed(ev)
    BY <1>1, <1>3, <2>1, <2>2 DEF EndPassed, HeardReason, Over
  <2>5. UsagePassed(ev)
    BY <1>1, <1>3, <2>1, <2>2 DEF UsagePassed, HeardUsage, StartAwaited, Counts, Total
  <2>6. BlockPassed(ev)
    BY <1>1, <1>3, <2>1, <2>2 DEF BlockPassed, OpenHeard, BlockHeard, MayCome, MayBegin, MayGoOn,
                                  Starting, ResponsesCodec!ItemKinds
  <2> QED
    BY <1>2, <2>3, <2>4, <2>5, <2>6 DEF Passed
<1> QED
  BY <1>1, <1>4, <1>5, <1>6, <1>7, <1>8, <1>9, <1>10 DEF AnthropicSent

-----------------------------------------------------------------------------
(* A Chat Completions provider.                                            *)

ChatOK == upstream = "chat" /\ SaidOK /\ EndedWell /\ ChatFeed

ReaderState(phase, stop) == [phase |-> phase, stop |-> stop]

\* What is decoded of every kind of chunk, and read of it.
LEMMA ChatReadsNothing ==
  ASSUME ChatUp!Reads(ChatUp!Chunk(TRUE, <<>>, "none", NoUsage))
  PROVE  /\ queue = <<>> /\ queue' = <<StartEvent(NoUsage, NoUsage)>>
         /\ up' = [up EXCEPT !.phase = "speaking"]
BY SMTT(20) DEF ChatUp!Reads, ChatUp!DecodeOpenAIChatStreamChunks, ChatUp!Chunk

\* A chunk of one delta and no reason is passed on as it is, usage and all.
LEMMA ChatReadsDelta ==
  ASSUME NEW index, NEW part, NEW usage,
         ChatUp!Reads(ChatUp!Chunk(TRUE, <<Delta(index, part)>>, "none", usage))
  PROVE  /\ queue = <<>> /\ queue' = <<Event("delta", index, part, "none", usage, NoUsage)>>
         /\ up' = [up EXCEPT !.phase = "speaking"]
BY SMTT(20) DEF ChatUp!Reads, ChatUp!DecodeOpenAIChatStreamChunks, ChatUp!Chunk

\* A chunk of two deltas is passed on as two events.
LEMMA ChatReadsDeltas ==
  ASSUME NEW d, NEW e, e.type = "delta", e = [e EXCEPT !.usage = NoUsage],
         ChatUp!Reads(ChatUp!Chunk(TRUE, <<d, e>>, "none", NoUsage))
  PROVE  queue = <<>> /\ queue' = <<d, e>> /\ up' = [up EXCEPT !.phase = "speaking"]
BY SMTT(20) DEF ChatUp!Reads, ChatUp!DecodeOpenAIChatStreamChunks, ChatUp!Chunk

\* A chunk that has only a reason is withheld: the reader keeps its stop.
LEMMA ChatReadsStop ==
  ASSUME NEW reason, reason # "none", NEW usage,
         ChatUp!Reads(ChatUp!Chunk(TRUE, <<>>, reason, usage))
  PROVE  /\ queue = <<>> /\ queue' = <<>>
         /\ up' = ReaderState("draining", StopEvent(reason, usage))
BY SMTT(20) DEF ChatUp!Reads, ChatUp!DecodeOpenAIChatStreamChunks, ChatUp!Chunk, ReaderState

\* A chunk that has a delta and a reason is split: the delta goes on, the stop is kept.
LEMMA ChatReadsLast ==
  ASSUME NEW reason, reason # "none", NEW usage, NEW index, NEW part,
         ChatUp!Reads(ChatUp!Chunk(TRUE, <<Delta(index, part)>>, reason, usage))
  PROVE  /\ queue = <<>> /\ queue' = <<Delta(index, part)>>
         /\ up' = ReaderState("draining", StopEvent(reason, usage))
BY SMTT(20) DEF ChatUp!Reads, ChatUp!DecodeOpenAIChatStreamChunks, ChatUp!Chunk, ReaderState

\* The answer and the reader as the records that they are.
LEMMA ChatRecords ==
  ASSUME ChatOK
  PROVE  /\ said = AnswerOf(said.pieces, said.calls, said.reason, said.usage, said.end)
         /\ up = ReaderState(up.phase, up.stop)
BY DEF ChatOK, SaidOK, ChatFeed, AnswerOf, ReaderState

\* A step of a provider that has not ended its answer.
LEMMA ChatTalks ==
  ASSUME upstream = "chat", upstream' = upstream, queue = <<>>,
         up.phase \in {"silent", "filtered", "speaking", "broken", "draining"},
         \/ up'.phase \in {"silent", "filtered", "speaking", "broken", "draining"}
         \/ /\ queue' = <<queue'[1]>>
            /\ queue'[1].reason # "none" \/ said'.reason = "none",
         said'.usage = NoUsage => said.usage = NoUsage,
         CallsHeard' = Len(said.calls)
  PROVE  Quiet
<1>1. HeardReason = "none" /\ ~Over /\ CallsHeard = Len(said.calls)
  BY DEF HeardReason, Over, CallsHeard
<1>2. HeardReason' = "none" /\ ~Over'
  BY DEF HeardReason, Over
<1>3. ~StartAwaited'
  BY DEF StartAwaited
<1>4. ASSUME NEW i \in Indices
      PROVE  /\ MayCome(i)' => MayCome(i)
             /\ MayBegin(i)' => MayBegin(i)
             /\ MayGoOn(i)' => MayGoOn(i)
  BY <1>1 DEF MayCome, MayBegin, MayGoOn
<1> QED
  BY <1>1, <1>2, <1>3, <1>4 DEF Quiet

\* The chunk of the role keeps what is known of the provider; the codec has heard nothing of it.
LEMMA ChatRoleChunk ==
  ASSUME ChatOK, ChatUp!RoleChunk, upstream' = upstream
  PROVE  ChatOK' /\ Quiet
<1>1. /\ said' = said /\ up.phase \in {"silent", "filtered"} /\ queue = <<>>
      /\ up' = [up EXCEPT !.phase = "speaking"]
      /\ \/ queue' = <<StartEvent(NoUsage, NoUsage)>>
         \/ queue' = <<Delta(0, Part("text", NoId, 0))>>
  <2>1. PICK deltas \in {<<>>, <<Delta(0, Part("text", NoId, 0))>>} :
          ChatUp!Reads(ChatUp!Chunk(TRUE, deltas, "none", NoUsage))
    BY DEF ChatUp!RoleChunk
  <2>2. CASE deltas = <<>>
    BY <2>1, <2>2, ChatReadsNothing DEF ChatUp!RoleChunk
  <2>3. CASE deltas = <<Delta(0, Part("text", NoId, 0))>>
    <3>1. ChatUp!Reads(ChatUp!Chunk(TRUE, <<Delta(0, Part("text", NoId, 0))>>, "none", NoUsage))
      BY <2>1, <2>3
    <3> QED
      BY <3>1, ChatReadsDelta DEF ChatUp!RoleChunk
  <2> QED
    BY <2>1, <2>2, <2>3
<1>2. up' = ReaderState("speaking", up.stop)
  BY <1>1, ChatRecords DEF ReaderState
<1>3. queue' = <<queue'[1]>> /\ Len(queue') = 1 /\ ChatSent(queue[1])'
  <2>1. up'.phase = "speaking" /\ queue' = <<queue'[1]>> /\ Len(queue') = 1 /\ 0 \in Frags
    BY <1>1, <1>2, BoundsAssumption DEF ReaderState, Frags
  <2>2. CASE queue' = <<StartEvent(NoUsage, NoUsage)>>
    BY <2>1, <2>2 DEF ChatSent, ChatStart
  <2>3. CASE queue' = <<Delta(0, Part("text", NoId, 0))>>
    <3>1. ChatContent(queue[1])'
      BY <2>1, <2>3 DEF ChatContent, PlainKinds
    <3> QED
      BY <2>1, <3>1 DEF ChatSent
  <2> QED
    BY <1>1, <2>2, <2>3
<1>4. CallsHeard' = Len(said.calls)
  BY <1>1 DEF CallsHeard
<1>5. Quiet
  BY <1>1, <1>2, <1>4, ChatTalks DEF ChatOK, ReaderState
<1>6. SaidOK' /\ EndedWell'
  BY <1>1, <1>2 DEF ChatOK, SaidOK, EndedWell, ReaderState, ChatFeed, SilentOnReason
<1>7. ChatFeed'
  BY <1>1, <1>2, <1>3 DEF ChatOK, ChatFeed, SilentOnReason, ReaderState
<1> QED
  BY <1>5, <1>6, <1>7 DEF ChatOK

\* The same of a chunk of text, reasoning or refusal.
LEMMA ChatContentChunk ==
  ASSUME ChatOK, ChatUp!ContentChunk, upstream' = upstream
  PROVE  ChatOK' /\ Quiet
<1> DEFINE n == Len(said.pieces) + 1
<1>1. PICK kind \in PlainKinds, usage \in {NoUsage, Usage(1, 1)} :
        /\ ChatUp!Reads(ChatUp!Chunk(TRUE, <<Delta(0, Part(kind, NoId, n))>>, "none", usage))
        /\ said' = [said EXCEPT !.pieces = Append(@, Piece(kind, NoId, n)),
                               !.usage = Merge(@, usage)]
  BY DEF ChatUp!ContentChunk, ChatUp!Number, PlainKinds
<1>2. up.phase = "speaking" /\ Len(said.pieces) < MaxPieces
  BY DEF ChatUp!ContentChunk, ChatUp!HasRoom
<1>3. /\ queue = <<>> /\ up' = ReaderState("speaking", up.stop)
      /\ queue' = <<Event("delta", 0, Part(kind, NoId, n), "none", usage, NoUsage)>>
  BY <1>1, ChatReadsDelta, ChatRecords DEF ReaderState
<1>4. PICK total \in {NoUsage, Usage(1, 1)} :
        /\ said' = AnswerOf(Append(said.pieces, Piece(kind, NoId, n)), said.calls, said.reason,
                           total, said.end)
        /\ total = NoUsage => usage = NoUsage /\ said.usage = NoUsage
  <2>1. said.usage \in {NoUsage, Usage(1, 1)}
    BY <1>2 DEF ChatOK, ChatFeed
  <2>2. Merge(said.usage, usage) \in {NoUsage, Usage(1, 1)}
    BY <2>1
  <2>3. Merge(said.usage, usage) = NoUsage => usage = NoUsage /\ said.usage = NoUsage
    BY <2>1
  <2>4. said' = AnswerOf(Append(said.pieces, Piece(kind, NoId, n)), said.calls, said.reason,
                         Merge(said.usage, usage), said.end)
    BY <1>1, ChatRecords DEF AnswerOf
  <2> QED
    BY <2>2, <2>3, <2>4
<1>5. /\ n \in Frags /\ Append(said.pieces, Piece(kind, NoId, n)) \in Seq(Pieces)
      /\ Len(Append(said.pieces, Piece(kind, NoId, n))) <= MaxPieces
  <2>1. said.pieces \in Seq(Pieces)
    BY DEF ChatOK, SaidOK
  <2>2. n \in Frags /\ Piece(kind, NoId, n) \in Pieces
    BY <1>2, <2>1, BoundsAssumption DEF Pieces, Frags, CallIds, PlainKinds
  <2> QED
    BY <1>2, <2>1, <2>2, BoundsAssumption
<1> HIDE DEF n
<1>6. queue' = <<queue'[1]>> /\ Len(queue') = 1 /\ ChatSent(queue[1])'
  <2>1. /\ up'.phase = "speaking" /\ queue' = <<queue'[1]>> /\ Len(queue') = 1
        /\ queue'[1] = Event("delta", 0, Part(kind, NoId, n), "none", usage, NoUsage)
        /\ said'.usage = total
    BY <1>3, <1>4 DEF ReaderState, AnswerOf
  <2>2. ChatContent(queue[1])'
    BY <1>1, <1>4, <1>5, <2>1 DEF ChatContent
  <2> QED
    BY <2>1, <2>2 DEF ChatSent
<1>7. CallsHeard' = Len(said.calls)
  BY <1>1, <1>3, <1>4 DEF CallsHeard, AnswerOf, PlainKinds
<1>8. Quiet
  BY <1>2, <1>3, <1>4, <1>7, ChatTalks DEF ChatOK, ReaderState, AnswerOf
<1>9. SaidOK' /\ EndedWell'
  BY <1>2, <1>3, <1>4, <1>5, Values
     DEF ChatOK, SaidOK, EndedWell, ReaderState, AnswerOf, ChatFeed, SilentOnReason
<1>10. ChatFeed'
  BY <1>2, <1>3, <1>4, <1>6 DEF ChatOK, ChatFeed, SilentOnReason, ReaderState, AnswerOf
<1> QED
  BY <1>8, <1>9, <1>10 DEF ChatOK

\* The same of a chunk that begins a call.
LEMMA ChatCallChunk ==
  ASSUME ChatOK, ChatUp!CallChunk, upstream' = upstream
  PROVE  ChatOK' /\ Quiet
<1> DEFINE Pieced(call, frag) == IF frag = 0 THEN said.pieces
                               ELSE Append(said.pieces, Piece("tool_use", call, frag))
<1>1. PICK call \in Calls, frag \in {0, Len(said.pieces) + 1} :
        /\ frag # 0 => Len(said.pieces) < MaxPieces
        /\ ChatUp!Reads(ChatUp!Chunk(TRUE,
             <<Delta(Len(said.calls), Part("tool_use", call, frag))>>, "none", NoUsage))
        /\ said' = [said EXCEPT !.calls = Append(@, call), !.pieces = Pieced(call, frag)]
  <2>1. PICK call \in Calls, frag \in {0, Len(said.pieces) + 1} :
          /\ frag # 0 => Len(said.pieces) < MaxPieces
          /\ ChatUp!Reads(ChatUp!Chunk(TRUE,
               <<Delta(Len(said.calls), Part("tool_use", call, frag))>>, "none", NoUsage))
          /\ said' = [said EXCEPT
                       !.calls = Append(@, call),
                       !.pieces = IF frag = 0 THEN @
                                  ELSE Append(@, Piece("tool_use", call, frag))]
    BY DEF ChatUp!CallChunk, ChatUp!Number, ChatUp!HasRoom
  <2> QED
    BY <2>1
<1>2. up.phase = "speaking" /\ Len(said.calls) < MaxBlocks
  BY DEF ChatUp!CallChunk
<1>3. /\ queue = <<>> /\ up' = ReaderState("speaking", up.stop)
      /\ queue' = <<Delta(Len(said.calls), Part("tool_use", call, frag))>>
  BY <1>1, ChatReadsDelta, ChatRecords DEF ReaderState
<1>4. said' = AnswerOf(Pieced(call, frag), Append(said.calls, call), said.reason, said.usage,
                       said.end)
  BY <1>1, ChatRecords DEF AnswerOf
<1>5. frag \in Frags /\ Pieced(call, frag) \in Seq(Pieces) /\ Len(Pieced(call, frag)) <= MaxPieces
  <2>1. said.pieces \in Seq(Pieces) /\ Len(said.pieces) <= MaxPieces
    BY DEF ChatOK, SaidOK
  <2>2. frag \in Frags /\ Piece("tool_use", call, frag) \in Pieces
    BY <1>1, <2>1, BoundsAssumption DEF Pieces, Frags, CallIds
  <2> QED
    BY <1>1, <2>1, <2>2, BoundsAssumption
<1>6. /\ said.calls \in Seq(Calls) /\ Append(said.calls, call) \in Seq(Calls)
      /\ Len(Append(said.calls, call)) = Len(said.calls) + 1
      /\ Append(said.calls, call)[Len(said.calls) + 1] = call
  BY DEF ChatOK, ChatFeed
<1>7. /\ up'.phase = "speaking" /\ said'.calls = Append(said.calls, call)
      /\ queue' = <<queue'[1]>> /\ Len(queue') = 1
      /\ queue'[1] = Delta(Len(said.calls), Part("tool_use", call, frag))
  BY <1>3, <1>4 DEF ReaderState, AnswerOf
<1> HIDE DEF Pieced
<1>8. ChatSent(queue[1])'
  BY <1>5, <1>6, <1>7 DEF ChatSent, ChatNewCall
<1>9. CallsHeard' = Len(said.calls)
  <2>1. queue' # <<>> /\ queue'[1].part.kind = "tool_use" /\ queue'[1].part.id # NoId
    <3>1. queue'[1].part = Part("tool_use", call, frag)
      BY <1>7
    <3>2. call # NoId
      BY ContentAssumption
    <3>3. queue' # <<>>
      BY <1>3
    <3> QED
      BY <3>1, <3>2, <3>3
  <2>2. Len(said'.calls) - 1 = Len(said.calls)
    BY <1>6, <1>7
  <2> QED
    BY <2>1, <2>2 DEF CallsHeard
<1>10. Quiet
  BY <1>2, <1>3, <1>4, <1>9, ChatTalks DEF ChatOK, ReaderState, AnswerOf
<1>11. SaidOK' /\ EndedWell'
  BY <1>2, <1>3, <1>4, <1>5
     DEF ChatOK, SaidOK, EndedWell, ReaderState, AnswerOf, ChatFeed, SilentOnReason
<1>12. ChatFeed'
  <2>1. Len(said'.calls) <= MaxBlocks /\ said'.calls \in Seq(Calls)
    BY <1>2, <1>6, <1>7, BoundsAssumption
  <2>2. /\ said'.reason = said.reason /\ said'.end = said.end /\ said'.usage = said.usage
        /\ up' = ReaderState("speaking", up.stop)
    BY <1>3, <1>4 DEF AnswerOf
  <2> QED
    BY <1>2, <1>7, <1>8, <2>1, <2>2 DEF ChatOK, ChatFeed, SilentOnReason, ReaderState
<1> QED
  BY <1>10, <1>11, <1>12 DEF ChatOK

\* The index of a call that has begun.
LEMMA CallIndex ==
  ASSUME ChatOK, NEW call \in ChatUp!Called
  PROVE  /\ ChatUp!IndexOf(call) \in 0..Len(said.calls) - 1
         /\ call \in Calls
<1>1. said.calls \in Seq(Calls) /\ Len(said.calls) \in Nat
  BY DEF ChatOK, ChatFeed
<1>2. PICK i \in 1..Len(said.calls) : said.calls[i] = call
  BY <1>1 DEF ChatUp!Called
<1>3. (CHOOSE j \in 1..Len(said.calls) : said.calls[j] = call) \in 1..Len(said.calls)
  BY <1>2
<1> QED
  BY <1>1, <1>2, <1>3 DEF ChatUp!IndexOf

\* A step in which the provider says more of its calls' arguments.
LEMMA ArgumentsSaid ==
  ASSUME ChatOK, upstream' = upstream, up.phase = "speaking", queue = <<>>,
         NEW pieces \in Seq(Pieces), Len(pieces) <= MaxPieces,
         up' = ReaderState("speaking", up.stop),
         said' = AnswerOf(pieces, said.calls, said.reason, said.usage, said.end),
         \/ queue' = <<queue'[1]>> /\ Len(queue') = 1 /\ ChatArguments(queue[1])'
         \/ /\ queue' = <<queue'[1], queue'[2]>> /\ Len(queue') = 2
            /\ ChatArguments(queue[1])' /\ ChatArguments(queue[2])'
  PROVE  ChatOK' /\ Quiet
<1>1. queue'[1].part.id = NoId /\ queue' # <<>>
  <2>1. ChatArguments(queue[1])' /\ queue' # <<>>
    OBVIOUS
  <2> QED
    BY <2>1 DEF ChatArguments
<1>2. CallsHeard' = Len(said.calls)
  BY <1>1 DEF CallsHeard, AnswerOf
<1>3. Quiet
  BY <1>2, ChatTalks DEF ChatOK, ReaderState, AnswerOf
<1>4. SaidOK' /\ EndedWell'
  BY DEF ChatOK, SaidOK, EndedWell, ReaderState, AnswerOf, ChatFeed, SilentOnReason
<1>5. ChatFeed'
  <2>1. /\ said'.reason = said.reason /\ said'.end = said.end /\ said'.usage = said.usage
        /\ said'.calls = said.calls
    BY DEF AnswerOf
  <2>2. \/ queue' = <<>>
        \/ Len(queue') = 1 /\ queue' = <<queue'[1]>> /\ ChatSent(queue[1])'
        \/ /\ Len(queue') = 2 /\ queue' = <<queue'[1], queue'[2]>>
           /\ ChatArguments(queue[1])' /\ ChatArguments(queue[2])'
    BY DEF ChatSent
  <2> QED
    BY <2>1, <2>2 DEF ChatOK, ChatFeed, SilentOnReason, ReaderState
<1> QED
  BY <1>3, <1>4, <1>5 DEF ChatOK

\* The same of a chunk of arguments, of one call or of two.
LEMMA ChatArgumentsChunk ==
  ASSUME ChatOK, ChatUp!ArgumentsChunk, upstream' = upstream
  PROVE  ChatOK' /\ Quiet
<1> DEFINE n == Len(said.pieces) + 1
           one(call) == Append(said.pieces, Piece("tool_use", call, n))
           two(call, other) == said.pieces \o <<Piece("tool_use", call, n),
                                               Piece("tool_use", other, n + 1)>>
<1>1. up.phase = "speaking" /\ Len(said.pieces) < MaxPieces
  BY DEF ChatUp!ArgumentsChunk, ChatUp!HasRoom
<1>2. said.pieces \in Seq(Pieces) /\ n \in Frags
  BY <1>1, BoundsAssumption DEF ChatOK, SaidOK, Frags
<1>3. ASSUME NEW call \in ChatUp!Called,
             ChatUp!Reads(ChatUp!Chunk(TRUE, <<Delta(ChatUp!IndexOf(call),
                                                     Part("tool_use", NoId, n))>>,
                                       "none", NoUsage)),
             said' = [said EXCEPT !.pieces = Append(@, Piece("tool_use", call, n))]
      PROVE  ChatOK' /\ Quiet
  <2>1. ChatUp!IndexOf(call) \in 0..Len(said.calls) - 1 /\ Piece("tool_use", call, n) \in Pieces
    BY <1>2, CallIndex, Values DEF Pieces
  <2>2. one(call) \in Seq(Pieces) /\ Len(one(call)) <= MaxPieces
    BY <1>1, <1>2, <2>1, BoundsAssumption
  <2>3. /\ queue = <<>> /\ up' = ReaderState("speaking", up.stop)
        /\ queue' = <<Delta(ChatUp!IndexOf(call), Part("tool_use", NoId, n))>>
    BY <1>3, ChatReadsDelta, ChatRecords DEF ReaderState
  <2>4. said' = AnswerOf(one(call), said.calls, said.reason, said.usage, said.end)
    BY <1>3, ChatRecords DEF AnswerOf
  <2> HIDE DEF n, one
  <2>5. queue' = <<queue'[1]>> /\ Len(queue') = 1 /\ ChatArguments(queue[1])'
    BY <1>2, <2>1, <2>3, <2>4 DEF ChatArguments, ReaderState, AnswerOf
  <2> QED
    BY <1>1, <2>2, <2>3, <2>4, <2>5, ArgumentsSaid
<1>4. ASSUME NEW call \in ChatUp!Called, NEW other \in ChatUp!Called,
             n < MaxPieces,
             ChatUp!Reads(ChatUp!Chunk(TRUE, <<Delta(ChatUp!IndexOf(call),
                                                     Part("tool_use", NoId, n)),
                                               Delta(ChatUp!IndexOf(other),
                                                     Part("tool_use", NoId, n + 1))>>,
                                       "none", NoUsage)),
             said' = [said EXCEPT !.pieces = @ \o <<Piece("tool_use", call, n),
                                                    Piece("tool_use", other, n + 1)>>]
      PROVE  ChatOK' /\ Quiet
  <2>1. /\ ChatUp!IndexOf(call) \in 0..Len(said.calls) - 1
        /\ ChatUp!IndexOf(other) \in 0..Len(said.calls) - 1
        /\ Piece("tool_use", call, n) \in Pieces /\ Piece("tool_use", other, n + 1) \in Pieces
        /\ n + 1 \in Frags
    BY <1>2, <1>4, CallIndex, Values, BoundsAssumption DEF Pieces, Frags
  <2>2. two(call, other) \in Seq(Pieces) /\ Len(two(call, other)) <= MaxPieces
    BY <1>1, <1>2, <1>4, <2>1, BoundsAssumption
  <2>3. /\ queue = <<>> /\ up' = ReaderState("speaking", up.stop)
        /\ queue' = <<Delta(ChatUp!IndexOf(call), Part("tool_use", NoId, n)),
                      Delta(ChatUp!IndexOf(other), Part("tool_use", NoId, n + 1))>>
    <3> DEFINE d == Delta(ChatUp!IndexOf(call), Part("tool_use", NoId, n))
               e == Delta(ChatUp!IndexOf(other), Part("tool_use", NoId, n + 1))
    <3>1. e.type = "delta" /\ e = [e EXCEPT !.usage = NoUsage]
      OBVIOUS
    <3>2. ChatUp!Reads(ChatUp!Chunk(TRUE, <<d, e>>, "none", NoUsage))
      BY <1>4
    <3> HIDE DEF d, e
    <3>3. queue = <<>> /\ queue' = <<d, e>> /\ up' = [up EXCEPT !.phase = "speaking"]
      BY <3>1, <3>2, ChatReadsDeltas
    <3> QED
      BY <3>3, ChatRecords DEF ReaderState, d, e
  <2>4. said' = AnswerOf(two(call, other), said.calls, said.reason, said.usage, said.end)
    BY <1>4, ChatRecords DEF AnswerOf
  <2> HIDE DEF n, two
  <2>5. queue' = <<queue'[1], queue'[2]>> /\ Len(queue') = 2
    BY <2>3
  <2>6. ChatArguments(queue[1])' /\ ChatArguments(queue[2])'
    BY <1>2, <2>1, <2>3, <2>4 DEF ChatArguments, ReaderState, AnswerOf
  <2> QED
    BY <1>1, <2>2, <2>3, <2>4, <2>5, <2>6, ArgumentsSaid
<1> QED
  BY <1>3, <1>4 DEF ChatUp!ArgumentsChunk, ChatUp!Number

\* The usage of an answer whose finish_reason is read.
LEMMA ChatTotal ==
  ASSUME ChatOK, up.phase = "speaking", NEW usage \in {NoUsage, Usage(1, 2)}
  PROVE  \E total \in {NoUsage, Usage(1, 1), Total} :
           /\ Merge(said.usage, usage) = total
           /\ usage = IF total = Total THEN Total ELSE NoUsage
           /\ total = NoUsage => said.usage = NoUsage
<1>1. said.usage \in {NoUsage, Usage(1, 1)}
  BY DEF ChatOK, ChatFeed
<1> QED
  BY <1>1 DEF Total

\* A step in which the finish_reason is read, and maybe the last of the text.
LEMMA ChatFinishes ==
  ASSUME ChatOK, upstream' = upstream, up.phase = "speaking", queue = <<>>,
         NEW pieces \in Seq(Pieces), Len(pieces) <= MaxPieces,
         NEW reason \in Reasons, NEW usage, NEW total \in {NoUsage, Usage(1, 1), Total},
         usage = IF total = Total THEN Total ELSE NoUsage,
         total = NoUsage => said.usage = NoUsage,
         up' = ReaderState("draining", StopEvent(reason, usage)),
         said' = AnswerOf(pieces, said.calls, reason, total, "clean"),
         \/ queue' = <<>>
         \/ \E frag \in Frags : queue' = <<Delta(0, Part("text", NoId, frag))>>
  PROVE  ChatOK' /\ Quiet
<1>1. /\ said'.reason = reason /\ said'.end = "clean" /\ said'.usage = total
      /\ said'.calls = said.calls /\ up'.phase = "draining"
      /\ up'.stop = StopEvent(reason, usage)
  BY DEF AnswerOf, ReaderState
<1>2. \/ queue' = <<>>
      \/ Len(queue') = 1 /\ queue' = <<queue'[1]>> /\ ChatSent(queue[1])'
  <2>1. ASSUME NEW frag \in Frags, queue' = <<Delta(0, Part("text", NoId, frag))>>
        PROVE  Len(queue') = 1 /\ queue' = <<queue'[1]>> /\ ChatContent(queue[1])'
    BY <1>1, <2>1 DEF ChatContent, PlainKinds
  <2> QED
    BY <2>1 DEF ChatSent
<1>3. CallsHeard' = Len(said.calls)
  BY <1>1 DEF CallsHeard
<1>4. Quiet
  BY <1>1, <1>3, ChatTalks DEF ChatOK
<1>5. SaidOK' /\ EndedWell'
  <2>1. total \in Counts /\ reason \in StopReasons
    BY Values DEF StopReasons
  <2> QED
    BY <1>1, <2>1 DEF SaidOK, EndedWell, AnswerOf
<1>6. ChatFeed'
  BY <1>1, <1>2 DEF ChatOK, ChatFeed, ReaderState
<1> QED
  BY <1>4, <1>5, <1>6 DEF ChatOK

\* The same of the chunk that tells the reason: the reader withholds it.
LEMMA ChatFinishChunk ==
  ASSUME ChatOK, ChatUp!FinishChunk, upstream' = upstream
  PROVE  ChatOK' /\ Quiet
<1> DEFINE n == Len(said.pieces) + 1
           more == Append(said.pieces, Piece("text", NoId, n))
<1>1. up.phase = "speaking" /\ said.pieces \in Seq(Pieces) /\ Len(said.pieces) <= MaxPieces
  BY DEF ChatUp!FinishChunk, ChatOK, SaidOK
<1>2. PICK reason \in Reasons, usage \in {NoUsage, Usage(1, 2)} :
        \/ /\ ChatUp!Reads(ChatUp!Chunk(TRUE, <<>>, reason, usage))
           /\ said' = [said EXCEPT !.reason = reason, !.usage = Merge(@, usage),
                                   !.end = "clean"]
        \/ /\ Len(said.pieces) < MaxPieces
           /\ ChatUp!Reads(ChatUp!Chunk(TRUE, <<Delta(0, Part("text", NoId, n))>>, reason, usage))
           /\ said' = [said EXCEPT !.reason = reason, !.usage = Merge(@, usage),
                                   !.pieces = more, !.end = "clean"]
  BY DEF ChatUp!FinishChunk, ChatUp!Number, ChatUp!HasRoom
<1>3. reason # "none"
  BY ContentAssumption
<1> DEFINE total == Merge(said.usage, usage)
<1>t. /\ total \in {NoUsage, Usage(1, 1), Total}
      /\ usage = IF total = Total THEN Total ELSE NoUsage
      /\ total = NoUsage => said.usage = NoUsage
  BY <1>1, ChatTotal
<1>4. CASE /\ ChatUp!Reads(ChatUp!Chunk(TRUE, <<>>, reason, usage))
           /\ said' = [said EXCEPT !.reason = reason, !.usage = Merge(@, usage),
                                   !.end = "clean"]
  <2>1. queue = <<>> /\ queue' = <<>> /\ up' = ReaderState("draining", StopEvent(reason, usage))
    BY <1>3, <1>4, ChatReadsStop
  <2>2. said' = AnswerOf(said.pieces, said.calls, reason, total, "clean")
    BY <1>4, ChatRecords DEF AnswerOf
  <2> HIDE DEF total
  <2> QED
    BY <1>1, <1>t, <2>1, <2>2, ChatFinishes
<1>5. CASE /\ Len(said.pieces) < MaxPieces
           /\ ChatUp!Reads(ChatUp!Chunk(TRUE, <<Delta(0, Part("text", NoId, n))>>, reason, usage))
           /\ said' = [said EXCEPT !.reason = reason, !.usage = Merge(@, usage),
                                   !.pieces = more, !.end = "clean"]
  <2>1. /\ queue = <<>> /\ queue' = <<Delta(0, Part("text", NoId, n))>>
        /\ up' = ReaderState("draining", StopEvent(reason, usage))
    BY <1>3, <1>5, ChatReadsLast
  <2>2. n \in Frags /\ Piece("text", NoId, n) \in Pieces
    BY <1>1, <1>5, BoundsAssumption DEF Pieces, Frags, CallIds
  <2>3. more \in Seq(Pieces) /\ Len(more) <= MaxPieces
    BY <1>1, <1>5, <2>2, BoundsAssumption
  <2>4. said' = AnswerOf(more, said.calls, reason, total, "clean")
    BY <1>5, ChatRecords DEF AnswerOf
  <2> HIDE DEF n, more, total
  <2> QED
    BY <1>1, <1>t, <2>1, <2>2, <2>3, <2>4, ChatFinishes
<1> QED
  BY <1>2, <1>4, <1>5

\* The same of a chunk without choices.
LEMMA ChatEmptyChunk ==
  ASSUME ChatOK, ChatUp!EmptyChunk, upstream' = upstream
  PROVE  ChatOK' /\ Quiet
<1>1. /\ up.phase \in {"silent", "speaking"} /\ queue = <<>> /\ said' = said
      /\ queue' = <<StartEvent(NoUsage, NoUsage)>>
      /\ up' = [up EXCEPT !.phase = IF @ = "silent" THEN "filtered" ELSE @]
  BY SMTT(20) DEF ChatUp!EmptyChunk, ChatUp!DecodeOpenAIChatStreamChunks, ChatUp!Chunk
<1>2. PICK phase \in {"filtered", "speaking"} : up' = ReaderState(phase, up.stop)
  BY <1>1, ChatRecords DEF ReaderState
<1>3. queue' = <<queue'[1]>> /\ Len(queue') = 1 /\ ChatSent(queue[1])'
  <2>1. up'.phase = phase /\ queue' = <<queue'[1]>> /\ Len(queue') = 1
    BY <1>1, <1>2 DEF ReaderState
  <2>2. ChatStart(queue[1])'
    BY <1>1, <2>1 DEF ChatStart
  <2> QED
    BY <2>1, <2>2 DEF ChatSent
<1>4. CallsHeard' = Len(said.calls)
  BY <1>1 DEF CallsHeard
<1>5. Quiet
  BY <1>1, <1>2, <1>4, ChatTalks DEF ChatOK, ReaderState
<1>6. SaidOK' /\ EndedWell'
  BY <1>1, <1>2 DEF ChatOK, SaidOK, EndedWell, ReaderState, ChatFeed, SilentOnReason
<1>7. ChatFeed'
  BY <1>1, <1>2, <1>3 DEF ChatOK, ChatFeed, SilentOnReason, ReaderState
<1> QED
  BY <1>5, <1>6, <1>7 DEF ChatOK

\* The same of an error payload: the codec hears of a start only.
LEMMA ChatErrorPayload ==
  ASSUME ChatOK, ChatUp!ErrorPayload, upstream' = upstream
  PROVE  ChatOK' /\ Quiet
<1>1. /\ up.phase \in {"silent", "filtered", "speaking"} /\ queue = <<>>
      /\ queue' = <<StartEvent(NoUsage, NoUsage)>> /\ up' = ReaderState("broken", up.stop)
      /\ said' = AnswerOf(said.pieces, said.calls, said.reason, said.usage, "unheard")
  <2>1. queue' = <<StartEvent(NoUsage, NoUsage)>>
    BY SMTT(20) DEF ChatUp!ErrorPayload, ChatUp!DecodeOpenAIChatStreamChunks, ChatUp!Chunk
  <2> QED
    BY <2>1, ChatRecords DEF ChatUp!ErrorPayload, ReaderState, AnswerOf
<1>2. /\ up'.phase = "broken" /\ Len(queue') = 1 /\ queue' = <<queue'[1]>>
      /\ queue'[1] = StartEvent(NoUsage, NoUsage) /\ said'.calls = said.calls
      /\ said'.reason = said.reason /\ said'.usage = said.usage /\ said'.end = "unheard"
      /\ said.reason = "none"
  BY <1>1 DEF ReaderState, AnswerOf, ChatOK, ChatFeed, SilentOnReason
<1>3. ChatSent(queue[1])'
  BY <1>2 DEF ChatSent, ChatStart
<1>4. CallsHeard' = Len(said.calls)
  BY <1>2 DEF CallsHeard
<1>5. Quiet
  BY <1>1, <1>2, <1>4, ChatTalks DEF ChatOK
<1>6. SaidOK' /\ EndedWell'
  BY <1>1, <1>2 DEF ChatOK, SaidOK, EndedWell, AnswerOf
<1>7. ChatFeed'
  BY <1>1, <1>2, <1>3 DEF ChatOK, ChatFeed, ReaderState
<1> QED
  BY <1>5, <1>6, <1>7 DEF ChatOK

\* The same of the usage that follows the reason: it joins the stop that is withheld.
LEMMA ChatTrailingUsage ==
  ASSUME ChatOK, ChatUp!TrailingUsage, upstream' = upstream
  PROVE  ChatOK' /\ Quiet
<1>1. /\ up.phase = "draining" /\ queue = <<>> /\ queue' = <<>>
      /\ said' = [said EXCEPT !.usage = Merge(@, Total)]
  BY DEF ChatUp!TrailingUsage, Total
<1>2. up' = [up EXCEPT !.stop.usage = Merge(@, Total)]
  BY SMTT(20) DEF ChatUp!TrailingUsage, ChatUp!DecodeOpenAIChatStreamChunks, ChatUp!Chunk, Total
<1>3. /\ said.usage \in {NoUsage, Usage(1, 1), Total} /\ said.reason \in Reasons
      /\ said.end = "clean" /\ up.stop.usage \in {NoUsage, Total}
      /\ up.stop = StopEvent(said.reason, up.stop.usage)
  BY <1>1 DEF ChatOK, ChatFeed
<1>4. Merge(said.usage, Total) = Total /\ Merge(up.stop.usage, Total) = Total
  BY <1>3 DEF Total
<1>5. said' = AnswerOf(said.pieces, said.calls, said.reason, Total, said.end)
  BY <1>1, <1>4, ChatRecords DEF AnswerOf
<1>6. up' = ReaderState("draining", StopEvent(said.reason, Total))
  <2>1. up' = [up EXCEPT !.stop = [@ EXCEPT !.usage = Total]]
    BY <1>2, <1>4
  <2> QED
    BY <1>1, <1>3, <2>1, ChatRecords DEF ReaderState
<1>7. /\ said'.reason = said.reason /\ said'.end = "clean" /\ said'.usage = Total
      /\ said'.calls = said.calls /\ up'.phase = "draining"
      /\ up'.stop = StopEvent(said.reason, Total)
  BY <1>3, <1>5, <1>6 DEF AnswerOf, ReaderState
<1>8. CallsHeard' = Len(said.calls)
  BY <1>1, <1>7 DEF CallsHeard
<1>9. Quiet
  BY <1>1, <1>7, <1>8, ChatTalks DEF ChatOK, Total
<1>10. SaidOK' /\ EndedWell'
  <2>1. Total \in Counts
    BY Values
  <2> QED
    BY <1>1, <1>5, <1>7, <2>1 DEF ChatOK, SaidOK, EndedWell, AnswerOf
<1>11. ChatFeed'
  BY <1>1, <1>3, <1>6, <1>7 DEF ChatOK, ChatFeed, ReaderState
<1> QED
  BY <1>9, <1>10, <1>11 DEF ChatOK

\* The same of the end of the drain: the stop that was withheld is sent.
LEMMA ChatDrained ==
  ASSUME ChatOK, ChatUp!Drained, upstream' = upstream
  PROVE  ChatOK' /\ Quiet
<1>1. /\ up.phase = "draining" /\ queue = <<>> /\ queue' = <<up.stop>>
      /\ said.usage \in {NoUsage, Total} /\ said' = said
      /\ up' = ReaderState("ended", up.stop)
  BY ChatRecords DEF ChatUp!Drained, Total, ReaderState
<1>2. /\ said.reason \in Reasons /\ said.end = "clean"
      /\ up.stop = StopEvent(said.reason, said.usage)
  BY <1>1 DEF ChatOK, ChatFeed, Total
<1>3. /\ up'.phase = "ended" /\ Len(queue') = 1 /\ queue' = <<queue'[1]>>
      /\ queue'[1] = StopEvent(said.reason, said.usage)
  BY <1>1, <1>2 DEF ReaderState
<1>4. ChatSent(queue[1])'
  <2>1. ChatStop(queue[1])'
    BY <1>1, <1>2, <1>3 DEF ChatStop
  <2> QED
    BY <2>1 DEF ChatSent
<1>5. CallsHeard' = Len(said.calls)
  BY <1>1, <1>3 DEF CallsHeard
<1>6. queue'[1].reason # "none"
  BY <1>2, <1>3, ContentAssumption
<1>7. Quiet
  BY <1>1, <1>3, <1>5, <1>6, ChatTalks DEF ChatOK
<1>8. SaidOK' /\ EndedWell'
  BY <1>1, <1>2, <1>3 DEF ChatOK, SaidOK, EndedWell
<1>9. ChatFeed'
  BY <1>1, <1>2, <1>3, <1>4 DEF ChatOK, ChatFeed, ReaderState
<1> QED
  BY <1>7, <1>8, <1>9 DEF ChatOK

\* The same of a read that fails.
LEMMA ChatReadFails ==
  ASSUME ChatOK, ChatUp!ReadFails, upstream' = upstream
  PROVE  ChatOK' /\ Quiet
<1>1. /\ up.phase \in {"silent", "filtered", "speaking", "broken"} /\ queue = <<>>
      /\ queue' = <<ErrResult>> /\ up' = ReaderState("ended", up.stop)
      /\ said' = AnswerOf(said.pieces, said.calls, said.reason, said.usage, "error")
  BY ChatRecords DEF ChatUp!ReadFails, ReaderState, AnswerOf
<1>2. /\ up'.phase = "ended" /\ Len(queue') = 1 /\ queue' = <<queue'[1]>>
      /\ queue'[1] = ErrResult /\ said'.calls = said.calls /\ said'.reason = said.reason
      /\ said'.usage = said.usage /\ said'.end = "error" /\ said.reason = "none"
  BY <1>1 DEF ReaderState, AnswerOf, ChatOK, ChatFeed, SilentOnReason, SaidOK
<1>3. ChatSent(queue[1])'
  BY <1>2 DEF ChatSent, ChatError
<1>4. CallsHeard' = Len(said.calls)
  BY <1>2 DEF CallsHeard
<1>5. Quiet
  BY <1>1, <1>2, <1>4, ChatTalks DEF ChatOK
<1>6. SaidOK' /\ EndedWell'
  BY <1>1, <1>2 DEF ChatOK, SaidOK, EndedWell, AnswerOf
<1>7. ChatFeed'
  BY <1>1, <1>2, <1>3 DEF ChatOK, ChatFeed, ReaderState
<1> QED
  BY <1>5, <1>6, <1>7 DEF ChatOK

\* The same of the end of the stream.
LEMMA ChatClose ==
  ASSUME ChatOK, ChatUp!Close, upstream' = upstream
  PROVE  ChatOK' /\ Quiet
<1> DEFINE end == IF said.end = "none" THEN "cut" ELSE said.end
<1>1. /\ up.phase \in {"silent", "filtered", "speaking", "broken", "ended"} /\ queue = <<>>
      /\ queue' = <<>> /\ up' = ReaderState("closed", up.stop)
      /\ said' = AnswerOf(said.pieces, said.calls, said.reason, said.usage, end)
  BY ChatRecords DEF ChatUp!Close, ReaderState, AnswerOf
<1>2. up.phase \in {"silent", "filtered", "speaking", "broken"} =>
        said.reason = "none" /\ end \in {"cut", "unheard"}
  BY DEF ChatOK, ChatFeed, SilentOnReason, SaidOK
<1>3. up.phase = "ended" => said.end # "none" /\ end = said.end
  BY DEF ChatOK, ChatFeed
<1>4. /\ up'.phase = "closed" /\ said'.calls = said.calls /\ said'.reason = said.reason
      /\ said'.usage = said.usage /\ said'.end = end
  BY <1>1 DEF ReaderState, AnswerOf
<1>5. /\ end \in {"clean", "error", "unheard", "cut"}
      /\ end = "unheard" => said.reason = "none"
  BY DEF ChatOK, SaidOK
<1> HIDE DEF end
<1>6. CallsHeard' = CallsHeard
  BY <1>1, <1>4 DEF CallsHeard
<1>7. Quiet
  <2>1. HeardReason' = HeardReason
    BY <1>1, <1>2, <1>3, <1>4 DEF HeardReason, ChatOK
  <2>2. /\ Over => Over' /\ said' = said
        /\ Over' => Over \/ said'.end \in {"cut", "unheard"}
    BY <1>1, <1>2, <1>3, <1>4, ChatRecords DEF Over, ChatOK
  <2>3. ~StartAwaited'
    BY DEF StartAwaited, ChatOK
  <2>4. ASSUME NEW i \in Indices
        PROVE  /\ MayCome(i)' => MayCome(i)
               /\ MayBegin(i)' => MayBegin(i)
               /\ MayGoOn(i)' => MayGoOn(i)
    BY <1>6 DEF MayCome, MayBegin, MayGoOn, ChatOK
  <2> QED
    BY <1>4, <2>1, <2>2, <2>3, <2>4 DEF Quiet, ChatOK
<1>8. SaidOK' /\ EndedWell'
  BY <1>1, <1>2, <1>3, <1>4, <1>5 DEF ChatOK, SaidOK, EndedWell, AnswerOf
<1>9. ChatFeed'
  BY <1>1, <1>2, <1>4 DEF ChatOK, ChatFeed, ReaderState
<1> QED
  BY <1>7, <1>8, <1>9 DEF ChatOK

\* What the codec is about to receive is admissible, and no delta of it tells a reason.
LEMMA ChatKnown ==
  ASSUME ChatOK, queue # <<>>, NEW ev, ev = Head(queue)
  PROVE  Known(ev)
<1>1. ChatSent(ev)
  <2>1. CASE Len(queue) = 1 /\ queue = <<queue[1]>> /\ ChatSent(queue[1])
    BY <2>1, OneEvent
  <2>2. CASE /\ Len(queue) = 2 /\ queue = <<queue[1], queue[2]>>
             /\ ChatArguments(queue[1]) /\ ChatArguments(queue[2])
    <3>1. ev = queue[1]
      BY <2>2, TwoEvents
    <3> QED
      BY <2>2, <3>1 DEF ChatSent
  <2> QED
    BY <2>1, <2>2 DEF ChatOK, ChatFeed
<1>2. /\ said.reason \in StopReasons /\ said.usage \in Counts
      /\ Len(said.calls) \in 0..MaxBlocks /\ said.calls \in Seq(Calls)
  BY BoundsAssumption DEF ChatOK, SaidOK, ChatFeed
<1>3. CASE ChatArguments(ev)
  <2>1. PICK i \in 0..Len(said.calls) - 1, frag \in Frags : ev = Delta(i, Part("tool_use", NoId, frag))
    BY <1>3 DEF ChatArguments
  <2>2. i \in Indices /\ frag \in Nat
    BY <1>2, <2>1, Values, BoundsAssumption
  <2>3. ev \in AnthropicCodec!AnyEvent
    BY <2>1, <2>2, ContentEvent, Values
  <2>4. ev.part # NoPart /\ ev.reason = "none"
    BY <2>1
  <2> QED
    BY <2>3, <2>4 DEF Known
<1>4. CASE ChatStart(ev)
  BY <1>4, BareEvent, Values DEF ChatStart, Known
<1>5. CASE ChatContent(ev)
  <2>1. PICK kind \in PlainKinds, frag \in Frags, usage \in {NoUsage, Usage(1, 1)} :
          ev = Event("delta", 0, Part(kind, NoId, frag), "none", usage, NoUsage)
    BY <1>5 DEF ChatContent
  <2>2. kind \in StartKinds /\ kind \in BlockKinds /\ frag \in Nat /\ usage \in Counts
    BY Values DEF PlainKinds
  <2>3. ev \in AnthropicCodec!AnyEvent
    BY <2>1, <2>2, ContentEvent, Values
  <2>4. ev.part # NoPart /\ ev.reason = "none"
    BY <2>1 DEF PlainKinds
  <2> QED
    BY <2>3, <2>4 DEF Known
<1>6. CASE ChatNewCall(ev)
  <2>1. PICK frag \in Frags :
          /\ ev = Delta(Len(said.calls) - 1, Part("tool_use", said.calls[Len(said.calls)], frag))
          /\ Len(said.calls) > 0
    BY <1>6 DEF ChatNewCall
  <2>2. PICK id \in CallIds : id = said.calls[Len(said.calls)]
    BY <1>2, <2>1, Values
  <2>3. Len(said.calls) - 1 \in Indices /\ frag \in Nat
    BY <1>2, <2>1, Values, BoundsAssumption
  <2>4. ev = Delta(Len(said.calls) - 1, Part("tool_use", id, frag))
    BY <2>1, <2>2
  <2>5. ev \in AnthropicCodec!AnyEvent
    BY <2>3, <2>4, ContentEvent, Values
  <2>6. ev.part # NoPart /\ ev.reason = "none"
    BY <2>4
  <2> QED
    BY <2>5, <2>6 DEF Known
<1>7. CASE ChatStop(ev)
  BY <1>2, <1>7, BareEvent, Values DEF ChatStop, Known
<1>8. CASE ChatError(ev)
  BY <1>8, BareEvent, Values DEF ChatError, Known
<1> QED
  BY <1>1, <1>3, <1>4, <1>5, <1>6, <1>7, <1>8 DEF ChatSent

\* The codec takes the event: what has been heard advances by what the event tells.
LEMMA ChatPassed ==
  ASSUME ChatOK, NEW ev, queue # <<>>, ev = Head(queue), queue' = Tail(queue),
         UNCHANGED <<upstream, up, said>>
  PROVE  ChatOK' /\ Passed(ev)
<1>1. \/ queue = <<ev>> /\ queue' = <<>> /\ ChatSent(ev)
      \/ /\ Len(queue) = 2 /\ queue[1] = ev /\ queue' = <<queue[2]>>
         /\ ChatArguments(ev) /\ ChatArguments(queue[2])
  <2>1. CASE Len(queue) = 1 /\ queue = <<queue[1]>> /\ ChatSent(queue[1])
    <3>1. ev = queue[1] /\ queue' = <<>>
      BY <2>1, OneEvent
    <3> QED
      BY <2>1, <3>1
  <2>2. CASE /\ Len(queue) = 2 /\ queue = <<queue[1], queue[2]>>
             /\ ChatArguments(queue[1]) /\ ChatArguments(queue[2])
    <3>1. ev = queue[1] /\ queue' = <<queue[2]>>
      BY <2>2, TwoEvents
    <3> QED
      BY <2>2, <3>1
  <2> QED
    BY <2>1, <2>2 DEF ChatOK, ChatFeed
<1>2. ChatOK'
  <2>1. SaidOK' /\ EndedWell'
    BY DEF ChatOK, SaidOK, EndedWell
  <2>2. ChatSent(queue[1])' \/ queue' = <<>>
    <3>1. ASSUME queue' = <<queue[2]>>, ChatArguments(queue[2])
          PROVE  ChatArguments(queue[1])'
      <4>1. queue'[1] = queue[2] /\ up' = up /\ said' = said
        BY <3>1
      <4> QED
        BY <3>1, <4>1 DEF ChatArguments
    <3> QED
      BY <1>1, <3>1 DEF ChatSent
  <2>3. \/ queue' = <<>>
        \/ Len(queue') = 1 /\ queue' = <<queue'[1]>> /\ ChatSent(queue[1])'
    BY <1>1, <2>2
  <2> QED
    BY <1>1, <2>1, <2>3 DEF ChatOK, ChatFeed, SilentOnReason
<1>3. /\ upstream = "chat" /\ upstream' = "chat" /\ up' = up /\ said' = said
      /\ said.reason \in StopReasons /\ said.usage \in Counts
      /\ Len(said.calls) \in 0..MaxBlocks /\ said.calls \in Seq(Calls)
  BY BoundsAssumption DEF ChatOK, SaidOK, ChatFeed
<1>4. ~StartAwaited' /\ CallsHeard' = Len(said.calls)
  <2>1. ASSUME queue' = <<queue[2]>>, ChatArguments(queue[2])
        PROVE  queue'[1].part.id = NoId
    BY <2>1 DEF ChatArguments
  <2>2. CallsHeard' = Len(said.calls)
    BY <1>1, <1>3, <2>1 DEF CallsHeard
  <2> QED
    BY <1>3, <2>2 DEF StartAwaited
\* An event that begins no call leaves the calls as they are.
<1>5. ASSUME ev.part.kind = "tool_use" => ev.part.id = NoId /\ ev.index < Len(said.calls),
             ev.part.kind \in {"text", "thinking", "refusal"} => ev.part.id = NoId,
             ev.type \notin {"content_block_start", "content_block_stop"}
      PROVE  BlockPassed(ev)
  <2>1. CallsHeard = Len(said.calls)
    BY <1>1, <1>5 DEF CallsHeard
  <2>2. ASSUME NEW i \in Indices
        PROVE  /\ MayCome(i) /\ MayCome(i)' /\ MayBegin(i)' = MayBegin(i)
               /\ MayGoOn(i)' = MayGoOn(i)
               /\ MayBegin(i) => i >= Len(said.calls)
               /\ i < Len(said.calls) => MayGoOn(i)
    BY <1>3, <1>4, <2>1 DEF MayCome, MayBegin, MayGoOn
  <2>3. ev.part.kind = "tool_use" => MayGoOn(ev.index)
    BY <1>3, <1>5, <2>1 DEF MayGoOn
  <2>4. MayCome(ev.index)
    BY <1>3 DEF MayCome
  <2>5. ASSUME NEW i \in Indices, MayBegin(i), ev.part.kind = "tool_use"
        PROVE  ev.index # i
    BY <1>3, <1>5, <2>2, <2>5, BoundsAssumption DEF Indices
  <2> QED
    BY <1>3, <1>5, <2>2, <2>3, <2>4, <2>5 DEF BlockPassed, ResponsesCodec!ItemKinds
<1>6. CASE ChatArguments(ev)
  <2>1. PICK i \in 0..Len(said.calls) - 1, frag \in Frags :
          ev = Delta(i, Part("tool_use", NoId, frag)) /\ up.phase = "speaking"
    BY <1>6 DEF ChatArguments
  <2>2. ev \in AnthropicCodec!AnyEvent
    BY ChatKnown DEF Known
  <2>3. EndPassed(ev) /\ UsagePassed(ev)
    BY <1>3, <1>4, <2>1, Values DEF EndPassed, UsagePassed, HeardReason, Over
  <2>4. BlockPassed(ev)
    <3>1. /\ ev.part.kind = "tool_use" /\ ev.part.id = NoId /\ ev.type = "delta"
          /\ ev.index < Len(said.calls)
      BY <1>3, <2>1
    <3> QED
      BY <1>5, <3>1
  <2> QED
    BY <1>2, <2>2, <2>3, <2>4 DEF Passed
<1>7. CASE queue = <<ev>> /\ queue' = <<>> /\ ChatStart(ev)
  <2>1. ev = StartEvent(NoUsage, NoUsage) /\ up.phase \in {"filtered", "speaking", "broken"}
    BY <1>7 DEF ChatStart
  <2>2. ev \in AnthropicCodec!AnyEvent
    BY ChatKnown DEF Known
  <2>3. EndPassed(ev) /\ UsagePassed(ev)
    BY <1>3, <1>4, <1>7, <2>1, Values DEF EndPassed, UsagePassed, HeardReason, Over
  <2>4. BlockPassed(ev)
    BY <1>5, <2>1
  <2> QED
    BY <1>2, <2>2, <2>3, <2>4 DEF Passed
<1>8. CASE queue = <<ev>> /\ queue' = <<>> /\ ChatContent(ev)
  <2>1. PICK kind \in PlainKinds, frag \in Frags, usage \in {NoUsage, Usage(1, 1)} :
          /\ ev = Event("delta", 0, Part(kind, NoId, frag), "none", usage, NoUsage)
          /\ usage # NoUsage => said.usage # NoUsage
          /\ up.phase \in {"speaking", "draining"}
    BY <1>8 DEF ChatContent
  <2>2. ev \in AnthropicCodec!AnyEvent
    BY ChatKnown DEF Known
  <2>3. EndPassed(ev)
    BY <1>3, <1>8, <2>1 DEF EndPassed, HeardReason, Over
  <2>4. UsagePassed(ev)
    BY <1>3, <1>4, <2>1, Values DEF UsagePassed
  <2>5. BlockPassed(ev)
    BY <1>5, <2>1 DEF PlainKinds
  <2> QED
    BY <1>2, <2>2, <2>3, <2>4, <2>5 DEF Passed
<1>9. CASE queue = <<ev>> /\ queue' = <<>> /\ ChatNewCall(ev)
  <2>1. PICK frag \in Frags :
          /\ ev = Delta(Len(said.calls) - 1, Part("tool_use", said.calls[Len(said.calls)], frag))
          /\ up.phase = "speaking" /\ Len(said.calls) > 0
    BY <1>9 DEF ChatNewCall
  <2>2. said.calls[Len(said.calls)] \in Calls /\ said.calls[Len(said.calls)] # NoId
    BY <1>3, <2>1, ContentAssumption
  <2>3. ev \in AnthropicCodec!AnyEvent
    BY ChatKnown DEF Known
  <2>4. EndPassed(ev) /\ UsagePassed(ev)
    BY <1>3, <1>4, <1>9, <2>1, Values DEF EndPassed, UsagePassed, HeardReason, Over
  <2>5. BlockPassed(ev)
    <3>1. /\ ev.part = Part("tool_use", said.calls[Len(said.calls)], frag)
          /\ ev.index = Len(said.calls) - 1 /\ ev.type = "delta"
      BY <2>1
    <3>2. CallsHeard = Len(said.calls) - 1
      BY <1>9, <2>2, <3>1 DEF CallsHeard
    <3> QED
      BY <1>3, <1>4, <2>1, <2>2, <3>1, <3>2
         DEF BlockPassed, MayCome, MayBegin, MayGoOn, ResponsesCodec!ItemKinds, Indices
  <2> QED
    BY <1>2, <2>3, <2>4, <2>5 DEF Passed
<1>10. CASE queue = <<ev>> /\ queue' = <<>> /\ ChatStop(ev)
  <2>1. /\ ev = StopEvent(said.reason, said.usage)
        /\ up.phase = "ended" /\ said.end = "clean" /\ said.reason # "none"
    BY <1>10, ContentAssumption DEF ChatStop, ChatOK, EndedWell
  <2>2. ev \in AnthropicCodec!AnyEvent
    BY ChatKnown DEF Known
  <2>3. EndPassed(ev)
    BY <1>3, <1>10, <2>1 DEF EndPassed, HeardReason, Over
  <2>4. UsagePassed(ev)
    BY <1>3, <1>4, <2>1, Values DEF UsagePassed
  <2>5. BlockPassed(ev)
    BY <1>5, <2>1
  <2> QED
    BY <1>2, <2>2, <2>3, <2>4, <2>5 DEF Passed
<1>11. CASE queue = <<ev>> /\ queue' = <<>> /\ ChatError(ev)
  <2>1. ev = ErrResult /\ up.phase = "ended" /\ said.end = "error"
    BY <1>11 DEF ChatError
  <2>2. ev \in AnthropicCodec!AnyEvent
    BY ChatKnown DEF Known
  <2>3. EndPassed(ev)
    BY <1>3, <1>11, <2>1 DEF EndPassed, HeardReason, Over
  <2>4. UsagePassed(ev)
    BY <1>3, <1>4, <2>1, Values DEF UsagePassed
  <2>5. BlockPassed(ev)
    BY <1>5, <2>1
  <2> QED
    BY <1>2, <2>2, <2>3, <2>4, <2>5 DEF Passed
<1> QED
  BY <1>1, <1>6, <1>7, <1>8, <1>9, <1>10, <1>11 DEF ChatSent

-----------------------------------------------------------------------------
(* A Gemini provider.                                                      *)

GeminiOK == upstream = "gemini" /\ SaidOK /\ EndedWell /\ GeminiFeed

\* The answer and the reader as the records that they are.
LEMMA GeminiRecords ==
  ASSUME GeminiOK
  PROVE  /\ said = AnswerOf(said.pieces, said.calls, said.reason, said.usage, said.end)
         /\ up = ReaderState(up.phase, up.stop)
BY DEF GeminiOK, SaidOK, GeminiFeed, AnswerOf, ReaderState

\* What is read of a chunk that is decoded to one event or to two.
LEMMA GeminiReads ==
  ASSUME GeminiOK, NEW chunk, NEW events, NEW final,
         GeminiUp!DecodeGeminiStreamChunk(chunk) = events, events[Len(events)] = final,
         GeminiUp!Reads(chunk)
  PROVE  /\ queue = <<>>
         /\ final.reason = "none" => queue' = events /\ up' = ReaderState("speaking", up.stop)
         /\ final.reason # "none" =>
              /\ final.type = "stop" => queue' = <<>>
              /\ final.type # "stop" =>
                   queue' = Append(SubSeq(events, 1, Len(events) - 1), Delta(final.index, final.part))
              /\ up' = ReaderState("draining", StopEvent(final.reason, final.usage))
<1>1. queue = <<>>
  BY Zenon DEF GeminiUp!Reads
<1>2. ASSUME final.reason = "none"
      PROVE  queue' = events /\ up' = ReaderState("speaking", up.stop)
  <2>1. queue' = events /\ up' = [up EXCEPT !.phase = "speaking"]
    BY <1>2, Zenon DEF GeminiUp!Reads
  <2> QED
    BY <2>1, GeminiRecords DEF ReaderState
<1>3. ASSUME final.reason # "none"
      PROVE  up' = ReaderState("draining", StopEvent(final.reason, final.usage))
  <2>1. up' = [up EXCEPT !.phase = "draining", !.stop = StopEvent(final.reason, final.usage)]
    BY <1>3, Zenon DEF GeminiUp!Reads
  <2> QED
    BY <2>1, GeminiRecords DEF ReaderState
<1>4. ASSUME final.reason # "none"
      PROVE  /\ final.type = "stop" => queue' = <<>>
             /\ final.type # "stop" =>
                  queue' = Append(SubSeq(events, 1, Len(events) - 1), Delta(final.index, final.part))
  BY <1>4, Zenon DEF GeminiUp!Reads
<1> QED
  BY <1>1, <1>2, <1>3, <1>4

\* The first of two events, when the last is taken away.
LEMMA OneLeft ==
  ASSUME NEW d, NEW e
  PROVE  SubSeq(<<d, e>>, 1, 1) = <<d>>
<1> DEFINE s == SubSeq(<<d, e>>, 1, 1)
<1>1. <<d, e>> \in Seq({d, e}) /\ s \in Seq({d, e})
  OBVIOUS
<1>2. Len(s) = 1 /\ s[1] = d
  OBVIOUS
<1> HIDE DEF s
<1>3. s = [i \in 1..Len(s) |-> s[i]]
  BY <1>1
<1>4. s = [i \in 1..1 |-> d]
  BY <1>2, <1>3
<1>5. [i \in 1..1 |-> d] = <<d>>
  OBVIOUS
<1> QED
  BY <1>4, <1>5 DEF s

\* One event more, after none and after one.
LEMMA OneMore ==
  ASSUME NEW d, NEW e
  PROVE  Append(<<>>, e) = <<e>> /\ Append(<<d>>, e) = <<d, e>>
<1> DEFINE s == Append(<<d>>, e)
<1>1. <<d>> \in Seq({d, e}) /\ s \in Seq({d, e}) /\ Append(<<>>, e) = <<e>>
  OBVIOUS
<1>2. Len(s) = 2 /\ s[1] = d /\ s[2] = e
  OBVIOUS
<1> HIDE DEF s
<1>3. s = [i \in 1..Len(s) |-> s[i]]
  BY <1>1
<1>4. s = [i \in 1..2 |-> IF i = 1 THEN d ELSE e]
  BY <1>2, <1>3
<1>5. [i \in 1..2 |-> IF i = 1 THEN d ELSE e] = <<d, e>>
  OBVIOUS
<1> QED
  BY <1>1, <1>4, <1>5 DEF s

\* A chunk that decodes to one event: without a reason it goes on, with one it is split or withheld.
LEMMA GeminiReadsEvent ==
  ASSUME GeminiOK, NEW chunk, NEW ev,
         GeminiUp!DecodeGeminiStreamChunk(chunk) = <<ev>>, GeminiUp!Reads(chunk)
  PROVE  /\ queue = <<>>
         /\ ev.reason = "none" => queue' = <<ev>> /\ up' = ReaderState("speaking", up.stop)
         /\ ev.reason # "none" =>
              /\ queue' = IF ev.type = "stop" THEN <<>> ELSE <<Delta(ev.index, ev.part)>>
              /\ up' = ReaderState("draining", StopEvent(ev.reason, ev.usage))
<1>1. <<ev>>[Len(<<ev>>)] = ev /\ SubSeq(<<ev>>, 1, Len(<<ev>>) - 1) = <<>>
  OBVIOUS
<1> DEFINE d == Delta(ev.index, ev.part)
<1>2. Append(<<>>, d) = <<d>>
  BY OneMore
<1> HIDE DEF d
<1>3. /\ queue = <<>>
      /\ ev.reason = "none" => queue' = <<ev>> /\ up' = ReaderState("speaking", up.stop)
      /\ ev.reason # "none" =>
           /\ ev.type = "stop" => queue' = <<>>
           /\ ev.type # "stop" => queue' = Append(<<>>, d)
           /\ up' = ReaderState("draining", StopEvent(ev.reason, ev.usage))
  BY <1>1, GeminiReads, Zenon DEF d
<1> QED
  BY <1>2, <1>3, Zenon DEF d

\* The same of a chunk that decodes to two events: the reason is with the last.
LEMMA GeminiReadsEvents ==
  ASSUME GeminiOK, NEW chunk, NEW d, NEW ev, ev.type # "stop",
         GeminiUp!DecodeGeminiStreamChunk(chunk) = <<d, ev>>, GeminiUp!Reads(chunk)
  PROVE  /\ queue = <<>>
         /\ ev.reason = "none" => queue' = <<d, ev>> /\ up' = ReaderState("speaking", up.stop)
         /\ ev.reason # "none" =>
              /\ queue' = <<d, Delta(ev.index, ev.part)>>
              /\ up' = ReaderState("draining", StopEvent(ev.reason, ev.usage))
<1>1. <<d, ev>>[Len(<<d, ev>>)] = ev
  OBVIOUS
<1>2. SubSeq(<<d, ev>>, 1, Len(<<d, ev>>) - 1) = <<d>>
  <2>1. Len(<<d, ev>>) - 1 = 1
    OBVIOUS
  <2> QED
    BY <2>1, OneLeft, Zenon
<1> DEFINE e == Delta(ev.index, ev.part)
<1>3. Append(<<d>>, e) = <<d, e>>
  BY OneMore
<1> HIDE DEF e
<1>4. /\ queue = <<>>
      /\ ev.reason = "none" => queue' = <<d, ev>> /\ up' = ReaderState("speaking", up.stop)
      /\ ev.reason # "none" =>
           /\ queue' = Append(<<d>>, e)
           /\ up' = ReaderState("draining", StopEvent(ev.reason, ev.usage))
  BY <1>1, <1>2, GeminiReads, Zenon DEF e
<1> QED
  BY <1>3, <1>4, Zenon DEF e

\* What is decoded of every chunk, and read of it.
LEMMA GeminiReadsNothing ==
  ASSUME GeminiOK, NEW finish, NEW usage,
         GeminiUp!Reads(GeminiUp!Chunk(<<>>, finish, usage))
  PROVE  /\ queue = <<>>
         /\ finish # "none" => /\ queue' = <<>>
                               /\ up' = ReaderState("draining", StopEvent(finish, usage))
         /\ finish = "none" => /\ queue' = <<StartEvent(NoUsage, usage)>>
                               /\ up' = ReaderState("speaking", up.stop)
<1> DEFINE chunk == GeminiUp!Chunk(<<>>, finish, usage)
           ev == IF finish = "none" THEN StartEvent(NoUsage, usage) ELSE StopEvent(finish, usage)
<1>1. GeminiUp!StopReasonOf(chunk) = finish
  BY SMTT(20) DEF GeminiUp!StopReasonOf, GeminiUp!HasCall, GeminiUp!Chunk
<1>2. GeminiUp!DecodeGeminiStreamChunk(chunk) = <<ev>>
  BY <1>1, SMTT(20) DEF GeminiUp!DecodeGeminiStreamChunk, GeminiUp!Chunk
<1>3. /\ finish # "none" => ev.reason = finish /\ ev.type = "stop" /\ ev.usage = usage
      /\ finish = "none" => ev.reason = "none" /\ ev = StartEvent(NoUsage, usage)
  <2>1. ASSUME finish = "none" PROVE ev = StartEvent(NoUsage, usage)
    BY <2>1
  <2>2. ASSUME finish # "none" PROVE ev = StopEvent(finish, usage)
    BY <2>2
  <2> HIDE DEF ev
  <2> QED
    BY <2>1, <2>2
<1> HIDE DEF chunk, ev
<1>4. GeminiUp!Reads(chunk)
  BY DEF chunk
<1>5. /\ queue = <<>>
      /\ ev.reason = "none" => queue' = <<ev>> /\ up' = ReaderState("speaking", up.stop)
      /\ ev.reason # "none" =>
           /\ queue' = IF ev.type = "stop" THEN <<>> ELSE <<Delta(ev.index, ev.part)>>
           /\ up' = ReaderState("draining", StopEvent(ev.reason, ev.usage))
  BY <1>2, <1>4, GeminiReadsEvent, Zenon
<1> QED
  BY <1>3, <1>5

\* The reason that is told by or inferred from a chunk.
ReasonOf(parts, finish) == GeminiUp!StopReasonOf(GeminiUp!Chunk(parts, finish, NoUsage))

\* The reason of a chunk: a call turns an end of turn, or none, into a tool use.
LEMMA GeminiReason ==
  ASSUME NEW parts, NEW finish, NEW usage
  PROVE  /\ GeminiUp!StopReasonOf(GeminiUp!Chunk(parts, finish, usage)) = ReasonOf(parts, finish)
         /\ ReasonOf(parts, finish) = IF finish \in {"end_turn", "none"} /\ GeminiUp!HasCall(parts)
                                      THEN "tool_use" ELSE finish
BY SMTT(20) DEF ReasonOf, GeminiUp!StopReasonOf, GeminiUp!Chunk

\* A chunk of one part, with its reason and without.
LEMMA GeminiReadsOne ==
  ASSUME GeminiOK, NEW p, NEW finish, NEW usage, NEW reason, reason = ReasonOf(<<p>>, finish),
         GeminiUp!Reads(GeminiUp!Chunk(<<p>>, finish, usage))
  PROVE  /\ queue = <<>>
         /\ reason # "none" => /\ queue' = <<Delta(0, p)>>
                               /\ up' = ReaderState("draining", StopEvent(reason, usage))
         /\ reason = "none" => /\ queue' = <<Event("delta", 0, p, "none", usage, NoUsage)>>
                               /\ up' = ReaderState("speaking", up.stop)
<1>1. GeminiUp!DecodeGeminiStreamChunk(GeminiUp!Chunk(<<p>>, finish, usage))
        = <<Event("delta", 0, p, reason, usage, NoUsage)>>
  <2>1. GeminiUp!StopReasonOf(GeminiUp!Chunk(<<p>>, finish, usage)) = reason
    BY GeminiReason
  <2> DEFINE ev == Event("delta", 0, p, reason, usage, NoUsage)
  <2>2. GeminiUp!DecodeGeminiStreamChunk(GeminiUp!Chunk(<<p>>, finish, usage))
          = [i \in 1..1 |-> IF i < 1 THEN Delta(i - 1, <<p>>[i])
                            ELSE Event("delta", i - 1, <<p>>[i], reason, usage, NoUsage)]
    BY <2>1, SMTT(20) DEF GeminiUp!DecodeGeminiStreamChunk, GeminiUp!Chunk
  <2>3. @ = [i \in 1..1 |-> ev]
    OBVIOUS
  <2>4. @ = <<ev>>
    OBVIOUS
  <2> QED
    BY <2>2, <2>3, <2>4
<1> DEFINE ev == Event("delta", 0, p, reason, usage, NoUsage)
<1>2. ev.reason = reason /\ ev.type = "delta" /\ ev.index = 0 /\ ev.part = p /\ ev.usage = usage
  OBVIOUS
<1> DEFINE chunk == GeminiUp!Chunk(<<p>>, finish, usage)
<1>3. GeminiUp!DecodeGeminiStreamChunk(chunk) = <<ev>> /\ GeminiUp!Reads(chunk)
  BY <1>1
<1> HIDE DEF ev, chunk
<1>4. /\ queue = <<>>
      /\ ev.reason = "none" => queue' = <<ev>> /\ up' = ReaderState("speaking", up.stop)
      /\ ev.reason # "none" =>
           /\ queue' = IF ev.type = "stop" THEN <<>> ELSE <<Delta(ev.index, ev.part)>>
           /\ up' = ReaderState("draining", StopEvent(ev.reason, ev.usage))
  BY <1>3, GeminiReadsEvent, Zenon
<1>5. reason = "none" => ev = Event("delta", 0, p, "none", usage, NoUsage)
  BY DEF ev
<1> QED
  BY <1>2, <1>4, <1>5

\* A chunk of two parts, with its reason and without.
LEMMA GeminiReadsTwo ==
  ASSUME GeminiOK, NEW p, NEW q, NEW finish, NEW usage,
         NEW reason, reason = ReasonOf(<<p, q>>, finish),
         GeminiUp!Reads(GeminiUp!Chunk(<<p, q>>, finish, usage))
  PROVE  /\ queue = <<>>
         /\ reason # "none" =>
              /\ queue' = <<Delta(0, p), Delta(1, q)>>
              /\ up' = ReaderState("draining", StopEvent(reason, usage))
         /\ reason = "none" =>
              /\ queue' = <<Delta(0, p), Event("delta", 1, q, "none", usage, NoUsage)>>
              /\ up' = ReaderState("speaking", up.stop)
<1> DEFINE d == Delta(0, p)
           e == Event("delta", 1, q, reason, usage, NoUsage)
<1>1. GeminiUp!DecodeGeminiStreamChunk(GeminiUp!Chunk(<<p, q>>, finish, usage)) = <<d, e>>
  <2>1. GeminiUp!StopReasonOf(GeminiUp!Chunk(<<p, q>>, finish, usage)) = reason
    BY GeminiReason
  <2>2. GeminiUp!DecodeGeminiStreamChunk(GeminiUp!Chunk(<<p, q>>, finish, usage))
          = [i \in 1..2 |-> IF i < 2 THEN Delta(i - 1, <<p, q>>[i])
                            ELSE Event("delta", i - 1, <<p, q>>[i], reason, usage, NoUsage)]
    BY <2>1, SMTT(20) DEF GeminiUp!DecodeGeminiStreamChunk, GeminiUp!Chunk
  <2>3. @ = [i \in 1..2 |-> IF i = 1 THEN d ELSE e]
    OBVIOUS
  <2> HIDE DEF d, e
  <2>4. [i \in 1..2 |-> IF i = 1 THEN d ELSE e] = <<d, e>>
    OBVIOUS
  <2> QED
    BY <2>2, <2>3, <2>4
<1>2. e.reason = reason /\ e.type = "delta" /\ e.index = 1 /\ e.part = q /\ e.usage = usage
  OBVIOUS
<1> HIDE DEF d, e
<1> DEFINE chunk == GeminiUp!Chunk(<<p, q>>, finish, usage)
<1>3. GeminiUp!DecodeGeminiStreamChunk(chunk) = <<d, e>> /\ GeminiUp!Reads(chunk)
  BY <1>1
<1> HIDE DEF chunk
<1>4. /\ queue = <<>>
      /\ e.reason = "none" => queue' = <<d, e>> /\ up' = ReaderState("speaking", up.stop)
      /\ e.reason # "none" =>
           /\ queue' = <<d, Delta(e.index, e.part)>>
           /\ up' = ReaderState("draining", StopEvent(e.reason, e.usage))
  <2>1. e.type # "stop"
    BY <1>2
  <2> QED
    BY <1>3, <2>1, GeminiReadsEvents, Zenon
<1>5. /\ reason = "none" => e = Event("delta", 1, q, "none", usage, NoUsage)
      /\ d = Delta(0, p)
  BY DEF d, e
<1> QED
  BY <1>2, <1>4, <1>5

\* The parts of a chunk, and what is said with them.
PartOK(p, n) ==
    \E kind \in {"text", "thinking", "tool_use"}, id \in CallIds :
        /\ p = Part(kind, id, n)
        /\ kind = "tool_use" => id \in Calls
        /\ kind # "tool_use" => id = NoId

\* The parts of a chunk are one or two, and each is numbered by its place in the answer.
LEMMA GeminiParts ==
  ASSUME NEW parts \in GeminiUp!SomeParts, NEW n, n = Len(said.pieces) + 1
  PROVE  \/ n <= MaxPieces /\ \E p : parts = <<p>> /\ PartOK(p, n)
         \/ n < MaxPieces /\ \E p, q : parts = <<p, q>> /\ PartOK(p, n) /\ PartOK(q, n + 1)
<1> DEFINE one(m) == {Part(kind, NoId, m) : kind \in Kinds \cap {"text", "thinking"}}
                       \cup {Part("tool_use", call, m) :
                               call \in IF "tool_use" \in Kinds
                                        THEN Calls \ GeminiUp!Called ELSE {}}
<1>1. ASSUME NEW m, NEW p \in one(m)
      PROVE  PartOK(p, m)
  <2>1. CASE \E kind \in Kinds \cap {"text", "thinking"} : p = Part(kind, NoId, m)
    BY <2>1, Values DEF PartOK
  <2>2. CASE \E call \in Calls : p = Part("tool_use", call, m)
    BY <2>2, Values DEF PartOK
  <2> QED
    BY <2>1, <2>2
<1>2. \/ n <= MaxPieces /\ \E p \in one(n) : parts = <<p>>
      \/ n < MaxPieces /\ \E p \in one(n), q \in one(n + 1) : parts = <<p, q>>
  <2>1. parts \in (IF n <= MaxPieces THEN {<<p>> : p \in one(n)} ELSE {})
                    \cup (IF n < MaxPieces
                          THEN {<<p, q>> : p \in one(n), q \in one(n + 1)} ELSE {})
    BY SMTT(20) DEF GeminiUp!SomeParts, GeminiUp!Number
  <2> HIDE DEF one
  <2> QED
    BY <2>1
<1> HIDE DEF one
<1> QED
  BY <1>1, <1>2

\* The pieces that the parts of a chunk add to the answer.
LEMMA PartsPieces ==
  ASSUME NEW parts, NEW k \in {1, 2}, Len(parts) = k,
         \A i \in 1..k : parts[i].kind \in StartKinds /\ parts[i].id \in CallIds
                           /\ parts[i].frag \in Nat
  PROVE  GeminiUp!PiecesOf(parts) \in Seq(Pieces) /\ Len(GeminiUp!PiecesOf(parts)) = k
<1> DEFINE piece(i) == Piece(parts[i].kind, parts[i].id, parts[i].frag)
<1>1. GeminiUp!PiecesOf(parts) = [i \in 1..k |-> piece(i)]
  BY DEF GeminiUp!PiecesOf
<1>2. \A i \in 1..k : piece(i) \in Pieces
  BY DEF Pieces
<1> HIDE DEF piece
<1> QED
  BY <1>1, <1>2

\* Two sequences one after the other are a sequence, as long as both.
LEMMA Joined ==
  ASSUME NEW S, NEW s \in Seq(S), NEW t \in Seq(S)
  PROVE  s \o t \in Seq(S) /\ Len(s \o t) = Len(s) + Len(t)
OBVIOUS

\* The answer after a chunk with these parts.
LEMMA GeminiSpoken ==
  ASSUME GeminiOK, NEW parts \in GeminiUp!SomeParts
  PROVE  \E pieces, calls :
           /\ pieces \in Seq(Pieces) /\ Len(pieces) <= MaxPieces
           /\ GeminiUp!Spoken(parts) = AnswerOf(pieces, calls, said.reason, said.usage, said.end)
<1> DEFINE pieces == said.pieces \o GeminiUp!PiecesOf(parts)
           calls == said.calls \o GeminiUp!CallsOf(parts)
           n == Len(said.pieces) + 1
<1>1. GeminiUp!Spoken(parts) = AnswerOf(pieces, calls, said.reason, said.usage, said.end)
  <2>1. GeminiUp!Spoken(parts) = [said EXCEPT !.pieces = pieces, !.calls = calls]
    BY Zenon DEF GeminiUp!Spoken
  <2> HIDE DEF pieces, calls
  <2> QED
    BY <2>1, GeminiRecords DEF AnswerOf
<1>2. said.pieces \in Seq(Pieces) /\ n \in Nat /\ n + 1 \in Nat
  BY DEF GeminiOK, SaidOK
<1>3. pieces \in Seq(Pieces) /\ Len(pieces) <= MaxPieces
  <2>1. ASSUME NEW p, PartOK(p, n) \/ PartOK(p, n + 1)
        PROVE  p.kind \in StartKinds /\ p.id \in CallIds /\ p.frag \in Nat
    BY <1>2, <2>1 DEF PartOK
  <2>2. CASE n <= MaxPieces /\ \E p : parts = <<p>> /\ PartOK(p, n)
    <3>1. PICK p : parts = <<p>> /\ PartOK(p, n)
      BY <2>2
    <3>2. GeminiUp!PiecesOf(parts) \in Seq(Pieces) /\ Len(GeminiUp!PiecesOf(parts)) = 1
      <4>1. Len(parts) = 1 /\ \A i \in 1..1 : parts[i] = p
        BY <3>1
      <4> QED
        BY <2>1, <3>1, <4>1, PartsPieces
    <3>3. pieces \in Seq(Pieces) /\ Len(pieces) = Len(said.pieces) + 1
      BY <1>2, <3>2, Joined
    <3> QED
      BY <1>2, <2>2, <3>3, BoundsAssumption
  <2>3. CASE n < MaxPieces /\ \E p, q : parts = <<p, q>> /\ PartOK(p, n) /\ PartOK(q, n + 1)
    <3>1. PICK p, q : parts = <<p, q>> /\ PartOK(p, n) /\ PartOK(q, n + 1)
      BY <2>3
    <3>2. GeminiUp!PiecesOf(parts) \in Seq(Pieces) /\ Len(GeminiUp!PiecesOf(parts)) = 2
      <4>1. Len(parts) = 2 /\ \A i \in 1..2 : parts[i] = p \/ parts[i] = q
        BY <3>1
      <4> QED
        BY <2>1, <3>1, <4>1, PartsPieces
    <3>3. pieces \in Seq(Pieces) /\ Len(pieces) = Len(said.pieces) + 2
      BY <1>2, <3>2, Joined
    <3> QED
      BY <1>2, <2>3, <3>3, BoundsAssumption
  <2> QED
    BY <2>2, <2>3, GeminiParts
<1> QED
  BY <1>1, <1>3

\* The events of the parts of one chunk, the last one with the usage.
GeminiPartOf(ev, i, usage, kinds) ==
    \E kind \in kinds, id \in CallIds, frag \in Frags :
        /\ ev = Event("delta", i, Part(kind, id, frag), "none", usage, NoUsage)
        /\ kind = "tool_use" => id \in Calls
        /\ kind # "tool_use" => id = NoId

GeminiBatch(events, usage, kinds) ==
    \/ /\ Len(events) = 1 /\ events = <<events[1]>>
       /\ GeminiPartOf(events[1], 0, usage, kinds)
    \/ /\ Len(events) = 2 /\ events = <<events[1], events[2]>>
       /\ GeminiPartOf(events[1], 0, NoUsage, kinds)
       /\ GeminiPartOf(events[2], 1, usage, kinds)

\* The event of a part is one that a Gemini reader passes on.
LEMMA GeminiPartEvent ==
  ASSUME NEW p, NEW n \in Frags, PartOK(p, n), NEW i, NEW usage
  PROVE  /\ GeminiPartOf(Event("delta", i, p, "none", usage, NoUsage), i, usage,
                         {"text", "thinking", "tool_use"})
         /\ p.kind # "tool_use" =>
              GeminiPartOf(Event("delta", i, p, "none", usage, NoUsage), i, usage,
                           {"text", "thinking"})
<1>1. PICK kind \in {"text", "thinking", "tool_use"}, id \in CallIds :
        /\ p = Part(kind, id, n)
        /\ kind = "tool_use" => id \in Calls
        /\ kind # "tool_use" => id = NoId
  BY DEF PartOK
<1> QED
  BY <1>1 DEF GeminiPartOf

\* A chunk that has a call among its parts has a call.
LEMMA HasCalls ==
  ASSUME NEW p, NEW q
  PROVE  /\ p.kind = "tool_use" => GeminiUp!HasCall(<<p>>)
         /\ p.kind = "tool_use" \/ q.kind = "tool_use" => GeminiUp!HasCall(<<p, q>>)
<1>1. 1 \in 1..Len(<<p>>) /\ <<p>>[1] = p
  OBVIOUS
<1>2. 1 \in 1..Len(<<p, q>>) /\ 2 \in 1..Len(<<p, q>>) /\ <<p, q>>[1] = p /\ <<p, q>>[2] = q
  OBVIOUS
<1> QED
  BY <1>1, <1>2, Zenon DEF GeminiUp!HasCall

\* A chunk of parts: what comes before a reason bears no call, what comes with it no usage.
LEMMA GeminiReadsParts ==
  ASSUME GeminiOK, NEW parts \in GeminiUp!SomeParts, NEW finish, NEW usage,
         NEW reason, reason = ReasonOf(parts, finish),
         GeminiUp!Reads(GeminiUp!Chunk(parts, finish, usage))
  PROVE  /\ queue = <<>>
         /\ reason = "none" => /\ GeminiBatch(queue', usage, {"text", "thinking"})
                               /\ up' = ReaderState("speaking", up.stop)
         /\ reason # "none" => /\ GeminiBatch(queue', NoUsage, {"text", "thinking", "tool_use"})
                               /\ up' = ReaderState("draining", StopEvent(reason, usage))
<1> DEFINE n == Len(said.pieces) + 1
<1>1. n \in Nat /\ n > 0 /\ MaxPieces \in Nat
  BY BoundsAssumption DEF GeminiOK, SaidOK
<1>2. CASE n <= MaxPieces /\ \E p : parts = <<p>> /\ PartOK(p, n)
  <2>1. PICK p : parts = <<p>> /\ PartOK(p, n)
    BY <1>2
  <2>2. n \in Frags
    BY <1>1, <1>2 DEF Frags
  <2>3. GeminiUp!Reads(GeminiUp!Chunk(<<p>>, finish, usage)) /\ reason = ReasonOf(<<p>>, finish)
    BY <2>1
  <2>4. /\ queue = <<>>
        /\ reason # "none" => /\ queue' = <<Delta(0, p)>>
                              /\ up' = ReaderState("draining", StopEvent(reason, usage))
        /\ reason = "none" => /\ queue' = <<Event("delta", 0, p, "none", usage, NoUsage)>>
                              /\ up' = ReaderState("speaking", up.stop)
    BY <2>3, GeminiReadsOne, Zenon
  <2>5. reason = "none" => p.kind # "tool_use"
    <3>1. p.kind = "tool_use" => GeminiUp!HasCall(<<p>>)
      BY HasCalls, Zenon
    <3> QED
      BY <2>3, <3>1, GeminiReason
  <2> HIDE DEF n
  <2>6. ASSUME reason = "none"
        PROVE  GeminiBatch(queue', usage, {"text", "thinking"})
    <3>1. GeminiPartOf(queue'[1], 0, usage, {"text", "thinking"})
      BY <2>1, <2>2, <2>4, <2>5, <2>6, GeminiPartEvent
    <3> QED
      BY <2>4, <2>6, <3>1 DEF GeminiBatch
  <2>7. ASSUME reason # "none"
        PROVE  GeminiBatch(queue', NoUsage, {"text", "thinking", "tool_use"})
    <3>1. GeminiPartOf(queue'[1], 0, NoUsage, {"text", "thinking", "tool_use"})
      BY <2>1, <2>2, <2>4, <2>7, GeminiPartEvent
    <3> QED
      BY <2>4, <2>7, <3>1 DEF GeminiBatch
  <2> QED
    BY <2>4, <2>6, <2>7
<1>3. CASE n < MaxPieces /\ \E p, q : parts = <<p, q>> /\ PartOK(p, n) /\ PartOK(q, n + 1)
  <2>1. PICK p, q : parts = <<p, q>> /\ PartOK(p, n) /\ PartOK(q, n + 1)
    BY <1>3
  <2>2. n \in Frags /\ n + 1 \in Frags
    BY <1>1, <1>3 DEF Frags
  <2>3. /\ GeminiUp!Reads(GeminiUp!Chunk(<<p, q>>, finish, usage))
        /\ reason = ReasonOf(<<p, q>>, finish)
    BY <2>1
  <2>4. /\ queue = <<>>
        /\ reason # "none" => /\ queue' = <<Delta(0, p), Delta(1, q)>>
                              /\ up' = ReaderState("draining", StopEvent(reason, usage))
        /\ reason = "none" =>
             /\ queue' = <<Delta(0, p), Event("delta", 1, q, "none", usage, NoUsage)>>
             /\ up' = ReaderState("speaking", up.stop)
    BY <2>3, GeminiReadsTwo, Zenon
  <2>5. reason = "none" => p.kind # "tool_use" /\ q.kind # "tool_use"
    <3>1. p.kind = "tool_use" \/ q.kind = "tool_use" => GeminiUp!HasCall(<<p, q>>)
      BY HasCalls, Zenon
    <3> QED
      BY <2>3, <3>1, GeminiReason
  <2> DEFINE m == n + 1
  <2> HIDE DEF m
  <2>m. m \in Frags /\ PartOK(q, m)
    BY <2>1, <2>2 DEF m
  <2> HIDE DEF n
  <2>6. ASSUME reason = "none"
        PROVE  GeminiBatch(queue', usage, {"text", "thinking"})
    <3>1. GeminiPartOf(queue'[1], 0, NoUsage, {"text", "thinking"})
      BY <2>1, <2>2, <2>4, <2>5, <2>6, GeminiPartEvent
    <3>2. GeminiPartOf(queue'[2], 1, usage, {"text", "thinking"})
      BY <2>m, <2>4, <2>5, <2>6, GeminiPartEvent
    <3> QED
      BY <2>4, <2>6, <3>1, <3>2 DEF GeminiBatch
  <2>7. ASSUME reason # "none"
        PROVE  GeminiBatch(queue', NoUsage, {"text", "thinking", "tool_use"})
    <3>1. GeminiPartOf(queue'[1], 0, NoUsage, {"text", "thinking", "tool_use"})
      BY <2>1, <2>2, <2>4, <2>7, GeminiPartEvent
    <3>2. GeminiPartOf(queue'[2], 1, NoUsage, {"text", "thinking", "tool_use"})
      BY <2>m, <2>4, <2>7, GeminiPartEvent
    <3> QED
      BY <2>4, <2>7, <3>1, <3>2 DEF GeminiBatch
  <2> QED
    BY <2>4, <2>6, <2>7
<1> QED
  BY <1>2, <1>3, GeminiParts

\* A step of a provider that has not ended its answer.
LEMMA GeminiTalks ==
  ASSUME upstream = "gemini", upstream' = upstream, queue = <<>>,
         up.phase \in {"silent", "speaking", "broken", "draining"},
         \/ up'.phase \in {"silent", "speaking", "broken", "draining"}
         \/ /\ queue' = <<queue'[1]>>
            /\ queue'[1].reason # "none" \/ said'.reason = "none",
         said'.usage = NoUsage => said.usage = NoUsage,
         up.phase \in {"broken", "draining"} =>
           /\ up'.phase \in {"draining", "ended"}
           /\ queue' = <<>> \/ (queue' = <<queue'[1]>> /\ queue'[1].part = NoPart)
  PROVE  Quiet
<1>1. HeardReason = "none" /\ ~Over
  BY DEF HeardReason, Over
<1>2. HeardReason' = "none" /\ ~Over'
  BY DEF HeardReason, Over
<1>3. ~StartAwaited'
  BY DEF StartAwaited
<1>4. ASSUME NEW i \in Indices
      PROVE  /\ MayCome(i)' => MayCome(i)
             /\ MayBegin(i)' => MayBegin(i)
             /\ MayGoOn(i)' => MayGoOn(i)
  <2>1. CASE up.phase \in {"silent", "speaking"}
    BY <2>1 DEF MayCome, MayBegin, MayGoOn
  <2>2. CASE up.phase \in {"broken", "draining"}
    <3>1. \A j \in 1..Len(queue') : queue'[j].part.kind # "tool_use"
      BY <2>2
    <3>2. ~MayBegin(i)'
      BY <2>2, <3>1 DEF MayBegin
    <3> QED
      BY <3>2 DEF MayCome, MayGoOn
  <2> QED
    BY <2>1, <2>2
<1> QED
  BY <1>1, <1>2, <1>3, <1>4 DEF Quiet

\* A chunk that does not end the content.
LEMMA GeminiGoesOn ==
  ASSUME GeminiOK, upstream' = upstream, up.phase \in {"silent", "speaking"}, queue = <<>>,
         NEW pieces \in Seq(Pieces), Len(pieces) <= MaxPieces, NEW calls,
         NEW total \in {NoUsage, Usage(1, 0), Usage(1, 1)}, NEW usage \in {NoUsage, Usage(1, 1)},
         total = NoUsage => said.usage = NoUsage /\ usage = NoUsage,
         up' = ReaderState("speaking", up.stop),
         said' = AnswerOf(pieces, calls, said.reason, total, said.end),
         \/ total # NoUsage /\ queue' = <<StartEvent(NoUsage, Usage(1, 0))>>
         \/ GeminiBatch(queue', usage, {"text", "thinking"})
  PROVE  GeminiOK' /\ Quiet
<1>1. /\ said'.reason = said.reason /\ said'.end = said.end /\ said'.usage = total
      /\ up'.phase = "speaking"
  BY DEF AnswerOf, ReaderState
<1>2. ASSUME NEW ev, NEW i \in {0, 1}, NEW u \in {NoUsage, usage},
             GeminiPartOf(ev, i, u, {"text", "thinking"})
      PROVE  \E kind \in {"text", "thinking", "tool_use"}, id \in CallIds, frag \in Frags,
                usage_1 \in {NoUsage, Usage(1, 1)} :
               /\ ev = Event("delta", i, Part(kind, id, frag), "none", usage_1, NoUsage)
               /\ usage_1 # NoUsage => total # NoUsage
               /\ kind # "tool_use" /\ id = NoId
  BY <1>2 DEF GeminiPartOf
<1>3. \/ Len(queue') = 1 /\ queue' = <<queue'[1]>> /\ GeminiSent(queue[1])'
      \/ /\ Len(queue') = 2 /\ queue' = <<queue'[1], queue'[2]>>
         /\ GeminiPart(queue[1], 0)' /\ GeminiPart(queue[2], 1)'
  <2>1. CASE total # NoUsage /\ queue' = <<StartEvent(NoUsage, Usage(1, 0))>>
    BY <1>1, <2>1 DEF GeminiSent
  <2>2. CASE GeminiBatch(queue', usage, {"text", "thinking"})
    <3>1. ASSUME Len(queue') = 1, queue' = <<queue'[1]>>,
                 GeminiPartOf(queue'[1], 0, usage, {"text", "thinking"})
          PROVE  GeminiSent(queue[1])'
      <4>1. GeminiPart(queue[1], 0)'
        BY <1>1, <1>2, <3>1 DEF GeminiPart
      <4> QED
        BY <4>1 DEF GeminiSent
    <3>2. ASSUME Len(queue') = 2, queue' = <<queue'[1], queue'[2]>>,
                 GeminiPartOf(queue'[1], 0, NoUsage, {"text", "thinking"}),
                 GeminiPartOf(queue'[2], 1, usage, {"text", "thinking"})
          PROVE  GeminiPart(queue[1], 0)' /\ GeminiPart(queue[2], 1)'
      BY <1>1, <1>2, <3>2 DEF GeminiPart
    <3> QED
      BY <2>2, <3>1, <3>2 DEF GeminiBatch
  <2> QED
    BY <2>1, <2>2
<1>4. Quiet
  BY <1>1, GeminiTalks DEF GeminiOK
<1>5. SaidOK' /\ EndedWell'
  <2>1. total \in Counts
    BY Values
  <2> QED
    BY <1>1, <2>1 DEF GeminiOK, GeminiFeed, SilentOnReason, SaidOK, EndedWell, AnswerOf, StopReasons
<1>6. GeminiFeed'
  BY <1>1, <1>3 DEF GeminiOK, GeminiFeed, SilentOnReason, ReaderState
<1> QED
  BY <1>4, <1>5, <1>6 DEF GeminiOK

\* A chunk that ends the content.
LEMMA GeminiFinishes ==
  ASSUME GeminiOK, upstream' = upstream, up.phase \in {"silent", "speaking"}, queue = <<>>,
         NEW pieces \in Seq(Pieces), Len(pieces) <= MaxPieces, NEW calls,
         NEW reason \in Reasons, NEW end \in {"none", "clean"},
         NEW total \in {NoUsage, Usage(1, 0), Usage(1, 1), Total},
         NEW usage \in {NoUsage, Usage(1, 1), Total},
         total = NoUsage => said.usage = NoUsage /\ usage = NoUsage,
         total = Total <=> usage = Total,
         up' = ReaderState("draining", StopEvent(reason, usage)),
         said' = AnswerOf(pieces, calls, reason, total, end),
         queue' = <<>> \/ GeminiBatch(queue', NoUsage, {"text", "thinking", "tool_use"})
  PROVE  GeminiOK' /\ Quiet
<1>1. /\ said'.reason = reason /\ said'.end = end /\ said'.usage = total
      /\ up'.phase = "draining" /\ up'.stop = StopEvent(reason, usage)
  BY DEF AnswerOf, ReaderState
<1>2. \/ queue' = <<>>
      \/ Len(queue') = 1 /\ queue' = <<queue'[1]>> /\ GeminiSent(queue[1])'
      \/ /\ Len(queue') = 2 /\ queue' = <<queue'[1], queue'[2]>>
         /\ GeminiPart(queue[1], 0)' /\ GeminiPart(queue[2], 1)'
  <2>1. ASSUME Len(queue') = 1, queue' = <<queue'[1]>>,
               GeminiPartOf(queue'[1], 0, NoUsage, {"text", "thinking", "tool_use"})
        PROVE  GeminiSent(queue[1])'
    <3>1. GeminiPart(queue[1], 0)'
      BY <1>1, <2>1 DEF GeminiPart, GeminiPartOf
    <3> QED
      BY <3>1 DEF GeminiSent
  <2>2. ASSUME Len(queue') = 2, queue' = <<queue'[1], queue'[2]>>,
               GeminiPartOf(queue'[1], 0, NoUsage, {"text", "thinking", "tool_use"}),
               GeminiPartOf(queue'[2], 1, NoUsage, {"text", "thinking", "tool_use"})
        PROVE  GeminiPart(queue[1], 0)' /\ GeminiPart(queue[2], 1)'
    <3>1. GeminiPart(queue[1], 0)'
      BY <1>1, <2>2 DEF GeminiPart, GeminiPartOf
    <3>2. GeminiPart(queue[2], 1)'
      BY <1>1, <2>2, SMTT(30) DEF GeminiPart, GeminiPartOf
    <3> QED
      BY <3>1, <3>2
  <2> QED
    BY <2>1, <2>2 DEF GeminiBatch
<1>3. Quiet
  BY <1>1, GeminiTalks DEF GeminiOK
<1>4. SaidOK' /\ EndedWell'
  <2>1. total \in Counts /\ reason \in StopReasons
    BY Values DEF StopReasons
  <2> QED
    BY <1>1, <2>1 DEF SaidOK, EndedWell, AnswerOf
<1>5. GeminiFeed'
  <2>1. /\ said'.reason \in Reasons /\ said'.end \in {"none", "clean"}
        /\ said'.usage \in {NoUsage, Usage(1, 0), Usage(1, 1), Total}
        /\ up'.stop = StopEvent(said'.reason, usage)
        /\ said'.usage = Total <=> usage = Total
        /\ said'.usage = NoUsage => usage = NoUsage
    BY <1>1
  <2> QED
    BY <1>1, <1>2, <2>1 DEF GeminiFeed, ReaderState
<1> QED
  BY <1>3, <1>4, <1>5 DEF GeminiOK

\* What a chunk makes of the usage.
LEMMA GeminiTotal ==
  ASSUME GeminiOK, up.phase \in {"silent", "speaking"}
  PROVE  /\ \A usage \in {NoUsage, Usage(1, 0), Usage(1, 1)} :
              /\ Merge(said.usage, usage) \in {NoUsage, Usage(1, 0), Usage(1, 1)}
              /\ Merge(said.usage, usage) = NoUsage => said.usage = NoUsage /\ usage = NoUsage
         /\ Merge(said.usage, Total) = Total
<1>1. said.usage \in {NoUsage, Usage(1, 0), Usage(1, 1)}
  BY DEF GeminiOK, GeminiFeed
<1> QED
  BY <1>1 DEF Total

\* A chunk of content keeps what is known of the provider; the codec has heard nothing of it.
LEMMA GeminiContentChunk ==
  ASSUME GeminiOK, GeminiUp!ContentChunk, upstream' = upstream
  PROVE  GeminiOK' /\ Quiet
<1>1. PICK parts \in GeminiUp!SomeParts, usage \in {NoUsage, Usage(1, 1)} :
        /\ GeminiUp!Reads(GeminiUp!Chunk(parts, "none", usage))
        /\ said' = [GeminiUp!Spoken(parts) EXCEPT
                      !.usage = Merge(@, usage),
                      !.reason = IF GeminiUp!HasCall(parts) THEN "tool_use" ELSE @]
  BY DEF GeminiUp!ContentChunk
<1>2. up.phase \in {"silent", "speaking"} /\ said.reason = "none" /\ said.end = "none"
  BY DEF GeminiUp!ContentChunk, GeminiOK, GeminiFeed, SilentOnReason
<1> DEFINE reason == ReasonOf(parts, "none")
           total == Merge(said.usage, usage)
<1>3. reason = IF GeminiUp!HasCall(parts) THEN "tool_use" ELSE "none"
  BY GeminiReason
<1>4. PICK pieces, calls :
        /\ pieces \in Seq(Pieces) /\ Len(pieces) <= MaxPieces
        /\ GeminiUp!Spoken(parts) = AnswerOf(pieces, calls, said.reason, said.usage, said.end)
  BY GeminiSpoken
<1>5. said' = AnswerOf(pieces, calls, reason, total, "none")
  <2> DEFINE spoken == GeminiUp!Spoken(parts)
  <2>1. spoken = AnswerOf(pieces, calls, "none", said.usage, "none")
    BY <1>2, <1>4
  <2>2. spoken.usage = said.usage /\ spoken.reason = "none"
    BY <2>1 DEF AnswerOf
  <2>3. said' = [spoken EXCEPT !.usage = total, !.reason = reason]
    BY <1>1, <1>3, <2>2
  <2> HIDE DEF spoken, total, reason
  <2> QED
    BY <2>1, <2>3 DEF AnswerOf
<1>6. /\ total \in {NoUsage, Usage(1, 0), Usage(1, 1)}
      /\ total = NoUsage => said.usage = NoUsage /\ usage = NoUsage
  BY <1>2, GeminiTotal
<1> HIDE DEF reason, total
<1>7. /\ queue = <<>>
      /\ reason = "none" => /\ GeminiBatch(queue', usage, {"text", "thinking"})
                            /\ up' = ReaderState("speaking", up.stop)
      /\ reason # "none" => /\ GeminiBatch(queue', NoUsage, {"text", "thinking", "tool_use"})
                            /\ up' = ReaderState("draining", StopEvent(reason, usage))
  BY <1>1, GeminiReadsParts, Zenon DEF reason
<1>8. CASE reason = "none"
  BY <1>2, <1>4, <1>5, <1>6, <1>7, <1>8, GeminiGoesOn
<1>9. CASE reason # "none"
  <2>1. reason \in Reasons
    BY <1>3, <1>9, ContentAssumption
  <2>2. total # Total /\ usage # Total
    BY <1>6 DEF Total
  <2> QED
    BY <1>2, <1>4, <1>5, <1>6, <1>7, <1>9, <2>1, <2>2, GeminiFinishes
<1> QED
  BY <1>8, <1>9

\* The same of a chunk that tells the reason: the reader withholds it.
LEMMA GeminiFinishChunk ==
  ASSUME GeminiOK, GeminiUp!FinishChunk, upstream' = upstream
  PROVE  GeminiOK' /\ Quiet
<1>1. PICK parts \in {<<>>} \cup GeminiUp!SomeParts, finish \in Reasons, usage \in {NoUsage, Total} :
        /\ GeminiUp!Reads(GeminiUp!Chunk(parts, finish, usage))
        /\ said' = [GeminiUp!Spoken(parts) EXCEPT
                      !.usage = Merge(@, usage),
                      !.reason = IF finish = "end_turn" /\ GeminiUp!HasCall(parts)
                                 THEN "tool_use" ELSE finish,
                      !.end = "clean"]
  BY DEF GeminiUp!FinishChunk, Total
<1>2. up.phase \in {"silent", "speaking"} /\ finish # "none"
  BY ContentAssumption DEF GeminiUp!FinishChunk
<1> DEFINE reason == ReasonOf(parts, finish)
           total == Merge(said.usage, usage)
<1>3. reason = IF finish = "end_turn" /\ GeminiUp!HasCall(parts) THEN "tool_use" ELSE finish
  BY <1>2, GeminiReason
<1>4. reason \in Reasons /\ reason # "none"
  BY <1>3, ContentAssumption
<1>5. /\ total \in {NoUsage, Usage(1, 0), Usage(1, 1), Total}
      /\ total = NoUsage => said.usage = NoUsage /\ usage = NoUsage
      /\ total = Total <=> usage = Total
  <2>1. CASE usage = NoUsage
    BY <1>2, <2>1, GeminiTotal DEF Total
  <2>2. CASE usage = Total
    BY <1>2, <2>2, GeminiTotal DEF Total
  <2> QED
    BY <2>1, <2>2
<1>6. PICK pieces, calls :
        /\ pieces \in Seq(Pieces) /\ Len(pieces) <= MaxPieces
        /\ GeminiUp!Spoken(parts) = AnswerOf(pieces, calls, said.reason, said.usage, said.end)
  <2>1. CASE parts = <<>>
    <3> DEFINE calls == said.calls \o GeminiUp!CallsOf(parts)
    <3>1. said.pieces \in Seq(Pieces) /\ Len(said.pieces) <= MaxPieces
      BY DEF GeminiOK, SaidOK
    <3>2. GeminiUp!PiecesOf(parts) = <<>>
      BY <2>1 DEF GeminiUp!PiecesOf
    <3>3. said.pieces \o GeminiUp!PiecesOf(parts) = said.pieces
      BY <3>1, <3>2
    <3>4. GeminiUp!Spoken(parts) = [said EXCEPT !.pieces = said.pieces, !.calls = calls]
      BY <3>3, Zenon DEF GeminiUp!Spoken
    <3> HIDE DEF calls
    <3>5. GeminiUp!Spoken(parts)
            = AnswerOf(said.pieces, calls, said.reason, said.usage, said.end)
      BY <3>4, GeminiRecords DEF AnswerOf
    <3> QED
      BY <3>1, <3>5
  <2>2. CASE parts \in GeminiUp!SomeParts
    BY <2>2, GeminiSpoken
  <2> QED
    BY <2>1, <2>2
<1>7. said' = AnswerOf(pieces, calls, reason, total, "clean")
  <2> DEFINE spoken == GeminiUp!Spoken(parts)
  <2>1. spoken = AnswerOf(pieces, calls, said.reason, said.usage, said.end)
    BY <1>6
  <2>2. spoken.usage = said.usage
    BY <2>1 DEF AnswerOf
  <2>3. said' = [spoken EXCEPT !.usage = total, !.reason = reason, !.end = "clean"]
    BY <1>1, <1>3, <2>2
  <2> HIDE DEF spoken, total, reason
  <2> QED
    BY <2>1, <2>3 DEF AnswerOf
<1>8. /\ queue = <<>> /\ up' = ReaderState("draining", StopEvent(reason, usage))
      /\ queue' = <<>> \/ GeminiBatch(queue', NoUsage, {"text", "thinking", "tool_use"})
  <2>1. CASE parts = <<>>
    <3>1. GeminiUp!Reads(GeminiUp!Chunk(<<>>, finish, usage))
      BY <1>1, <2>1
    <3>2. ~GeminiUp!HasCall(parts)
      BY <2>1 DEF GeminiUp!HasCall
    <3>3. reason = finish
      BY <1>3, <3>2
    <3>4. queue = <<>> /\ queue' = <<>> /\ up' = ReaderState("draining", StopEvent(finish, usage))
      BY <1>2, <3>1, GeminiReadsNothing, Zenon
    <3> QED
      BY <3>3, <3>4
  <2>2. CASE parts \in GeminiUp!SomeParts
    <3>1. reason = ReasonOf(parts, finish)
      OBVIOUS
    <3> HIDE DEF reason
    <3>2. /\ queue = <<>>
          /\ reason # "none" => /\ GeminiBatch(queue', NoUsage, {"text", "thinking", "tool_use"})
                                /\ up' = ReaderState("draining", StopEvent(reason, usage))
      BY <1>1, <2>2, <3>1, GeminiReadsParts
    <3> QED
      BY <1>4, <3>2, Zenon
  <2> QED
    BY <2>1, <2>2
<1>9. usage \in {NoUsage, Usage(1, 1), Total}
  OBVIOUS
<1> HIDE DEF reason, total
<1> QED
  BY <1>2, <1>4, <1>5, <1>6, <1>7, <1>8, <1>9, GeminiFinishes

\* The same of a chunk without candidates.
LEMMA GeminiEmptyChunk ==
  ASSUME GeminiOK, GeminiUp!EmptyChunk, upstream' = upstream
  PROVE  GeminiOK' /\ Quiet
<1> DEFINE total == Merge(said.usage, Usage(1, 0))
<1>1. /\ up.phase \in {"silent", "speaking"}
      /\ GeminiUp!Reads(GeminiUp!Chunk(<<>>, "none", Usage(1, 0)))
      /\ said' = [said EXCEPT !.usage = total]
  BY DEF GeminiUp!EmptyChunk
<1>2. /\ queue = <<>> /\ queue' = <<StartEvent(NoUsage, Usage(1, 0))>>
      /\ up' = ReaderState("speaking", up.stop)
  BY <1>1, GeminiReadsNothing, Zenon
<1>3. total \in {NoUsage, Usage(1, 0), Usage(1, 1)} /\ total # NoUsage
  BY <1>1, GeminiTotal
<1> HIDE DEF total
<1>4. said' = AnswerOf(said.pieces, said.calls, said.reason, total, said.end)
  BY <1>1, GeminiRecords DEF AnswerOf
<1>5. said.pieces \in Seq(Pieces) /\ Len(said.pieces) <= MaxPieces
  BY DEF GeminiOK, SaidOK
<1> QED
  BY <1>1, <1>2, <1>3, <1>4, <1>5, GeminiGoesOn

\* The same of the usage that follows the reason.
LEMMA GeminiTrailingUsage ==
  ASSUME GeminiOK, GeminiUp!TrailingUsage, upstream' = upstream
  PROVE  GeminiOK' /\ Quiet
<1>1. /\ up.phase = "draining" /\ queue = <<>> /\ queue' = <<>>
      /\ said' = [said EXCEPT !.usage = Merge(@, Total)]
  BY DEF GeminiUp!TrailingUsage, Total
<1>2. up' = [up EXCEPT !.stop.usage = Merge(@, Total)]
  <2> DEFINE chunk == GeminiUp!Chunk(<<>>, "none", Usage(1, 2))
             ev == StartEvent(NoUsage, Usage(1, 2))
  <2>1. GeminiUp!StopReasonOf(chunk) = "none"
    BY SMTT(20) DEF GeminiUp!StopReasonOf, GeminiUp!HasCall, GeminiUp!Chunk
  <2>2. GeminiUp!DecodeGeminiStreamChunk(chunk) = <<ev>>
    BY <2>1, SMTT(20) DEF GeminiUp!DecodeGeminiStreamChunk, GeminiUp!Chunk
  <2>3. ev.usage = Total
    BY DEF Total
  <2> DEFINE trailing == GeminiUp!DecodeGeminiStreamChunk(chunk)
  <2>4. up' = [up EXCEPT !.stop.usage = Merge(@, trailing[Len(trailing)].usage)]
    BY DEF GeminiUp!TrailingUsage
  <2> HIDE DEF chunk, ev
  <2>5. <<ev>>[Len(<<ev>>)] = ev
    OBVIOUS
  <2> QED
    BY <2>2, <2>3, <2>4, <2>5
<1>3. /\ said.usage \in {NoUsage, Usage(1, 0), Usage(1, 1), Total} /\ said.reason \in Reasons
      /\ said.end \in {"none", "clean"} /\ up.stop.usage \in {NoUsage, Usage(1, 1), Total}
      /\ up.stop = StopEvent(said.reason, up.stop.usage)
  BY <1>1 DEF GeminiOK, GeminiFeed
<1>4. Merge(said.usage, Total) = Total /\ Merge(up.stop.usage, Total) = Total
  BY <1>3 DEF Total
<1>5. said' = AnswerOf(said.pieces, said.calls, said.reason, Total, said.end)
  BY <1>1, <1>4, GeminiRecords DEF AnswerOf
<1>6. up' = ReaderState("draining", StopEvent(said.reason, Total))
  <2>1. up' = [up EXCEPT !.stop = [@ EXCEPT !.usage = Total]]
    BY <1>2, <1>4
  <2> QED
    BY <1>1, <1>3, <2>1, GeminiRecords DEF ReaderState
<1>7. /\ said'.reason = said.reason /\ said'.end = said.end /\ said'.usage = Total
      /\ up'.phase = "draining" /\ up'.stop = StopEvent(said.reason, Total)
  BY <1>5, <1>6 DEF AnswerOf, ReaderState
<1>8. Quiet
  BY <1>1, <1>7, GeminiTalks DEF GeminiOK, Total
<1>9. SaidOK' /\ EndedWell'
  <2>1. Total \in Counts
    BY Values
  <2> QED
    BY <1>1, <1>5, <1>7, <2>1 DEF GeminiOK, SaidOK, EndedWell, AnswerOf
<1>10. GeminiFeed'
  BY <1>1, <1>3, <1>6, <1>7 DEF GeminiOK, GeminiFeed, ReaderState
<1> QED
  BY <1>8, <1>9, <1>10 DEF GeminiOK

\* The same of the content that follows the reason: the reader drops it.
LEMMA GeminiTrailingContent ==
  ASSUME GeminiOK, GeminiUp!TrailingContent, upstream' = upstream
  PROVE  GeminiOK' /\ Quiet
<1>1. /\ up.phase = "draining" /\ queue = <<>> /\ queue' = <<>> /\ up' = up
      /\ said' = AnswerOf(said.pieces, said.calls, said.reason, said.usage, "clean")
  BY GeminiRecords DEF GeminiUp!TrailingContent, AnswerOf
<1>2. /\ said'.reason = said.reason /\ said'.usage = said.usage /\ said'.end = "clean"
  BY <1>1 DEF AnswerOf
<1>3. Quiet
  BY <1>1, <1>2, GeminiTalks DEF GeminiOK
<1>4. SaidOK' /\ EndedWell'
  BY <1>1, <1>2 DEF GeminiOK, SaidOK, EndedWell, AnswerOf
<1>5. GeminiFeed'
  BY <1>1, <1>2 DEF GeminiOK, GeminiFeed
<1> QED
  BY <1>3, <1>4, <1>5 DEF GeminiOK

\* The same of the end of the drain: the stop that was withheld is sent.
LEMMA GeminiDrained ==
  ASSUME GeminiOK, GeminiUp!Drained, upstream' = upstream
  PROVE  GeminiOK' /\ Quiet
<1>1. /\ up.phase = "draining" /\ queue = <<>> /\ queue' = <<up.stop>>
      /\ said.usage \in {NoUsage, Total}
      /\ said' = AnswerOf(said.pieces, said.calls, said.reason, said.usage, "clean")
      /\ up' = ReaderState("ended", up.stop)
  BY GeminiRecords DEF GeminiUp!Drained, Total, ReaderState, AnswerOf
<1>2. said.reason \in Reasons /\ up.stop = StopEvent(said.reason, said.usage)
  BY <1>1 DEF GeminiOK, GeminiFeed, Total
<1>3. /\ up'.phase = "ended" /\ Len(queue') = 1 /\ queue' = <<queue'[1]>>
      /\ queue'[1] = StopEvent(said.reason, said.usage)
      /\ said'.reason = said.reason /\ said'.usage = said.usage /\ said'.end = "clean"
  BY <1>1, <1>2 DEF ReaderState, AnswerOf
<1>4. GeminiSent(queue[1])'
  BY <1>1, <1>2, <1>3 DEF GeminiSent
<1>5. queue'[1].reason # "none" /\ queue'[1].part = NoPart
  BY <1>2, <1>3, ContentAssumption
<1>6. Quiet
  BY <1>1, <1>3, <1>5, GeminiTalks DEF GeminiOK
<1>7. SaidOK' /\ EndedWell'
  BY <1>1, <1>2, <1>3 DEF GeminiOK, SaidOK, EndedWell, AnswerOf
<1>8. GeminiFeed'
  BY <1>1, <1>2, <1>3, <1>4 DEF GeminiOK, GeminiFeed, ReaderState
<1> QED
  BY <1>6, <1>7, <1>8 DEF GeminiOK

\* The same of an error payload: the codec hears of a start only.
LEMMA GeminiErrorPayload ==
  ASSUME GeminiOK, GeminiUp!ErrorPayload, upstream' = upstream
  PROVE  GeminiOK' /\ Quiet
<1>1. /\ up.phase \in {"silent", "speaking"} /\ queue = <<>>
      /\ queue' = <<StartEvent(NoUsage, NoUsage)>> /\ up' = ReaderState("broken", up.stop)
      /\ said' = AnswerOf(said.pieces, said.calls, said.reason, said.usage, "unheard")
  <2>1. queue' = <<StartEvent(NoUsage, NoUsage)>>
    BY SMTT(20) DEF GeminiUp!ErrorPayload, GeminiUp!DecodeGeminiStreamChunk, GeminiUp!Chunk,
                    GeminiUp!StopReasonOf, GeminiUp!HasCall
  <2> QED
    BY <2>1, GeminiRecords DEF GeminiUp!ErrorPayload, ReaderState, AnswerOf
<1>2. /\ up'.phase = "broken" /\ Len(queue') = 1 /\ queue' = <<queue'[1]>>
      /\ queue'[1] = StartEvent(NoUsage, NoUsage)
      /\ said'.reason = said.reason /\ said'.usage = said.usage /\ said'.end = "unheard"
      /\ said.reason = "none"
  BY <1>1 DEF ReaderState, AnswerOf, GeminiOK, GeminiFeed, SilentOnReason
<1>3. GeminiSent(queue[1])'
  BY <1>2 DEF GeminiSent
<1>4. Quiet
  BY <1>1, <1>2, GeminiTalks DEF GeminiOK
<1>5. SaidOK' /\ EndedWell'
  BY <1>1, <1>2 DEF GeminiOK, SaidOK, EndedWell, AnswerOf
<1>6. GeminiFeed'
  BY <1>1, <1>2, <1>3 DEF GeminiOK, GeminiFeed, ReaderState
<1> QED
  BY <1>4, <1>5, <1>6 DEF GeminiOK

\* The same of a read that fails.
LEMMA GeminiReadFails ==
  ASSUME GeminiOK, GeminiUp!ReadFails, upstream' = upstream
  PROVE  GeminiOK' /\ Quiet
<1>1. /\ up.phase \in {"silent", "speaking", "broken"} /\ queue = <<>>
      /\ queue' = <<ErrResult>> /\ up' = ReaderState("ended", up.stop)
      /\ said' = AnswerOf(said.pieces, said.calls, said.reason, said.usage, "error")
  BY GeminiRecords DEF GeminiUp!ReadFails, ReaderState, AnswerOf
<1>2. /\ up'.phase = "ended" /\ Len(queue') = 1 /\ queue' = <<queue'[1]>>
      /\ queue'[1] = ErrResult /\ said'.reason = said.reason
      /\ said'.usage = said.usage /\ said'.end = "error" /\ said.reason = "none"
  BY <1>1 DEF ReaderState, AnswerOf, GeminiOK, GeminiFeed, SilentOnReason, SaidOK
<1>3. GeminiSent(queue[1])'
  BY <1>2 DEF GeminiSent
<1>4. Quiet
  BY <1>1, <1>2, GeminiTalks DEF GeminiOK
<1>5. SaidOK' /\ EndedWell'
  BY <1>1, <1>2 DEF GeminiOK, SaidOK, EndedWell, AnswerOf
<1>6. GeminiFeed'
  BY <1>1, <1>2, <1>3 DEF GeminiOK, GeminiFeed, ReaderState
<1> QED
  BY <1>4, <1>5, <1>6 DEF GeminiOK

\* The same of the end of the stream.
LEMMA GeminiClose ==
  ASSUME GeminiOK, GeminiUp!Close, upstream' = upstream
  PROVE  GeminiOK' /\ Quiet
<1> DEFINE end == IF said.end = "none" THEN "cut" ELSE said.end
<1>1. /\ up.phase \in {"silent", "speaking", "broken", "ended"} /\ queue = <<>>
      /\ queue' = <<>> /\ up' = ReaderState("closed", up.stop)
      /\ said' = AnswerOf(said.pieces, said.calls, said.reason, said.usage, end)
  BY GeminiRecords DEF GeminiUp!Close, ReaderState, AnswerOf
<1>2. up.phase \in {"silent", "speaking", "broken"} =>
        said.reason = "none" /\ end \in {"cut", "unheard"}
  BY DEF GeminiOK, GeminiFeed, SilentOnReason, SaidOK
<1>3. up.phase = "ended" => said.end # "none" /\ end = said.end
  BY DEF GeminiOK, GeminiFeed
<1>4. /\ up'.phase = "closed" /\ said'.reason = said.reason
      /\ said'.usage = said.usage /\ said'.end = end
  BY <1>1 DEF ReaderState, AnswerOf
<1>5. /\ end \in {"clean", "error", "unheard", "cut"}
      /\ end = "unheard" => said.reason = "none"
  BY DEF GeminiOK, SaidOK
<1> HIDE DEF end
<1>6. Quiet
  <2>1. HeardReason' = HeardReason
    BY <1>1, <1>2, <1>3, <1>4 DEF HeardReason, GeminiOK
  <2>2. /\ Over => Over' /\ said' = said
        /\ Over' => Over \/ said'.end \in {"cut", "unheard"}
    BY <1>1, <1>2, <1>3, <1>4, GeminiRecords DEF Over, GeminiOK
  <2>3. ~StartAwaited'
    BY DEF StartAwaited, GeminiOK
  <2>4. ASSUME NEW i \in Indices
        PROVE  /\ MayCome(i)' => MayCome(i)
               /\ MayBegin(i)' => MayBegin(i)
               /\ MayGoOn(i)' => MayGoOn(i)
    BY <1>1, <1>4 DEF MayCome, MayBegin, MayGoOn, GeminiOK
  <2> QED
    BY <1>4, <2>1, <2>2, <2>3, <2>4 DEF Quiet, GeminiOK
<1>7. SaidOK' /\ EndedWell'
  BY <1>1, <1>2, <1>3, <1>4, <1>5 DEF GeminiOK, SaidOK, EndedWell, AnswerOf
<1>8. GeminiFeed'
  BY <1>1, <1>2, <1>4 DEF GeminiOK, GeminiFeed, ReaderState
<1> QED
  BY <1>6, <1>7, <1>8 DEF GeminiOK

\* What the codec is about to receive is admissible, and no delta of it tells a reason.
LEMMA GeminiKnown ==
  ASSUME GeminiOK, queue # <<>>, NEW ev, ev = Head(queue)
  PROVE  Known(ev)
<1>1. GeminiSent(ev) \/ GeminiPart(ev, 0) \/ GeminiPart(ev, 1)
  <2>1. CASE Len(queue) = 1 /\ queue = <<queue[1]>>
    <3>1. ev = queue[1]
      BY <2>1, OneEvent
    <3> QED
      BY <2>1, <3>1 DEF GeminiOK, GeminiFeed
  <2>2. CASE /\ Len(queue) = 2 /\ queue = <<queue[1], queue[2]>>
             /\ GeminiPart(queue[1], 0) /\ GeminiPart(queue[2], 1)
    BY <2>2, TwoEvents
  <2> QED
    BY <2>1, <2>2 DEF GeminiOK, GeminiFeed
<1>2. said.reason \in StopReasons /\ said.usage \in Counts
  BY DEF GeminiOK, SaidOK
<1>3. ASSUME NEW i \in {0, 1}, GeminiPart(ev, i)
      PROVE  Known(ev)
  <2>1. PICK kind \in {"text", "thinking", "tool_use"}, id \in CallIds, frag \in Frags,
             usage \in {NoUsage, Usage(1, 1)} :
          ev = Event("delta", i, Part(kind, id, frag), "none", usage, NoUsage)
    BY <1>3 DEF GeminiPart
  <2>2. /\ kind \in StartKinds /\ kind \in BlockKinds /\ frag \in Nat /\ usage \in Counts
        /\ i \in Indices
    BY Values
  <2>3. ev \in AnthropicCodec!AnyEvent
    BY <2>1, <2>2, ContentEvent, Values
  <2>4. ev.part # NoPart /\ ev.reason = "none"
    BY <2>1
  <2> QED
    BY <2>3, <2>4 DEF Known
<1>4. CASE ev = StartEvent(NoUsage, Usage(1, 0))
  BY <1>4, BareEvent, Values DEF Known
<1>7. CASE ev = StartEvent(NoUsage, NoUsage)
  BY <1>7, BareEvent, Values DEF Known
<1>5. CASE ev = StopEvent(said.reason, said.usage)
  BY <1>2, <1>5, BareEvent, Values DEF Known
<1>6. CASE ev = ErrResult
  BY <1>6, BareEvent, Values DEF Known
<1> QED
  BY <1>1, <1>3, <1>4, <1>5, <1>6, <1>7 DEF GeminiSent

\* The codec takes the event: what has been heard advances by what the event tells.
LEMMA GeminiPassed ==
  ASSUME GeminiOK, NEW ev, queue # <<>>, ev = Head(queue), queue' = Tail(queue),
         UNCHANGED <<upstream, up, said>>
  PROVE  GeminiOK' /\ Passed(ev)
<1>1. \/ queue = <<ev>> /\ queue' = <<>> /\ GeminiSent(ev)
      \/ queue = <<ev>> /\ queue' = <<>> /\ GeminiPart(ev, 1)
      \/ /\ Len(queue) = 2 /\ queue[1] = ev /\ queue' = <<queue[2]>>
         /\ GeminiPart(ev, 0) /\ GeminiPart(queue[2], 1)
  <2>1. CASE Len(queue) = 1 /\ queue = <<queue[1]>>
    <3>1. ev = queue[1] /\ queue' = <<>>
      BY <2>1, OneEvent
    <3> QED
      BY <2>1, <3>1 DEF GeminiOK, GeminiFeed
  <2>2. CASE /\ Len(queue) = 2 /\ queue = <<queue[1], queue[2]>>
             /\ GeminiPart(queue[1], 0) /\ GeminiPart(queue[2], 1)
    <3>1. ev = queue[1] /\ queue' = <<queue[2]>>
      BY <2>2, TwoEvents
    <3> QED
      BY <2>2, <3>1
  <2> QED
    BY <2>1, <2>2 DEF GeminiOK, GeminiFeed
<1>2. GeminiOK'
  <2>1. SaidOK' /\ EndedWell'
    BY DEF GeminiOK, SaidOK, EndedWell
  <2>2. \/ queue' = <<>>
        \/ Len(queue') = 1 /\ queue' = <<queue'[1]>> /\ GeminiPart(queue[1], 1)'
    <3>1. ASSUME queue' = <<queue[2]>>, GeminiPart(queue[2], 1)
          PROVE  GeminiPart(queue[1], 1)'
      <4>1. queue'[1] = queue[2] /\ up' = up /\ said' = said
        BY <3>1
      <4>2. PICK kind \in {"text", "thinking", "tool_use"}, id \in CallIds, frag \in Frags,
                 usage \in {NoUsage, Usage(1, 1)} :
              /\ queue[2] = Event("delta", 1, Part(kind, id, frag), "none", usage, NoUsage)
              /\ usage # NoUsage => said.usage # NoUsage
              /\ kind = "tool_use" => up.phase = "draining" /\ id \in Calls
              /\ kind # "tool_use" => id = NoId
        BY <3>1 DEF GeminiPart
      <4>3. up.phase \in {"speaking", "draining"}
        BY <3>1 DEF GeminiPart
      <4> QED
        BY <4>1, <4>2, <4>3 DEF GeminiPart
    <3> QED
      BY <1>1, <3>1
  <2> QED
    BY <1>1, <2>1, <2>2 DEF GeminiOK, GeminiFeed, SilentOnReason
<1>3. /\ upstream = "gemini" /\ upstream' = "gemini" /\ up' = up /\ said' = said
      /\ said.reason \in StopReasons /\ said.usage \in Counts
  BY DEF GeminiOK, SaidOK
<1>4. ~StartAwaited'
  BY <1>3 DEF StartAwaited
\* An event with a call at an index, or with none.
<1>5. ASSUME ev.part.kind = "tool_use" => /\ ev.part.id # NoId /\ up.phase = "draining"
                                          /\ \A j \in 1..Len(queue') : queue'[j].index # ev.index,
             ev.part.kind \in {"text", "thinking", "refusal"} => ev.part.id = NoId,
             ev.type \notin {"content_block_start", "content_block_stop"}
      PROVE  BlockPassed(ev)
  <2>1. queue[1] = ev /\ Len(queue) >= 1
    BY <1>1
  <2>2. \A i : MayCome(i) /\ MayCome(i)' /\ ~MayGoOn(i)'
    BY <1>3 DEF MayCome, MayGoOn
  <2>3. ASSUME NEW i \in Indices, MayBegin(i)'
        PROVE  MayBegin(i) /\ (ev.part.kind = "tool_use" => ev.index # i)
    <3>1. CASE up.phase \in {"silent", "speaking"}
      BY <1>3, <1>5, <3>1 DEF MayBegin
    <3>2. CASE up.phase \notin {"silent", "speaking"}
      <4>1. PICK j \in 1..Len(queue') : queue'[j].part.kind = "tool_use" /\ queue'[j].index = i
        BY <1>3, <2>3, <3>2 DEF MayBegin
      <4>2. Len(queue) = 2 /\ queue'[j] = queue[2] /\ 2 \in 1..Len(queue)
        BY <1>1, <4>1
      <4> QED
        BY <1>3, <1>5, <4>1, <4>2 DEF MayBegin
    <3> QED
      BY <3>1, <3>2
  <2>4. ev.part.kind = "tool_use" => MayBegin(ev.index)
    <3>1. ASSUME ev.part.kind = "tool_use"
          PROVE  \E j \in 1..Len(queue) :
                   queue[j].part.kind = "tool_use" /\ queue[j].index = ev.index
      BY <1>1, <2>1, <3>1
    <3> QED
      BY <1>3, <3>1 DEF MayBegin
  <2> QED
    BY <1>3, <1>5, <2>2, <2>3, <2>4 DEF BlockPassed, ResponsesCodec!ItemKinds
<1>6. ASSUME NEW i \in {0, 1}, GeminiPart(ev, i),
             \A j \in 1..Len(queue') : queue'[j].index # i
      PROVE  Passed(ev)
  <2>1. PICK kind \in {"text", "thinking", "tool_use"}, id \in CallIds, frag \in Frags,
             usage \in {NoUsage, Usage(1, 1)} :
          /\ ev = Event("delta", i, Part(kind, id, frag), "none", usage, NoUsage)
          /\ usage # NoUsage => said.usage # NoUsage
          /\ kind = "tool_use" => up.phase = "draining" /\ id \in Calls
          /\ kind # "tool_use" => id = NoId
    BY <1>6 DEF GeminiPart
  <2>2. up.phase \in {"speaking", "draining"}
    BY <1>6 DEF GeminiPart
  <2>3. ev \in AnthropicCodec!AnyEvent
    BY GeminiKnown DEF Known
  <2>4. EndPassed(ev)
    BY <1>3, <2>1, <2>2 DEF EndPassed, HeardReason, Over
  <2>5. UsagePassed(ev)
    BY <1>3, <1>4, <2>1, Values DEF UsagePassed
  <2>6. BlockPassed(ev)
    <3>1. /\ ev.index = i /\ ev.part.kind = kind /\ ev.part.id = id /\ ev.type = "delta"
      BY <2>1
    <3>2. kind = "tool_use" => id # NoId
      BY <2>1, ContentAssumption
    <3> QED
      BY <1>5, <1>6, <2>1, <3>1, <3>2
  <2> QED
    BY <1>2, <2>3, <2>4, <2>5, <2>6 DEF Passed
<1>7. CASE queue = <<ev>> /\ queue' = <<>> /\ GeminiSent(ev) /\ ~GeminiPart(ev, 0)
  <2>1. CASE /\ up.phase = "speaking" /\ said.usage # NoUsage
             /\ ev = StartEvent(NoUsage, Usage(1, 0))
    <3>1. ev \in AnthropicCodec!AnyEvent
      BY GeminiKnown DEF Known
    <3>2. EndPassed(ev) /\ UsagePassed(ev)
      BY <1>3, <1>4, <1>7, <2>1, Values DEF EndPassed, UsagePassed, HeardReason, Over
    <3>3. BlockPassed(ev)
      BY <1>5, <2>1
    <3> QED
      BY <1>2, <3>1, <3>2, <3>3 DEF Passed
  <2>4. CASE up.phase = "broken" /\ ev = StartEvent(NoUsage, NoUsage)
    <3>1. ev \in AnthropicCodec!AnyEvent
      BY GeminiKnown DEF Known
    <3>2. EndPassed(ev) /\ UsagePassed(ev)
      BY <1>3, <1>4, <1>7, <2>4, Values DEF EndPassed, UsagePassed, HeardReason, Over
    <3>3. BlockPassed(ev)
      BY <1>5, <2>4
    <3> QED
      BY <1>2, <3>1, <3>2, <3>3 DEF Passed
  <2>2. CASE up.phase = "ended" /\ said.end = "clean" /\ ev = StopEvent(said.reason, said.usage)
    <3>0. said.reason # "none"
      BY <2>2, ContentAssumption DEF GeminiOK, EndedWell
    <3>1. ev \in AnthropicCodec!AnyEvent
      BY GeminiKnown DEF Known
    <3>2. EndPassed(ev)
      BY <1>3, <1>7, <2>2, <3>0 DEF EndPassed, HeardReason, Over
    <3>3. UsagePassed(ev)
      BY <1>3, <1>4, <2>2, Values DEF UsagePassed
    <3>4. BlockPassed(ev)
      BY <1>5, <2>2
    <3> QED
      BY <1>2, <3>1, <3>2, <3>3, <3>4 DEF Passed
  <2>3. CASE up.phase = "ended" /\ said.end = "error" /\ ev = ErrResult
    <3>1. ev \in AnthropicCodec!AnyEvent
      BY GeminiKnown DEF Known
    <3>2. EndPassed(ev)
      BY <1>3, <1>7, <2>3 DEF EndPassed, HeardReason, Over
    <3>3. UsagePassed(ev)
      BY <1>3, <1>4, <2>3, Values DEF UsagePassed
    <3>4. BlockPassed(ev)
      BY <1>5, <2>3
    <3> QED
      BY <1>2, <3>1, <3>2, <3>3, <3>4 DEF Passed
  <2> QED
    BY <1>7, <2>1, <2>2, <2>3, <2>4 DEF GeminiSent
<1>8. CASE queue = <<ev>> /\ queue' = <<>> /\ (GeminiPart(ev, 0) \/ GeminiPart(ev, 1))
  BY <1>2, <1>6, <1>8
<1>9. CASE /\ Len(queue) = 2 /\ queue[1] = ev /\ queue' = <<queue[2]>>
           /\ GeminiPart(ev, 0) /\ GeminiPart(queue[2], 1)
  <2>1. \A j \in 1..Len(queue') : queue'[j].index # 0
    <3>1. queue[2].index = 1
      BY <1>9 DEF GeminiPart
    <3>2. Len(queue') = 1 /\ queue'[1] = queue[2]
      BY <1>9
    <3>3. ASSUME NEW j \in 1..Len(queue')
          PROVE  queue'[j].index # 0
      <4>1. j = 1
        BY <3>2, <3>3
      <4>2. queue'[j] = queue[2]
        BY <3>2, <4>1
      <4> QED
        BY <3>1, <4>2
    <3> QED
      BY <3>3
  <2> QED
    BY <1>2, <1>6, <1>9, <2>1
<1> QED
  BY <1>1, <1>2, <1>7, <1>8, <1>9

-----------------------------------------------------------------------------
(* A Responses provider.                                                   *)

ResponsesOK == upstream = "responses" /\ SaidOK /\ EndedWell /\ ResponsesFeed

ResponsesState(phase, item, items, suppressed, remap, next, batch) ==
    [phase |-> phase, item |-> item, items |-> items, suppressed |-> suppressed,
     remap |-> remap, next |-> next, batch |-> batch]

\* The answer and the reader as the records that they are.
LEMMA ResponsesRecords ==
  ASSUME ResponsesOK
  PROVE  /\ said = AnswerOf(said.pieces, said.calls, said.reason, said.usage, said.end)
         /\ up = ResponsesState(up.phase, up.item, up.items, up.suppressed, up.remap, up.next,
                                up.batch)
BY DEF ResponsesOK, SaidOK, ResponsesFeed, ResponsesTyped, AnswerOf, ResponsesState

\* The indices of items and of the results of searches.
LEMMA ResponsesOutputs ==
  /\ 0 \in ResponsesUp!OutputIndices
  /\ \A i \in 0..MaxBlocks - 1 :
       /\ i \in ResponsesUp!OutputIndices /\ ResponsesUp!ResultIndex(i) \in ResponsesUp!OutputIndices
       /\ \A j \in 0..MaxBlocks - 1 :
            /\ i # ResponsesUp!ResultIndex(j)
            /\ ResponsesUp!ResultIndex(i) = ResponsesUp!ResultIndex(j) => i = j
BY BoundsAssumption DEF ResponsesUp!OutputIndices, ResponsesUp!ResultIndex

\* The numbers of items and blocks are in their bounds; an item and its results differ.
LEMMA ResponsesTypes ==
  ASSUME ResponsesOK
  PROVE  /\ up.items \in 0..MaxBlocks /\ up.next \in Nat
         /\ up.items > 0 => /\ Latest \in 0..MaxBlocks - 1
                            /\ Latest \in ResponsesUp!OutputIndices
                            /\ Results \in ResponsesUp!OutputIndices
                            /\ Results # Latest
                            /\ up.remap[Latest] \in -1..2 * MaxBlocks - 1
                            /\ up.remap[Results] \in -1..2 * MaxBlocks - 1
         /\ up.next <= 2 * MaxBlocks
<1>1. /\ up.items \in 0..MaxBlocks /\ up.next \in Nat /\ MaxBlocks \in Nat
      /\ up.remap \in [ResponsesUp!OutputIndices -> -1..2 * MaxBlocks - 1]
  BY BoundsAssumption DEF ResponsesOK, ResponsesFeed, ResponsesTyped
<1>2. ASSUME up.items > 0
      PROVE  /\ Latest \in 0..MaxBlocks - 1
             /\ Latest \in ResponsesUp!OutputIndices
             /\ Results \in ResponsesUp!OutputIndices
             /\ Results # Latest
  <2>1. Latest \in 0..MaxBlocks - 1
    BY <1>1, <1>2 DEF Latest
  <2> QED
    BY <2>1, ResponsesOutputs DEF Results
<1>3. up.next <= 2 * MaxBlocks
  BY <1>1, <1>2 DEF ResponsesOK, ResponsesFeed, ResponsesTyped, ResponsesIndices, Latest
<1> QED
  BY <1>1, <1>2, <1>3

\* A step in which an SSE event is read and decoded.
ResponsesPut(phase, item, items, batch) ==
    /\ queue = <<>> /\ queue' = <<>> /\ up.batch = <<>>
    /\ up' = ResponsesState(phase, item, items, up.suppressed, up.remap, up.next, batch)

\* An SSE event that is read is decoded into the batch that the reader has to send.
LEMMA ResponsesReads ==
  ASSUME NEW sse, NEW phase, NEW item, NEW items,
         ResponsesUp!Reads(sse, ResponsesState(phase, item, items, up.suppressed, up.remap,
                                              up.next, up.batch))
  PROVE  ResponsesPut(phase, item, items, ResponsesUp!DecodeOpenAIResponsesStreamEvent(sse))
<1> DEFINE provider == ResponsesState(phase, item, items, up.suppressed, up.remap, up.next,
                                      up.batch)
           batch == ResponsesUp!DecodeOpenAIResponsesStreamEvent(sse)
<1>1. queue = <<>> /\ up.batch = <<>> /\ up' = [provider EXCEPT !.batch = batch] /\ queue' = queue
  BY Zenon DEF ResponsesUp!Reads
<1> HIDE DEF batch
<1> QED
  BY <1>1 DEF ResponsesPut, ResponsesState, batch

\* What is decoded of every SSE event.
LEMMA ResponsesDecodes ==
  ASSUME NEW index, NEW item, NEW kind, NEW frag, NEW reason, NEW usage
  PROVE
    /\ ResponsesUp!DecodeOpenAIResponsesStreamEvent(
         ResponsesUp!ResponseSSE("response.created", reason, usage)) = <<StartEvent(NoUsage, NoUsage)>>
    /\ ResponsesUp!DecodeOpenAIResponsesStreamEvent(
         ResponsesUp!DeltaSSE(index, kind, frag)) = <<Delta(index, Part(kind, NoId, frag))>>
    /\ ResponsesUp!DecodeOpenAIResponsesStreamEvent(
         ResponsesUp!ResponseSSE("response.completed", reason, usage)) = <<StopEvent(reason, usage)>>
    /\ ResponsesUp!DecodeOpenAIResponsesStreamEvent(
         ResponsesUp!ResponseSSE("response.incomplete", reason, usage))
           = <<StopEvent("max_tokens", usage)>>
    /\ ResponsesUp!DecodeOpenAIResponsesStreamEvent(
         ResponsesUp!ResponseSSE("response.failed", reason, usage)) = <<ErrorEvent(usage)>>
    /\ ResponsesUp!DecodeOpenAIResponsesStreamEvent(
         ResponsesUp!ResponseSSE("garbage", reason, usage)) = <<ErrResult>>
BY SMTT(20) DEF ResponsesUp!DecodeOpenAIResponsesStreamEvent, ResponsesUp!ResponseSSE,
                ResponsesUp!DeltaSSE, ResponsesUp!SSE

\* What an output_item.added decodes to, by the type of the item.
LEMMA ResponsesDecodesAdded ==
  ASSUME NEW index, NEW item, NEW frag
  PROVE
    LET batch == ResponsesUp!DecodeOpenAIResponsesStreamEvent(
                   ResponsesUp!ItemSSE("response.output_item.added", index, item, frag))
    IN  /\ item.type = "message" => batch = <<BlockStart(index, Part("text", NoId, 0))>>
        /\ item.type = "function_call" => batch = <<BlockStart(index, Part("tool_use", item.call, 0))>>
        /\ item.type = "reasoning" => batch = <<BlockStart(index, Part("thinking", NoId, 0))>>
        /\ item.type = "web_search_call" => batch = <<>>
        /\ item.type = "unknown" => batch = <<BlockStart(index, NoPart)>>
BY SMTT(20) DEF ResponsesUp!DecodeOpenAIResponsesStreamEvent, ResponsesUp!ItemSSE,
                ResponsesUp!SSE, ResponsesUp!DecodeItemAdded

\* What an output_item.done decodes to: for a web search, two blocks at once.
LEMMA ResponsesDecodesDone ==
  ASSUME NEW index, NEW item, NEW frag
  PROVE
    LET batch == ResponsesUp!DecodeOpenAIResponsesStreamEvent(
                   ResponsesUp!ItemSSE("response.output_item.done", index, item, frag))
        result == ResponsesUp!ResultIndex(index)
    IN  /\ item.type # "web_search_call" => batch = <<BlockStop(index)>>
        /\ item.type = "web_search_call" =>
             batch = <<BlockStart(index, Part("server_tool_use", item.call, frag)),
                       BlockStop(index),
                       BlockStart(result, Part("web_search_tool_result", item.call, frag)),
                       BlockStop(result)>>
BY SMTT(20) DEF ResponsesUp!DecodeOpenAIResponsesStreamEvent, ResponsesUp!ItemSSE,
                ResponsesUp!SSE, ResponsesUp!DecodeWebSearchCall

\* What is read the codec has not heard of.
LEMMA ResponsesTalks ==
  ASSUME upstream = "responses", upstream' = upstream, up.phase \in {"silent", "speaking"},
         NEW phase \in {"speaking", "ended"}, NEW item, NEW items, NEW batch,
         ResponsesPut(phase, item, items, batch),
         \/ phase = "speaking"
         \/ /\ Len(batch) = 1 /\ batch = <<batch[1]>>
            /\ batch[1].reason # "none" \/ said'.reason = "none",
         said'.usage = NoUsage => said.usage = NoUsage,
         ItemOpen' => ItemOpen /\ item = up.item
  PROVE  Quiet
<1>1. /\ up'.phase = phase /\ up'.batch = batch /\ up'.next = up.next /\ up'.item = item
      /\ queue = <<>> /\ queue' = <<>>
  BY DEF ResponsesPut, ResponsesState
<1>2. HeardReason = "none" /\ ~Over
  BY DEF HeardReason, Over
<1>3. HeardReason' = "none" /\ ~Over'
  <2>1. CASE phase = "speaking"
    BY <1>1, <2>1 DEF HeardReason, Over
  <2>2. CASE /\ Len(batch) = 1 /\ batch = <<batch[1]>>
             /\ batch[1].reason # "none" \/ said'.reason = "none"
    <3>1. ~Over'
      BY <1>1, <2>2, SMTT(30) DEF Over
    <3>2. up'.batch[1].reason # "none" => \E i \in 1..Len(up'.batch) : up'.batch[i].reason # "none"
      BY <1>1, <2>2
    <3> QED
      BY <1>1, <2>2, <3>1, <3>2 DEF HeardReason
  <2> QED
    BY <2>1, <2>2
<1>4. ~StartAwaited'
  BY DEF StartAwaited
<1>5. ~Starting /\ ~Starting'
  BY <1>1 DEF Starting
<1>6. ASSUME NEW i \in Indices
      PROVE  /\ MayCome(i)' => MayCome(i)
             /\ MayBegin(i)' => MayBegin(i)
             /\ MayGoOn(i)' => MayGoOn(i)
  <2>1. (MayCome(i)' => MayCome(i)) /\ (MayBegin(i)' => MayBegin(i))
    BY <1>1, <1>5 DEF MayCome, MayBegin
  <2>2. ASSUME MayGoOn(i)'
        PROVE  MayGoOn(i)
    <3>1. up'.item.type = "function_call" /\ IsMapped' /\ i = up'.next - 1
      BY <2>2 DEF MayGoOn
    <3>2. ItemOpen'
      BY <3>1 DEF ItemOpen, BlockTypes
    <3> QED
      BY <1>1, <1>5, <3>1, <3>2 DEF MayGoOn, ItemOpen
  <2> QED
    BY <2>1, <2>2
<1> QED
  BY <1>2, <1>3, <1>4, <1>6 DEF Quiet

\* What remains to be shown of a step that reads.
LEMMA ResponsesReadOK ==
  ASSUME ResponsesOK, upstream' = upstream, NEW phase, NEW item, NEW items \in 0..MaxBlocks,
         NEW batch, ResponsesPut(phase, item, items, batch), phase # "closed",
         item \in [type : BlockTypes \cup {"unknown", "web_search_call", "none"}, call : CallIds],
         ResponsesItem(item), items = up.items \/ items = up.items + 1,
         SaidOK', EndedWell', ResponsesSaid', ResponsesStage'
  PROVE  ResponsesOK'
<1>1. /\ up'.phase = phase /\ up'.item = item /\ up'.items = items /\ up'.batch = batch
      /\ up'.suppressed = up.suppressed /\ up'.remap = up.remap /\ up'.next = up.next
      /\ queue' = <<>>
  BY DEF ResponsesPut, ResponsesState
<1>2. up' = [phase |-> up'.phase, item |-> up'.item, items |-> up'.items,
             suppressed |-> up'.suppressed, remap |-> up'.remap, next |-> up'.next,
             batch |-> up'.batch]
  BY DEF ResponsesPut, ResponsesState
<1>3. ResponsesIndices'
  <2>1. ResponsesIndices /\ up.items \in 0..MaxBlocks /\ up.next \in Nat /\ MaxBlocks \in Nat
    BY BoundsAssumption DEF ResponsesOK, ResponsesFeed, ResponsesTyped
  <2>2. CASE items = up.items
    BY <1>1, <2>1, <2>2 DEF ResponsesIndices, Latest, Results
  <2>3. CASE items = up.items + 1
    <3>1. \A i \in up.items..MaxBlocks - 1 :
            up.remap[i] = -1 /\ up.remap[ResponsesUp!ResultIndex(i)] = -1
      BY <2>1 DEF ResponsesIndices
    <3>2. Latest' = up.items
      BY <1>1, <2>1, <2>3 DEF Latest
    <3>3. up.next <= 2 * up.items
      <4>1. CASE up.items = 0
        BY <2>1, <4>1 DEF ResponsesIndices
      <4>2. CASE up.items > 0
        <5>1. up.next <= 2 * Latest + (IF up.remap[Latest] = -1 THEN 0 ELSE 1)
                           + (IF up.remap[Results] = -1 THEN 0 ELSE 1)
          BY <2>1, <4>2 DEF ResponsesIndices
        <5> QED
          BY <2>1, <5>1 DEF Latest
      <4> QED
        BY <2>1, <4>1, <4>2
    <3>4. up'.next <= 2 * Latest' + (IF up'.remap[Latest'] = -1 THEN 0 ELSE 1)
                        + (IF up'.remap[Results'] = -1 THEN 0 ELSE 1)
      BY <1>1, <2>1, <3>2, <3>3
    <3>5. \A i \in up'.items..MaxBlocks - 1 :
            up'.remap[i] = -1 /\ up'.remap[ResponsesUp!ResultIndex(i)] = -1
      BY <1>1, <2>1, <2>3, <3>1
    <3>6. up'.items # 0
      BY <1>1, <2>1, <2>3
    <3> QED
      BY <3>4, <3>5, <3>6 DEF ResponsesIndices
  <2> QED
    BY <2>2, <2>3
<1>4. ResponsesTyped'
  BY <1>1, <1>2, <1>3 DEF ResponsesOK, ResponsesFeed, ResponsesTyped, ResponsesItem
<1> QED
  BY <1>1, <1>4 DEF ResponsesOK, ResponsesFeed

\* The stages in which an SSE event may be read.
LEMMA ResponsesReadsAt ==
  ASSUME ResponsesOK, up.batch = <<>>
  PROVE  /\ up.phase = "silent" => ResponsesSilent
         /\ up.phase = "speaking" =>
              \/ ResponsesBetween \/ ResponsesInside \/ ResponsesSkipping \/ ResponsesSearching
<1>1. ~ResponsesStart /\ ~ResponsesAdded /\ ~ResponsesDelta /\ ~ResponsesDone
  BY DEF ResponsesStart, ResponsesAdded, ResponsesDelta, ResponsesDone
<1>2. ~ResponsesSearch /\ ~ResponsesLast
  BY DEF ResponsesSearch, ResponsesLast
<1>3. \/ ResponsesSilent \/ ResponsesOver
      \/ ResponsesBetween \/ ResponsesInside \/ ResponsesSkipping \/ ResponsesSearching
  BY <1>1, <1>2 DEF ResponsesOK, ResponsesFeed, ResponsesStage
<1> QED
  BY <1>3 DEF ResponsesSilent, ResponsesOver, ResponsesBetween, ResponsesInside,
              ResponsesSkipping, ResponsesSearching

\* response.created keeps what is known of the provider; the codec has heard nothing of it.
LEMMA ResponsesCreated ==
  ASSUME ResponsesOK, ResponsesUp!Created, upstream' = upstream
  PROVE  ResponsesOK' /\ Quiet
<1>1. /\ up.phase = "silent" /\ said' = said
      /\ ResponsesPut("speaking", up.item, up.items, <<StartEvent(NoUsage, NoUsage)>>)
  <2>1. [up EXCEPT !.phase = "speaking"]
          = ResponsesState("speaking", up.item, up.items, up.suppressed, up.remap, up.next, up.batch)
    BY ResponsesRecords DEF ResponsesState
  <2> QED
    BY <2>1, ResponsesReads, ResponsesDecodes DEF ResponsesUp!Created
<1>2. ResponsesSilent /\ up.item = ResponsesUp!NoItem
  BY <1>1, ResponsesReadsAt DEF ResponsesPut, ResponsesSilent
<1>3. up'.phase = "speaking" /\ up'.item = up.item
  BY <1>1 DEF ResponsesPut, ResponsesState
<1>4. SaidOK' /\ EndedWell' /\ ResponsesSaid'
  BY <1>1, <1>3 DEF ResponsesOK, ResponsesFeed, ResponsesSaid, SaidOK, EndedWell, SilentOnReason
<1>5. ResponsesStage'
  <2>1. ResponsesStart'
    BY <1>1, <1>2 DEF ResponsesStart, ResponsesSilent, ResponsesPut, ResponsesState
  <2> QED
    BY <2>1 DEF ResponsesStage
<1>6. ~ItemOpen'
  BY <1>2, <1>3 DEF ItemOpen, BlockTypes, ResponsesUp!NoItem
<1>7. Quiet
  BY <1>1, <1>6, ResponsesTalks DEF ResponsesOK
<1>8. ResponsesOK'
  BY <1>1, <1>4, <1>5, ResponsesReadOK DEF ResponsesOK, ResponsesFeed, ResponsesTyped
<1> QED
  BY <1>7, <1>8

\* The same of response.output_item.added.
LEMMA ResponsesOutputItemAdded ==
  ASSUME ResponsesOK, ResponsesUp!OutputItemAdded, upstream' = upstream
  PROVE  ResponsesOK' /\ Quiet
<1>1. up.phase = "speaking" /\ up.item = ResponsesUp!NoItem /\ up.items < MaxBlocks
  BY DEF ResponsesUp!OutputItemAdded
<1>2. PICK type \in BlockTypes \cup {"unknown", "web_search_call"}, call \in CallIds :
        /\ IF type \in {"function_call", "web_search_call"} THEN call \in Calls ELSE call = NoId
        /\ ResponsesUp!Reads(
             ResponsesUp!ItemSSE("response.output_item.added", up.items,
                                 [type |-> type, call |-> call], 0),
             [up EXCEPT !.item = [type |-> type, call |-> call], !.items = @ + 1])
        /\ said' = [said EXCEPT !.calls = IF type = "function_call" THEN Append(@, call) ELSE @]
  <2>1. PICK type \in ResponsesUp!ItemTypes :
        \E call \in IF type \in {"function_call", "web_search_call"}
                    THEN Calls \ ResponsesUp!Called ELSE {NoId} :
        /\ ResponsesUp!Reads(
             ResponsesUp!ItemSSE("response.output_item.added", up.items,
                                 [type |-> type, call |-> call], 0),
             [up EXCEPT !.item = [type |-> type, call |-> call], !.items = @ + 1])
        /\ said' = [said EXCEPT !.calls = IF type = "function_call" THEN Append(@, call) ELSE @]
    BY Zenon DEF ResponsesUp!OutputItemAdded, ResponsesUp!NoId, NoId
  <2>2. type \in BlockTypes \cup {"unknown", "web_search_call"}
    BY DEF ResponsesUp!ItemTypes, BlockTypes
  <2> QED
    BY <2>1, <2>2, Values
<1> DEFINE item == [type |-> type, call |-> call]
           batch == ResponsesUp!DecodeOpenAIResponsesStreamEvent(
                      ResponsesUp!ItemSSE("response.output_item.added", up.items, item, 0))
<1>3. ResponsesPut("speaking", item, up.items + 1, batch)
  <2> DEFINE sse == ResponsesUp!ItemSSE("response.output_item.added", up.items, item, 0)
  <2>1. ResponsesUp!Reads(sse, [up EXCEPT !.item = item, !.items = @ + 1])
    BY <1>2
  <2>2. batch = ResponsesUp!DecodeOpenAIResponsesStreamEvent(sse)
    OBVIOUS
  <2> HIDE DEF item, batch, sse
  <2>3. [up EXCEPT !.item = item, !.items = @ + 1]
          = ResponsesState("speaking", item, up.items + 1, up.suppressed, up.remap, up.next, up.batch)
    <3>1. up = ResponsesState(up.phase, up.item, up.items, up.suppressed, up.remap, up.next,
                              up.batch)
      BY ResponsesRecords
    <3>2. [up EXCEPT !.item = item]
            = ResponsesState(up.phase, item, up.items, up.suppressed, up.remap, up.next, up.batch)
      BY <3>1 DEF ResponsesState
    <3>3. [up EXCEPT !.item = item, !.items = @ + 1]
            = [[up EXCEPT !.item = item] EXCEPT !.items = up.items + 1]
      BY <3>1, <3>2 DEF ResponsesState
    <3> DEFINE items == up.items + 1
    <3> HIDE DEF items
    <3>4. [ResponsesState(up.phase, item, up.items, up.suppressed, up.remap, up.next, up.batch)
             EXCEPT !.items = items]
            = ResponsesState(up.phase, item, items, up.suppressed, up.remap, up.next, up.batch)
      BY DEF ResponsesState
    <3>5. [up EXCEPT !.item = item, !.items = @ + 1]
            = [ResponsesState(up.phase, item, up.items, up.suppressed, up.remap, up.next, up.batch)
                 EXCEPT !.items = items]
      BY <3>2, <3>3 DEF items
    <3>6. [up EXCEPT !.item = item, !.items = @ + 1]
            = ResponsesState(up.phase, item, items, up.suppressed, up.remap, up.next, up.batch)
      BY <3>4, <3>5
    <3> QED
      BY <1>1, <3>6 DEF items
  <2> QED
    BY <2>1, <2>2, <2>3, ResponsesReads
<1>4. PICK calls : said' = AnswerOf(said.pieces, calls, said.reason, said.usage, said.end)
  BY <1>2, ResponsesRecords DEF AnswerOf
<1>5. /\ item.type = type /\ item.call = call /\ ResponsesItem(item)
      /\ item \in [type : BlockTypes \cup {"unknown", "web_search_call", "none"}, call : CallIds]
  BY <1>2 DEF ResponsesItem, BlockTypes
<1>6. /\ type \in BlockTypes =>
           batch = <<BlockStart(up.items, Part(KindOfItem(type), call, 0))>>
      /\ type = "unknown" => batch = <<BlockStart(up.items, NoPart)>>
      /\ type = "web_search_call" => batch = <<>>
  <2> HIDE DEF item
  <2>1. /\ type = "message" => batch = <<BlockStart(up.items, Part("text", NoId, 0))>>
        /\ type = "function_call" => batch = <<BlockStart(up.items, Part("tool_use", call, 0))>>
        /\ type = "reasoning" => batch = <<BlockStart(up.items, Part("thinking", NoId, 0))>>
        /\ type = "web_search_call" => batch = <<>>
        /\ type = "unknown" => batch = <<BlockStart(up.items, NoPart)>>
    BY <1>5, ResponsesDecodesAdded
  <2>2. type \in {"message", "reasoning"} => call = NoId
    BY <1>2
  <2> QED
    BY <2>1, <2>2 DEF KindOfItem, BlockTypes
<1> HIDE DEF item, batch
<1>7. /\ up'.phase = "speaking" /\ up'.item = item /\ up'.items = up.items + 1
      /\ up'.suppressed = up.suppressed /\ up'.remap = up.remap /\ up'.next = up.next
      /\ up'.batch = batch /\ up.batch = <<>> /\ queue = <<>> /\ queue' = <<>>
  BY <1>3 DEF ResponsesPut, ResponsesState
<1>8. ResponsesBetween
  BY <1>1, <1>7, ResponsesReadsAt
     DEF ResponsesInside, ResponsesSkipping, ResponsesSearching, BlockTypes, ResponsesUp!NoItem
<1>9. Latest' = up.items /\ up'.items > 0 /\ up.items \in 0..MaxBlocks - 1
  <2>1. up.items \in 0..MaxBlocks /\ MaxBlocks \in Nat
    BY BoundsAssumption DEF ResponsesOK, ResponsesFeed, ResponsesTyped
  <2> QED
    BY <1>1, <1>7, <2>1 DEF Latest
<1>10. ~IsMapped' /\ up'.remap[Results'] = -1
  <2>1. \A i \in up.items..MaxBlocks - 1 :
          up.remap[i] = -1 /\ up.remap[ResponsesUp!ResultIndex(i)] = -1
    BY DEF ResponsesOK, ResponsesFeed, ResponsesTyped, ResponsesIndices
  <2> QED
    BY <1>1, <1>7, <1>9, <2>1, ResponsesTypes, BoundsAssumption DEF IsMapped, Results
<1>11. ResponsesStage'
  <2>1. CASE type \in BlockTypes \cup {"unknown"}
    <3>1. ResponsesAdded'
      BY <1>5, <1>6, <1>7, <1>8, <1>9, <1>10, <2>1 DEF ResponsesAdded, ResponsesBetween
    <3> QED
      BY <3>1 DEF ResponsesStage
  <2>2. CASE type = "web_search_call"
    <3>1. ResponsesSearching'
      BY <1>5, <1>6, <1>7, <1>8, <1>9, <1>10, <2>2 DEF ResponsesSearching, ResponsesBetween
    <3> QED
      BY <3>1 DEF ResponsesStage
  <2> QED
    BY <2>1, <2>2
<1>12. SaidOK' /\ EndedWell' /\ ResponsesSaid'
  BY <1>1, <1>4, <1>7 DEF ResponsesOK, ResponsesFeed, ResponsesSaid, SaidOK, EndedWell,
                          SilentOnReason, AnswerOf
<1>13. Quiet
  <2>1. ~ItemOpen'
    BY <1>10 DEF ItemOpen
  <2> QED
    BY <1>1, <1>3, <1>4, <2>1, ResponsesTalks DEF ResponsesOK, AnswerOf
<1>14. ResponsesOK'
  <2>1. up.items + 1 \in 0..MaxBlocks
    <3>1. up.items \in 0..MaxBlocks /\ MaxBlocks \in Nat
      BY BoundsAssumption DEF ResponsesOK, ResponsesFeed, ResponsesTyped
    <3> QED
      BY <1>1, <3>1
  <2> QED
    BY <1>3, <1>5, <1>11, <1>12, <2>1, ResponsesReadOK
<1> QED
  BY <1>13, <1>14

\* The same of a delta of the item that is open.
LEMMA ResponsesItemDelta ==
  ASSUME ResponsesOK, ResponsesUp!ItemDelta, upstream' = upstream
  PROVE  ResponsesOK' /\ Quiet
<1> DEFINE n == Len(said.pieces) + 1
           piece(kind) == Piece(kind, up.item.call, n)
<1>1. PICK kind \in ResponsesUp!KindsOf(up.item) :
        /\ ResponsesUp!Reads(ResponsesUp!DeltaSSE(Latest, kind, n), up)
        /\ said' = [said EXCEPT !.pieces = Append(@, piece(kind))]
  BY DEF ResponsesUp!ItemDelta, ResponsesUp!Number, Latest
<1>2. up.phase = "speaking" /\ Len(said.pieces) < MaxPieces
  BY DEF ResponsesUp!ItemDelta, ResponsesUp!HasRoom
<1>3. /\ up.item.type \in BlockTypes /\ kind \in PlainKinds \cup {"tool_use"}
      /\ kind = "tool_use" => up.item.type = "function_call"
  BY SMTT(20) DEF ResponsesUp!KindsOf, BlockTypes, PlainKinds
<1>4. ResponsesPut("speaking", up.item, up.items, <<Delta(Latest, Part(kind, NoId, n))>>)
  <2>1. up = ResponsesState("speaking", up.item, up.items, up.suppressed, up.remap, up.next,
                            up.batch)
    BY <1>2, ResponsesRecords
  <2> DEFINE sse == ResponsesUp!DeltaSSE(Latest, kind, n)
  <2>2. /\ ResponsesUp!Reads(sse, ResponsesState("speaking", up.item, up.items, up.suppressed,
                                                up.remap, up.next, up.batch))
        /\ ResponsesUp!DecodeOpenAIResponsesStreamEvent(sse) = <<Delta(Latest, Part(kind, NoId, n))>>
    BY <1>1, <2>1, ResponsesDecodes
  <2> HIDE DEF sse
  <2> QED
    BY <2>2, ResponsesReads
<1>5. said' = AnswerOf(Append(said.pieces, piece(kind)), said.calls, said.reason, said.usage,
                       said.end)
  BY <1>1, ResponsesRecords DEF AnswerOf
<1>6. /\ n \in Frags /\ Append(said.pieces, piece(kind)) \in Seq(Pieces)
      /\ Len(Append(said.pieces, piece(kind))) <= MaxPieces
  <2>1. said.pieces \in Seq(Pieces)
    BY DEF ResponsesOK, SaidOK
  <2>2. n \in Frags /\ piece(kind) \in Pieces
    BY <1>2, <1>3, <2>1, BoundsAssumption
       DEF Pieces, Frags, CallIds, PlainKinds, ResponsesOK, ResponsesFeed, ResponsesTyped
  <2> QED
    BY <1>2, <2>1, <2>2, BoundsAssumption
<1> HIDE DEF n, piece
<1>7. /\ up'.phase = "speaking" /\ up'.item = up.item /\ up'.items = up.items
      /\ up'.suppressed = up.suppressed /\ up'.remap = up.remap /\ up'.next = up.next
      /\ up'.batch = <<Delta(Latest, Part(kind, NoId, n))>> /\ up.batch = <<>>
  BY <1>4 DEF ResponsesPut, ResponsesState
<1>8. ResponsesInside
  BY <1>2, <1>3, <1>7, ResponsesReadsAt
     DEF ResponsesBetween, ResponsesSkipping, ResponsesSearching, BlockTypes, ResponsesUp!NoItem
<1>9. Latest' = Latest /\ IsMapped' = IsMapped
  BY <1>7 DEF Latest, IsMapped
<1>10. ResponsesStage'
  <2>1. ResponsesDelta'
    BY <1>3, <1>6, <1>7, <1>8, <1>9 DEF ResponsesDelta, ResponsesInside
  <2> QED
    BY <2>1 DEF ResponsesStage
<1>11. SaidOK' /\ EndedWell' /\ ResponsesSaid'
  BY <1>2, <1>5, <1>6, <1>7 DEF ResponsesOK, ResponsesFeed, ResponsesSaid, SaidOK, EndedWell,
                                SilentOnReason, AnswerOf
<1>12. Quiet
  <2>1. ItemOpen' => ItemOpen
    BY <1>7, <1>9 DEF ItemOpen
  <2> QED
    BY <1>2, <1>4, <1>5, <2>1, ResponsesTalks DEF ResponsesOK, AnswerOf
<1>13. ResponsesOK'
  BY <1>4, <1>10, <1>11, ResponsesReadOK, ResponsesTypes
     DEF ResponsesOK, ResponsesFeed, ResponsesTyped
<1> QED
  BY <1>12, <1>13

\* An item is done; a web search comes with its results.
LEMMA ResponsesOutputItemDone ==
  ASSUME ResponsesOK, ResponsesUp!OutputItemDone, upstream' = upstream
  PROVE  ResponsesOK' /\ Quiet
<1> DEFINE found == up.item.type = "web_search_call" /\ Len(said.pieces) < MaxPieces
           n == Len(said.pieces) + 1
           frag == IF found THEN n ELSE 0
           piece == Piece("web_search_tool_result", up.item.call, n)
           pieces == IF found THEN Append(said.pieces, piece) ELSE said.pieces
           batch == ResponsesUp!DecodeOpenAIResponsesStreamEvent(
                      ResponsesUp!ItemSSE("response.output_item.done", Latest, up.item, frag))
<1>1. /\ up.phase = "speaking" /\ up.item # ResponsesUp!NoItem
      /\ ResponsesUp!Reads(
           ResponsesUp!ItemSSE("response.output_item.done", Latest, up.item, frag),
           [up EXCEPT !.item = ResponsesUp!NoItem])
      /\ said' = IF found THEN [said EXCEPT !.pieces = Append(@, piece)] ELSE said
  BY DEF ResponsesUp!OutputItemDone, ResponsesUp!Number, ResponsesUp!HasRoom, Latest
<1>2. said' = AnswerOf(pieces, said.calls, said.reason, said.usage, said.end)
  BY <1>1, ResponsesRecords DEF AnswerOf
<1>3. frag \in Frags /\ pieces \in Seq(Pieces) /\ Len(pieces) <= MaxPieces
  <2>1. said.pieces \in Seq(Pieces) /\ Len(said.pieces) <= MaxPieces
    BY DEF ResponsesOK, SaidOK
  <2>2. frag \in Frags
    BY <2>1, BoundsAssumption DEF Frags
  <2>3. piece \in Pieces
    BY <2>1 DEF Pieces, ResponsesOK, ResponsesFeed, ResponsesTyped
  <2> HIDE DEF piece
  <2> QED
    BY <2>1, <2>2, <2>3, BoundsAssumption
<1>4. ResponsesPut("speaking", ResponsesUp!NoItem, up.items, batch)
  <2> DEFINE sse == ResponsesUp!ItemSSE("response.output_item.done", Latest, up.item, frag)
  <2>1. ResponsesUp!Reads(sse, [up EXCEPT !.item = ResponsesUp!NoItem])
    BY <1>1
  <2>2. batch = ResponsesUp!DecodeOpenAIResponsesStreamEvent(sse)
    OBVIOUS
  <2> HIDE DEF batch, sse
  <2>3. [up EXCEPT !.item = ResponsesUp!NoItem]
          = ResponsesState(up.phase, ResponsesUp!NoItem, up.items, up.suppressed, up.remap,
                           up.next, up.batch)
    BY ResponsesRecords DEF ResponsesState
  <2> QED
    BY <1>1, <2>1, <2>2, <2>3, ResponsesReads
<1>5. /\ up.item.type # "web_search_call" => batch = <<BlockStop(Latest)>>
      /\ up.item.type = "web_search_call" =>
           batch = <<BlockStart(Latest, Part("server_tool_use", up.item.call, frag)),
                     BlockStop(Latest),
                     BlockStart(Results, Part("web_search_tool_result", up.item.call, frag)),
                     BlockStop(Results)>>
  <2> HIDE DEF frag
  <2> QED
    BY ResponsesDecodesDone DEF Results
<1> HIDE DEF found, n, frag, piece, pieces, batch
<1>6. /\ up'.phase = "speaking" /\ up'.item = ResponsesUp!NoItem /\ up'.items = up.items
      /\ up'.suppressed = up.suppressed /\ up'.remap = up.remap /\ up'.next = up.next
      /\ up'.batch = batch /\ up.batch = <<>>
  BY <1>4 DEF ResponsesPut, ResponsesState
<1>7. ResponsesInside \/ ResponsesSkipping \/ ResponsesSearching
  BY <1>1, <1>6, ResponsesReadsAt DEF ResponsesBetween
<1>8. Latest' = Latest /\ IsMapped' = IsMapped /\ Results' = Results
  BY <1>6 DEF Latest, IsMapped, Results
<1>9. ResponsesStage'
  <2>1. CASE ResponsesInside \/ ResponsesSkipping
    <3>1. up.item.type # "web_search_call"
      BY <2>1 DEF ResponsesInside, ResponsesSkipping, BlockTypes
    <3>2. ResponsesDone'
      BY <1>5, <1>6, <1>8, <2>1, <3>1 DEF ResponsesDone, ResponsesInside, ResponsesSkipping
    <3> QED
      BY <3>2 DEF ResponsesStage
  <2>2. CASE ResponsesSearching
    <3>1. up.item.type = "web_search_call" /\ up.item.call \in Calls
      BY <2>2 DEF ResponsesSearching, ResponsesOK, ResponsesFeed, ResponsesTyped, ResponsesItem
    <3>2. ResponsesSearch'
      BY <1>3, <1>5, <1>6, <1>8, <2>2, <3>1 DEF ResponsesSearch, ResponsesSearching
    <3> QED
      BY <3>2 DEF ResponsesStage
  <2> QED
    BY <1>7, <2>1, <2>2
<1>10. SaidOK' /\ EndedWell' /\ ResponsesSaid'
  <2>1. /\ said'.pieces = pieces /\ said'.reason = said.reason /\ said'.usage = said.usage
        /\ said'.end = said.end
        /\ said' = [pieces |-> said'.pieces, calls |-> said'.calls, reason |-> said'.reason,
                    usage |-> said'.usage, end |-> said'.end]
    BY <1>2 DEF AnswerOf
  <2>2. up.phase = "speaking"
    BY <1>1
  <2> QED
    BY <1>3, <1>6, <2>1, <2>2 DEF ResponsesOK, ResponsesFeed, ResponsesSaid, SaidOK, EndedWell,
                                  SilentOnReason
<1>11. Quiet
  <2>1. ~ItemOpen'
    BY <1>6 DEF ItemOpen, BlockTypes, ResponsesUp!NoItem
  <2>2. said'.usage = said.usage
    BY <1>2 DEF AnswerOf
  <2> QED
    BY <1>1, <1>4, <2>1, <2>2, ResponsesTalks DEF ResponsesOK
<1>12. ResponsesOK'
  <2>1. /\ ResponsesUp!NoItem \in [type : BlockTypes \cup {"unknown", "web_search_call", "none"},
                                   call : CallIds]
        /\ ResponsesItem(ResponsesUp!NoItem)
    BY Values DEF ResponsesUp!NoItem, ResponsesItem
  <2>2. up.items \in 0..MaxBlocks
    BY DEF ResponsesOK, ResponsesFeed, ResponsesTyped
  <2> QED
    BY <1>4, <1>9, <1>10, <2>1, <2>2, ResponsesReadOK
<1> QED
  BY <1>11, <1>12

\* The answer is over, for the reason that the provider gives.
LEMMA ResponsesCompleted ==
  ASSUME ResponsesOK, ResponsesUp!Completed, upstream' = upstream
  PROVE  ResponsesOK' /\ Quiet
<1>1. PICK reason \in Reasons \cap {"end_turn", "max_tokens"} :
        /\ ResponsesUp!Reads(
             ResponsesUp!ResponseSSE(IF reason = "max_tokens" THEN "response.incomplete"
                                     ELSE "response.completed", reason, Total),
             [up EXCEPT !.phase = "ended"])
        /\ said' = [said EXCEPT !.reason = reason, !.usage = Total, !.end = "clean"]
  BY Zenon DEF ResponsesUp!Completed, Total
<1>2. up.phase = "speaking" /\ up.item = ResponsesUp!NoItem
  BY DEF ResponsesUp!Completed
<1>3. ResponsesPut("ended", up.item, up.items, <<StopEvent(reason, Total)>>)
  <2> DEFINE sse == ResponsesUp!ResponseSSE(IF reason = "max_tokens" THEN "response.incomplete"
                                            ELSE "response.completed", reason, Total)
  <2>1. ResponsesUp!DecodeOpenAIResponsesStreamEvent(sse) = <<StopEvent(reason, Total)>>
    <3> HIDE DEF Total
    <3> QED
      BY ResponsesDecodes
  <2>2. ResponsesUp!Reads(sse, [up EXCEPT !.phase = "ended"])
    BY <1>1
  <2> HIDE DEF sse
  <2>3. [up EXCEPT !.phase = "ended"]
          = ResponsesState("ended", up.item, up.items, up.suppressed, up.remap, up.next, up.batch)
    BY ResponsesRecords DEF ResponsesState
  <2> QED
    BY <2>1, <2>2, <2>3, ResponsesReads
<1>4. said' = AnswerOf(said.pieces, said.calls, reason, Total, "clean")
  BY <1>1, ResponsesRecords DEF AnswerOf
<1>5. /\ up'.phase = "ended" /\ up'.item = up.item
      /\ up'.batch = <<StopEvent(reason, Total)>>
  BY <1>3 DEF ResponsesPut, ResponsesState
<1>6. /\ said'.pieces = said.pieces /\ said'.reason = reason /\ said'.usage = Total
      /\ said'.end = "clean"
  BY <1>4 DEF AnswerOf
<1>7. reason \in Reasons /\ reason # "none" /\ reason \in StopReasons
  BY <1>1, ContentAssumption DEF StopReasons
<1>8. ResponsesStage'
  <2>1. ResponsesLast'
    BY <1>5, <1>6 DEF ResponsesLast
  <2> QED
    BY <2>1 DEF ResponsesStage
<1>9. SaidOK' /\ EndedWell' /\ ResponsesSaid'
  <2>1. said' = [pieces |-> said'.pieces, calls |-> said'.calls, reason |-> said'.reason,
                 usage |-> said'.usage, end |-> said'.end]
    BY <1>4 DEF AnswerOf
  <2>2. Total \in Counts
    BY DEF Total, Counts
  <2> QED
    BY <1>5, <1>6, <1>7, <2>1, <2>2 DEF ResponsesOK, ResponsesSaid, SaidOK, EndedWell
<1>10. Quiet
  <2>1. ~ItemOpen'
    BY <1>2, <1>5 DEF ItemOpen, BlockTypes, ResponsesUp!NoItem
  <2>2. said'.usage # NoUsage
    BY <1>6 DEF Total
  <2> DEFINE batch == <<StopEvent(reason, Total)>>
  <2>3. Len(batch) = 1 /\ batch = <<batch[1]>> /\ batch[1].reason # "none"
    BY <1>7
  <2>4. ResponsesPut("ended", up.item, up.items, batch)
    BY <1>3
  <2> HIDE DEF batch
  <2> QED
    BY <1>2, <2>1, <2>2, <2>3, <2>4, ResponsesTalks DEF ResponsesOK
<1>11. ResponsesOK'
  <2> DEFINE batch == <<StopEvent(reason, Total)>>
  <2>1. ResponsesPut("ended", up.item, up.items, batch)
    BY <1>3
  <2> HIDE DEF batch
  <2> QED
    BY <1>8, <1>9, <2>1, ResponsesReadOK DEF ResponsesOK, ResponsesFeed, ResponsesTyped
<1> QED
  BY <1>10, <1>11

\* The provider fails, or what it sends cannot be read.
LEMMA ResponsesFails ==
  ASSUME ResponsesOK, ResponsesUp!Fails, upstream' = upstream
  PROVE  ResponsesOK' /\ Quiet
<1>1. PICK type \in {"response.failed", "garbage"} :
        ResponsesUp!Reads(ResponsesUp!ResponseSSE(type, "none", NoUsage),
                          [up EXCEPT !.phase = "ended"])
  BY Zenon DEF ResponsesUp!Fails
<1>2. /\ up.phase \in {"silent", "speaking"}
      /\ said' = [said EXCEPT !.end = "error"]
  BY DEF ResponsesUp!Fails
<1>3. PICK ev \in {ErrorEvent(NoUsage), ErrResult} :
        ResponsesPut("ended", up.item, up.items, <<ev>>)
  <2> DEFINE sse == ResponsesUp!ResponseSSE(type, "none", NoUsage)
  <2>1. PICK ev \in {ErrorEvent(NoUsage), ErrResult} :
          ResponsesUp!DecodeOpenAIResponsesStreamEvent(sse) = <<ev>>
    BY ResponsesDecodes
  <2>2. ResponsesUp!Reads(sse, [up EXCEPT !.phase = "ended"])
    BY <1>1
  <2> HIDE DEF sse
  <2>3. [up EXCEPT !.phase = "ended"]
          = ResponsesState("ended", up.item, up.items, up.suppressed, up.remap, up.next, up.batch)
    BY ResponsesRecords DEF ResponsesState
  <2>4. ResponsesPut("ended", up.item, up.items, <<ev>>)
    BY <2>1, <2>2, <2>3, ResponsesReads
  <2> QED
    BY <2>4
<1>4. said' = AnswerOf(said.pieces, said.calls, said.reason, said.usage, "error")
  BY <1>2, ResponsesRecords DEF AnswerOf
<1>5. up'.phase = "ended" /\ up'.item = up.item /\ up'.remap = up.remap /\ up'.items = up.items
        /\ up'.batch = <<ev>>
  BY <1>3 DEF ResponsesPut, ResponsesState
<1>6. /\ said'.pieces = said.pieces /\ said'.reason = said.reason /\ said'.usage = said.usage
      /\ said'.end = "error"
  BY <1>4 DEF AnswerOf
<1>7. said.reason = "none"
  BY <1>2 DEF ResponsesOK, ResponsesFeed, ResponsesSaid, SilentOnReason
<1>8. ResponsesStage'
  <2>1. ResponsesLast'
    BY <1>5, <1>6 DEF ResponsesLast
  <2> QED
    BY <2>1 DEF ResponsesStage
<1>9. SaidOK' /\ EndedWell' /\ ResponsesSaid'
  <2>1. said' = [pieces |-> said'.pieces, calls |-> said'.calls, reason |-> said'.reason,
                 usage |-> said'.usage, end |-> said'.end]
    BY <1>4 DEF AnswerOf
  <2> QED
    BY <1>5, <1>6, <1>7, <2>1 DEF ResponsesOK, ResponsesSaid, SaidOK, EndedWell
<1>10. Quiet
  <2>1. ItemOpen' => ItemOpen
    BY <1>5 DEF ItemOpen, IsMapped, Latest
  <2> DEFINE batch == <<ev>>
  <2>2. Len(batch) = 1 /\ batch = <<batch[1]>> /\ ResponsesPut("ended", up.item, up.items, batch)
    BY <1>3
  <2> HIDE DEF batch
  <2> QED
    BY <1>2, <1>6, <1>7, <2>1, <2>2, ResponsesTalks DEF ResponsesOK
<1>11. ResponsesOK'
  <2> DEFINE batch == <<ev>>
  <2>1. ResponsesPut("ended", up.item, up.items, batch)
    BY <1>3
  <2> HIDE DEF batch
  <2> QED
    BY <1>8, <1>9, <2>1, ResponsesReadOK DEF ResponsesOK, ResponsesFeed, ResponsesTyped
<1> QED
  BY <1>10, <1>11

\* The reader closes the channel, also without a stop.
LEMMA ResponsesClose ==
  ASSUME ResponsesOK, ResponsesUp!Close, upstream' = upstream
  PROVE  ResponsesOK' /\ Quiet
<1>1. /\ up.phase # "closed" /\ queue = <<>> /\ queue' = <<>> /\ up.batch = <<>>
      /\ up' = [up EXCEPT !.phase = "closed", !.item = ResponsesUp!NoItem]
      /\ said' = [said EXCEPT !.end = IF @ = "none" THEN "cut" ELSE @]
  BY Zenon DEF ResponsesUp!Close
<1> DEFINE end == IF said.end = "none" THEN "cut" ELSE said.end
<1>2. said' = AnswerOf(said.pieces, said.calls, said.reason, said.usage, end)
  BY <1>1, ResponsesRecords DEF AnswerOf
<1>3. up' = ResponsesState("closed", ResponsesUp!NoItem, up.items, up.suppressed, up.remap,
                           up.next, <<>>)
  BY <1>1, ResponsesRecords DEF ResponsesState
<1>4. /\ said'.pieces = said.pieces /\ said'.calls = said.calls /\ said'.reason = said.reason
      /\ said'.usage = said.usage /\ said'.end = end
      /\ said' = [pieces |-> said'.pieces, calls |-> said'.calls, reason |-> said'.reason,
                  usage |-> said'.usage, end |-> said'.end]
  BY <1>2 DEF AnswerOf
<1>5. /\ up'.phase = "closed" /\ up'.item = ResponsesUp!NoItem /\ up'.items = up.items
      /\ up'.suppressed = up.suppressed /\ up'.remap = up.remap /\ up'.next = up.next
      /\ up'.batch = <<>>
      /\ up' = [phase |-> up'.phase, item |-> up'.item, items |-> up'.items,
                suppressed |-> up'.suppressed, remap |-> up'.remap, next |-> up'.next,
                batch |-> up'.batch]
  BY <1>3 DEF ResponsesState
<1>6. up.phase = "ended" => ResponsesOver
  BY <1>1 DEF ResponsesOK, ResponsesFeed, ResponsesStage, ResponsesSilent, ResponsesBetween,
     ResponsesInside, ResponsesSkipping, ResponsesSearching, ResponsesStart, ResponsesAdded,
     ResponsesDelta, ResponsesDone, ResponsesSearch, ResponsesLast, ResponsesOver
<1>7. up.phase \in {"silent", "speaking", "ended"}
  BY <1>1 DEF ResponsesOK, ResponsesFeed, ResponsesStage, ResponsesSilent, ResponsesBetween,
     ResponsesInside, ResponsesSkipping, ResponsesSearching, ResponsesStart, ResponsesAdded,
     ResponsesDelta, ResponsesDone, ResponsesSearch, ResponsesLast, ResponsesOver
<1>8. /\ up.phase \in {"silent", "speaking"} => end = "cut"
      /\ up.phase = "ended" => end = said.end /\ end # "none" /\ end # "cut"
  BY <1>7 DEF ResponsesOK, ResponsesFeed, ResponsesSaid, SilentOnReason, SaidOK
<1>9. ResponsesSaid'
  BY <1>4, <1>5, <1>7, <1>8 DEF ResponsesOK, ResponsesFeed, ResponsesSaid, SilentOnReason
<1>10. SaidOK'
  BY <1>4, <1>5, <1>7, <1>8 DEF ResponsesOK, SaidOK
<1>11. EndedWell'
  BY <1>4, <1>5, <1>7, <1>8 DEF ResponsesOK, EndedWell
<1>12. ResponsesTyped'
  <2>1. /\ ResponsesUp!NoItem \in [type : BlockTypes \cup {"unknown", "web_search_call", "none"},
                                   call : CallIds]
        /\ ResponsesItem(ResponsesUp!NoItem)
    BY Values DEF ResponsesUp!NoItem, ResponsesItem
  <2>2. ResponsesIndices'
    BY <1>5 DEF ResponsesOK, ResponsesFeed, ResponsesTyped, ResponsesIndices, Latest, Results
  <2> QED
    BY <1>5, <2>1, <2>2 DEF ResponsesOK, ResponsesFeed, ResponsesTyped, ResponsesItem
<1>13. ResponsesStage'
  BY <1>5 DEF ResponsesStage, ResponsesOver
<1>14. ResponsesFeed'
  BY <1>1, <1>9, <1>12, <1>13 DEF ResponsesFeed
<1>15. Quiet
  <2>1. ~Starting /\ ~Starting' /\ ~ItemOpen'
    BY <1>1, <1>5 DEF Starting, ItemOpen, BlockTypes, ResponsesUp!NoItem
  <2>2. ASSUME NEW i \in Indices
        PROVE  /\ MayCome(i)' => MayCome(i)
               /\ MayBegin(i)' => MayBegin(i)
               /\ ~MayGoOn(i)'
    <3>1. upstream = "responses" /\ upstream' = "responses" /\ up'.next = up.next
      BY <1>5 DEF ResponsesOK
    <3>2. up'.item.type # "function_call"
      BY <1>5 DEF ResponsesUp!NoItem
    <3> QED
      BY <2>1, <3>1, <3>2 DEF MayCome, MayBegin, MayGoOn
  <2>3. HeardReason' = said'.reason
    BY <1>1, <1>5 DEF HeardReason
  <2>4. HeardReason = IF up.phase = "ended" THEN said.reason ELSE "none"
    BY <1>1, <1>7 DEF HeardReason
  <2>5. up.phase # "ended" => said.reason = "none"
    BY <1>7 DEF ResponsesOK, ResponsesFeed, ResponsesSaid, SilentOnReason
  <2>6. Over <=> up.phase = "ended"
    BY <1>1, <1>7 DEF Over
  <2>7. Over' /\ ~StartAwaited'
    BY <1>1, <1>5 DEF Over, StartAwaited, ResponsesOK
  <2>8. Over => said' = said
    <3>1. said = AnswerOf(said.pieces, said.calls, said.reason, said.usage, said.end)
      BY ResponsesRecords
    <3> QED
      BY <1>2, <1>8, <2>6, <3>1
  <2>9. upstream = "responses"
    BY DEF ResponsesOK
  <2> QED
    BY <1>4, <1>7, <1>8, <2>2, <2>3, <2>4, <2>5, <2>6, <2>7, <2>8, <2>9 DEF Quiet
<1> QED
  BY <1>9, <1>10, <1>11, <1>14, <1>15 DEF ResponsesOK

-----------------------------------------------------------------------------
(* The reader of a Responses provider sends what it has decoded.           *)

\* What is left after an event: what is suppressed, the index that the event is
\* given, the next index, and what remains to be sent.
LEMMA ResponsesSends ==
  ASSUME ResponsesOK, ResponsesUp!Send, NEW ev, NEW rest, NEW suppressed, NEW index, NEW next,
         Head(up.batch) = ev, Tail(up.batch) = rest,
         suppressed = CASE ResponsesUp!IsIgnored(ev) -> up.suppressed \cup {ev.index}
                        [] ev.type = "content_block_stop" -> up.suppressed \ {ev.index}
                        [] OTHER -> up.suppressed,
         index = IF ResponsesUp!IsIndexed(ev) /\ ResponsesUp!Passes(ev)
                 THEN ResponsesUp!Mapped(ev.index) ELSE up.remap[ev.index],
         next = IF ResponsesUp!IsIndexed(ev) /\ ResponsesUp!Passes(ev)
                     /\ up.remap[ev.index] = -1
                THEN up.next + 1 ELSE up.next
  PROVE  up' = ResponsesState(up.phase, up.item, up.items, suppressed,
                              [up.remap EXCEPT ![ev.index] = index], next, rest)
<1>1. up' = [up EXCEPT !.batch = rest, !.suppressed = suppressed, !.remap[ev.index] = index,
                       !.next = next]
  BY DEF ResponsesUp!Send
<1> DEFINE remap == [up.remap EXCEPT ![ev.index] = index]
<1>2. up' = [up EXCEPT !.batch = rest, !.suppressed = suppressed, !.remap = remap, !.next = next]
  BY <1>1, ResponsesRecords DEF ResponsesState
<1> HIDE DEF remap
<1>3. up' = ResponsesState(up.phase, up.item, up.items, suppressed, remap, next, rest)
  BY <1>2, ResponsesRecords DEF ResponsesState
<1> QED
  BY <1>3 DEF remap

\* What is sent, of an event that bears no index; of one whose index is
\* suppressed; of one whose index is new; and of one whose index is known.
LEMMA ResponsesSendsPlain ==
  ASSUME ResponsesOK, ResponsesUp!Send, NEW ev, NEW rest,
         Head(up.batch) = ev, Tail(up.batch) = rest,
         ev.type \in {"start", "stop", "error", "err"}, ev.index = 0
  PROVE  /\ queue' = <<ev>>
         /\ up' = ResponsesState(up.phase, up.item, up.items, up.suppressed, up.remap, up.next,
                                 rest)
<1>1. queue' = <<ev>>
  BY DEF ResponsesUp!Send, ResponsesUp!Passes, ResponsesUp!IsIgnored, ResponsesUp!IsIndexed
<1> DEFINE suppressed == CASE ResponsesUp!IsIgnored(ev) -> up.suppressed \cup {ev.index}
                           [] ev.type = "content_block_stop" -> up.suppressed \ {ev.index}
                           [] OTHER -> up.suppressed
           given == IF ResponsesUp!IsIndexed(ev) /\ ResponsesUp!Passes(ev)
                    THEN ResponsesUp!Mapped(ev.index) ELSE up.remap[ev.index]
           next == IF ResponsesUp!IsIndexed(ev) /\ ResponsesUp!Passes(ev) /\ up.remap[ev.index] = -1
                   THEN up.next + 1 ELSE up.next
<1>2. /\ ev.index = 0 /\ suppressed = up.suppressed
      /\ given = up.remap[0] /\ next = up.next
  BY DEF ResponsesUp!Passes, ResponsesUp!IsIgnored, ResponsesUp!IsIndexed,
         ResponsesUp!Mapped
<1>3. up' = ResponsesState(up.phase, up.item, up.items, suppressed,
                           [up.remap EXCEPT ![ev.index] = given], next, rest)
  <2> HIDE DEF suppressed, given, next
  <2> QED
    BY ResponsesSends DEF suppressed, given, next
<1>4. [up.remap EXCEPT ![0] = up.remap[0]] = up.remap
  <2>1. up.remap \in [ResponsesUp!OutputIndices -> -1..2 * MaxBlocks - 1]
    BY DEF ResponsesOK, ResponsesFeed, ResponsesTyped
  <2> QED
    BY <2>1, ResponsesOutputs
<1> HIDE DEF suppressed, given, next
<1> QED
  BY <1>1, <1>2, <1>3, <1>4

\* A block without a kind is not sent: its index is suppressed.
LEMMA ResponsesSendsIgnored ==
  ASSUME ResponsesOK, ResponsesUp!Send, NEW rest, NEW index \in ResponsesUp!OutputIndices,
         Head(up.batch) = BlockStart(index, NoPart), Tail(up.batch) = rest
  PROVE  /\ queue' = <<>>
         /\ up' = ResponsesState(up.phase, up.item, up.items, up.suppressed \cup {index}, up.remap,
                                 up.next, rest)
<1>1. queue' = <<>>
  BY DEF ResponsesUp!Send, ResponsesUp!Passes, ResponsesUp!IsIgnored, ResponsesUp!IsIndexed
<1> DEFINE ev == BlockStart(index, NoPart)
           suppressed == CASE ResponsesUp!IsIgnored(ev) -> up.suppressed \cup {ev.index}
                           [] ev.type = "content_block_stop" -> up.suppressed \ {ev.index}
                           [] OTHER -> up.suppressed
           given == IF ResponsesUp!IsIndexed(ev) /\ ResponsesUp!Passes(ev)
                    THEN ResponsesUp!Mapped(ev.index) ELSE up.remap[ev.index]
           next == IF ResponsesUp!IsIndexed(ev) /\ ResponsesUp!Passes(ev) /\ up.remap[ev.index] = -1
                   THEN up.next + 1 ELSE up.next
<1>2. /\ ev.index = index /\ suppressed = up.suppressed \cup {index}
      /\ given = up.remap[index] /\ next = up.next
  BY DEF ResponsesUp!Passes, ResponsesUp!IsIgnored, ResponsesUp!IsIndexed,
         ResponsesUp!Mapped
<1>3. up' = ResponsesState(up.phase, up.item, up.items, suppressed,
                           [up.remap EXCEPT ![ev.index] = given], next, rest)
  <2> HIDE DEF ev, suppressed, given, next
  <2> QED
    BY ResponsesSends DEF ev, suppressed, given, next
<1>4. [up.remap EXCEPT ![index] = up.remap[index]] = up.remap
  <2>1. up.remap \in [ResponsesUp!OutputIndices -> -1..2 * MaxBlocks - 1]
    BY DEF ResponsesOK, ResponsesFeed, ResponsesTyped
  <2> QED
    BY <2>1, ResponsesOutputs
<1> HIDE DEF ev, suppressed, given, next
<1> QED
  BY <1>1, <1>2, <1>3, <1>4

\* Nor is its stop: the index is not suppressed any more.
LEMMA ResponsesSendsSuppressed ==
  ASSUME ResponsesOK, ResponsesUp!Send, NEW rest, NEW index \in ResponsesUp!OutputIndices,
         Head(up.batch) = BlockStop(index), Tail(up.batch) = rest, index \in up.suppressed
  PROVE  /\ queue' = <<>>
         /\ up' = ResponsesState(up.phase, up.item, up.items, up.suppressed \ {index}, up.remap,
                                 up.next, rest)
<1>1. queue' = <<>>
  BY DEF ResponsesUp!Send, ResponsesUp!Passes, ResponsesUp!IsIgnored, ResponsesUp!IsIndexed
<1> DEFINE ev == BlockStop(index)
           suppressed == CASE ResponsesUp!IsIgnored(ev) -> up.suppressed \cup {ev.index}
                           [] ev.type = "content_block_stop" -> up.suppressed \ {ev.index}
                           [] OTHER -> up.suppressed
           given == IF ResponsesUp!IsIndexed(ev) /\ ResponsesUp!Passes(ev)
                    THEN ResponsesUp!Mapped(ev.index) ELSE up.remap[ev.index]
           next == IF ResponsesUp!IsIndexed(ev) /\ ResponsesUp!Passes(ev) /\ up.remap[ev.index] = -1
                   THEN up.next + 1 ELSE up.next
<1>2. /\ ev.index = index /\ suppressed = up.suppressed \ {index}
      /\ given = up.remap[index] /\ next = up.next
  BY DEF ResponsesUp!Passes, ResponsesUp!IsIgnored, ResponsesUp!IsIndexed,
         ResponsesUp!Mapped
<1>3. up' = ResponsesState(up.phase, up.item, up.items, suppressed,
                           [up.remap EXCEPT ![ev.index] = given], next, rest)
  <2> HIDE DEF ev, suppressed, given, next
  <2> QED
    BY ResponsesSends DEF ev, suppressed, given, next
<1>4. [up.remap EXCEPT ![index] = up.remap[index]] = up.remap
  <2>1. up.remap \in [ResponsesUp!OutputIndices -> -1..2 * MaxBlocks - 1]
    BY DEF ResponsesOK, ResponsesFeed, ResponsesTyped
  <2> QED
    BY <2>1, ResponsesOutputs
<1> HIDE DEF ev, suppressed, given, next
<1> QED
  BY <1>1, <1>2, <1>3, <1>4

\* A block that is new is given the next index.
LEMMA ResponsesSendsNew ==
  ASSUME ResponsesOK, ResponsesUp!Send, NEW rest, NEW index \in ResponsesUp!OutputIndices,
         NEW part, part # NoPart,
         Head(up.batch) = BlockStart(index, part), Tail(up.batch) = rest,
         up.suppressed = {}, up.remap[index] = -1
  PROVE  /\ queue' = <<BlockStart(up.next, part)>>
         /\ up' = ResponsesState(up.phase, up.item, up.items, {},
                                 [up.remap EXCEPT ![index] = up.next], up.next + 1, rest)
<1>1. queue' = <<BlockStart(up.next, part)>>
  BY DEF ResponsesUp!Send, ResponsesUp!Passes, ResponsesUp!IsIgnored, ResponsesUp!IsIndexed,
         ResponsesUp!Mapped
<1> DEFINE ev == BlockStart(index, part)
           suppressed == CASE ResponsesUp!IsIgnored(ev) -> up.suppressed \cup {ev.index}
                           [] ev.type = "content_block_stop" -> up.suppressed \ {ev.index}
                           [] OTHER -> up.suppressed
           given == IF ResponsesUp!IsIndexed(ev) /\ ResponsesUp!Passes(ev)
                    THEN ResponsesUp!Mapped(ev.index) ELSE up.remap[ev.index]
           next == IF ResponsesUp!IsIndexed(ev) /\ ResponsesUp!Passes(ev) /\ up.remap[ev.index] = -1
                   THEN up.next + 1 ELSE up.next
<1>2. /\ ev.index = index /\ suppressed = {}
      /\ given = up.next /\ next = up.next + 1
  BY DEF ResponsesUp!Passes, ResponsesUp!IsIgnored, ResponsesUp!IsIndexed,
         ResponsesUp!Mapped
<1>3. up' = ResponsesState(up.phase, up.item, up.items, suppressed,
                           [up.remap EXCEPT ![ev.index] = given], next, rest)
  <2> HIDE DEF ev, suppressed, given, next
  <2> QED
    BY ResponsesSends DEF ev, suppressed, given, next
<1> HIDE DEF ev, suppressed, given, next
<1> QED
  BY <1>1, <1>2, <1>3

\* A delta or a stop bears the index that its block was given.
LEMMA ResponsesSendsMapped ==
  ASSUME ResponsesOK, ResponsesUp!Send, NEW ev, NEW rest, NEW index \in ResponsesUp!OutputIndices,
         Head(up.batch) = ev, Tail(up.batch) = rest,
         ev = BlockStop(index) \/ \E part : ev = Delta(index, part),
         up.suppressed = {}, up.remap[index] # -1
  PROVE  /\ queue' = <<[ev EXCEPT !.index = up.remap[index]]>>
         /\ up' = ResponsesState(up.phase, up.item, up.items, {}, up.remap, up.next, rest)
<1>1. queue' = <<[ev EXCEPT !.index = up.remap[index]]>>
  BY DEF ResponsesUp!Send, ResponsesUp!Passes, ResponsesUp!IsIgnored, ResponsesUp!IsIndexed,
         ResponsesUp!Mapped
<1> DEFINE suppressed == CASE ResponsesUp!IsIgnored(ev) -> up.suppressed \cup {ev.index}
                           [] ev.type = "content_block_stop" -> up.suppressed \ {ev.index}
                           [] OTHER -> up.suppressed
           given == IF ResponsesUp!IsIndexed(ev) /\ ResponsesUp!Passes(ev)
                    THEN ResponsesUp!Mapped(ev.index) ELSE up.remap[ev.index]
           next == IF ResponsesUp!IsIndexed(ev) /\ ResponsesUp!Passes(ev) /\ up.remap[ev.index] = -1
                   THEN up.next + 1 ELSE up.next
<1>2. /\ ev.index = index /\ suppressed = {}
      /\ given = up.remap[index] /\ next = up.next
  BY DEF ResponsesUp!Passes, ResponsesUp!IsIgnored, ResponsesUp!IsIndexed,
         ResponsesUp!Mapped
<1>3. up' = ResponsesState(up.phase, up.item, up.items, suppressed,
                           [up.remap EXCEPT ![ev.index] = given], next, rest)
  <2> HIDE DEF suppressed, given, next
  <2> QED
    BY ResponsesSends DEF suppressed, given, next
<1>4. [up.remap EXCEPT ![index] = up.remap[index]] = up.remap
  <2>1. up.remap \in [ResponsesUp!OutputIndices -> -1..2 * MaxBlocks - 1]
    BY DEF ResponsesOK, ResponsesFeed, ResponsesTyped
  <2> QED
    BY <2>1, ResponsesOutputs
<1> HIDE DEF suppressed, given, next
<1> QED
  BY <1>1, <1>2, <1>3, <1>4

\* An index that is new leaves room for the next.
LEMMA ResponsesMaps ==
  ASSUME ResponsesOK, up.items > 0, NEW index \in {Latest, Results}, up.remap[index] = -1,
         NEW rest,
         up' = ResponsesState(up.phase, up.item, up.items, {},
                              [up.remap EXCEPT ![index] = up.next], up.next + 1, rest)
  PROVE  /\ ResponsesTyped'
         /\ Latest' = Latest /\ Results' = Results
         /\ up'.remap[index] = up.next /\ up.next \in Nat /\ up'.next = up.next + 1
         /\ \A i \in {Latest, Results} : i # index => up'.remap[i] = up.remap[i]
<1> DEFINE remap == [up.remap EXCEPT ![index] = up.next]
           next == up.next + 1
<1>1. /\ up.items \in 0..MaxBlocks /\ up.next \in Nat /\ MaxBlocks \in Nat
      /\ up.remap \in [ResponsesUp!OutputIndices -> -1..2 * MaxBlocks - 1]
      /\ ResponsesIndices
      /\ up.item \in [type : BlockTypes \cup {"unknown", "web_search_call", "none"}, call : CallIds]
      /\ ResponsesItem(up.item)
  BY BoundsAssumption DEF ResponsesOK, ResponsesFeed, ResponsesTyped
<1>2. /\ Latest \in 0..MaxBlocks - 1 /\ Latest = up.items - 1
      /\ Latest \in ResponsesUp!OutputIndices /\ Results \in ResponsesUp!OutputIndices
      /\ Results # Latest
  BY ResponsesTypes DEF Latest
<1>3. up.next <= 2 * Latest + (IF up.remap[Latest] = -1 THEN 0 ELSE 1)
                            + (IF up.remap[Results] = -1 THEN 0 ELSE 1)
  BY <1>1 DEF ResponsesIndices
<1>4. up.next <= 2 * Latest + 1 /\ up.next \in -1..2 * MaxBlocks - 1
  BY <1>1, <1>2, <1>3
<1>5. /\ remap \in [ResponsesUp!OutputIndices -> -1..2 * MaxBlocks - 1]
      /\ remap[index] = up.next
      /\ \A i \in ResponsesUp!OutputIndices : i # index => remap[i] = up.remap[i]
  BY <1>1, <1>2, <1>4
<1>6. up' = ResponsesState(up.phase, up.item, up.items, {}, remap, next, rest) /\ next = up.next + 1
  OBVIOUS
<1> HIDE DEF remap, next
<1>7. /\ up'.item = up.item /\ up'.items = up.items /\ up'.remap = remap /\ up'.next = next
      /\ up' = [phase |-> up'.phase, item |-> up'.item, items |-> up'.items,
                suppressed |-> up'.suppressed, remap |-> up'.remap, next |-> up'.next,
                batch |-> up'.batch]
  BY <1>6 DEF ResponsesState
<1>8. Latest' = Latest /\ Results' = Results
  BY <1>7 DEF Latest, Results
<1>9. ResponsesIndices'
  <2>1. \A i \in up.items..MaxBlocks - 1 :
          /\ i \in ResponsesUp!OutputIndices /\ ResponsesUp!ResultIndex(i) \in ResponsesUp!OutputIndices
          /\ i # index /\ ResponsesUp!ResultIndex(i) # index
    <3>1. TAKE i \in up.items..MaxBlocks - 1
    <3>2. i \in 0..MaxBlocks - 1 /\ i # Latest
      BY <1>1, <1>2
    <3> QED
      BY <1>2, <3>2, ResponsesOutputs DEF Results
  <2>2. \A i \in up.items..MaxBlocks - 1 :
          remap[i] = -1 /\ remap[ResponsesUp!ResultIndex(i)] = -1
    BY <1>1, <1>5, <2>1 DEF ResponsesIndices
  <2>3. remap[index] # -1
    BY <1>1, <1>5
  <2>4. next <= 2 * Latest + (IF remap[Latest] = -1 THEN 0 ELSE 1)
                           + (IF remap[Results] = -1 THEN 0 ELSE 1)
    BY <1>1, <1>2, <1>3, <1>5, <1>6, <2>3
  <2> QED
    BY <1>7, <1>8, <2>2, <2>4 DEF ResponsesIndices
<1>10. ResponsesTyped'
  BY <1>1, <1>5, <1>6, <1>7, <1>9 DEF ResponsesTyped, ResponsesItem
<1> QED
  BY <1>1, <1>2, <1>5, <1>6, <1>7, <1>8, <1>10

\* Where no index is given, nothing changes but what is left to be sent.
LEMMA ResponsesKeeps ==
  ASSUME ResponsesOK, NEW suppressed, NEW rest,
         up' = ResponsesState(up.phase, up.item, up.items, suppressed, up.remap, up.next, rest)
  PROVE  /\ ResponsesTyped'
         /\ Latest' = Latest /\ Results' = Results /\ IsMapped' = IsMapped
         /\ up'.next = up.next
<1>1. /\ up'.item = up.item /\ up'.items = up.items /\ up'.remap = up.remap /\ up'.next = up.next
      /\ up' = [phase |-> up'.phase, item |-> up'.item, items |-> up'.items,
                suppressed |-> up'.suppressed, remap |-> up'.remap, next |-> up'.next,
                batch |-> up'.batch]
  BY DEF ResponsesState
<1>2. Latest' = Latest /\ Results' = Results /\ IsMapped' = IsMapped
  BY <1>1 DEF Latest, Results, IsMapped
<1>3. ResponsesIndices'
  BY <1>1, <1>2 DEF ResponsesOK, ResponsesFeed, ResponsesTyped, ResponsesIndices
<1> QED
  BY <1>1, <1>2, <1>3 DEF ResponsesOK, ResponsesFeed, ResponsesTyped, ResponsesItem

\* Of what is sent the codec has heard nothing.
LEMMA ResponsesSendsQuietly ==
  ASSUME ResponsesOK, upstream' = upstream, queue = <<>>, up.batch # <<>>, said' = said,
         up'.phase = up.phase, up'.item = up.item,
         HeardReason' = HeardReason, ~Over',
         \/ Starting' /\ up'.next = up.next + 1
         \/ ~Starting' /\ up'.next = up.next /\ IsMapped' = IsMapped
  PROVE  Quiet
<1>1. upstream = "responses" /\ upstream' = "responses" /\ up.next \in Nat
  BY DEF ResponsesOK, ResponsesFeed, ResponsesTyped
<1>2. ~Starting /\ ~Over /\ ~StartAwaited'
  BY <1>1 DEF Starting, Over, StartAwaited
<1>3. ASSUME NEW i \in Indices
      PROVE  /\ MayCome(i)' => MayCome(i)
             /\ MayBegin(i)' => MayBegin(i)
             /\ MayGoOn(i)' => MayGoOn(i)
  <2>1. i \in Nat
    BY BoundsAssumption DEF Indices
  <2>2. CASE Starting' /\ up'.next = up.next + 1
    BY <1>1, <1>2, <2>1, <2>2 DEF MayCome, MayBegin, MayGoOn
  <2>3. CASE ~Starting' /\ up'.next = up.next /\ IsMapped' = IsMapped
    <3>1. ItemOpen' = ItemOpen
      BY <2>3 DEF ItemOpen
    <3> QED
      BY <1>1, <1>2, <2>1, <2>3, <3>1 DEF MayCome, MayBegin, MayGoOn
  <2> QED
    BY <2>2, <2>3
<1> QED
  BY <1>1, <1>2, <1>3 DEF Quiet

\* What remains to be shown of an event that is sent, or suppressed.
LEMMA ResponsesSentOK ==
  ASSUME ResponsesOK, upstream' = upstream, queue = <<>>, up.batch # <<>>, said' = said,
         up'.phase = up.phase, up'.item = up.item, up.phase = "speaking",
         ResponsesTyped', ResponsesStage',
         \/ /\ queue' = <<>> /\ up'.next = up.next /\ IsMapped' = IsMapped
         \/ \E ev : /\ queue' = <<ev>> /\ ResponsesSent(queue[1])'
                    /\ IF ev.type = "content_block_start" THEN up'.next = up.next + 1
                       ELSE up'.next = up.next /\ IsMapped' = IsMapped
  PROVE  ResponsesOK' /\ Quiet
<1>1. HeardReason' = HeardReason /\ ~Over'
  BY DEF HeardReason, Over
<1>2. SaidOK' /\ EndedWell' /\ ResponsesSaid'
  BY DEF ResponsesOK, ResponsesFeed, ResponsesSaid, SaidOK, EndedWell, SilentOnReason
<1>3. \/ queue' = <<>>
      \/ Len(queue') = 1 /\ queue' = <<queue'[1]>> /\ ResponsesSent(queue[1])'
  OBVIOUS
<1>4. \/ Starting' /\ up'.next = up.next + 1
      \/ ~Starting' /\ up'.next = up.next /\ IsMapped' = IsMapped
  BY DEF Starting
<1>5. Quiet
  BY <1>1, <1>4, ResponsesSendsQuietly
<1> QED
  BY <1>2, <1>3, <1>5 DEF ResponsesOK, ResponsesFeed

\* The start of the message, and the last event, which have no index.
LEMMA ResponsesSendsStart ==
  ASSUME ResponsesOK, ResponsesUp!Send, upstream' = upstream, ResponsesStart
  PROVE  ResponsesOK' /\ Quiet
<1> DEFINE ev == StartEvent(NoUsage, NoUsage)
<1>1. /\ up.phase = "speaking" /\ up.items = 0 /\ up.item = ResponsesUp!NoItem
      /\ up.batch = <<ev>> /\ up.suppressed = {}
  BY DEF ResponsesStart
<1>2. queue = <<>> /\ said' = said
  BY Zenon DEF ResponsesUp!Send
<1>3. /\ queue' = <<ev>>
      /\ up' = ResponsesState(up.phase, up.item, up.items, up.suppressed, up.remap, up.next, <<>>)
  <2>1. Head(up.batch) = ev /\ Tail(up.batch) = <<>>
    BY <1>1
  <2>2. ev.type \in {"start", "stop", "error", "err"} /\ ev.index = 0
    OBVIOUS
  <2> HIDE DEF ev
  <2> QED
    BY <2>1, <2>2, ResponsesSendsPlain
<1>4. /\ ResponsesTyped' /\ IsMapped' = IsMapped /\ up'.next = up.next
  BY <1>3, ResponsesKeeps
<1>5. up'.phase = "speaking" /\ up'.item = up.item /\ up'.items = 0 /\ up'.batch = <<>>
        /\ up'.suppressed = {}
  BY <1>1, <1>3 DEF ResponsesState
<1>6. ResponsesStage'
  BY <1>1, <1>5 DEF ResponsesStage, ResponsesBetween
<1>7. ResponsesSent(queue[1])'
  BY <1>3, <1>5 DEF ResponsesSent
<1>8. ev.type # "content_block_start" /\ up.batch # <<>>
  BY <1>1
<1> HIDE DEF ev
<1> QED
  BY <1>1, <1>2, <1>3, <1>4, <1>5, <1>6, <1>7, <1>8, ResponsesSentOK

\* The stop or the error is sent: what is known is kept, and the codec has heard nothing of it.
LEMMA ResponsesSendsLast ==
  ASSUME ResponsesOK, ResponsesUp!Send, upstream' = upstream, ResponsesLast
  PROVE  ResponsesOK' /\ Quiet
<1>1. up.phase = "ended"
  BY DEF ResponsesLast
<1>2. PICK ev : /\ up.batch = <<ev>>
                /\ \/ said.end = "clean" /\ ev = StopEvent(said.reason, Total)
                   \/ said.end = "error" /\ ev \in {ErrorEvent(NoUsage), ErrResult}
  BY DEF ResponsesLast
<1>3. queue = <<>> /\ said' = said
  BY Zenon DEF ResponsesUp!Send
<1>4. /\ queue' = <<ev>>
      /\ up' = ResponsesState(up.phase, up.item, up.items, up.suppressed, up.remap, up.next, <<>>)
  <2>1. Head(up.batch) = ev /\ Tail(up.batch) = <<>>
    BY <1>2
  <2>2. ev.type \in {"start", "stop", "error", "err"} /\ ev.index = 0
    BY <1>2
  <2> QED
    BY <2>1, <2>2, ResponsesSendsPlain
<1>5. ResponsesTyped' /\ IsMapped' = IsMapped /\ up'.next = up.next
  BY <1>4, ResponsesKeeps
<1>6. up'.phase = "ended" /\ up'.item = up.item /\ up'.batch = <<>>
  BY <1>1, <1>4 DEF ResponsesState
<1>7. ResponsesStage'
  BY <1>6 DEF ResponsesStage, ResponsesOver
<1>8. ResponsesSent(queue[1])'
  <2>1. queue'[1] = ev
    BY <1>4
  <2> QED
    BY <1>2, <1>3, <1>6, <2>1 DEF ResponsesSent
<1>9. SaidOK' /\ EndedWell' /\ ResponsesSaid'
  BY <1>1, <1>3, <1>6
     DEF ResponsesOK, ResponsesFeed, ResponsesSaid, SaidOK, EndedWell, SilentOnReason
<1>10. ResponsesOK'
  <2>1. Len(queue') = 1 /\ queue' = <<queue'[1]>>
    BY <1>4
  <2> QED
    BY <1>5, <1>6, <1>7, <1>8, <1>9, <2>1 DEF ResponsesOK, ResponsesFeed
<1>11. HeardReason = "none" /\ HeardReason' = "none"
  <2>1. upstream = "responses" /\ upstream' = "responses"
    BY DEF ResponsesOK
  <2>2. CASE said.end = "clean"
    <3>1. ev.reason # "none"
      <4>1. ev = StopEvent(said.reason, Total)
        BY <1>2, <2>2
      <4>2. said.reason \in Reasons
        BY <1>1, <2>2 DEF ResponsesOK, EndedWell
      <4> QED
        BY <4>1, <4>2, ContentAssumption
    <3>2. \E i \in 1..Len(up.batch) : up.batch[i].reason # "none"
      BY <1>2, <3>1
    <3>3. \E i \in 1..Len(queue') : queue'[i].reason # "none"
      BY <1>4, <3>1
    <3> QED
      BY <2>1, <3>2, <3>3 DEF HeardReason
  <2>3. CASE said.end # "clean"
    <3>1. said.reason = "none"
      BY <2>3 DEF ResponsesOK, ResponsesFeed, ResponsesSaid
    <3> QED
      BY <1>3, <3>1 DEF HeardReason
  <2> QED
    BY <2>2, <2>3
<1>12. Quiet
  <2>1. ~Over' /\ up.batch # <<>> /\ ~Starting'
    BY <1>2, <1>4 DEF Over, Starting
  <2> QED
    BY <1>1, <1>3, <1>5, <1>6, <1>11, <2>1, ResponsesSendsQuietly
<1> QED
  BY <1>10, <1>12

\* The start of an item; it is suppressed when it stands for no block.
LEMMA ResponsesSendsAdded ==
  ASSUME ResponsesOK, ResponsesUp!Send, upstream' = upstream, ResponsesAdded
  PROVE  ResponsesOK' /\ Quiet
<1>1. /\ up.phase = "speaking" /\ up.items > 0 /\ ~IsMapped /\ up.suppressed = {}
      /\ Latest \in ResponsesUp!OutputIndices
  BY ResponsesTypes DEF ResponsesAdded
<1>2. queue = <<>> /\ said' = said
  BY Zenon DEF ResponsesUp!Send
<1>3. CASE up.item.type \in BlockTypes
  <2> DEFINE part == Part(KindOfItem(up.item.type), up.item.call, 0)
  <2>1. up.batch = <<BlockStart(Latest, part)>>
    BY <1>3 DEF ResponsesAdded, BlockTypes
  <2>2. /\ KindOfItem(up.item.type) \in {"text", "thinking", "tool_use"}
        /\ KindOfItem(up.item.type) = "tool_use" <=> up.item.type = "function_call"
    BY <1>3, SMTT(20) DEF KindOfItem, BlockTypes
  <2>3. part # NoPart
    BY <2>2
  <2>4. Head(up.batch) = BlockStart(Latest, part) /\ Tail(up.batch) = <<>>
    BY <2>1
  <2>5. up.remap[Latest] = -1
    BY <1>1 DEF IsMapped
  <2> HIDE DEF part
  <2>6. /\ queue' = <<BlockStart(up.next, part)>>
        /\ up' = ResponsesState(up.phase, up.item, up.items, {},
                                [up.remap EXCEPT ![Latest] = up.next], up.next + 1, <<>>)
    BY <1>1, <2>3, <2>4, <2>5, ResponsesSendsNew
  <2>7. /\ ResponsesTyped' /\ Latest' = Latest
        /\ up'.remap[Latest] = up.next /\ up.next \in Nat /\ up'.next = up.next + 1
    BY <1>1, <2>5, <2>6, ResponsesMaps
  <2>8. /\ up'.phase = "speaking" /\ up'.item = up.item /\ up'.items = up.items
        /\ up'.batch = <<>> /\ up'.suppressed = {}
    BY <1>1, <2>6 DEF ResponsesState
  <2>9. IsMapped' /\ up'.remap[Latest'] = up'.next - 1 /\ up'.next > 0
    BY <2>7 DEF IsMapped
  <2>10. ResponsesStage'
    BY <1>1, <1>3, <2>8, <2>9 DEF ResponsesStage, ResponsesInside
  <2>11. ResponsesSent(queue[1])'
    <3>1. queue'[1] = BlockStart(up'.next - 1, Part(KindOfItem(up.item.type), up'.item.call, 0))
      BY <2>6, <2>7, <2>8 DEF part
    <3> DEFINE kind == KindOfItem(up.item.type)
    <3> HIDE DEF kind
    <3>2. /\ queue'[1] = BlockStart(up'.next - 1, Part(kind, up'.item.call, 0))
          /\ kind \in {"text", "thinking", "tool_use"}
          /\ kind = "tool_use" <=> up'.item.type = "function_call"
      BY <2>2, <2>8, <3>1 DEF kind
    <3> QED
      BY <1>3, <2>8, <2>9, <3>2 DEF ResponsesSent
  <2>12. PICK ev : ev = BlockStart(up.next, part)
    OBVIOUS
  <2>13. queue' = <<ev>> /\ ev.type = "content_block_start" /\ up.batch # <<>>
    BY <2>1, <2>6, <2>12
  <2> QED
    BY <1>1, <1>2, <2>7, <2>8, <2>10, <2>11, <2>13, ResponsesSentOK
<1>4. CASE up.item.type = "unknown"
  <2>1. Head(up.batch) = BlockStart(Latest, NoPart) /\ Tail(up.batch) = <<>> /\ up.batch # <<>>
    <3>1. up.batch = <<BlockStart(Latest, NoPart)>>
      BY <1>4 DEF ResponsesAdded, BlockTypes
    <3> QED
      BY <3>1
  <2>2. /\ queue' = <<>>
        /\ up' = ResponsesState(up.phase, up.item, up.items, up.suppressed \cup {Latest}, up.remap,
                                up.next, <<>>)
    BY <1>1, <2>1, ResponsesSendsIgnored
  <2>3. ResponsesTyped' /\ Latest' = Latest /\ IsMapped' = IsMapped /\ up'.next = up.next
    BY <2>2, ResponsesKeeps
  <2>4. /\ up'.phase = "speaking" /\ up'.item = up.item /\ up'.items = up.items
        /\ up'.batch = <<>> /\ up'.suppressed = {Latest}
    BY <1>1, <2>2 DEF ResponsesState
  <2>5. ResponsesStage'
    BY <1>1, <1>4, <2>3, <2>4 DEF ResponsesStage, ResponsesSkipping
  <2> QED
    BY <1>1, <1>2, <2>1, <2>2, <2>3, <2>4, <2>5, ResponsesSentOK
<1> QED
  BY <1>3, <1>4 DEF ResponsesAdded

\* A delta or the stop of an item that has a block.
LEMMA ResponsesSendsDelta ==
  ASSUME ResponsesOK, ResponsesUp!Send, upstream' = upstream, ResponsesDelta
  PROVE  ResponsesOK' /\ Quiet
<1>1. /\ up.phase = "speaking" /\ up.items > 0 /\ up.item.type \in BlockTypes
      /\ IsMapped /\ up.remap[Latest] = up.next - 1 /\ up.suppressed = {}
      /\ Latest \in ResponsesUp!OutputIndices
  BY ResponsesTypes DEF ResponsesDelta
<1>2. PICK kind \in PlainKinds \cup {"tool_use"}, frag \in Frags :
         /\ up.batch = <<Delta(Latest, Part(kind, NoId, frag))>>
         /\ kind = "tool_use" => up.item.type = "function_call"
  BY DEF ResponsesDelta
<1>3. queue = <<>> /\ said' = said
  BY Zenon DEF ResponsesUp!Send
<1> DEFINE part == Part(kind, NoId, frag)
           ev == Delta(Latest, part)
           sent == Delta(up.next - 1, part)
<1>4. /\ queue' = <<sent>>
      /\ up' = ResponsesState(up.phase, up.item, up.items, {}, up.remap, up.next, <<>>)
  <2>1. Head(up.batch) = ev /\ Tail(up.batch) = <<>> /\ \E p : ev = Delta(Latest, p)
    <3>1. up.batch = <<ev>>
      BY <1>2
    <3>2. \E p : ev = Delta(Latest, p)
      OBVIOUS
    <3>3. Head(up.batch) = ev /\ Tail(up.batch) = <<>>
      <4> HIDE DEF ev
      <4> QED
        BY <3>1
    <3> HIDE DEF ev
    <3> QED
      BY <3>2, <3>3
  <2>2. up.remap[Latest] # -1
    BY <1>1 DEF IsMapped
  <2>3. [ev EXCEPT !.index = up.remap[Latest]] = sent
    BY <1>1
  <2> HIDE DEF ev, sent
  <2> QED
    BY <1>1, <2>1, <2>2, <2>3, ResponsesSendsMapped
<1>5. ResponsesTyped' /\ Latest' = Latest /\ IsMapped' = IsMapped /\ up'.next = up.next
  BY <1>4, ResponsesKeeps
<1>6. /\ up'.phase = "speaking" /\ up'.item = up.item /\ up'.items = up.items
      /\ up'.batch = <<>> /\ up'.suppressed = {} /\ up'.remap = up.remap
  BY <1>1, <1>4 DEF ResponsesState
<1>7. ResponsesStage'
  BY <1>1, <1>5, <1>6 DEF ResponsesStage, ResponsesInside
<1>8. up.next > 0
  BY <1>1, ResponsesTypes DEF IsMapped
<1>9. ResponsesSent(queue[1])'
  <2>1. queue'[1] = Delta(up'.next - 1, Part(kind, NoId, frag))
    BY <1>4, <1>5
  <2> QED
    BY <1>1, <1>2, <1>5, <1>6, <1>8, <2>1 DEF ResponsesSent
<1>10. queue' = <<sent>> /\ sent.type # "content_block_start" /\ up.batch # <<>>
  BY <1>2, <1>4
<1> HIDE DEF sent
<1> QED
  BY <1>1, <1>3, <1>5, <1>6, <1>7, <1>9, <1>10, ResponsesSentOK

\* The same of a block stop, suppressed or not.
LEMMA ResponsesSendsDone ==
  ASSUME ResponsesOK, ResponsesUp!Send, upstream' = upstream, ResponsesDone
  PROVE  ResponsesOK' /\ Quiet
<1>1. /\ up.phase = "speaking" /\ up.items > 0 /\ up.item = ResponsesUp!NoItem
      /\ up.batch = <<BlockStop(Latest)>> /\ Latest \in ResponsesUp!OutputIndices
  BY ResponsesTypes DEF ResponsesDone
<1>2. queue = <<>> /\ said' = said
  BY Zenon DEF ResponsesUp!Send
<1>3. Head(up.batch) = BlockStop(Latest) /\ Tail(up.batch) = <<>> /\ up.batch # <<>>
  BY <1>1
<1>4. CASE IsMapped /\ up.remap[Latest] = up.next - 1 /\ up.suppressed = {}
  <2> DEFINE ev == BlockStop(Latest)
             sent == BlockStop(up.next - 1)
  <2>1. /\ queue' = <<sent>>
        /\ up' = ResponsesState(up.phase, up.item, up.items, {}, up.remap, up.next, <<>>)
    <3>1. ev = BlockStop(Latest) /\ Head(up.batch) = ev
      BY <1>3
    <3>2. up.remap[Latest] # -1
      BY <1>4 DEF IsMapped
    <3>3. [ev EXCEPT !.index = up.remap[Latest]] = sent
      BY <1>4
    <3> HIDE DEF ev, sent
    <3> QED
      BY <1>1, <1>3, <1>4, <3>1, <3>2, <3>3, ResponsesSendsMapped
  <2>2. ResponsesTyped' /\ IsMapped' = IsMapped /\ up'.next = up.next
    BY <2>1, ResponsesKeeps
  <2>3. /\ up'.phase = "speaking" /\ up'.item = up.item
        /\ up'.batch = <<>> /\ up'.suppressed = {}
    BY <1>1, <2>1 DEF ResponsesState
  <2>4. ResponsesStage'
    BY <1>1, <2>3 DEF ResponsesStage, ResponsesBetween
  <2>5. up.next > 0
    BY <1>4, ResponsesTypes DEF IsMapped
  <2>6. ResponsesSent(queue[1])'
    BY <1>1, <2>1, <2>2, <2>3, <2>5 DEF ResponsesSent
  <2>7. queue' = <<sent>> /\ sent.type # "content_block_start"
    BY <2>1
  <2> HIDE DEF sent
  <2> QED
    BY <1>1, <1>2, <1>3, <2>2, <2>3, <2>4, <2>6, <2>7, ResponsesSentOK
<1>5. CASE ~IsMapped /\ up.suppressed = {Latest}
  <2>1. /\ queue' = <<>>
        /\ up' = ResponsesState(up.phase, up.item, up.items, up.suppressed \ {Latest}, up.remap,
                                up.next, <<>>)
    BY <1>1, <1>3, <1>5, ResponsesSendsSuppressed
  <2>2. ResponsesTyped' /\ IsMapped' = IsMapped /\ up'.next = up.next
    BY <2>1, ResponsesKeeps
  <2>3. /\ up'.phase = "speaking" /\ up'.item = up.item
        /\ up'.batch = <<>> /\ up'.suppressed = {}
    BY <1>1, <1>5, <2>1 DEF ResponsesState
  <2>4. ResponsesStage'
    BY <1>1, <2>3 DEF ResponsesStage, ResponsesBetween
  <2> QED
    BY <1>1, <1>2, <1>3, <2>1, <2>2, <2>3, <2>4, ResponsesSentOK
<1> QED
  BY <1>4, <1>5 DEF ResponsesDone

\* A web search and its results, one block after the other.
LEMMA ResponsesSendsSearch ==
  ASSUME ResponsesOK, ResponsesUp!Send, upstream' = upstream, ResponsesSearch
  PROVE  ResponsesOK' /\ Quiet
<1>1. /\ up.phase = "speaking" /\ up.items > 0 /\ up.item = ResponsesUp!NoItem
      /\ up.suppressed = {}
      /\ Latest \in ResponsesUp!OutputIndices /\ Results \in ResponsesUp!OutputIndices
      /\ Latest # Results
      /\ up.remap[Latest] \in -1..2 * MaxBlocks - 1 /\ up.remap[Results] \in -1..2 * MaxBlocks - 1
  BY ResponsesTypes DEF ResponsesSearch
<1>2. queue = <<>> /\ said' = said
  BY Zenon DEF ResponsesUp!Send
<1>3. PICK call \in Calls, frag \in Frags :
        LET search  == BlockStart(Latest, Part("server_tool_use", call, frag))
            results == BlockStart(Results, Part("web_search_tool_result", call, frag))
        IN
        \/ /\ up.batch = <<search, BlockStop(Latest), results, BlockStop(Results)>>
           /\ ~IsMapped /\ up.remap[Results] = -1
        \/ /\ up.batch = <<BlockStop(Latest), results, BlockStop(Results)>>
           /\ IsMapped /\ up.remap[Latest] = up.next - 1 /\ up.remap[Results] = -1
        \/ /\ up.batch = <<results, BlockStop(Results)>>
           /\ up.remap[Results] = -1
        \/ /\ up.batch = <<BlockStop(Results)>>
           /\ up.remap[Results] # -1 /\ up.remap[Results] = up.next - 1
  BY DEF ResponsesSearch
<1> DEFINE search  == Part("server_tool_use", call, frag)
           results == Part("web_search_tool_result", call, frag)
           first  == BlockStart(Latest, search)
           second == BlockStop(Latest)
           third  == BlockStart(Results, results)
           fourth == BlockStop(Results)
<1>4. call \in CallIds /\ search # NoPart /\ results # NoPart
  BY Values
\* A block begins.
<1>5. ASSUME NEW kind \in {"server_tool_use", "web_search_tool_result"},
             NEW index \in {Latest, Results}, NEW rest,
             Head(up.batch) = BlockStart(index, Part(kind, call, frag)), Tail(up.batch) = rest,
             up.batch # <<>>, up.remap[index] = -1,
             up'.remap[index] = up.next /\ up'.next = up.next + 1
               /\ up'.batch = rest /\ up'.phase = up.phase /\ up'.item = up.item
               /\ up'.items = up.items /\ up'.suppressed = {}
               /\ (\A i \in {Latest, Results} : i # index => up'.remap[i] = up.remap[i])
               /\ Latest' = Latest /\ Results' = Results /\ up.next \in Nat
             => ResponsesStage'
      PROVE  ResponsesOK' /\ Quiet
  <2> DEFINE part == Part(kind, call, frag)
  <2>1. part # NoPart /\ index \in ResponsesUp!OutputIndices
    BY <1>1, <1>5
  <2>2. Head(up.batch) = BlockStart(index, part)
    BY <1>5
  <2> HIDE DEF part
  <2>3. /\ queue' = <<BlockStart(up.next, part)>>
        /\ up' = ResponsesState(up.phase, up.item, up.items, {},
                                [up.remap EXCEPT ![index] = up.next], up.next + 1, rest)
    BY <1>1, <1>5, <2>1, <2>2, ResponsesSendsNew
  <2>4. /\ ResponsesTyped' /\ Latest' = Latest /\ Results' = Results
        /\ up'.remap[index] = up.next /\ up.next \in Nat /\ up'.next = up.next + 1
        /\ \A i \in {Latest, Results} : i # index => up'.remap[i] = up.remap[i]
    BY <1>1, <1>5, <2>3, ResponsesMaps
  <2>5. /\ up'.phase = up.phase /\ up'.item = up.item /\ up'.items = up.items
        /\ up'.batch = rest /\ up'.suppressed = {}
    BY <2>3 DEF ResponsesState
  <2>6. ResponsesStage'
    BY <1>5, <2>4, <2>5
  <2>7. ResponsesSent(queue[1])'
    <3>1. queue'[1] = BlockStart(up'.next - 1, Part(kind, call, frag)) /\ up'.next > 0
      BY <2>3, <2>4 DEF part
    <3> QED
      BY <1>1, <1>4, <1>5, <2>5, <3>1 DEF ResponsesSent
  <2>8. PICK ev : ev = BlockStart(up.next, part)
    OBVIOUS
  <2>9. queue' = <<ev>> /\ ev.type = "content_block_start"
    BY <2>3, <2>8
  <2> QED
    BY <1>1, <1>2, <1>5, <2>4, <2>5, <2>6, <2>7, <2>9, ResponsesSentOK
\* A block ends.
<1>6. ASSUME NEW index \in {Latest, Results}, NEW rest,
             Head(up.batch) = BlockStop(index), Tail(up.batch) = rest, up.batch # <<>>,
             up.remap[index] # -1, up.remap[index] = up.next - 1,
             up'.next = up.next /\ up'.remap = up.remap
               /\ up'.batch = rest /\ up'.phase = up.phase /\ up'.item = up.item
               /\ up'.items = up.items /\ up'.suppressed = {}
               /\ Latest' = Latest /\ Results' = Results
             => ResponsesStage'
      PROVE  ResponsesOK' /\ Quiet
  <2> DEFINE ev == BlockStop(index)
             sent == BlockStop(up.next - 1)
  <2>1. /\ queue' = <<sent>>
        /\ up' = ResponsesState(up.phase, up.item, up.items, {}, up.remap, up.next, rest)
    <3>1. ev = BlockStop(index) /\ Head(up.batch) = ev
      BY <1>6
    <3>2. [ev EXCEPT !.index = up.remap[index]] = sent
      BY <1>6
    <3>3. index \in ResponsesUp!OutputIndices
      BY <1>1, <1>6
    <3> HIDE DEF ev, sent
    <3> QED
      BY <1>1, <1>6, <3>1, <3>2, <3>3, ResponsesSendsMapped
  <2>2. /\ ResponsesTyped' /\ Latest' = Latest /\ Results' = Results /\ IsMapped' = IsMapped
        /\ up'.next = up.next
    BY <2>1, ResponsesKeeps
  <2>3. /\ up'.phase = up.phase /\ up'.item = up.item /\ up'.items = up.items
        /\ up'.batch = rest /\ up'.suppressed = {} /\ up'.remap = up.remap
    BY <2>1 DEF ResponsesState
  <2>4. ResponsesStage'
    BY <1>6, <2>2, <2>3
  <2>5. up.next > 0
    <3>1. up.remap[index] \in -1..2 * MaxBlocks - 1
      BY <1>1, <1>6
    <3> QED
      BY <1>6, <3>1, ResponsesTypes
  <2>6. ResponsesSent(queue[1])'
    <3>1. queue'[1] = BlockStop(up'.next - 1)
      BY <2>1, <2>2
    <3> QED
      BY <1>1, <2>2, <2>3, <2>5, <3>1 DEF ResponsesSent
  <2>7. queue' = <<sent>> /\ sent.type # "content_block_start"
    BY <2>1
  <2> HIDE DEF sent
  <2> QED
    BY <1>1, <1>2, <1>6, <2>2, <2>3, <2>4, <2>6, <2>7, ResponsesSentOK
<1>7. CASE up.batch = <<first, second, third, fourth>> /\ ~IsMapped /\ up.remap[Results] = -1
  <2> DEFINE rest == <<second, third, fourth>>
  <2>1. Head(up.batch) = first /\ Tail(up.batch) = rest /\ up.batch # <<>>
    <3> HIDE DEF first, second, third, fourth
    <3> QED
      BY <1>7
  <2>2. up.remap[Latest] = -1
    BY <1>7 DEF IsMapped
  <2>3. ASSUME /\ up'.remap[Latest] = up.next /\ up'.next = up.next + 1
               /\ up'.batch = rest /\ up'.phase = up.phase /\ up'.item = up.item
               /\ up'.items = up.items /\ up'.suppressed = {}
               /\ \A i \in {Latest, Results} : i # Latest => up'.remap[i] = up.remap[i]
               /\ Latest' = Latest /\ Results' = Results /\ up.next \in Nat
        PROVE  ResponsesStage'
    <3>1. IsMapped' /\ up'.remap[Latest'] = up'.next - 1 /\ up'.remap[Results'] = -1
      BY <1>1, <1>7, <2>3 DEF IsMapped
    <3> QED
      BY <1>1, <2>3, <3>1 DEF ResponsesStage, ResponsesSearch
  <2>4. first = BlockStart(Latest, Part("server_tool_use", call, frag))
    OBVIOUS
  <2> HIDE DEF rest, first
  <2> QED
    BY <1>5, <2>1, <2>2, <2>3, <2>4
<1>8. CASE /\ up.batch = <<second, third, fourth>>
           /\ IsMapped /\ up.remap[Latest] = up.next - 1 /\ up.remap[Results] = -1
  <2> DEFINE rest == <<third, fourth>>
  <2>1. Head(up.batch) = second /\ Tail(up.batch) = rest /\ up.batch # <<>>
    <3> HIDE DEF second, third, fourth
    <3> QED
      BY <1>8
  <2>2. up.remap[Latest] # -1
    BY <1>8 DEF IsMapped
  <2>3. ASSUME /\ up'.next = up.next /\ up'.remap = up.remap
               /\ up'.batch = rest /\ up'.phase = up.phase /\ up'.item = up.item
               /\ up'.items = up.items /\ up'.suppressed = {}
               /\ Latest' = Latest /\ Results' = Results
        PROVE  ResponsesStage'
    <3>1. up'.remap[Results'] = -1
      BY <1>8, <2>3
    <3> QED
      BY <1>1, <2>3, <3>1 DEF ResponsesStage, ResponsesSearch
  <2>4. second = BlockStop(Latest)
    OBVIOUS
  <2> HIDE DEF rest, second
  <2> QED
    BY <1>6, <1>8, <2>1, <2>2, <2>3, <2>4
<1>9. CASE up.batch = <<third, fourth>> /\ up.remap[Results] = -1
  <2> DEFINE rest == <<fourth>>
  <2>1. Head(up.batch) = third /\ Tail(up.batch) = rest /\ up.batch # <<>>
    <3> HIDE DEF third, fourth
    <3> QED
      BY <1>9
  <2>2. ASSUME /\ up'.remap[Results] = up.next /\ up'.next = up.next + 1
               /\ up'.batch = rest /\ up'.phase = up.phase /\ up'.item = up.item
               /\ up'.items = up.items /\ up'.suppressed = {}
               /\ \A i \in {Latest, Results} : i # Results => up'.remap[i] = up.remap[i]
               /\ Latest' = Latest /\ Results' = Results /\ up.next \in Nat
        PROVE  ResponsesStage'
    <3>1. up'.remap[Results'] = up'.next - 1 /\ up'.remap[Results'] # -1
      BY <1>1, <2>2
    <3> QED
      BY <1>1, <2>2, <3>1 DEF ResponsesStage, ResponsesSearch
  <2>3. third = BlockStart(Results, Part("web_search_tool_result", call, frag))
    OBVIOUS
  <2> HIDE DEF rest, third
  <2> QED
    BY <1>5, <1>9, <2>1, <2>2, <2>3
<1>10. CASE up.batch = <<fourth>> /\ up.remap[Results] # -1 /\ up.remap[Results] = up.next - 1
  <2>1. Head(up.batch) = fourth /\ Tail(up.batch) = <<>> /\ up.batch # <<>>
    <3> HIDE DEF fourth
    <3> QED
      BY <1>10
  <2>2. ASSUME /\ up'.batch = <<>> /\ up'.phase = up.phase /\ up'.item = up.item
               /\ up'.suppressed = {}
        PROVE  ResponsesStage'
    BY <1>1, <2>2 DEF ResponsesStage, ResponsesBetween
  <2> HIDE DEF fourth
  <2> QED
    BY <1>6, <1>10, <2>1, <2>2 DEF fourth
<1> QED
  BY <1>3, <1>7, <1>8, <1>9, <1>10

\* The same of whatever event of the batch the reader sends.
LEMMA ResponsesSend ==
  ASSUME ResponsesOK, ResponsesUp!Send, upstream' = upstream
  PROVE  ResponsesOK' /\ Quiet
<1>1. up.batch # <<>>
  BY Zenon DEF ResponsesUp!Send
<1>2. /\ ~ResponsesSilent /\ ~ResponsesBetween /\ ~ResponsesInside /\ ~ResponsesSkipping
      /\ ~ResponsesSearching /\ ~ResponsesOver
  BY <1>1 DEF ResponsesSilent, ResponsesBetween, ResponsesInside, ResponsesSkipping,
              ResponsesSearching, ResponsesOver
<1>3. \/ ResponsesStart \/ ResponsesAdded \/ ResponsesDelta \/ ResponsesDone
      \/ ResponsesSearch \/ ResponsesLast
  BY <1>2 DEF ResponsesOK, ResponsesFeed, ResponsesStage
<1> QED
  BY <1>3, ResponsesSendsStart, ResponsesSendsAdded, ResponsesSendsDelta, ResponsesSendsDone,
     ResponsesSendsSearch, ResponsesSendsLast

\* What the codec is about to receive is admissible, and no delta of it tells a reason.
LEMMA ResponsesKnown ==
  ASSUME ResponsesOK, queue # <<>>, NEW ev, ev = Head(queue)
  PROVE  Known(ev)
<1>1. ResponsesSent(ev)
  <2>1. Len(queue) = 1 /\ queue = <<queue[1]>> /\ ResponsesSent(queue[1])
    BY DEF ResponsesOK, ResponsesFeed
  <2> QED
    BY <2>1, OneEvent
<1>2. /\ said.reason \in StopReasons /\ said.usage \in Counts
      /\ up.next > 0 => up.next - 1 \in Indices
  BY ResponsesTypes, BoundsAssumption DEF ResponsesOK, SaidOK, Indices
<1>3. ASSUME up.next > 0, NEW kind \in StartKinds, NEW id \in CallIds, NEW frag \in Nat,
             ev = BlockStart(up.next - 1, Part(kind, id, frag))
      PROVE  Known(ev)
  <2> DEFINE index == up.next - 1
  <2>0. index \in Indices /\ ev = BlockStart(index, Part(kind, id, frag))
    BY <1>2, <1>3
  <2> HIDE DEF index
  <2>1. ev \in AnthropicCodec!AnyEvent
    BY <1>3, <2>0, ContentEvent, Values
  <2>2. ev.type = "content_block_start"
    BY <2>0
  <2> QED
    BY <2>1, <2>2 DEF Known
<1>4. CASE ev = StartEvent(NoUsage, NoUsage)
  BY <1>4, BareEvent, Values DEF Known
<1>5. CASE /\ up.next > 0 /\ up.item.type \in BlockTypes
           /\ \E kind \in {"text", "thinking", "tool_use"} :
                ev = BlockStart(up.next - 1, Part(kind, up.item.call, 0))
  <2>1. up.item.call \in CallIds
    BY DEF ResponsesOK, ResponsesFeed, ResponsesTyped
  <2> QED
    BY <1>3, <1>5, <2>1
<1>6. CASE /\ up.next > 0
           /\ \E kind \in {"server_tool_use", "web_search_tool_result"}, id \in Calls, frag \in Frags :
                ev = BlockStart(up.next - 1, Part(kind, id, frag))
  BY <1>3, <1>6, Values
<1>7. CASE /\ up.next > 0
           /\ \E kind \in PlainKinds \cup {"tool_use"}, frag \in Frags :
                ev = Delta(up.next - 1, Part(kind, NoId, frag))
  <2>1. PICK kind \in PlainKinds \cup {"tool_use"}, frag \in Frags :
          ev = Delta(up.next - 1, Part(kind, NoId, frag))
    BY <1>7
  <2> DEFINE index == up.next - 1
  <2>2. /\ kind \in StartKinds /\ kind \in BlockKinds /\ frag \in Nat /\ index \in Indices
        /\ ev = Delta(index, Part(kind, NoId, frag))
    BY <1>2, <1>7, <2>1, Values DEF PlainKinds
  <2> HIDE DEF index
  <2>3. ev \in AnthropicCodec!AnyEvent
    BY <2>2, ContentEvent, Values
  <2>4. ev.part # NoPart /\ ev.reason = "none"
    BY <2>2
  <2> QED
    BY <2>3, <2>4 DEF Known
<1>8. CASE up.next > 0 /\ ev = BlockStop(up.next - 1)
  BY <1>2, <1>8, BareEvent, Values DEF Known
<1>9. CASE ev = StopEvent(said.reason, Total)
  BY <1>2, <1>9, BareEvent, Values DEF Known
<1>10. CASE ev \in {ErrorEvent(NoUsage), ErrResult}
  BY <1>10, BareEvent, Values DEF Known
<1> QED
  BY <1>1, <1>4, <1>5, <1>6, <1>7, <1>8, <1>9, <1>10 DEF ResponsesSent

\* What the codec takes from the channel.
LEMMA ResponsesPassed ==
  ASSUME ResponsesOK, NEW ev, queue # <<>>, ev = Head(queue), queue' = Tail(queue),
         UNCHANGED <<upstream, up, said>>
  PROVE  ResponsesOK' /\ Passed(ev)
<1>1. queue = <<ev>> /\ queue' = <<>> /\ ResponsesSent(ev)
  <2>1. Len(queue) = 1 /\ queue = <<queue[1]>> /\ ResponsesSent(queue[1])
    BY DEF ResponsesOK, ResponsesFeed
  <2>2. ev = queue[1] /\ queue' = <<>>
    BY <2>1, OneEvent
  <2> QED
    BY <2>1, <2>2
<1>2. ResponsesOK'
  <2>1. SaidOK' /\ EndedWell' /\ ResponsesSaid' /\ ResponsesTyped'
    BY DEF ResponsesOK, ResponsesFeed, SaidOK, EndedWell, ResponsesSaid, SilentOnReason,
           ResponsesTyped, ResponsesItem, ResponsesIndices, Latest, Results
  <2>2. ResponsesStage'
    <3>1. ResponsesStage /\ ~ResponsesSilent
      BY DEF ResponsesOK, ResponsesFeed, ResponsesSilent
    <3>2. Latest' = Latest /\ Results' = Results /\ IsMapped' = IsMapped
      BY DEF Latest, Results, IsMapped
    <3>3. /\ ResponsesBetween => ResponsesBetween'
          /\ ResponsesInside => ResponsesInside'
          /\ ResponsesSkipping => ResponsesSkipping'
          /\ ResponsesSearching => ResponsesSearching'
          /\ ResponsesOver => ResponsesOver'
          /\ ResponsesStart => ResponsesStart'
      BY <3>2 DEF ResponsesBetween, ResponsesInside, ResponsesSkipping, ResponsesSearching,
                  ResponsesOver, ResponsesStart
    <3>4. /\ ResponsesAdded => ResponsesAdded'
          /\ ResponsesDone => ResponsesDone'
          /\ ResponsesLast => ResponsesLast'
      BY <3>2 DEF ResponsesAdded, ResponsesDone, ResponsesLast
    <3>5. ResponsesDelta => ResponsesDelta'
      BY Zenon, <3>2 DEF ResponsesDelta
    <3>6. ResponsesSearch => ResponsesSearch'
      BY Zenon, <3>2 DEF ResponsesSearch
    <3> QED
      BY <3>1, <3>3, <3>4, <3>5, <3>6 DEF ResponsesStage
  <2> QED
    BY <1>1, <2>1, <2>2 DEF ResponsesOK, ResponsesFeed
<1>3. /\ upstream = "responses" /\ upstream' = "responses" /\ up' = up /\ said' = said
      /\ said.reason \in StopReasons /\ said.usage \in Counts
      /\ up.next \in Nat /\ up.next <= 2 * MaxBlocks
  BY ResponsesTypes DEF ResponsesOK, SaidOK
<1>4. ~StartAwaited'
  BY <1>3 DEF StartAwaited
<1>5. queue[1] = ev /\ ~Starting' /\ (Starting <=> ev.type = "content_block_start")
  BY <1>1 DEF Starting
<1>6. up.phase = "closed" => FALSE
  BY DEF ResponsesOK, ResponsesFeed
\* An event at the index of the block that was mapped last.
<1> DEFINE AboutBlock ==
      /\ up.phase = "speaking" /\ up.next > 0 /\ ev \in AnthropicCodec!AnyEvent
      /\ ev.index = up.next - 1 /\ ev.reason = "none" /\ ev.usage = NoUsage
      /\ ev.response = NoUsage
      /\ ev.type \in {"content_block_start", "delta", "content_block_stop"}
      /\ ev.type = "content_block_start" /\ up.item.type = "function_call" =>
           ev.part.kind = "tool_use"
      /\ ev.part.kind = "tool_use" => up.item.type = "function_call"
      /\ ev.part.kind = "tool_use" => (ev.part.id # NoId <=> ev.type = "content_block_start")
      /\ ev.part.kind \in {"text", "thinking", "refusal"} => ev.part.id = NoId
      /\ ev.part.kind \in ResponsesCodec!ItemKinds => up.item.type \in BlockTypes /\ IsMapped
      /\ ev.type = "content_block_stop" => up.item = ResponsesUp!NoItem /\ ev.part = NoPart
<1>7. ASSUME AboutBlock
      PROVE  Passed(ev)
  <2>2. EndPassed(ev)
    BY <1>1, <1>3, <1>7 DEF EndPassed, HeardReason, Over
  <2>3. UsagePassed(ev)
    BY <1>3, <1>4, <1>7, Values DEF UsagePassed
  <2>4. \A i \in Indices :
          /\ MayCome(i)' => MayCome(i) /\ ~(ev.type = "content_block_stop" /\ ev.index = i)
          /\ MayBegin(i)' => MayBegin(i) /\ (ev.part.kind = "tool_use" => ev.index # i)
          /\ MayGoOn(i)' => \/ MayGoOn(i)
                            \/ ev.part.kind = "tool_use" /\ ev.part.id # NoId /\ ev.index = i
    <3>1. TAKE i \in Indices
    <3>2. i \in Nat /\ IsMapped' = IsMapped /\ ItemOpen' = ItemOpen
      BY <1>3, BoundsAssumption DEF Indices, IsMapped, ItemOpen, Latest
    <3>3. ev.type = "content_block_stop" => ~ItemOpen
      BY <1>7 DEF ItemOpen, BlockTypes, ResponsesUp!NoItem
    <3>4. MayCome(i)' => MayCome(i) /\ ~(ev.type = "content_block_stop" /\ ev.index = i)
      BY <1>3, <1>7, <3>2, <3>3 DEF MayCome
    <3>5. MayBegin(i)' => MayBegin(i) /\ (ev.part.kind = "tool_use" => ev.index # i)
      BY <1>3, <1>5, <1>7, <3>2 DEF MayBegin
    <3>6. MayGoOn(i)' => \/ MayGoOn(i)
                         \/ ev.part.kind = "tool_use" /\ ev.part.id # NoId /\ ev.index = i
      BY <1>3, <1>5, <1>7, <3>2 DEF MayGoOn
    <3> QED
      BY <3>4, <3>5, <3>6
  <2>5. up.next - 1 \in Indices
    BY <1>3, <1>7, BoundsAssumption DEF Indices
  <2>6. /\ ev.part.kind \in ResponsesCodec!ItemKinds => MayCome(ev.index)
        /\ ev.part.kind = "tool_use" /\ ev.part.id # NoId => MayBegin(ev.index)
        /\ ev.part.kind = "tool_use" /\ ev.part.id = NoId => MayGoOn(ev.index)
    <3>1. ev.part.kind \in ResponsesCodec!ItemKinds => ItemOpen
      BY <1>7 DEF ItemOpen
    <3>2. ev.part.kind = "tool_use" => ev.part.kind \in ResponsesCodec!ItemKinds
      BY DEF ResponsesCodec!ItemKinds
    <3>3. /\ ev.part.kind \in ResponsesCodec!ItemKinds => MayCome(ev.index)
          /\ ev.part.kind = "tool_use" /\ ev.part.id # NoId => MayBegin(ev.index)
      BY <1>3, <1>5, <1>7, <3>1 DEF MayCome, MayBegin
    <3>4. ev.part.kind = "tool_use" /\ ev.part.id = NoId => MayGoOn(ev.index)
      BY <1>3, <1>5, <1>7, <3>2 DEF MayGoOn
    <3> QED
      BY <3>3, <3>4
  <2>7. BlockPassed(ev)
    BY <1>3, <1>7, <2>4, <2>6 DEF BlockPassed
  <2> QED
    BY <1>7, <2>2, <2>3, <2>7 DEF Passed
\* An event that is about no block.
<1>8. ASSUME ev.part = NoPart, ev.type \notin {"content_block_start", "content_block_stop"}
      PROVE  BlockPassed(ev)
  <2>1. ASSUME NEW i \in Indices
        PROVE  /\ MayCome(i)' => MayCome(i)
               /\ MayBegin(i)' => MayBegin(i)
               /\ MayGoOn(i)' => MayGoOn(i)
    <3>1. IsMapped' = IsMapped /\ ItemOpen' = ItemOpen
      BY <1>3 DEF IsMapped, ItemOpen, Latest
    <3> QED
      BY <1>3, <1>5, <1>8, <3>1 DEF MayCome, MayBegin, MayGoOn
  <2> QED
    BY <1>3, <1>8, <2>1 DEF BlockPassed, ResponsesCodec!ItemKinds
<1>9. CASE up.phase = "speaking" /\ up.items = 0 /\ ev = StartEvent(NoUsage, NoUsage)
  <2>1. ev \in AnthropicCodec!AnyEvent
    BY ResponsesKnown DEF Known
  <2>2. EndPassed(ev)
    BY <1>1, <1>3, <1>9 DEF EndPassed, HeardReason, Over
  <2>3. UsagePassed(ev)
    BY <1>3, <1>4, <1>9, Values DEF UsagePassed
  <2> QED
    BY <1>2, <1>8, <1>9, <2>1, <2>2, <2>3 DEF Passed
<1>10. CASE /\ up.phase = "speaking" /\ up.next > 0
            /\ \E kind \in {"text", "thinking", "tool_use"} :
                 /\ ev = BlockStart(up.next - 1, Part(kind, up.item.call, 0))
                 /\ kind = "tool_use" <=> up.item.type = "function_call"
            /\ up.item.type \in BlockTypes /\ IsMapped
  <2>1. PICK kind \in {"text", "thinking", "tool_use"} :
          /\ ev = BlockStart(up.next - 1, Part(kind, up.item.call, 0))
          /\ kind = "tool_use" <=> up.item.type = "function_call"
    BY <1>10
  <2>2. /\ kind = "tool_use" => up.item.call \in Calls
        /\ kind # "tool_use" => up.item.call = NoId
    BY <1>10, <2>1, SMTT(20) DEF ResponsesOK, ResponsesFeed, ResponsesTyped, ResponsesItem, BlockTypes
  <2>3. ev \in AnthropicCodec!AnyEvent
    BY ResponsesKnown DEF Known
  <2>4. /\ ev.type = "content_block_start" /\ ev.index = up.next - 1 /\ ev.reason = "none"
        /\ ev.usage = NoUsage /\ ev.response = NoUsage
        /\ ev.part.id = up.item.call /\ ev.part.kind = kind
    BY <2>1
  <2>5. kind = "tool_use" => up.item.call # NoId
    BY <2>2, ContentAssumption
  <2>6. /\ ev.type = "content_block_start" /\ up.item.type = "function_call" =>
             ev.part.kind = "tool_use"
        /\ ev.part.kind = "tool_use" => up.item.type = "function_call"
        /\ ev.part.kind = "tool_use" => (ev.part.id # NoId <=> ev.type = "content_block_start")
        /\ ev.part.kind \in {"text", "thinking", "refusal"} => ev.part.id = NoId
        /\ ev.part.kind \in ResponsesCodec!ItemKinds => up.item.type \in BlockTypes /\ IsMapped
        /\ ev.type = "content_block_stop" => up.item = ResponsesUp!NoItem /\ ev.part = NoPart
    BY <1>10, <2>1, <2>2, <2>4, <2>5
  <2>7. up.phase = "speaking" /\ up.next > 0
    BY <1>10
  <2>9. AboutBlock
    BY <2>3, <2>4, <2>6, <2>7
  <2> HIDE DEF AboutBlock
  <2> QED
    BY <1>2, <1>7, <2>9
<1>11. CASE /\ up.phase = "speaking" /\ up.next > 0
            /\ \E kind \in {"server_tool_use", "web_search_tool_result"}, id \in Calls, frag \in Frags :
                 ev = BlockStart(up.next - 1, Part(kind, id, frag))
            /\ up.item = ResponsesUp!NoItem
  <2>1. PICK kind \in {"server_tool_use", "web_search_tool_result"}, id \in Calls, frag \in Frags :
          ev = BlockStart(up.next - 1, Part(kind, id, frag))
    BY <1>11
  <2>2. ev \in AnthropicCodec!AnyEvent
    BY ResponsesKnown DEF Known
  <2>3. /\ ev.type = "content_block_start" /\ ev.index = up.next - 1 /\ ev.reason = "none"
        /\ ev.usage = NoUsage /\ ev.response = NoUsage
        /\ ev.part.kind \in {"server_tool_use", "web_search_tool_result"}
    BY <2>1
  <2>4. ev.part.kind \notin ResponsesCodec!ItemKinds
    BY <2>3 DEF ResponsesCodec!ItemKinds
  <2>5. up.item.type # "function_call"
    BY <1>11 DEF ResponsesUp!NoItem
  <2>6. /\ ev.type = "content_block_start" /\ up.item.type = "function_call" =>
             ev.part.kind = "tool_use"
        /\ ev.part.kind = "tool_use" => up.item.type = "function_call"
        /\ ev.part.kind = "tool_use" => (ev.part.id # NoId <=> ev.type = "content_block_start")
        /\ ev.part.kind \in {"text", "thinking", "refusal"} => ev.part.id = NoId
        /\ ev.part.kind \in ResponsesCodec!ItemKinds => up.item.type \in BlockTypes /\ IsMapped
        /\ ev.type = "content_block_stop" => up.item = ResponsesUp!NoItem /\ ev.part = NoPart
    BY <2>3, <2>4, <2>5
  <2>7. up.phase = "speaking" /\ up.next > 0
    BY <1>11
  <2>9. AboutBlock
    BY <2>2, <2>3, <2>6, <2>7
  <2> HIDE DEF AboutBlock
  <2> QED
    BY <1>2, <1>7, <2>9
<1>12. CASE /\ up.phase = "speaking" /\ up.next > 0
            /\ up.item.type \in BlockTypes /\ IsMapped
            /\ \E kind \in PlainKinds \cup {"tool_use"}, frag \in Frags :
                 /\ ev = Delta(up.next - 1, Part(kind, NoId, frag))
                 /\ kind = "tool_use" => up.item.type = "function_call"
  <2>1. PICK kind \in PlainKinds \cup {"tool_use"}, frag \in Frags :
          /\ ev = Delta(up.next - 1, Part(kind, NoId, frag))
          /\ kind = "tool_use" => up.item.type = "function_call"
    BY <1>12
  <2>2. ev \in AnthropicCodec!AnyEvent
    BY ResponsesKnown DEF Known
  <2>3. /\ ev.type = "delta" /\ ev.index = up.next - 1 /\ ev.reason = "none"
        /\ ev.usage = NoUsage /\ ev.response = NoUsage
        /\ ev.part.id = NoId /\ ev.part.kind = kind
    BY <2>1
  <2>4. /\ ev.type = "content_block_start" /\ up.item.type = "function_call" =>
             ev.part.kind = "tool_use"
        /\ ev.part.kind = "tool_use" => up.item.type = "function_call"
        /\ ev.part.kind = "tool_use" => (ev.part.id # NoId <=> ev.type = "content_block_start")
        /\ ev.part.kind \in {"text", "thinking", "refusal"} => ev.part.id = NoId
        /\ ev.part.kind \in ResponsesCodec!ItemKinds => up.item.type \in BlockTypes /\ IsMapped
        /\ ev.type = "content_block_stop" => up.item = ResponsesUp!NoItem /\ ev.part = NoPart
    BY <1>12, <2>1, <2>3
  <2>5. up.phase = "speaking" /\ up.next > 0
    BY <1>12
  <2>9. AboutBlock
    BY <2>2, <2>3, <2>4, <2>5
  <2> HIDE DEF AboutBlock
  <2> QED
    BY <1>2, <1>7, <2>9
<1>13. CASE /\ up.phase = "speaking" /\ up.next > 0 /\ up.item = ResponsesUp!NoItem
            /\ ev = BlockStop(up.next - 1)
  <2>1. ev \in AnthropicCodec!AnyEvent
    BY ResponsesKnown DEF Known
  <2>2. /\ ev.type = "content_block_stop" /\ ev.index = up.next - 1 /\ ev.reason = "none"
        /\ ev.usage = NoUsage /\ ev.response = NoUsage
        /\ ev.part = NoPart /\ ev.part.kind = "none" /\ ev.part.id = NoId
    BY <1>13
  <2>3. ev.part.kind \notin ResponsesCodec!ItemKinds
    BY <2>2 DEF ResponsesCodec!ItemKinds
  <2>4. /\ ev.type = "content_block_start" /\ up.item.type = "function_call" =>
             ev.part.kind = "tool_use"
        /\ ev.part.kind = "tool_use" => up.item.type = "function_call"
        /\ ev.part.kind = "tool_use" => (ev.part.id # NoId <=> ev.type = "content_block_start")
        /\ ev.part.kind \in {"text", "thinking", "refusal"} => ev.part.id = NoId
        /\ ev.part.kind \in ResponsesCodec!ItemKinds => up.item.type \in BlockTypes /\ IsMapped
        /\ ev.type = "content_block_stop" => up.item = ResponsesUp!NoItem /\ ev.part = NoPart
    BY <1>13, <2>2, <2>3
  <2>5. up.phase = "speaking" /\ up.next > 0
    BY <1>13
  <2>9. AboutBlock
    BY <2>1, <2>2, <2>4, <2>5
  <2> HIDE DEF AboutBlock
  <2> QED
    BY <1>2, <1>7, <2>9
<1>14. CASE up.phase = "ended" /\ up.batch = <<>> /\ said.end = "clean" /\ ev = StopEvent(said.reason, Total)
  <2>1. said.reason # "none" /\ said.reason \in StopReasons /\ said.usage = Total /\ up.batch = <<>>
    <3>1. said.reason \in Reasons /\ said.usage = Total
      BY <1>14 DEF ResponsesOK, ResponsesFeed, ResponsesSaid, EndedWell
    <3>2. up.batch = <<>>
      BY <1>1, <1>14 DEF ResponsesOK, ResponsesFeed
    <3> QED
      BY <1>3, <3>1, <3>2, ContentAssumption
  <2>2. ev \in AnthropicCodec!AnyEvent
    BY ResponsesKnown DEF Known
  <2>3. EndPassed(ev)
    BY <1>1, <1>3, <1>14, <2>1 DEF EndPassed, HeardReason, Over
  <2>4. UsagePassed(ev)
    BY <1>3, <1>4, <1>14, <2>1, Values DEF UsagePassed, Total
  <2> QED
    BY <1>2, <1>8, <1>14, <2>2, <2>3, <2>4 DEF Passed
<1>15. CASE up.phase = "ended" /\ up.batch = <<>> /\ said.end = "error" /\ ev \in {ErrorEvent(NoUsage), ErrResult}
  <2>1. said.reason = "none" /\ up.batch = <<>>
    BY <1>1, <1>15 DEF ResponsesOK, ResponsesFeed, ResponsesSaid
  <2>2. ev \in AnthropicCodec!AnyEvent
    BY ResponsesKnown DEF Known
  <2>3. EndPassed(ev)
    BY <1>1, <1>3, <1>15, <2>1 DEF EndPassed, HeardReason, Over
  <2>4. UsagePassed(ev)
    BY <1>3, <1>4, <1>15, Values DEF UsagePassed
  <2> QED
    BY <1>2, <1>8, <1>15, <2>2, <2>3, <2>4 DEF Passed
<1> QED
  BY <1>1, <1>2, <1>9, <1>10, <1>11, <1>12, <1>13, <1>14, <1>15 DEF ResponsesSent

-----------------------------------------------------------------------------
(* Whatever the upstream.                                                  *)

LEMMA FeedIsOf ==
  /\ Feed <=> /\ upstream \in Protocols /\ inbound \in Protocols
              /\ AnthropicOK \/ ChatOK \/ ResponsesOK \/ GeminiOK
  /\ Feed' <=> /\ upstream' \in Protocols /\ inbound' \in Protocols
               /\ AnthropicOK' \/ ChatOK' \/ ResponsesOK' \/ GeminiOK'
<1>1. Feed <=> /\ upstream \in Protocols /\ inbound \in Protocols
               /\ AnthropicOK \/ ChatOK \/ ResponsesOK \/ GeminiOK
  <2>1. CASE upstream = "anthropic"
    BY <2>1, SMTT(20) DEF Feed, Protocols, AnthropicOK, ChatOK, ResponsesOK, GeminiOK
  <2>2. CASE upstream = "chat"
    BY <2>2, SMTT(20) DEF Feed, Protocols, AnthropicOK, ChatOK, ResponsesOK, GeminiOK
  <2>3. CASE upstream = "responses"
    BY <2>3, SMTT(20) DEF Feed, Protocols, AnthropicOK, ChatOK, ResponsesOK, GeminiOK
  <2>4. CASE upstream = "gemini"
    BY <2>4, SMTT(20) DEF Feed, Protocols, AnthropicOK, ChatOK, ResponsesOK, GeminiOK
  <2>5. CASE upstream \notin Protocols
    BY <2>5 DEF Feed
  <2> QED
    BY <2>1, <2>2, <2>3, <2>4, <2>5 DEF Protocols
<1>2. Feed' <=> /\ upstream' \in Protocols /\ inbound' \in Protocols
                /\ AnthropicOK' \/ ChatOK' \/ ResponsesOK' \/ GeminiOK'
  <2>1. CASE upstream' = "anthropic"
    BY <2>1, SMTT(20) DEF Feed, Protocols, AnthropicOK, ChatOK, ResponsesOK, GeminiOK
  <2>2. CASE upstream' = "chat"
    BY <2>2, SMTT(20) DEF Feed, Protocols, AnthropicOK, ChatOK, ResponsesOK, GeminiOK
  <2>3. CASE upstream' = "responses"
    BY <2>3, SMTT(20) DEF Feed, Protocols, AnthropicOK, ChatOK, ResponsesOK, GeminiOK
  <2>4. CASE upstream' = "gemini"
    BY <2>4, SMTT(20) DEF Feed, Protocols, AnthropicOK, ChatOK, ResponsesOK, GeminiOK
  <2>5. CASE upstream' \notin Protocols
    BY <2>5 DEF Feed
  <2> QED
    BY <2>1, <2>2, <2>3, <2>4, <2>5 DEF Protocols
<1> QED
  BY <1>1, <1>2

\* Whatever the upstream.
LEMMA EventKnown ==
  ASSUME Feed, queue # <<>>
  PROVE  Known(Head(queue))
BY FeedIsOf, AnthropicKnown, ChatKnown, GeminiKnown, ResponsesKnown

\* At first nothing has been said.
LEMMA FeedInit == Init => Feed
<1> SUFFICES ASSUME Init PROVE Feed
  OBVIOUS
<1>1. upstream \in Protocols /\ inbound \in Protocols /\ queue = <<>> /\ said = Answer
  BY ProtocolsAssumption DEF Init
<1>2. /\ upstream = "anthropic" => up = AnthropicUp!UpInit
      /\ upstream = "chat" => up = ChatUp!UpInit
      /\ upstream = "responses" => up = ResponsesUp!UpInit
      /\ upstream = "gemini" => up = GeminiUp!UpInit
  BY SMTT(20) DEF Init
<1>3. /\ said.pieces = <<>> /\ said.calls = <<>> /\ said.reason = "none" /\ said.usage = NoUsage
      /\ said.end = "none"
      /\ said = [pieces |-> said.pieces, calls |-> said.calls, reason |-> said.reason,
                 usage |-> said.usage, end |-> said.end]
  BY <1>1 DEF Answer
<1>4. said.pieces \in Seq(Pieces) /\ Len(said.pieces) <= MaxPieces /\ said.usage \in Counts
        /\ said.calls \in Seq(Calls) /\ Len(said.calls) <= MaxBlocks
  BY <1>3, BoundsAssumption, Values
<1>5. ASSUME up.phase = "silent"
      PROVE  SaidOK /\ EndedWell /\ SilentOnReason
  BY <1>3, <1>4, <1>5, Values DEF SaidOK, EndedWell, SilentOnReason
<1>6. CASE upstream = "anthropic"
  <2>1. up = [phase |-> "silent", open |-> FALSE, block |-> NoPart, calls |-> {}, next |-> 0]
    BY <1>2, <1>6 DEF AnthropicUp!UpInit
  <2>2. up \in [phase : {"silent", "speaking", "stopping", "ended", "closed"},
               open : BOOLEAN, block : [kind : StartKinds \cup {"none"}, id : CallIds, frag : {0}],
               calls : SUBSET Calls, next : 0..MaxBlocks]
    BY <2>1, BoundsAssumption, Values
  <2>3. AnthropicFeed
    BY <1>1, <1>3, <1>5, <2>1, <2>2 DEF AnthropicFeed
  <2> QED
    BY <1>1, <1>5, <1>6, <2>1, <2>3, FeedIsOf DEF AnthropicOK
<1>7. CASE upstream = "chat"
  <2>1. up.phase = "silent" /\ up = [phase |-> up.phase, stop |-> up.stop]
    BY <1>2, <1>7 DEF ChatUp!UpInit
  <2>2. ChatFeed
    BY <1>1, <1>3, <1>4, <1>5, <2>1 DEF ChatFeed
  <2> QED
    BY <1>1, <1>5, <1>7, <2>1, <2>2, FeedIsOf DEF ChatOK
<1>8. CASE upstream = "gemini"
  <2>1. up.phase = "silent" /\ up = [phase |-> up.phase, stop |-> up.stop]
    BY <1>2, <1>8 DEF GeminiUp!UpInit
  <2>2. GeminiFeed
    BY <1>1, <1>3, <1>5, <2>1 DEF GeminiFeed
  <2> QED
    BY <1>1, <1>5, <1>8, <2>1, <2>2, FeedIsOf DEF GeminiOK
<1>9. CASE upstream = "responses"
  <2> DEFINE remap == [i \in ResponsesUp!OutputIndices |-> -1]
  <2>1. up = ResponsesState("silent", ResponsesUp!NoItem, 0, {}, remap, 0, <<>>)
    BY <1>2, <1>9 DEF ResponsesUp!UpInit, ResponsesState
  <2>2. /\ remap \in [ResponsesUp!OutputIndices -> -1..2 * MaxBlocks - 1]
        /\ \A i \in ResponsesUp!OutputIndices : remap[i] = -1
    BY BoundsAssumption
  <2> HIDE DEF remap
  <2>3. /\ up.phase = "silent" /\ up.item = ResponsesUp!NoItem /\ up.items = 0 /\ up.next = 0
        /\ up.batch = <<>> /\ up.suppressed = {} /\ up.remap = remap
        /\ up = [phase |-> up.phase, item |-> up.item, items |-> up.items,
                 suppressed |-> up.suppressed, remap |-> up.remap, next |-> up.next,
                 batch |-> up.batch]
    BY <2>1 DEF ResponsesState
  <2>4. ResponsesIndices
    <3>1. \A i \in up.items..MaxBlocks - 1 :
            up.remap[i] = -1 /\ up.remap[ResponsesUp!ResultIndex(i)] = -1
      BY <2>2, <2>3, ResponsesOutputs
    <3> QED
      BY <2>3, <3>1 DEF ResponsesIndices
  <2>5. /\ ResponsesUp!NoItem \in [type : BlockTypes \cup {"unknown", "web_search_call", "none"},
                                   call : CallIds]
        /\ ResponsesItem(ResponsesUp!NoItem)
    BY Values DEF ResponsesUp!NoItem, ResponsesItem
  <2>6. ResponsesTyped
    BY <2>2, <2>3, <2>4, <2>5, BoundsAssumption DEF ResponsesTyped, ResponsesItem
  <2>7. ResponsesSaid
    BY <1>3, <1>5, <2>3 DEF ResponsesSaid
  <2>8. ResponsesStage
    BY <1>1, <2>3 DEF ResponsesStage, ResponsesSilent
  <2> QED
    BY <1>1, <1>5, <1>9, <2>3, <2>6, <2>7, <2>8, FeedIsOf DEF ResponsesOK, ResponsesFeed
<1> QED
  BY <1>1, <1>6, <1>7, <1>8, <1>9 DEF Protocols

\* What the provider says and the reader reads the codec has heard nothing of.
LEMMA FeedUpstream ==
  ASSUME Feed, Upstream
  PROVE  Feed' /\ Quiet
<1>1. upstream' = upstream /\ inbound' = inbound
  BY DEF Upstream
<1>2. CASE upstream = "anthropic"
  <2>1. AnthropicUp!Next /\ AnthropicOK
    BY <1>2, SMTT(20) DEF Upstream, Feed, AnthropicOK
  <2>2. AnthropicOK' /\ Quiet
    BY <1>1, <2>1, AnthropicMessageStart, AnthropicContentBlockStart, AnthropicContentBlockDelta,
       AnthropicContentBlockStop, AnthropicMessageDelta, AnthropicMessageStop, AnthropicError,
       AnthropicReadFails, AnthropicClose DEF AnthropicUp!Next
  <2> QED
    BY <1>1, <2>2, FeedIsOf
<1>3. CASE upstream = "chat"
  <2>1. ChatUp!Next /\ ChatOK
    BY <1>3, SMTT(20) DEF Upstream, Feed, ChatOK
  <2>2. ChatOK' /\ Quiet
    BY <1>1, <2>1, ChatRoleChunk, ChatContentChunk, ChatCallChunk, ChatArgumentsChunk,
       ChatFinishChunk, ChatEmptyChunk, ChatErrorPayload, ChatTrailingUsage, ChatDrained, ChatReadFails, ChatClose
       DEF ChatUp!Next
  <2> QED
    BY <1>1, <2>2, FeedIsOf
<1>4. CASE upstream = "responses"
  <2>1. ResponsesUp!Next /\ ResponsesOK
    BY <1>4, SMTT(20) DEF Upstream, Feed, ResponsesOK
  <2>2. ResponsesOK' /\ Quiet
    BY <1>1, <2>1, ResponsesCreated, ResponsesOutputItemAdded, ResponsesItemDelta,
       ResponsesOutputItemDone, ResponsesCompleted, ResponsesFails, ResponsesClose, ResponsesSend
       DEF ResponsesUp!Next
  <2> QED
    BY <1>1, <2>2, FeedIsOf
<1>5. CASE upstream = "gemini"
  <2>1. GeminiUp!Next /\ GeminiOK
    BY <1>5, SMTT(20) DEF Upstream, Feed, GeminiOK
  <2>2. GeminiOK' /\ Quiet
    BY <1>1, <2>1, GeminiContentChunk, GeminiFinishChunk, GeminiEmptyChunk, GeminiErrorPayload,
       GeminiTrailingUsage, GeminiTrailingContent, GeminiDrained, GeminiReadFails, GeminiClose
       DEF GeminiUp!Next
  <2> QED
    BY <1>1, <2>2, FeedIsOf
<1> QED
  BY <1>2, <1>3, <1>4, <1>5, FeedIsOf DEF Protocols

\* What the codec takes from the channel it has then heard of.
LEMMA FeedPassOn ==
  ASSUME Feed, queue # <<>>, queue' = Tail(queue), UNCHANGED <<upstream, inbound, up, said>>
  PROVE  Feed' /\ Passed(Head(queue))
<1> DEFINE ev == Head(queue)
<1>1. AnthropicOK \/ ChatOK \/ ResponsesOK \/ GeminiOK
  BY FeedIsOf
<1>2. AnthropicOK => AnthropicOK' /\ Passed(ev)
  BY AnthropicPassed
<1>3. ChatOK => ChatOK' /\ Passed(ev)
  BY ChatPassed
<1>4. ResponsesOK => ResponsesOK' /\ Passed(ev)
  BY ResponsesPassed
<1>5. GeminiOK => GeminiOK' /\ Passed(ev)
  BY GeminiPassed
<1> HIDE DEF ev
<1>6. Feed' /\ Passed(ev)
  BY <1>1, <1>2, <1>3, <1>4, <1>5, FeedIsOf
<1> QED
  BY <1>6 DEF ev

\* A step that leaves provider, reader and channel alone keeps what is known of them.
LEMMA FeedUnchanged ==
  ASSUME Feed, UNCHANGED <<upstream, inbound, up, queue, said>>
  PROVE  Feed'
<1>1. SaidOK' /\ EndedWell'
  BY DEF Feed, SaidOK, EndedWell
<1>2. AnthropicFeed => AnthropicFeed'
  <2>1. \A ev : AnthropicSent(ev) => AnthropicSent(ev)'
    BY Zenon DEF AnthropicSent, SentStart, SentBlockStart, SentContent, SentBlockStop, SentReason,
       SentStop, SentError
  <2> QED
    BY <2>1 DEF AnthropicFeed, SilentOnReason
<1>3. ChatFeed => ChatFeed'
  BY Zenon DEF ChatFeed, SilentOnReason, ChatSent, ChatContent, ChatNewCall, ChatArguments, ChatStart,
         ChatStop, ChatError
<1>4. GeminiFeed => GeminiFeed'
  <2>1. ASSUME NEW ev, NEW i, GeminiPart(ev, i)
        PROVE  GeminiPart(ev, i)'
    <3>1. PICK kind \in {"text", "thinking", "tool_use"}, id \in CallIds, frag \in Frags,
               usage \in {NoUsage, Usage(1, 1)} :
            /\ ev = Event("delta", i, Part(kind, id, frag), "none", usage, NoUsage)
            /\ usage # NoUsage => said.usage # NoUsage
            /\ kind = "tool_use" => up.phase = "draining" /\ id \in Calls
            /\ kind # "tool_use" => id = NoId
      BY <2>1 DEF GeminiPart
    <3>2. up.phase \in {"speaking", "draining"}
      BY <2>1 DEF GeminiPart
    <3> QED
      BY <3>1, <3>2 DEF GeminiPart
  <2>2. \A ev : GeminiSent(ev) => GeminiSent(ev)'
    BY Zenon, <2>1 DEF GeminiSent
  <2> QED
    BY <2>1, <2>2 DEF GeminiFeed, SilentOnReason
<1>5. ResponsesFeed => ResponsesFeed'
  <2>1. Latest' = Latest /\ Results' = Results /\ IsMapped' = IsMapped
    BY DEF Latest, Results, IsMapped
  <2>2. ResponsesTyped => ResponsesTyped'
    BY Zenon, <2>1 DEF ResponsesTyped, ResponsesItem, ResponsesIndices
  <2>3. ResponsesSaid => ResponsesSaid'
    BY DEF ResponsesSaid, SilentOnReason
  <2>4. ResponsesStage => ResponsesStage'
    BY ZenonT(30), <2>1 DEF ResponsesStage, ResponsesSilent, ResponsesBetween, ResponsesInside,
      ResponsesSkipping, ResponsesSearching, ResponsesStart, ResponsesAdded,
      ResponsesDelta, ResponsesDone, ResponsesSearch, ResponsesLast, ResponsesOver
  <2>5. \A ev : ResponsesSent(ev) => ResponsesSent(ev)'
    BY ZenonT(30), <2>1 DEF ResponsesSent
  <2> QED
    BY <2>2, <2>3, <2>4, <2>5 DEF ResponsesFeed
<1>6. AnthropicOK \/ ChatOK \/ ResponsesOK \/ GeminiOK =>
        AnthropicOK' \/ ChatOK' \/ ResponsesOK' \/ GeminiOK'
  BY <1>1, <1>2, <1>3, <1>4, <1>5 DEF AnthropicOK, ChatOK, ResponsesOK, GeminiOK
<1> QED
  BY <1>6, FeedIsOf

-----------------------------------------------------------------------------

\* What the providers and the program's readers put on the channel, of any length
\* and in every order: that is what the theorems about the codecs rely on.
THEOREM FeedHolds == Spec => []Feed
<1>1. Feed /\ [Next]_vars => Feed'
  <2> SUFFICES ASSUME Feed, [Next]_vars
               PROVE  Feed'
    OBVIOUS
  <2>1. CASE Upstream
    BY <2>1, FeedUpstream
  <2>2. CASE PassOn
    BY <2>2, FeedPassOn DEF PassOn
  <2>3. CASE Flush \/ SeesEnd \/ ClientLeaves
    BY <2>3, FeedUnchanged DEF Flush, SeesEnd, ClientLeaves
  <2>4. CASE UNCHANGED vars
    BY <2>4, FeedUnchanged DEF vars
  <2> QED
    BY <2>1, <2>2, <2>3, <2>4 DEF Next, Terminated
<1> QED
  BY <1>1, FeedInit, PTL DEF Spec
=============================================================================
