------------------------ MODULE AnthropicStreamProofs ------------------------
(***************************************************************************)
(* The theorem about AnthropicStream: whatever events come, with or without*)
(* block starts and stops and on whatever indices, the client is given a   *)
(* stream in which blocks are strictly sequential.  First what a client    *)
(* that has followed the codec makes of each thing it is sent, then one    *)
(* lemma for every branch of the loop.                                     *)
(***************************************************************************)
EXTENDS AnthropicStream, TLAPS

\* The client follows, and has not been told that the message is complete.
Good(c, current, nextIndex, startSent) ==
    /\ c \in Clients
    /\ Follows(c, current, nextIndex, startSent)
    /\ c.answer.end # "clean"

\* The parts of the events.
AnyPart == Parts(PartKinds)

LEMMA NoBlockType == NoBlock \in Blocks
BY DEF NoBlock, Blocks, PartKinds, CallIds

LEMMA MergeType ==
  ASSUME NEW dst \in Usages, NEW src \in Usages
  PROVE  Merge(dst, src) \in Usages
BY DEF Merge, Usages

LEMMA FragmentsType ==
  ASSUME NEW kind \in PartKinds, NEW call \in CallIds, NEW frags \in Seq(Nat)
  PROVE  Fragments(kind, call, frags) \in Seq(Pieces)
BY DEF Fragments, Piece, Pieces

-----------------------------------------------------------------------------
(* What the client makes of what it is sent.                               *)

LEMMA StartSeen ==
  ASSUME NEW c, NEW current \in Blocks, NEW n \in Nat, NEW s \in BOOLEAN,
         NEW usage \in Usages, Good(c, current, n, s)
  PROVE  Good(SeesStart(c, usage), current, n, TRUE)
<1>1. Merge(c.answer.usage, usage) \in Usages
  BY MergeType DEF Good, Clients, Answers
<1> QED
  BY <1>1 DEF Good, Follows, SeesStart, Takes, Clients, Answers

LEMMA BlockStartSeen ==
  ASSUME NEW c, NEW n \in Nat, NEW part \in AnyPart, NEW kind \in PartKinds,
         part.kind = WireKind(kind), kind # "none",
         Good(c, NoBlock, n, TRUE)
  PROVE  Good(SeesBlockStart(c, n, part),
              [index |-> n, kind |-> kind, call |-> NoId], n + 1, TRUE)
<1> DEFINE open == [index |-> n, kind |-> part.kind, call |-> part.id]
           piece == Piece(part.kind, part.id, part.frag)
<1>1. /\ open \in Blocks /\ piece \in Pieces /\ part.id \in CallIds
  BY DEF AnyPart, Parts, Blocks, Piece, Pieces
<1>2. c.open \in Blocks /\ c.answer.calls \in Seq(CallIds) /\ c.answer.pieces \in Seq(Pieces)
  BY DEF Good, Clients, Answers
<1>3. part.kind # "none"
  BY DEF WireKind
<1>4. CASE c.answer.end # "none"
  BY <1>4 DEF Good, Follows, SeesBlockStart, Takes, Clients, Answers, NoBlock
<1>5. CASE c.answer.end = "none"
  <2>1. c.started /\ c.open = NoBlock /\ c.next = n
    BY <1>5 DEF Good, Follows
  <2>2. SeesBlockStart(c, n, part) =
          [c EXCEPT !.open = open,
                    !.next = @ + 1,
                    !.answer.calls = IF part.kind = "tool_use" THEN Append(@, part.id) ELSE @,
                    !.answer.pieces = IF part.frag = 0 THEN @ ELSE Append(@, piece)]
    BY <1>5, <2>1 DEF SeesBlockStart, Takes
  <2> DEFINE d == SeesBlockStart(c, n, part)
             calls == IF part.kind = "tool_use" THEN Append(c.answer.calls, part.id)
                      ELSE c.answer.calls
             pieces == IF part.frag = 0 THEN c.answer.pieces
                       ELSE Append(c.answer.pieces, piece)
  <2>3. calls \in Seq(CallIds) /\ pieces \in Seq(Pieces)
    BY <1>1, <1>2
  <2>4. d = [c EXCEPT !.open = open, !.next = n + 1,
                      !.answer = [@ EXCEPT !.calls = calls, !.pieces = pieces]]
    BY <2>1, <2>2 DEF Good, Clients, Answers
  <2>5. c \in Clients /\ ~c.broken
    BY DEF Good, Follows
  <2> HIDE DEF d, open, piece, calls, pieces
  <2>6. d \in Clients
    <3> DEFINE answer == [c.answer EXCEPT !.calls = calls, !.pieces = pieces]
    <3>1. answer \in Answers
      BY <2>3, <2>5 DEF Clients, Answers
    <3>2. d = [c EXCEPT !.open = open, !.next = n + 1, !.answer = answer]
      BY <2>4, <2>1
    <3> HIDE DEF answer
    <3>3. open \in Blocks /\ n + 1 \in Nat
      BY <1>1
    <3> QED
      BY <2>5, <3>1, <3>2, <3>3 DEF Clients
  <2>7. /\ d.open = open /\ d.next = n + 1 /\ d.started = TRUE /\ ~d.broken
        /\ d.answer.end = "none"
    BY <1>5, <2>1, <2>4, <2>5 DEF Clients, Answers
  <2>8. open.index = n /\ open.kind = WireKind(kind) /\ open.kind # "none"
    BY <1>3 DEF open
  <2>9. Follows(d, [index |-> n, kind |-> kind, call |-> NoId], n + 1, TRUE)
    BY <2>7, <2>8 DEF Follows, NoBlock
  <2> QED
    BY <2>6, <2>7, <2>9 DEF Good, d
<1> QED
  BY <1>4, <1>5

LEMMA BlockStopSeen ==
  ASSUME NEW c, NEW current \in Blocks, NEW n \in Nat, NEW s \in BOOLEAN,
         current # NoBlock, Good(c, current, n, s)
  PROVE  Good(SeesBlockStop(c, current.index), NoBlock, n, s)
<1>1. c.answer.end = "none" => c.open # NoBlock /\ c.open.index = current.index
  BY DEF Good, Follows, NoBlock
<1> QED
  BY <1>1, NoBlockType DEF Good, Follows, SeesBlockStop, Takes, Clients, Answers

LEMMA DeltaSeen ==
  ASSUME NEW c, NEW current \in Blocks, NEW n \in Nat, NEW kind \in PartKinds,
         NEW frags \in Seq(Nat),
         current # NoBlock, FitsBlock(kind, WireKind(current.kind)),
         Good(c, current, n, TRUE)
  PROVE  Good(SeesDelta(c, current.index, kind, frags), current, n, TRUE)
<1> DEFINE new == Fragments(c.open.kind, c.open.call, frags)
<1>1. c.answer.end = "none" =>
        c.open.index = current.index /\ FitsBlock(kind, c.open.kind)
  BY DEF Good, Follows
<1>2. new \in Seq(Pieces)
  BY FragmentsType DEF Good, Clients, Blocks
<1>3. c.answer.pieces \o new \in Seq(Pieces)
  BY <1>2 DEF Good, Clients, Answers
<1> QED
  BY <1>1, <1>3 DEF Good, Follows, SeesDelta, Takes, Clients, Answers

LEMMA MessageDeltaSeen ==
  ASSUME NEW c, NEW n \in Nat, NEW reason \in StopReasons, NEW usage \in Usages,
         Good(c, NoBlock, n, TRUE)
  PROVE  Good(SeesMessageDelta(c, reason, usage), NoBlock, n, TRUE)
<1>1. Merge(c.answer.usage, usage) \in Usages
  BY MergeType DEF Good, Clients, Answers
<1> QED
  BY <1>1 DEF Good, Follows, SeesMessageDelta, Takes, Clients, Answers

LEMMA StopSeen ==
  ASSUME NEW c, NEW n \in Nat, Good(c, NoBlock, n, TRUE)
  PROVE  /\ SeesStop(c) \in Clients
         /\ ~SeesStop(c).broken /\ SeesStop(c).answer.end # "none"
BY DEF Good, Follows, SeesStop, Takes, Clients, Answers

LEMMA ErrorSeen ==
  ASSUME NEW c \in Clients, ~c.broken, c.answer.end # "clean"
  PROVE  /\ SeesError(c) \in Clients /\ ~SeesError(c).broken
         /\ SeesError(c).answer.end \notin {"none", "clean"}
BY DEF SeesError, Takes, Clients, Answers

-----------------------------------------------------------------------------
(* The closures of the function, and what there is in an event.            *)

LEMMA EventType ==
  ASSUME NEW ev \in AnyEvent
  PROVE  /\ ev.usage \in Usages /\ ev.response \in Usages
         /\ ev.index \in Indices /\ ev.reason \in StopReasons
         /\ ev.part \in AnyPart
         /\ ev.part = NoPart \/ ev.part.kind \in StartKinds
BY DEF AnyEvent, Events, Parts, AnyPart, NoPart, Part, PartKinds, StartKinds, CallIds,
       StopReasons

LEMMA NotedType ==
  ASSUME NEW ev \in AnyEvent, codec \in Codecs
  PROVE  Noted(ev) \in Codecs
<1>1. Merge(Merge(codec.usage, ev.usage), ev.response) \in Usages
  BY EventType, MergeType DEF Codecs
<1> QED
  BY <1>1, EventType DEF Noted, Codecs

LEMMA NotedKeeps ==
  ASSUME NEW ev, codec \in Codecs
  PROVE  /\ Noted(ev).pc = codec.pc /\ Noted(ev).startSent = TRUE
         /\ Noted(ev).current = codec.current /\ Noted(ev).nextIndex = codec.nextIndex
         /\ Noted(ev).pending = codec.pending /\ Noted(ev).order = codec.order
         /\ Noted(ev).live = codec.live /\ Noted(ev).sourceIndex = codec.sourceIndex
BY DEF Noted, Codecs

LEMMA Greeted ==
  ASSUME NEW ev \in AnyEvent, CodecInv, Admissible(ev)
  PROVE  /\ ev.type # "start" =>
              Good(ClientGreeted(ev), codec.current, codec.nextIndex, TRUE)
         /\ Good(SeesStart(client, ev.response), codec.current, codec.nextIndex, TRUE)
<1>1. Good(client, codec.current, codec.nextIndex, codec.startSent)
  BY DEF CodecInv, TypeOK, Admissible, Good
<1>2. /\ codec.current \in Blocks /\ codec.nextIndex \in Nat
      /\ codec.startSent \in BOOLEAN
  BY DEF CodecInv, TypeOK, Codecs
<1>3. \A usage \in Usages : Good(SeesStart(client, usage), codec.current, codec.nextIndex, TRUE)
  BY <1>1, <1>2, StartSeen
<1>4. NoUsage \in Usages
  BY DEF NoUsage, Usage, Usages
<1> QED
  BY <1>1, <1>2, <1>3, <1>4, EventType DEF ClientGreeted

LEMMA Closed ==
  ASSUME NEW c, NEW n \in Nat, NEW s \in BOOLEAN, codec \in Codecs,
         Good(c, codec.current, n, s)
  PROVE  Good(ClientClosed(c), NoBlock, n, s)
<1>1. codec.current \in Blocks
  BY DEF Codecs
<1> QED
  BY <1>1, BlockStopSeen DEF ClientClosed

\* The block that openBlockAt opens.
NewBlock(kind) == [index |-> codec.nextIndex, kind |-> kind, call |-> NoId]

LEMMA NewBlockType ==
  ASSUME NEW kind \in StartKinds, codec \in Codecs
  PROVE  /\ NewBlock(kind) \in Blocks /\ NewBlock(kind) # NoBlock
         /\ NewBlock(kind).index = codec.nextIndex /\ NewBlock(kind).kind = kind
         /\ WireKind(kind) # "none" /\ kind \in PartKinds
BY DEF NewBlock, Blocks, Codecs, PartKinds, CallIds, NoBlock, WireKind, StartKinds,
       BlockKinds, OpaqueKinds, ToolKinds

LEMMA BlockOpened ==
  ASSUME NEW c, NEW kind \in StartKinds, NEW part \in AnyPart, codec \in Codecs,
         Good(c, codec.current, codec.nextIndex, TRUE)
  PROVE  Good(ClientOpened(c, kind, part), NewBlock(kind), codec.nextIndex + 1, TRUE)
<1> DEFINE start == BlockStartPart(kind, part)
<1>1. start \in AnyPart /\ start.kind = WireKind(kind)
  BY DEF BlockStartPart, Part, AnyPart, Parts, PartKinds, CallIds, WireKind, StartKinds,
         BlockKinds, OpaqueKinds, ToolKinds
<1>2. codec.nextIndex \in Nat
  BY DEF Codecs
<1>3. Good(ClientClosed(c), NoBlock, codec.nextIndex, TRUE)
  BY <1>2, Closed
<1>4. kind \in PartKinds /\ kind # "none"
  BY NewBlockType DEF StartKinds, BlockKinds, OpaqueKinds, ToolKinds
<1> QED
  BY <1>1, <1>2, <1>3, <1>4, BlockStartSeen DEF ClientOpened, NewBlock

LEMMA OpenedType ==
  ASSUME NEW k \in Codecs, NEW kind \in StartKinds, k.nextIndex = codec.nextIndex,
         codec \in Codecs
  PROVE  /\ Opened(k, kind) \in Codecs
         /\ Opened(k, kind).current = NewBlock(kind)
         /\ Opened(k, kind).nextIndex = codec.nextIndex + 1
         /\ Opened(k, kind).pending = k.pending /\ Opened(k, kind).order = k.order
         /\ Opened(k, kind).pc = k.pc /\ Opened(k, kind).startSent = k.startSent
         /\ Opened(k, kind).live = k.live
<1>1. NewBlock(kind) \in Blocks
  BY NewBlockType
<1>2. Opened(k, kind) = [k EXCEPT !.current = NewBlock(kind), !.nextIndex = codec.nextIndex + 1]
  BY DEF Opened, NewBlock, Codecs
<1>3. codec.nextIndex + 1 \in Nat
  BY DEF Codecs
<1> QED
  BY <1>1, <1>2, <1>3 DEF Codecs

-----------------------------------------------------------------------------
(* The invariant, put together.                                            *)

LEMMA OrderKept ==
  ASSUME OrderListsPending, codec'.pending = codec.pending, codec'.order = codec.order
  PROVE  OrderListsPending'
BY DEF OrderListsPending, IsPending

LEMMA Assembled ==
  ASSUME codec' \in Codecs, OrderListsPending', codec'.startSent = TRUE,
         Good(client', codec'.current, codec'.nextIndex, TRUE),
         codec'.pc = "flushing" => codec'.current = NoBlock
  PROVE  CodecInv'
BY DEF CodecInv, TypeOK, Good, Follows, FlushBeforeStop

LEMMA AssembledAtEnd ==
  ASSUME codec' \in Codecs, OrderListsPending',
         codec'.current # NoBlock => codec'.startSent,
         client' \in Clients, ~client'.broken, client'.answer.end # "none",
         codec'.pc # "flushing"
  PROVE  CodecInv'
BY DEF CodecInv, TypeOK, Follows, FlushBeforeStop

-----------------------------------------------------------------------------
(* The branches of the loop.                                               *)

LEMMA StartStep ==
  ASSUME CodecInv, NEW ev \in AnyEvent, Admissible(ev), codec.pc = "ranging", OnStart(ev)
  PROVE  CodecInv'
<1>1. codec \in Codecs /\ OrderListsPending
  BY DEF CodecInv, TypeOK
<1>2. codec' = Noted(ev) /\ codec' \in Codecs
  BY <1>1, NotedType DEF OnStart
<1>3. Good(client', codec'.current, codec'.nextIndex, TRUE)
  BY <1>1, <1>2, Greeted, NotedKeeps DEF OnStart
<1> QED
  BY <1>1, <1>2, <1>3, NotedKeeps, OrderKept, Assembled

LEMMA BlockStopStep ==
  ASSUME CodecInv, NEW ev \in AnyEvent, Admissible(ev), codec.pc = "ranging", OnBlockStop(ev)
  PROVE  CodecInv'
<1>1. codec \in Codecs /\ OrderListsPending
  BY DEF CodecInv, TypeOK
<1>2. Noted(ev) \in Codecs /\ ev.index \in Indices /\ NoBlock \in Blocks /\ Unmapped \in Int
  BY <1>1, NotedType, EventType, NoBlockType DEF Unmapped
<1>3. /\ codec' \in Codecs
      /\ codec'.pc = codec.pc /\ codec'.startSent = TRUE
      /\ codec'.nextIndex = codec.nextIndex
      /\ codec'.pending = codec.pending /\ codec'.order = codec.order
      /\ codec'.current = IF StopsCurrent(ev.index) THEN NoBlock ELSE codec.current
  BY <1>1, <1>2, NotedKeeps DEF OnBlockStop, Codecs
<1>4. Good(ClientGreeted(ev), codec.current, codec.nextIndex, TRUE)
  BY Greeted DEF OnBlockStop
<1>5. Good(ClientClosed(ClientGreeted(ev)), NoBlock, codec.nextIndex, TRUE)
  BY <1>1, <1>4, Closed DEF Codecs
<1>6. Good(client', codec'.current, codec'.nextIndex, TRUE)
  BY <1>3, <1>4, <1>5 DEF OnBlockStop
<1> QED
  BY <1>1, <1>3, <1>6, OrderKept, Assembled

LEMMA StopStep ==
  ASSUME CodecInv, NEW ev \in AnyEvent, Admissible(ev), codec.pc = "ranging", OnStop(ev)
  PROVE  CodecInv'
<1>1. codec \in Codecs /\ OrderListsPending
  BY DEF CodecInv, TypeOK
<1>2. Noted(ev) \in Codecs /\ NoBlock \in Blocks
  BY <1>1, NotedType, NoBlockType
<1>3. /\ codec' \in Codecs
      /\ codec'.current = NoBlock /\ codec'.startSent = TRUE
      /\ codec'.nextIndex = codec.nextIndex
      /\ codec'.pending = codec.pending /\ codec'.order = codec.order
  BY <1>1, <1>2, NotedKeeps DEF OnStop, Codecs
<1>4. Good(ClientGreeted(ev), codec.current, codec.nextIndex, TRUE)
  BY Greeted DEF OnStop
<1>5. Good(client', NoBlock, codec.nextIndex, TRUE)
  BY <1>1, <1>4, Closed DEF Codecs, OnStop
<1> QED
  BY <1>1, <1>3, <1>5, OrderKept, Assembled

LEMMA BareDeltaStep ==
  ASSUME CodecInv, NEW ev \in AnyEvent, Admissible(ev), codec.pc = "ranging", OnBareDelta(ev)
  PROVE  CodecInv'
<1>1. codec \in Codecs /\ OrderListsPending
  BY DEF CodecInv, TypeOK
<1>2. Noted(ev) \in Codecs /\ ev.reason \in StopReasons /\ ev.usage \in Usages
  BY <1>1, NotedType, EventType
<1>3. /\ codec' \in Codecs
      /\ codec'.pc # "flushing" /\ codec'.startSent = TRUE
      /\ codec'.current = codec.current /\ codec'.nextIndex = codec.nextIndex
      /\ codec'.pending = codec.pending /\ codec'.order = codec.order
  BY <1>1, <1>2, NotedKeeps DEF OnBareDelta, Codecs
<1>4. Good(ClientGreeted(ev), codec.current, codec.nextIndex, TRUE)
  BY Greeted DEF OnBareDelta
<1>5. ev.reason # "none" => codec.current = NoBlock
  BY DEF Admissible, OnBareDelta
<1>6. Good(client', codec.current, codec.nextIndex, TRUE)
  <2>1. codec.nextIndex \in Nat
    BY <1>1 DEF Codecs
  <2>2. CASE ev.reason # "none"
    <3>1. client' = SeesMessageDelta(ClientGreeted(ev), ev.reason, ev.usage)
      BY <2>2 DEF OnBareDelta, WriteDelta
    <3> QED
      BY <1>2, <1>4, <1>5, <2>1, <2>2, <3>1, MessageDeltaSeen
  <2>3. CASE ev.reason = "none"
    BY <1>4, <2>3 DEF OnBareDelta, WriteDelta
  <2> QED
    BY <2>2, <2>3
<1> QED
  BY <1>1, <1>3, <1>6, OrderKept, Assembled

LEMMA ErrorStep ==
  ASSUME CodecInv, NEW ev \in AnyEvent, Admissible(ev), codec.pc = "ranging", OnError(ev)
  PROVE  CodecInv'
<1>1. codec \in Codecs /\ OrderListsPending
  BY DEF CodecInv, TypeOK
<1>2. codec' = Noted(ev) /\ codec' \in Codecs
  BY <1>1, NotedType DEF OnError
<1>3. Good(ClientGreeted(ev), codec.current, codec.nextIndex, TRUE)
  BY Greeted DEF OnError
<1>4. client' \in Clients /\ ~client'.broken /\ client'.answer.end # "none"
  BY <1>3, ErrorSeen DEF OnError, Good, Follows
<1> QED
  BY <1>1, <1>2, <1>4, NotedKeeps, OrderKept, AssembledAtEnd

LEMMA ErrStep ==
  ASSUME CodecInv, NEW ev \in AnyEvent, Admissible(ev), codec.pc = "ranging", OnErr(ev)
  PROVE  CodecInv'
<1>1. /\ codec \in Codecs /\ OrderListsPending
      /\ codec.current # NoBlock => codec.startSent
  BY DEF CodecInv, TypeOK
<1>2. /\ codec' \in Codecs /\ codec'.pc # "flushing"
      /\ codec'.current = codec.current /\ codec'.startSent = codec.startSent
      /\ codec'.pending = codec.pending /\ codec'.order = codec.order
  BY <1>1 DEF OnErr, Codecs
<1>3. client' \in Clients /\ ~client'.broken /\ client'.answer.end # "none"
  BY ErrorSeen DEF OnErr, CodecInv, TypeOK, Follows, Admissible
<1> QED
  BY <1>1, <1>2, <1>3, OrderKept, AssembledAtEnd

\* A real block start drops what was buffered for its index, if it is a tool's.
LEMMA OrderAfterDrop ==
  ASSUME codec \in Codecs, OrderListsPending, NEW index \in Indices,
         codec'.order = Dropped(codec.order, index),
         codec'.pending = [codec.pending EXCEPT ![index] = NoCall]
  PROVE  codec'.order \in Seq(Indices) /\ OrderListsPending'
<1> DEFINE order == codec.order
           at == CHOOSE i \in 1..Len(order) : order[i] = index
<1>1. order \in Seq(Indices) /\ codec.pending \in [Indices -> BufferedCalls]
  BY DEF Codecs
<1>2. \A i \in Indices : codec'.pending[i] = IF i = index THEN NoCall ELSE codec.pending[i]
  BY <1>1
<1>3. NoCall.kind = "none"
  BY DEF NoCall
<1>4. CASE ~IsPending(index)
  <2>1. codec'.order = order
    BY <1>4 DEF Dropped
  <2>2. \A i \in 1..Len(order) : order[i] # index
    BY <1>4 DEF OrderListsPending, IsPending
  <2> QED
    BY <1>1, <1>2, <1>3, <2>1, <2>2 DEF OrderListsPending, IsPending
<1>5. CASE IsPending(index)
  <2>1. at \in 1..Len(order) /\ order[at] = index
    BY <1>5 DEF OrderListsPending
  <2>2. codec'.order = SubSeq(order, 1, at - 1) \o SubSeq(order, at + 1, Len(order))
    BY <1>5 DEF Dropped
  <2> HIDE DEF at
  <2>3. /\ codec'.order \in Seq(Indices) /\ Len(codec'.order) = Len(order) - 1
        /\ \A i \in 1..Len(codec'.order) :
              codec'.order[i] = IF i < at THEN order[i] ELSE order[i + 1]
    <3> DEFINE before == SubSeq(order, 1, at - 1)
               after == SubSeq(order, at + 1, Len(order))
    <3>1. /\ before \in Seq(Indices) /\ Len(before) = at - 1
          /\ \A i \in 1..at - 1 : before[i] = order[i]
      BY <1>1, <2>1
    <3>2. /\ after \in Seq(Indices) /\ Len(after) = Len(order) - at
          /\ \A i \in 1..Len(order) - at : after[i] = order[at + i]
      BY <1>1, <2>1
    <3>3. codec'.order = before \o after
      BY <2>2
    <3> HIDE DEF before, after, order
    <3>4. Len(order) \in Nat /\ at \in 1..Len(order)
      BY <1>1, <2>1 DEF order
    <3>5. codec'.order \in Seq(Indices) /\ Len(codec'.order) = Len(order) - 1
      BY <3>1, <3>2, <3>3, <3>4
    <3>6. ASSUME NEW i \in 1..Len(codec'.order)
          PROVE  codec'.order[i] = IF i < at THEN order[i] ELSE order[i + 1]
      <4>1. CASE i < at
        BY <3>1, <3>2, <3>3, <3>4, <3>5, <4>1
      <4>2. CASE i >= at
        <5>1. codec'.order[i] = after[i - (at - 1)]
          BY <3>1, <3>2, <3>3, <3>4, <3>5, <4>2
        <5> QED
          BY <3>2, <3>4, <3>5, <4>2, <5>1
      <4> QED
        BY <3>4, <4>1, <4>2
    <3> QED
      BY <3>5, <3>6
  <2>4. \A i \in 1..Len(order) : order[i] = index => i = at
    BY <2>1 DEF OrderListsPending
  <2>5. \A i \in 1..Len(codec'.order) : codec'.order[i] # index
    BY <1>1, <2>1, <2>3, <2>4
  <2>6. \A i, j \in 1..Len(codec'.order) : codec'.order[i] = codec'.order[j] => i = j
    <3>1. Len(order) \in Nat
      BY <1>1
    <3>2. SUFFICES ASSUME NEW i \in 1..Len(codec'.order), NEW j \in 1..Len(codec'.order),
                          codec'.order[i] = codec'.order[j]
                   PROVE  i = j
      OBVIOUS
    <3> DEFINE from(l) == IF l < at THEN l ELSE l + 1
    <3>3. \A l \in 1..Len(codec'.order) :
            from(l) \in 1..Len(order) /\ codec'.order[l] = order[from(l)]
      BY <2>1, <2>3, <3>1
    <3>4. from(i) = from(j)
      BY <3>2, <3>3 DEF OrderListsPending
    <3> QED
      BY <2>1, <2>3, <3>1, <3>4
  <2>7. \A i \in 1..Len(codec'.order) : codec'.pending[codec'.order[i]].kind # "none"
    BY <1>1, <1>2, <2>1, <2>3, <2>5 DEF OrderListsPending
  <2>8. ASSUME NEW k \in Indices, codec'.pending[k].kind # "none"
        PROVE  \E i \in 1..Len(codec'.order) : codec'.order[i] = k
    <3>1. k # index /\ codec.pending[k].kind # "none"
      BY <1>2, <1>3, <2>8
    <3>2. PICK i \in 1..Len(order) : order[i] = k
      BY <3>1 DEF OrderListsPending, IsPending
    <3>3. i # at
      BY <2>1, <3>1, <3>2
    <3>4. CASE i < at
      BY <1>1, <2>1, <2>3, <3>2, <3>4
    <3>5. CASE i > at
      <4>1. i - 1 \in 1..Len(codec'.order) /\ codec'.order[i - 1] = k
        BY <1>1, <2>1, <2>3, <3>2, <3>5
      <4> QED
        BY <4>1
    <3> QED
      BY <1>1, <2>1, <3>2, <3>3, <3>4, <3>5
  <2> QED
    BY <2>3, <2>6, <2>7, <2>8 DEF OrderListsPending, IsPending
<1> QED
  BY <1>4, <1>5

LEMMA BlockStartStep ==
  ASSUME CodecInv, NEW ev \in AnyEvent, Admissible(ev), codec.pc = "ranging", OnBlockStart(ev)
  PROVE  CodecInv'
<1> DEFINE kind == IF ev.part = NoPart THEN "text" ELSE ev.part.kind
           opened == Opened(Noted(ev), kind)
           k == [opened EXCEPT !.sourceIndex[ev.index] = codec.nextIndex]
<1>1. codec \in Codecs /\ OrderListsPending
  BY DEF CodecInv, TypeOK
<1>2. kind \in StartKinds /\ ev.part \in AnyPart /\ ev.index \in Indices
  BY EventType DEF StartKinds, BlockKinds
<1>3. Noted(ev) \in Codecs /\ Noted(ev).nextIndex = codec.nextIndex
  BY <1>1, NotedType, NotedKeeps
<1>4. /\ opened \in Codecs /\ opened.current = NewBlock(kind)
      /\ opened.nextIndex = codec.nextIndex + 1
      /\ opened.pending = codec.pending /\ opened.order = codec.order
      /\ opened.pc = codec.pc /\ opened.startSent = TRUE
      /\ opened.live = codec.live
  <2>1. /\ opened \in Codecs /\ opened.current = NewBlock(kind)
        /\ opened.nextIndex = codec.nextIndex + 1
        /\ opened.pending = Noted(ev).pending /\ opened.order = Noted(ev).order
        /\ opened.pc = Noted(ev).pc /\ opened.startSent = Noted(ev).startSent
        /\ opened.live = Noted(ev).live
    <3> HIDE DEF kind
    <3> QED BY <1>1, <1>2, <1>3, OpenedType
  <2> HIDE DEF opened
  <2> QED
    BY <1>1, <2>1, NotedKeeps
<1>5. Good(client', NewBlock(kind), codec.nextIndex + 1, TRUE)
  BY <1>1, <1>2, Greeted, BlockOpened DEF OnBlockStart
<1> HIDE DEF opened
<1>6. codec.nextIndex \in Int
  BY <1>1 DEF Codecs
<1>7. /\ k \in Codecs /\ k.current = opened.current /\ k.nextIndex = opened.nextIndex
      /\ k.pending = opened.pending /\ k.order = opened.order
      /\ k.pc = opened.pc /\ k.startSent = opened.startSent /\ k.live = opened.live
  BY <1>2, <1>4, <1>6 DEF Codecs
<1>8. CASE kind \notin ToolKinds
  <2>1. codec' = k
    BY <1>8 DEF OnBlockStart, opened
  <2> QED
    BY <1>1, <1>4, <1>5, <1>7, <2>1, OrderKept, Assembled
<1>9. CASE kind \in ToolKinds
  <2> HIDE DEF k
  <2>1. codec' = [k EXCEPT !.live = @ \cup {ev.index},
                           !.order = Dropped(@, ev.index),
                           !.pending[ev.index] = NoCall]
    BY <1>9 DEF OnBlockStart, opened, k
  <2>2. /\ codec'.order = Dropped(codec.order, ev.index)
        /\ codec'.pending = [codec.pending EXCEPT ![ev.index] = NoCall]
        /\ codec'.current = k.current /\ codec'.nextIndex = k.nextIndex
        /\ codec'.pc = k.pc /\ codec'.startSent = k.startSent
    BY <1>4, <1>7, <2>1 DEF Codecs
  <2>3. codec'.order \in Seq(Indices) /\ OrderListsPending'
    BY <1>1, <1>2, <2>2, OrderAfterDrop
  <2>4. NoCall \in BufferedCalls
    BY DEF NoCall, BufferedCalls, CallIds
  <2>5. codec' \in Codecs
    BY <1>2, <1>4, <1>7, <2>1, <2>2, <2>3, <2>4 DEF Codecs
  <2> QED
    BY <1>4, <1>5, <1>7, <2>2, <2>3, <2>5, Assembled
<1> QED
  BY <1>8, <1>9

LEMMA ToolDeltaStep ==
  ASSUME CodecInv, NEW ev \in AnyEvent, Admissible(ev), codec.pc = "ranging", OnToolDelta(ev)
  PROVE  CodecInv'
<1> DEFINE call == Buffered(codec.pending[ev.index], ev.part)
           order == IF IsPending(ev.index) THEN codec.order
                    ELSE Append(codec.order, ev.index)
<1>1. codec \in Codecs /\ OrderListsPending
  BY DEF CodecInv, TypeOK
<1>2. Noted(ev) \in Codecs /\ ev.index \in Indices /\ ev.part \in AnyPart
  BY <1>1, NotedType, EventType
<1>3. call \in BufferedCalls /\ call.kind # "none"
  <2>1. codec.pending[ev.index] \in BufferedCalls /\ ev.part.kind \in ToolKinds
    BY <1>1, <1>2 DEF Codecs, OnToolDelta, IsSynthetic
  <2> QED
    BY <1>2, <2>1 DEF Buffered, BufferedCalls, AnyPart, Parts, ToolKinds
<1>4. order \in Seq(Indices)
  BY <1>1, <1>2 DEF Codecs
<1>5. codec' = [Noted(ev) EXCEPT !.pending[ev.index] = call, !.order = order]
  <2>1. Noted(ev).pending = codec.pending /\ Noted(ev).order = codec.order
    BY <1>1, NotedKeeps
  <2> QED
    BY <1>2, <2>1 DEF OnToolDelta, Codecs
<1> HIDE DEF call, order
<1>6. /\ codec' \in Codecs
      /\ codec'.pc = codec.pc /\ codec'.startSent = TRUE
      /\ codec'.current = codec.current /\ codec'.nextIndex = codec.nextIndex
      /\ codec'.pending = [codec.pending EXCEPT ![ev.index] = call]
      /\ codec'.order = order
  BY <1>1, <1>2, <1>3, <1>4, <1>5, NotedKeeps DEF Codecs
<1>7. OrderListsPending'
  <2>1. \A i \in Indices : codec'.pending[i] = IF i = ev.index THEN call ELSE codec.pending[i]
    BY <1>1, <1>6 DEF Codecs
  <2>2. codec.order \in Seq(Indices)
    BY <1>1 DEF Codecs
  <2>3. CASE IsPending(ev.index)
    BY <1>1, <1>2, <1>3, <1>6, <2>1, <2>2, <2>3 DEF OrderListsPending, IsPending, order
  <2>4. CASE ~IsPending(ev.index)
    <3>1. codec'.order = Append(codec.order, ev.index)
      BY <1>6, <2>4 DEF order
    <3>2. \A i \in 1..Len(codec.order) : codec.order[i] # ev.index
      BY <1>1, <2>4 DEF OrderListsPending, IsPending
    <3>3. /\ Len(codec'.order) = Len(codec.order) + 1
          /\ codec'.order[Len(codec.order) + 1] = ev.index
          /\ \A i \in 1..Len(codec.order) : codec'.order[i] = codec.order[i]
      BY <1>2, <2>2, <3>1
    <3>4. Len(codec.order) \in Nat
      BY <2>2
    <3>5. \A i \in 1..Len(codec'.order) : codec'.pending[codec'.order[i]].kind # "none"
      <4> SUFFICES ASSUME NEW i \in 1..Len(codec'.order)
                   PROVE  codec'.pending[codec'.order[i]].kind # "none"
        OBVIOUS
      <4>1. CASE i = Len(codec.order) + 1
        BY <1>2, <1>3, <2>1, <3>3, <4>1
      <4>2. CASE i # Len(codec.order) + 1
        <5>1. i \in 1..Len(codec.order) /\ codec'.order[i] = codec.order[i]
          BY <3>3, <3>4, <4>2
        <5>2. codec.order[i] \in Indices /\ codec.pending[codec.order[i]].kind # "none"
          BY <1>1, <2>2, <5>1 DEF OrderListsPending
        <5> QED
          BY <2>1, <3>2, <5>1, <5>2
      <4> QED
        BY <4>1, <4>2
    <3>6. \A i, j \in 1..Len(codec'.order) : codec'.order[i] = codec'.order[j] => i = j
      BY <1>1, <3>2, <3>3, <3>4 DEF OrderListsPending
    <3>7. \A k \in Indices : codec'.pending[k].kind # "none"
              => \E i \in 1..Len(codec'.order) : codec'.order[i] = k
      BY <1>1, <1>2, <2>1, <3>3, <3>4 DEF OrderListsPending, IsPending
    <3> QED
      BY <3>5, <3>6, <3>7 DEF OrderListsPending, IsPending
  <2> QED
    BY <2>3, <2>4
<1>8. Good(client', codec.current, codec.nextIndex, TRUE)
  BY Greeted DEF OnToolDelta
<1> QED
  BY <1>6, <1>7, <1>8, Assembled

LEMMA ContentDeltaStep ==
  ASSUME CodecInv, NEW ev \in AnyEvent, Admissible(ev), codec.pc = "ranging",
         OnContentDelta(ev)
  PROVE  CodecInv'
<1> DEFINE kind == ev.part.kind
           frags == IF ev.part.frag = 0 THEN <<>> ELSE <<ev.part.frag>>
<1>1. codec \in Codecs /\ OrderListsPending
  BY DEF CodecInv, TypeOK
<1>2. /\ Noted(ev) \in Codecs /\ ev.index \in Indices /\ ev.part \in AnyPart
      /\ Noted(ev).nextIndex = codec.nextIndex
  BY <1>1, NotedType, NotedKeeps, EventType
<1>3. kind \in BlockKinds /\ kind \in StartKinds /\ kind \in PartKinds /\ WireKind(kind) \in PartKinds
  BY DEF OnContentDelta, StartKinds, PartKinds, BlockKinds, WireKind
<1>4. frags \in Seq(Nat)
  BY <1>2 DEF AnyPart, Parts
<1>5. ev.part # NoPart /\ ev.reason = "none"
  BY <1>3 DEF OnContentDelta, Admissible, NoPart, Part, BlockKinds, ToolKinds
<1>6. \A c, index : WriteDelta(c, index, ev) = SeesDelta(c, index, WireKind(kind), frags)
  BY <1>5 DEF WriteDelta
<1>7. Good(ClientGreeted(ev), codec.current, codec.nextIndex, TRUE)
  BY Greeted DEF OnContentDelta
<1>8. \A k : FitsBlock(k, k)
  BY DEF FitsBlock
<1>9. codec.nextIndex \in Nat /\ codec.nextIndex + 1 \in Nat /\ codec.current \in Blocks
  BY <1>1 DEF Codecs
<1> HIDE DEF frags, kind
<1>10. CASE NeedsNewBlock(ev)
  <2> DEFINE opened == Opened(Noted(ev), kind)
             greeted == ClientOpened(ClientGreeted(ev), kind, ev.part)
  <2>1. /\ opened \in Codecs /\ opened.current = NewBlock(kind)
        /\ opened.nextIndex = codec.nextIndex + 1
        /\ opened.pending = Noted(ev).pending /\ opened.order = Noted(ev).order
        /\ opened.pc = Noted(ev).pc /\ opened.startSent = Noted(ev).startSent
    BY <1>1, <1>2, <1>3, OpenedType
  <2>2. Good(greeted, NewBlock(kind), codec.nextIndex + 1, TRUE)
    BY <1>1, <1>2, <1>3, <1>7, BlockOpened
  <2>3. /\ codec' = [opened EXCEPT !.sourceIndex[ev.index] = codec.nextIndex]
        /\ client' = SeesDelta(greeted, codec.nextIndex, WireKind(kind), frags)
    BY <1>6, <1>10 DEF OnContentDelta, kind
  <2> HIDE DEF opened, greeted
  <2>4. Good(client', NewBlock(kind), codec.nextIndex + 1, TRUE)
    <3>1. /\ NewBlock(kind) \in Blocks /\ NewBlock(kind) # NoBlock
          /\ NewBlock(kind).index = codec.nextIndex /\ NewBlock(kind).kind = kind
      BY <1>1, <1>3, NewBlockType
    <3> QED
      BY <1>3, <1>4, <1>8, <1>9, <2>2, <2>3, <3>1, DeltaSeen
  <2>5. /\ codec' \in Codecs
        /\ codec'.current = opened.current /\ codec'.nextIndex = opened.nextIndex
        /\ codec'.pending = opened.pending /\ codec'.order = opened.order
        /\ codec'.pc = opened.pc /\ codec'.startSent = opened.startSent
    <3>1. opened \in Codecs /\ ev.index \in Indices /\ codec.nextIndex \in Int
      BY <1>2, <1>9, <2>1
    <3>2. codec' = [opened EXCEPT !.sourceIndex[ev.index] = codec.nextIndex]
      BY <2>3
    <3> QED
      BY <3>1, <3>2 DEF Codecs
  <2>6. /\ codec'.pending = codec.pending /\ codec'.order = codec.order
        /\ codec'.pc = codec.pc /\ codec'.startSent = TRUE
    BY <1>1, <2>1, <2>5, NotedKeeps
  <2> QED
    BY <1>1, <2>1, <2>4, <2>5, <2>6, OrderKept, Assembled
<1>11. CASE ~NeedsNewBlock(ev)
  <2>1. /\ codec' = Noted(ev)
        /\ client' = SeesDelta(ClientGreeted(ev), codec.sourceIndex[ev.index],
                               WireKind(kind), frags)
    BY <1>6, <1>11 DEF OnContentDelta
  <2>2. /\ codec.current # NoBlock /\ codec.current.kind = kind
        /\ codec.sourceIndex[ev.index] = codec.current.index
    BY <1>11 DEF NeedsNewBlock, kind
  <2>3. Good(client', codec.current, codec.nextIndex, TRUE)
    BY <1>3, <1>4, <1>7, <1>8, <1>9, <2>1, <2>2, DeltaSeen
  <2> QED
    BY <1>1, <1>2, <2>1, <2>3, NotedKeeps, OrderKept, Assembled
<1> QED
  BY <1>10, <1>11

LEMMA ReceiveStep ==
  ASSUME CodecInv, NEW ev \in AnyEvent, Admissible(ev), Receive(ev)
  PROVE  CodecInv'
BY StartStep, BlockStartStep, BlockStopStep, ToolDeltaStep, ContentDeltaStep,
   BareDeltaStep, StopStep, ErrorStep, ErrStep DEF Receive

-----------------------------------------------------------------------------
(* The flush, the end of the message and the end of the loop.              *)

LEMMA FlushStep ==
  ASSUME CodecInv, FlushTool
  PROVE  CodecInv'
<1> DEFINE first == Head(codec.order)
           call == codec.pending[first]
           part == Part(call.kind, call.id, 0)
           opened == ClientOpened(client, call.kind, part)
           filled == IF call.args = <<>> THEN opened
                     ELSE SeesDelta(opened, codec.nextIndex, call.kind, call.args)
           block == NewBlock(call.kind)
           n == codec.nextIndex + 1
<1>1. /\ codec \in Codecs /\ OrderListsPending
      /\ codec.current = NoBlock /\ codec.startSent = TRUE
      /\ Good(client, codec.current, codec.nextIndex, TRUE)
  BY DEF CodecInv, TypeOK, FlushBeforeStop, FlushTool, Good, Codecs
<1>2. /\ codec.order \in Seq(Indices) /\ codec.order # <<>>
      /\ codec.nextIndex \in Nat /\ n \in Nat
  BY <1>1 DEF FlushTool, Codecs
<1>3. first \in Indices /\ first = codec.order[1] /\ 1 \in 1..Len(codec.order)
  BY <1>2
<1>4. call \in BufferedCalls /\ call.kind \in ToolKinds /\ call.args \in Seq(Nat)
  <2>1. call.kind # "none"
    BY <1>1, <1>3 DEF OrderListsPending
  <2> QED
    BY <1>1, <1>3, <2>1 DEF Codecs, BufferedCalls
<1>5. /\ call.kind \in StartKinds /\ call.kind \in PartKinds /\ part \in AnyPart
      /\ WireKind(call.kind) = call.kind
  BY <1>4 DEF StartKinds, BlockKinds, ToolKinds, PartKinds, Part, AnyPart, Parts, BufferedCalls,
              WireKind
<1>6. /\ block \in Blocks /\ block # NoBlock
      /\ block.index = codec.nextIndex /\ block.kind = call.kind
  BY <1>1, <1>5, NewBlockType
<1> HIDE DEF call, part, first
<1>7. Good(opened, block, n, TRUE)
  BY <1>1, <1>5, BlockOpened
<1> HIDE DEF opened, block, n
<1>8. Good(filled, block, n, TRUE)
  <2>1. FitsBlock(call.kind, WireKind(block.kind))
    BY <1>5, <1>6 DEF FitsBlock
  <2>2. Good(SeesDelta(opened, block.index, call.kind, call.args), block, n, TRUE)
    BY <1>2, <1>4, <1>5, <1>6, <1>7, <2>1, DeltaSeen
  <2> QED
    BY <1>6, <1>7, <2>2
<1> HIDE DEF filled
<1>9. Good(client', NoBlock, n, TRUE)
  <2>1. client' = SeesBlockStop(filled, block.index)
    BY <1>6 DEF FlushTool, filled, opened, call, part, first
  <2> QED
    BY <1>2, <1>6, <1>8, <2>1, BlockStopSeen
<1>10. /\ codec'.current = NoBlock /\ codec'.nextIndex = n /\ codec'.startSent = TRUE
       /\ codec'.pending = [codec.pending EXCEPT ![first] = NoCall]
       /\ codec'.order = Tail(codec.order)
       /\ codec' \in Codecs
  <2>1. NoCall \in BufferedCalls
    BY DEF NoCall, BufferedCalls, CallIds
  <2>2. Tail(codec.order) \in Seq(Indices)
    BY <1>2
  <2>3. codec' = [codec EXCEPT !.nextIndex = n, !.pending[first] = NoCall,
                               !.order = Tail(@)]
    BY <1>1 DEF FlushTool, n, first
  <2> QED
    BY <1>1, <1>2, <1>3, <2>1, <2>2, <2>3 DEF Codecs
<1>11. OrderListsPending'
  <2>1. \A i \in Indices : codec'.pending[i] = IF i = first THEN NoCall ELSE codec.pending[i]
    BY <1>1, <1>10 DEF Codecs
  <2>2. /\ Len(codec'.order) = Len(codec.order) - 1 /\ Len(codec.order) \in Nat
        /\ \A i \in 1..Len(codec'.order) : codec'.order[i] = codec.order[i + 1]
    BY <1>2, <1>10
  <2>3. \A i \in 1..Len(codec'.order) : codec'.order[i] # first
    BY <1>1, <1>3, <2>2 DEF OrderListsPending
  <2>4. \A i \in 1..Len(codec'.order) : codec'.pending[codec'.order[i]].kind # "none"
    <3> SUFFICES ASSUME NEW i \in 1..Len(codec'.order)
                 PROVE  codec'.pending[codec'.order[i]].kind # "none"
      OBVIOUS
    <3>1. i + 1 \in 1..Len(codec.order)
      BY <2>2
    <3>2. codec'.order[i] \in Indices
      BY <1>2, <2>2, <3>1
    <3> QED
      BY <1>1, <2>1, <2>2, <2>3, <3>1, <3>2 DEF OrderListsPending
  <2>5. \A i, j \in 1..Len(codec'.order) : codec'.order[i] = codec'.order[j] => i = j
    BY <1>1, <2>2 DEF OrderListsPending
  <2>6. ASSUME NEW k \in Indices, codec'.pending[k].kind # "none"
        PROVE  \E i \in 1..Len(codec'.order) : codec'.order[i] = k
    <3>1. k # first /\ codec.pending[k].kind # "none"
      BY <2>1, <2>6 DEF NoCall
    <3>2. PICK i \in 1..Len(codec.order) : codec.order[i] = k
      BY <1>1, <3>1 DEF OrderListsPending, IsPending
    <3>3. i - 1 \in 1..Len(codec'.order) /\ codec'.order[i - 1] = k
      BY <1>3, <2>2, <3>1, <3>2
    <3> QED
      BY <3>3
  <2> QED
    BY <2>4, <2>5, <2>6 DEF OrderListsPending, IsPending
<1> QED
  BY <1>9, <1>10, <1>11, Assembled

LEMMA FinishStep ==
  ASSUME CodecInv, Finish
  PROVE  CodecInv'
<1>1. /\ codec \in Codecs /\ OrderListsPending
      /\ codec.current = NoBlock /\ codec.startSent = TRUE
      /\ Good(client, NoBlock, codec.nextIndex, TRUE)
  BY DEF CodecInv, TypeOK, FlushBeforeStop, Finish, Good, Codecs
<1>2. /\ codec' \in Codecs /\ codec'.pc # "flushing"
      /\ codec'.current = NoBlock
      /\ codec'.pending = codec.pending /\ codec'.order = codec.order
  BY <1>1 DEF Finish, Codecs
<1>3. client' \in Clients /\ ~client'.broken /\ client'.answer.end # "none"
  <2> DEFINE reason == IF codec.reason = "none" THEN "end_turn" ELSE codec.reason
             told == SeesMessageDelta(client, reason, codec.usage)
  <2>1. reason \in StopReasons /\ codec.usage \in Usages /\ codec.nextIndex \in Nat
    BY <1>1 DEF Codecs, StopReasons
  <2> HIDE DEF reason
  <2>2. Good(told, NoBlock, codec.nextIndex, TRUE)
    BY <1>1, <2>1, MessageDeltaSeen
  <2> HIDE DEF told
  <2>3. client' = SeesStop(client) \/ client' = SeesStop(told)
    BY DEF Finish, ClientFinished, told, reason
  <2> QED
    BY <1>1, <2>1, <2>2, <2>3, StopSeen
<1> QED
  BY <1>1, <1>2, <1>3, OrderKept, AssembledAtEnd

LEMMA EndStep ==
  ASSUME CodecInv, SeesEnd \/ WriteFails
  PROVE  CodecInv'
<1>1. /\ codec \in Codecs /\ OrderListsPending /\ client \in Clients /\ ~client.broken
      /\ codec.current # NoBlock => codec.startSent
  BY DEF CodecInv, TypeOK, Follows
<1>2. /\ codec' \in Codecs /\ codec'.pc # "flushing"
      /\ codec'.current = codec.current /\ codec'.startSent = codec.startSent
      /\ codec'.pending = codec.pending /\ codec'.order = codec.order
  BY <1>1 DEF SeesEnd, WriteFails, Codecs
<1>3. client' \in Clients /\ ~client'.broken /\ client'.answer.end # "none"
  <2>1. \/ client' = [client EXCEPT !.answer.end = "cut"]
        \/ client' = [client EXCEPT !.answer.end = "gone"]
        \/ client' = client /\ client.answer.end # "none"
    BY DEF SeesEnd, WriteFails
  <2>2. ASSUME NEW end \in {"cut", "gone"}, client' = [client EXCEPT !.answer.end = end]
        PROVE  client' \in Clients /\ ~client'.broken /\ client'.answer.end # "none"
    <3>1. client.answer \in Answers
      BY <1>1 DEF Clients
    <3>2. [client.answer EXCEPT !.end = end] \in Answers
      BY <3>1 DEF Answers
    <3>3. client' = [client EXCEPT !.answer = [client.answer EXCEPT !.end = end]]
      BY <1>1, <2>2 DEF Clients
    <3>4. client'.answer.end = end
      BY <1>1, <3>1, <2>2 DEF Clients, Answers
    <3> QED
      BY <1>1, <3>2, <3>3, <3>4 DEF Clients
  <2> QED
    BY <1>1, <2>1, <2>2
<1> QED
  BY <1>1, <1>2, <1>3, OrderKept, AssembledAtEnd

-----------------------------------------------------------------------------
(* The theorems.                                                           *)

LEMMA InitCodecInv == Init => CodecInv
<1> SUFFICES ASSUME Init
             PROVE  CodecInv
  OBVIOUS
<1>1. NoBlock \in Blocks /\ NoCall \in BufferedCalls /\ Unmapped \in Int
  BY NoBlockType DEF NoCall, BufferedCalls, CallIds, Unmapped
<1>2. NoUsage \in Usages
  BY DEF NoUsage, Usage, Usages
<1>3. codec \in Codecs
  BY <1>1, <1>2 DEF Init, CodecInit, Codecs, StopReasons
<1>4. client \in Clients
  BY <1>1, <1>2 DEF Init, ClientInit, Clients, Answer, Answers, StopReasons
<1>5. Follows(client, codec.current, codec.nextIndex, codec.startSent)
  BY DEF Init, ClientInit, CodecInit, Answer, Follows
<1>6. OrderListsPending
  BY DEF Init, CodecInit, OrderListsPending, IsPending, NoCall
<1> QED
  BY <1>3, <1>4, <1>5, <1>6 DEF CodecInv, TypeOK, FlushBeforeStop, Init, CodecInit

LEMMA NextCodecInv == CodecInv /\ [Next]_vars => CodecInv'
<1> SUFFICES ASSUME CodecInv, [Next]_vars
             PROVE  CodecInv'
  OBVIOUS
<1>1. ASSUME NEW ev \in AnyEvent, Admissible(ev), Receive(ev)
      PROVE  CodecInv'
  BY <1>1, ReceiveStep
<1>2. CASE FlushTool
  BY <1>2, FlushStep
<1>3. CASE Finish
  BY <1>3, FinishStep
<1>4. CASE SeesEnd \/ WriteFails
  BY <1>4, EndStep
<1>5. CASE UNCHANGED vars
  BY <1>5 DEF CodecInv, TypeOK, Follows, OrderListsPending, IsPending, FlushBeforeStop, vars
<1> QED
  BY <1>1, <1>2, <1>3, <1>4, <1>5 DEF Next

\* The codec's variables and what the client has of them always agree: the block the
\* codec believes to be open is the block the client has open.
THEOREM CodecAndClientAgree == Spec => []CodecInv
<1>1. Init => CodecInv
  BY InitCodecInv
<1>2. CodecInv /\ [Next]_vars => CodecInv'
  BY NextCodecInv
<1> QED
  BY <1>1, <1>2, PTL DEF Spec

\* The variables of the codec and of its client have their types.
THEOREM CodecTypes == Spec => []TypeOK
<1>1. CodecInv => TypeOK
  BY DEF CodecInv
<1> QED
  BY <1>1, CodecAndClientAgree, PTL

\* Whatever events an upstream sends, on whatever indices and with or without block
\* starts and stops, the blocks written are strictly sequential: each is numbered
\* one up, opened after the last was closed, filled with its own kind only, and none
\* is open when the message ends.
THEOREM BlocksAreSequential == Spec => []BlocksSequential
<1>1. CodecInv => BlocksSequential
  BY DEF CodecInv, Follows, BlocksSequential
<1> QED
  BY <1>1, CodecAndClientAgree, PTL
=============================================================================
