--------------------------- MODULE ResponsesStream ---------------------------
(***************************************************************************)
(* openaiResponsesCodec.WriteStreamingResponse with its                    *)
(* responsesStreamState: it ranges over the IR events of any upstream and  *)
(* writes Responses events.  An output item is opened for every pair of a  *)
(* source index and a content type, and closed once.                       *)
(***************************************************************************)
EXTENDS StreamEvents

VARIABLES
    codec,           \* the variables of WriteStreamingResponse
    client           \* external: the accumulator of the client's SDK

vars == <<codec, client>>

\* The kinds of content that have an output item.
ItemKinds == {"text", "refusal", "thinking", "tool_use"}

CodecInit ==
    [pc |-> "ranging",
     started |-> FALSE,
     usage |-> NoUsage,
     reason |-> "none",       \* stopReason
     nextOutput |-> 0,
     items |-> <<>>]          \* oldest first; each has a key of its own

-----------------------------------------------------------------------------
(* External: the client's SDK.  Items come by ascending output index; a    *)
(* delta is for an item that is open, and the response completes when all  *)
(* are closed.  "broken" is set by anything else.                          *)

ClientInit ==
    [answer |-> Answer, created |-> FALSE, items |-> <<>>, broken |-> FALSE]

Takes(c, wellFormed, taken) ==
    IF wellFormed /\ c.created /\ c.answer.end = "none" THEN taken
    ELSE [c EXCEPT !.broken = TRUE]

\* The positions, in what the client has, of an item that is open.
OpenAt(c, output) == {i \in 1..Len(c.items) : c.items[i].output = output /\ c.items[i].open}

SeesCreated(c) == [c EXCEPT !.created = TRUE, !.broken = @ \/ c.created]

SeesItemAdded(c, item) ==
    Takes(c, \A i \in 1..Len(c.items) : c.items[i].output < item.output,
          [c EXCEPT !.items = Append(@, [output |-> item.output, kind |-> item.kind,
                                         call |-> item.call, open |-> TRUE]),
                    !.answer.calls = IF item.kind = "tool_use" THEN Append(@, item.call)
                                     ELSE @])

SeesDelta(c, item, frag) ==
    Takes(c, OpenAt(c, item.output) # {},
          [c EXCEPT !.answer.pieces = Append(@, Piece(item.kind, item.call, frag))])

\* Items that are done come with their final ids.
SeesItemsDone(c, items) ==
    LET done == {item.output : item \in items}
    IN  Takes(c, \A item \in items :
                   \E i \in OpenAt(c, item.output) : c.items[i].call = item.call,
              [c EXCEPT !.items = [i \in 1..Len(c.items) |->
                                     [c.items[i] EXCEPT !.open = @ /\ c.items[i].output \notin done]]])

SeesCompleted(c, reason, usage) ==
    Takes(c, \A i \in 1..Len(c.items) : ~c.items[i].open,
          [c EXCEPT !.answer.reason = reason, !.answer.usage = usage,
                    !.answer.end = "clean"])

SeesError(c) == [c EXCEPT !.answer.end = "error"]

-----------------------------------------------------------------------------
(* responsesStreamState.                                                   *)

\* start sends response.created once; ensureStarted does so without a response.
Noted(ev) ==
    [codec EXCEPT !.started = TRUE,
                  !.usage = Merge(@, ev.usage),
                  !.reason = IF ev.reason # "none" THEN ev.reason ELSE @]

ClientStarted == IF codec.started THEN client ELSE SeesCreated(client)

Key(item) == <<item.source, item.kind>>

\* The position of the item for an index and a content type, 0 without one; there
\* is at most one.
Position(items, index, kind) ==
    LET at == {i \in 1..Len(items) : Key(items[i]) = <<index, kind>>}
    IN  IF at = {} THEN 0 ELSE CHOOSE i \in at : TRUE

ItemAt(index, kind) == Position(codec.items, index, kind)

NewItem(index, part) ==
    [source |-> index, output |-> codec.nextOutput, kind |-> part.kind,
     call |-> part.id, closed |-> FALSE]

\* ensureItem: an item that is not there is added and announced.  A kind that has
\* no item takes an output index and is not kept.
Ensured(k, index, part) ==
    IF ItemAt(index, part.kind) # 0 THEN k
    ELSE [k EXCEPT !.nextOutput = @ + 1,
                   !.items = IF part.kind \in ItemKinds
                             THEN Append(@, NewItem(index, part)) ELSE @]

ClientEnsured(c, index, part) ==
    IF ItemAt(index, part.kind) # 0 \/ part.kind \notin ItemKinds THEN c
    ELSE SeesItemAdded(c, NewItem(index, part))

\* writeDelta: an id that is not empty replaces the item's; a fragment that is
\* empty is not written.
ClientDelta(c, k, index, part) ==
    LET at == Position(k.items, index, part.kind)
    IN  IF at = 0 \/ part.frag = 0 THEN c ELSE SeesDelta(c, k.items[at], part.frag)

Named(k, index, part) ==
    [k EXCEPT !.items = [i \in 1..Len(k.items) |->
                           IF Key(k.items[i]) = <<index, part.kind>> /\ part.id # NoId
                           THEN [k.items[i] EXCEPT !.call = part.id] ELSE k.items[i]]]

\* closeItem: an item that is closed is left alone.
Closed(k, at) == [k EXCEPT !.items[at].closed = TRUE]

ClientClosed(c, items) ==
    LET open == {item \in items : ~item.closed}
    IN  IF open = {} THEN c ELSE SeesItemsDone(c, open)

\* complete closes all items, in the order of their output indices, and ends the
\* response with the status that the stop reason stands for.
Status(reason) ==
    CASE reason \in {"max_tokens", "pause_turn"} -> "max_tokens"
      [] reason = "content_filter"               -> "content_filter"
      [] OTHER                                   -> "end_turn"

ClientCompleted(c, k) ==
    SeesCompleted(ClientClosed(c, {k.items[i] : i \in 1..Len(k.items)}), Status(k.reason), k.usage)

-----------------------------------------------------------------------------
(* One iteration of the loop.                                              *)

OnStart(ev) ==
    /\ ev.type = "start"
    /\ codec' = IF codec.started THEN codec
                ELSE [codec EXCEPT !.started = TRUE, !.usage = Merge(@, ev.response)]
    /\ client' = ClientStarted

OnBlockStart(ev) ==
    /\ ev.type = "content_block_start"
    /\ codec' = IF ev.part = NoPart THEN Noted(ev)
                ELSE Ensured(Noted(ev), ev.index, ev.part)
    /\ client' = IF ev.part = NoPart THEN ClientStarted
                 ELSE ClientEnsured(ClientStarted, ev.index, ev.part)

OnDelta(ev) ==
    LET k == Ensured(Noted(ev), ev.index, ev.part)
    IN
    /\ ev.type = "delta"
    /\ IF ev.part = NoPart
       THEN codec' = Noted(ev) /\ client' = ClientStarted
       ELSE /\ codec' = Named(k, ev.index, ev.part)
            /\ client' = ClientDelta(ClientEnsured(ClientStarted, ev.index, ev.part),
                                     k, ev.index, ev.part)

\* closeIndex closes one item of the index: of several, that which the iteration
\* over the map comes to first.
OnBlockStop(ev) ==
    LET candidates == {i \in 1..Len(codec.items) : codec.items[i].source = ev.index}
    IN
    /\ ev.type = "content_block_stop"
    /\ IF candidates = {}
       THEN codec' = Noted(ev) /\ client' = ClientStarted
       ELSE \E i \in candidates :
              /\ codec' = Closed(Noted(ev), i)
              /\ client' = ClientClosed(ClientStarted, {codec.items[i]})

OnStop(ev) ==
    /\ ev.type = "stop"
    /\ codec' = [Noted(ev) EXCEPT !.pc = "returned"]
    /\ client' = ClientCompleted(ClientStarted, Noted(ev))

\* An error event and an error of the reader are told in band and end the loop.
OnError(ev) ==
    /\ ev.type \in {"error", "err"}
    /\ codec' = [codec EXCEPT !.pc = "returned"]
    /\ client' = SeesError(IF ev.type = "error" THEN ClientStarted ELSE client)

Receive(ev) ==
    /\ codec.pc = "ranging"
    /\ \/ OnStart(ev) \/ OnBlockStart(ev) \/ OnDelta(ev) \/ OnBlockStop(ev)
       \/ OnStop(ev) \/ OnError(ev)

\* The channel is closed without a stop: nothing is closed and nothing completed.
SeesEnd ==
    /\ codec.pc = "ranging"
    /\ codec' = [codec EXCEPT !.pc = "returned"]
    /\ client' = [client EXCEPT !.answer.end = "cut"]

\* A write fails, the client has left: the loop ends.
WriteFails ==
    /\ codec.pc = "ranging"
    /\ codec' = [codec EXCEPT !.pc = "returned"]
    /\ client' = [client EXCEPT !.answer.end = "gone"]
=============================================================================
