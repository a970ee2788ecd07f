---------------------------- MODULE StreamEvents ----------------------------
(***************************************************************************)
(* The unified stream events of message.go, and what can be heard of them. *)
(*                                                                         *)
(* Content is abstracted to pieces.  A piece is one fragment of a text, of *)
(* a thought, of a tool call's arguments, with a number of its own: pieces *)
(* that are lost, repeated, swapped or given to another call can be told   *)
(* from the pieces that were sent.  A call's id stands for its id and its  *)
(* name, which every protocol sends together.  Token counts are abstracted *)
(* to the last count told of the prompt and of the completion.             *)
(***************************************************************************)
EXTENDS Integers, Sequences

ToolKinds  == {"tool_use", "server_tool_use"}
BlockKinds == {"text", "thinking", "refusal"} \cup ToolKinds

\* Blocks that come whole, in their content_block_start, and have no deltas.
OpaqueKinds == {"redacted_thinking", "web_search_tool_result"}
StartKinds  == BlockKinds \cup OpaqueKinds

NoId == "none"

\* ContentPart, as far as a stream carries it; frag 0 is an empty fragment.
Part(kind, id, frag) == [kind |-> kind, id |-> id, frag |-> frag]
NoPart == Part("none", NoId, 0)

Usage(prompt, completion) == [prompt |-> prompt, completion |-> completion]
NoUsage == Usage(0, 0)

\* mergeStreamUsage: only counts that are not zero are taken over.
Merge(dst, src) ==
    [prompt     |-> IF src.prompt # 0 THEN src.prompt ELSE dst.prompt,
     completion |-> IF src.completion # 0 THEN src.completion ELSE dst.completion]

\* StreamEvent: type, index, delta, stop reason, usage, and the usage of its
\* response.  An event of type "err" is a StreamResult with an error in place of
\* an event.
Event(type, index, part, reason, usage, response) ==
    [type |-> type, index |-> index, part |-> part, reason |-> reason,
     usage |-> usage, response |-> response]

StartEvent(response, usage) == Event("start", 0, NoPart, "none", usage, response)
BlockStart(index, part)     == Event("content_block_start", index, part, "none", NoUsage, NoUsage)
Delta(index, part)          == Event("delta", index, part, "none", NoUsage, NoUsage)
BareDelta(reason, usage)    == Event("delta", 0, NoPart, reason, usage, NoUsage)
BlockStop(index)            == Event("content_block_stop", index, NoPart, "none", NoUsage, NoUsage)
StopEvent(reason, usage)    == Event("stop", 0, NoPart, reason, usage, NoUsage)
ErrorEvent(usage)           == Event("error", 0, NoPart, "none", usage, NoUsage)
ErrResult                   == Event("err", 0, NoPart, "none", NoUsage, NoUsage)

-----------------------------------------------------------------------------
(* What one side says and the other hears.                                 *)

\* A fragment of a text, of a thought, or of the arguments of a call.
Piece(kind, call, n) == [kind |-> kind, call |-> call, n |-> n]

\* The pieces of one answer: what the provider said, and what the client's SDK
\* has accumulated.  "end" says how the answer ended: "none" (it has not),
\* "clean", "error" (told in band, or met by the reader), "unheard" (told in band,
\* in a payload that the reader takes for something else), "cut" (the connection
\* was closed) or "gone" (the client has left).
Answer == [pieces |-> <<>>, calls |-> <<>>, reason |-> "none",
           usage |-> NoUsage, end |-> "none"]

OfKinds(pieces, kinds) == SelectSeq(pieces, LAMBDA p : p.kind \in kinds)
OfCall(pieces, call)   == SelectSeq(pieces, LAMBDA p : p.kind \in ToolKinds
                                                       /\ p.call = call)
Numbers(pieces)        == [i \in 1..Len(pieces) |-> pieces[i].n]

Fragments(kind, call, frags) ==
    [i \in 1..Len(frags) |-> Piece(kind, call, frags[i])]
=============================================================================
