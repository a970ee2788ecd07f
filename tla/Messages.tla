------------------------------ MODULE Messages ------------------------------
(***************************************************************************)
(* The messages of the unified representation (message.go), which are also *)
(* those of the four wires as far as the properties go.                    *)
(*                                                                         *)
(* What is said is abstracted to numbers, a new one for everything that is *)
(* said in a conversation: a text, a thought, a picture, a tool call and   *)
(* its result can be told from all others, wherever they turn up.  A text  *)
(* that is put together from several is the sequence of them.              *)
(***************************************************************************)
EXTENDS Integers, Sequences, SequencesExt

NoId == <<>>

\* ContentPart.  "n" is what is said, 0 for nothing at all; "id", "name" and
\* "args" are those of a tool call and of the call a result answers; "mark" is the
\* signature of a thought, the is_error of a result.
Part(kind, n) ==
    [kind |-> kind, n |-> n, id |-> NoId, name |-> "", args |-> "", mark |-> FALSE]

EmptyText == Part("text", 0)

Media == {"image", "document", "video"}

Message(role, parts) == [role |-> role, parts |-> parts]

\* A request, as far as it is a conversation.
Body(system, messages) == [system |-> system, messages |-> messages]

\* A response: its content, the reason it stopped for, and the token counts.
Response(parts, reason, usage) == [parts |-> parts, reason |-> reason, usage |-> usage]

OfKind(parts, kinds) == SelectSeq(parts, LAMBDA p : p.kind \in kinds)

Calls(parts)   == OfKind(parts, {"tool_use"})
Results(parts) == OfKind(parts, {"tool_result"})

\* A part that a protocol cannot express is told of in a text.
AsText(p) == Part("text", p.n)

\* Of a tool result only the call's id goes over the wires of Anthropic and OpenAI.
Nameless(result) == [result EXCEPT !.name = "", !.args = ""]

Each(parts, Op(_)) == [i \in 1..Len(parts) |-> Op(parts[i])]

\* All of the sequences that Op makes of the parts, in their order.
FlatMap(Op(_), s) == FlattenSeq([i \in 1..Len(s) |-> Op(s[i])])

-----------------------------------------------------------------------------
(* Stop reasons, and what they tell the client to do next.                 *)

\* openAIFinishReasonFallback, for the reasons that the APIs have: a reason that an
\* encoder does not know is put into the bucket that its words suggest.
Bucket(reason) ==
    CASE reason \in {"MALFORMED_FUNCTION_CALL", "UNEXPECTED_TOOL_CALL"} -> "tool_calls"
      [] reason \in {"refusal", "content_filter", "SAFETY", "IMAGE_SAFETY", "RECITATION",
                     "BLOCKLIST", "PROHIBITED_CONTENT"} -> "content_filter"
      [] reason \in {"max_tokens", "MAX_TOKENS", "model_context_window_exceeded"} -> "length"
      [] OTHER -> "stop"

\* Usage: the tokens of the prompt, those of them read from and written to a cache,
\* and the tokens of the answer.
Usage(prompt, hit, write, completion) ==
    [prompt |-> prompt, hit |-> hit, write |-> write, completion |-> completion]
=============================================================================
