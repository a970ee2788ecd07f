-------------------------- MODULE ResponsesMessages --------------------------
(***************************************************************************)
(* convert_openai_responses.go, without the streams: requests and          *)
(* responses of the OpenAI Responses API, whose input and output are lists *)
(* of items.  An item is a message here, with the parts it has; the role   *)
(* of the others is their type, "reasoning", "function_call" or            *)
(* "function_call_output".                                                 *)
(***************************************************************************)
EXTENDS Messages

Instructing == {"system", "developer"}
Conversing  == {"user", "assistant"}

-----------------------------------------------------------------------------
(* Requests.                                                               *)

\* decodeOaiRespMessageContent: a part it does not know, a refusal, comes out empty.
DecodeContent(p) == IF p.kind = "refusal" THEN Part("refusal", 0) ELSE p

\* decodeOaiRespInput: reasoning and calls are messages of the assistant, an output
\* is one of the tool.
DecodeItem(item) ==
    CASE item.role \in Instructing                    -> Message("system", item.parts)
      [] item.role \in {"reasoning", "function_call"} -> Message("assistant", item.parts)
      [] item.role = "function_call_output"           -> Message("tool", item.parts)
      [] OTHER -> Message(item.role, Each(item.parts, DecodeContent))

\* System items before the first message of another role are the system prompt.
Hoists(items, i) ==
    items[i].role \in Instructing /\ \A j \in 1..i : items[j].role \notin Conversing

DecodeRequest(body) ==
    LET Hoisted(i) == Hoists(body.messages, i)
        indices    == [i \in 1..Len(body.messages) |-> i]
    IN Body(body.system
                \o FlatMap(LAMBDA i : IF Hoisted(i) THEN body.messages[i].parts ELSE <<>>,
                           indices),
            FlatMap(LAMBDA i : IF Hoisted(i) THEN <<>> ELSE <<DecodeItem(body.messages[i])>>,
                    indices))

\* encodeOaiRespContentParts.
EncodeContent(parts) == OfKind(parts, {"text"} \cup Media)

\* A function_call_output for every result; a failure is marked in its text.
EncodeOutputs(parts) ==
    Each(Results(parts), LAMBDA p : Message("function_call_output", <<Nameless(p)>>))

\* Unsigned thoughts are not sent back.
EncodeReasoning(parts) ==
    Each(SelectSeq(parts, LAMBDA p : \/ p.kind = "redacted_thinking"
                                     \/ p.kind = "thinking" /\ p.mark),
         LAMBDA p : Message("reasoning", <<p>>))

\* What a bug would do: the calls of a message that says something are forgotten.
EncodeCallsAlone(parts) ==
    IF OfKind(parts, {"text"}) # <<>> THEN <<>>
    ELSE Each(Calls(parts), LAMBDA p : Message("function_call", <<p>>))

EncodeCalls(parts) == Each(Calls(parts), LAMBDA p : Message("function_call", <<p>>))

\* encodeOaiRespMessage.
EncodeMessage(m) ==
    LET rest == SelectSeq(m.parts, LAMBDA p : p.kind # "tool_result")
        text == OfKind(m.parts, {"text"})
    IN CASE m.role = "user" ->
              EncodeOutputs(m.parts)
                  \o (IF rest = <<>> THEN <<>>
                      ELSE <<Message("user", EncodeContent(rest))>>)
         [] m.role = "assistant" ->
              EncodeReasoning(m.parts)
                  \o (IF text = <<>> THEN <<>> ELSE <<Message("assistant", text)>>)
                  \o EncodeCalls(m.parts)
         [] m.role = "tool" -> EncodeOutputs(m.parts)
         [] m.role = "system" -> <<Message("developer", EncodeContent(m.parts))>>

EncodeRequest(req) ==
    Body(OfKind(req.system, {"text"}), FlatMap(EncodeMessage, req.messages))

-----------------------------------------------------------------------------
(* Responses, with a status for a reason.                                  *)

DecodeStatus(status, called) ==
    CASE status = "completed"  -> IF called THEN "tool_use" ELSE "end_turn"
      [] status = "incomplete" -> "max_tokens"
      [] status = "failed"     -> "content_filter"
      [] OTHER                 -> status

\* isOpenAIResponsesStatus
Statuses == {"completed", "incomplete", "failed", "in_progress", "cancelled", "queued"}

EncodeStatus(reason) ==
    CASE reason \in {"end_turn", "stop_sequence", "tool_use"} -> "completed"
      [] reason \in {"max_tokens", "pause_turn"}              -> "incomplete"
      [] reason = "content_filter"                            -> "failed"
      [] reason \in Statuses                                  -> reason
      [] OTHER -> CASE Bucket(reason) = "length"         -> "incomplete"
                    [] Bucket(reason) = "content_filter" -> "failed"
                    [] OTHER                             -> "completed"

DecodeUsage(u) == Usage(u.prompt, u.hit, 0, u.completion)
EncodeUsage(u) == [prompt |-> u.prompt, hit |-> u.hit, completion |-> u.completion]

\* A reasoning item is read for its summary, else for its encrypted content.
DecodeResponse(resp) ==
    Response(resp.parts, DecodeStatus(resp.reason, Calls(resp.parts) # <<>>),
             DecodeUsage(resp.usage))

\* The reasoning comes first, then one message, then the calls.
EncodeResponse(resp) ==
    Response(Each(OfKind(resp.parts, {"thinking", "redacted_thinking"}),
                  LAMBDA p : [p EXCEPT !.mark = FALSE])
                 \o OfKind(resp.parts, {"text", "refusal"}) \o Calls(resp.parts),
             EncodeStatus(resp.reason), EncodeUsage(resp.usage))
=============================================================================
