---------------------------- MODULE ChatMessages ----------------------------
(***************************************************************************)
(* convert_openai_chat.go, without the streams: requests and responses of  *)
(* the OpenAI Chat Completions API.  An assistant's message has a field    *)
(* for the reasoning, for the content and for the tool calls: its parts    *)
(* are listed in this order.                                               *)
(***************************************************************************)
EXTENDS Messages

CONSTANT MapDeveloperToSystem    \* the option of the Mux

Instructing == {"system", "developer"}

-----------------------------------------------------------------------------
(* Requests.                                                               *)

\* decodeOpenAIChatAssistantMessage; a refusal of the history is not read.
DecodeAssistant(parts) ==
    OfKind(parts, {"redacted_thinking"}) \o OfKind(parts, {"thinking"})
        \o OfKind(parts, {"text"} \cup Media) \o Calls(parts)

DecodeMessage(m) ==
    CASE m.role \in Instructing -> Message("system", m.parts)
      [] m.role = "assistant"   -> Message("assistant", DecodeAssistant(m.parts))
      [] OTHER                  -> m

\* Only the leading run of system messages is the system prompt.
Hoists(messages, i) == \A j \in 1..i : messages[j].role \in Instructing

DecodeRequest(body) ==
    LET Hoisted(i) == Hoists(body.messages, i)
        system == FlatMap(LAMBDA i : IF Hoisted(i) THEN body.messages[i].parts ELSE <<>>,
                          [i \in 1..Len(body.messages) |-> i])
        others == FlatMap(LAMBDA i : IF Hoisted(i) THEN <<>>
                                     ELSE <<DecodeMessage(body.messages[i])>>,
                          [i \in 1..Len(body.messages) |-> i])
    IN Body(system, others)

\* encodeOpenAIChatContentParts: a document and a refusal become a text; a thought
\* has no place here.
EncodeContent(parts) ==
    FlatMap(LAMBDA p : IF p.kind \in {"text", "image", "video"} THEN <<p>>
                       ELSE IF p.kind \in {"document", "refusal"} THEN <<AsText(p)>>
                       ELSE <<>>,
            parts)

\* ensureNonEmptyChatContent.
NonEmpty(parts) == IF parts = <<>> THEN <<EmptyText>> ELSE parts

\* encodeOpenAIChatToolResultPart: a failure is marked in the text of the result.
EncodeResult(p) == Message("tool", <<Nameless(p)>>)

\* A user's message: the parts before a tool result are sent before it, in a message
\* of their own.
EncodeUser(parts) ==
    LET Flush(acc) ==
            IF acc.pending = <<>> THEN acc.sent
            ELSE Append(acc.sent, Message("user", NonEmpty(EncodeContent(acc.pending))))
        Add(acc, p) ==
            IF p.kind = "tool_result"
            THEN [sent |-> Append(Flush(acc), EncodeResult(p)), pending |-> <<>>]
            ELSE [acc EXCEPT !.pending = Append(@, p)]
    IN Flush(FoldLeft(Add, [sent |-> <<>>, pending |-> <<>>], parts))

\* encodeOpenAIChatAssistantMessage: one reasoning, with one signature, one text, the
\* calls; with neither text nor calls the text is empty.
EncodeAssistant(parts) ==
    LET thoughts == OfKind(parts, {"thinking"})
        redacted == OfKind(parts, {"redacted_thinking"})
        signed   == \E i \in 1..Len(thoughts) : thoughts[i].mark
        said     == FlatMap(LAMBDA p : IF p.kind = "text" THEN <<p>>
                                       ELSE IF p.kind \in {"refusal", "document", "video"}
                                               /\ p.n # 0
                                       THEN <<AsText(p)>> ELSE <<>>,
                            parts)
    IN Message("assistant",
               (IF redacted = <<>> THEN <<>> ELSE <<Last(redacted)>>)
               \o Each(thoughts, LAMBDA p : [p EXCEPT !.mark = signed])
               \o (IF said = <<>> /\ Calls(parts) = <<>> THEN <<EmptyText>> ELSE said)
               \o Calls(parts))

SystemRole == IF MapDeveloperToSystem THEN "system" ELSE "developer"

\* encodeOpenAIChatMessages: the results of a tool message are sent one by one.
EncodeMessage(m) ==
    CASE m.role = "user"      -> EncodeUser(m.parts)
      [] m.role = "assistant" -> <<EncodeAssistant(m.parts)>>
      [] m.role = "tool"      -> Each(Results(m.parts), EncodeResult)
      [] m.role = "system"    -> <<Message(SystemRole, NonEmpty(EncodeContent(m.parts)))>>

\* The system prompt is one message, the first.
AllMessages(system, messages) ==
    (IF system = <<>> THEN <<>> ELSE <<Message(SystemRole, EncodeContent(system))>>)
        \o FlatMap(EncodeMessage, messages)

\* What a bug would do: of the thoughts only those of the last answer are sent back.
EncodeRequestForgetting(req) ==
    LET last == {i \in 1..Len(req.messages) :
                   \A j \in i + 1..Len(req.messages) : req.messages[j].role # "assistant"}
        kept(i) == SelectSeq(req.messages[i].parts,
                             LAMBDA p : p.kind # "thinking" \/ i \in last)
    IN Body(<<>>, AllMessages(req.system,
                              [i \in 1..Len(req.messages) |->
                                 Message(req.messages[i].role, kept(i))]))

EncodeRequest(req) == Body(<<>>, AllMessages(req.system, req.messages))

-----------------------------------------------------------------------------
(* Responses.                                                              *)

DecodeReason(reason) ==
    CASE reason = "stop"       -> "end_turn"
      [] reason = "length"     -> "max_tokens"
      [] reason = "tool_calls" -> "tool_use"
      [] OTHER                 -> reason

EncodeReason(reason) ==
    CASE reason \in {"end_turn", "stop_sequence"}  -> "stop"
      [] reason \in {"max_tokens", "pause_turn"}   -> "length"
      [] reason = "tool_use"                       -> "tool_calls"
      [] OTHER                                     -> Bucket(reason)

\* What a bug would do: a "stop" with tool calls is taken for the end of the turn.
StopReasonAsTold(resp) == DecodeReason(resp.reason)

\* Some providers say "stop" when they call tools.
StopReason(resp) ==
    IF DecodeReason(resp.reason) = "end_turn" /\ Calls(resp.parts) # <<>> THEN "tool_use"
    ELSE DecodeReason(resp.reason)

\* prompt_tokens has the cached ones in it.
DecodeUsage(u) == Usage(u.prompt, u.hit, 0, u.completion)
EncodeUsage(u) == [prompt |-> u.prompt, hit |-> u.hit, completion |-> u.completion]

DecodeResponse(resp) ==
    Response(OfKind(resp.parts, {"thinking"}) \o OfKind(resp.parts, {"text"})
                 \o OfKind(resp.parts, {"refusal"}) \o Calls(resp.parts),
             StopReason(resp), DecodeUsage(resp.usage))

\* The content is empty, not absent, next to a reasoning or to calls.
EncodeResponse(resp) ==
    LET thoughts == OfKind(resp.parts, {"thinking"})
        text == OfKind(resp.parts, {"text"})
    IN Response(Each(thoughts, LAMBDA p : [p EXCEPT !.mark = FALSE])
                \o (IF text = <<>> /\ (thoughts # <<>> \/ Calls(resp.parts) # <<>>)
                    THEN <<EmptyText>> ELSE text)
                \o OfKind(resp.parts, {"refusal"}) \o Calls(resp.parts),
                EncodeReason(resp.reason), EncodeUsage(resp.usage))
=============================================================================
