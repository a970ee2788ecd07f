-------------------------- MODULE AnthropicMessages --------------------------
(***************************************************************************)
(* convert_anthropic.go, without the streams: requests and responses of    *)
(* the Anthropic Messages API.                                             *)
(***************************************************************************)
EXTENDS Messages

-----------------------------------------------------------------------------
(* Requests.                                                               *)

\* convertAnthropicMessage: a user's message of nothing but tool results is a tool
\* message.
DecodeMessage(m) ==
    IF m.role = "user" /\ m.parts # <<>> /\ Results(m.parts) = m.parts
    THEN Message("tool", m.parts)
    ELSE m

DecodeRequest(body) == Body(body.system, Each(body.messages, DecodeMessage))

\* encodeAnthropicContentPartBody: there is no block for a refusal or a video.
EncodePart(p) ==
    IF p.kind \in {"refusal", "video"} THEN AsText(p)
    ELSE IF p.kind = "tool_result" THEN Nameless(p)
    ELSE p

\* encodeAnthropicMessage: only "user" and "assistant" may be sent.
EncodeMessage(m) ==
    Message(IF m.role = "assistant" THEN "assistant" ELSE "user", Each(m.parts, EncodePart))

EncodeRequest(req) == Body(Each(req.system, EncodePart), Each(req.messages, EncodeMessage))

-----------------------------------------------------------------------------
(* Responses.                                                              *)

\* What the API calls input_tokens leaves the cached ones out.
\* What a bug would do: the input tokens are taken for the whole prompt.
DecodeUsageUncached(u) == Usage(u.input, u.hit, u.write, u.completion)

DecodeUsage(u) == Usage(u.input + u.write + u.hit, u.hit, u.write, u.completion)
EncodeUsage(u) ==
    [input |-> u.prompt - u.write - u.hit, hit |-> u.hit, write |-> u.write,
     completion |-> u.completion]

DecodeResponse(resp) == Response(resp.parts, resp.reason, DecodeUsage(resp.usage))

EncodeResponse(resp) ==
    Response(Each(resp.parts, EncodePart), resp.reason, EncodeUsage(resp.usage))
=============================================================================
