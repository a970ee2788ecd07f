--------------------------- MODULE GeminiMessages ---------------------------
(***************************************************************************)
(* convert_gemini.go, without the streams: requests and responses of the   *)
(* Gemini generateContent API.  A function call may come without an id,    *)
(* and a function response then names the function only.                   *)
(***************************************************************************)
EXTENDS Messages

CONSTANT Names      \* the functions

-----------------------------------------------------------------------------
(* geminiToolCorrelator, and the messages decoded so far.                  *)

\* The ids of the calls seen, by name; how many of them were answered; how many ids
\* were made up for a name.
NewCorrelator ==
    [ids |-> [f \in Names |-> <<>>], next |-> [f \in Names |-> 0],
     ordinals |-> [f \in Names |-> 0], parts |-> <<>>, messages |-> <<>>]

\* syntheticIDFor: a hash of the name, the arguments and the ordinal.
SyntheticId(name, args, ordinal) == <<name, args, ordinal>>

\* A call without an id is given one; it is recorded.
SeesCall(c, p) ==
    LET id == IF p.id = NoId THEN SyntheticId(p.name, p.args, c.ordinals[p.name])
              ELSE p.id
    IN [c EXCEPT !.ordinals[p.name] = IF p.id = NoId THEN @ + 1 ELSE @,
                 !.ids[p.name] = Append(@, id),
                 !.parts = Append(@, [p EXCEPT !.id = id])]

\* What a bug would do: the last call of the function is taken to be answered.
CorrelatesLast(c, name) == Last(c.ids[name])

\* correlate: the oldest call of the function that was not answered.
Correlate(c, name) == c.ids[name][c.next[name] + 1]

\* A result without an id is one of a call that was recorded, if one is left, and is
\* given a made-up id else; the ordinal is counted in both cases.
SeesResult(c, p) ==
    LET left == c.next[p.name] < Len(c.ids[p.name])
        id == IF left THEN Correlate(c, p.name)
              ELSE SyntheticId(p.name, "response", c.ordinals[p.name])
    IN IF p.id # NoId THEN [c EXCEPT !.parts = Append(@, Nameless(p))]
       ELSE [c EXCEPT !.ordinals[p.name] = @ + 1,
                      !.next[p.name] = IF left THEN @ + 1 ELSE @,
                      !.parts = Append(@, [Nameless(p) EXCEPT !.id = id])]

SeesPart(c, p) ==
    CASE p.kind = "tool_use"    -> SeesCall(c, p)
      [] p.kind = "tool_result" -> SeesResult(c, p)
      [] OTHER                  -> [c EXCEPT !.parts = Append(@, p)]

-----------------------------------------------------------------------------
(* Requests.                                                               *)

\* One function response makes a content a tool message.
DecodeRole(m) ==
    IF Results(m.parts) # <<>> THEN "tool"
    ELSE IF m.role = "model" THEN "assistant" ELSE m.role

\* convertGeminiContentToMessage.
SeesContent(c, m) ==
    LET seen == FoldLeft(SeesPart, [c EXCEPT !.parts = <<>>], m.parts)
    IN [seen EXCEPT !.messages = Append(@, Message(DecodeRole(m), seen.parts))]

DecodeRequest(body) ==
    Body(body.system, FoldLeft(SeesContent, NewCorrelator, body.messages).messages)

\* toolNameByID: the function that was called with the id.
NamesById(messages) ==
    LET calls == FlatMap(LAMBDA m : Calls(m.parts), messages)
        ids   == {calls[i].id : i \in 1..Len(calls)}
    IN [id \in ids |-> Last(SelectSeq(calls, LAMBDA p : p.id = id)).name]

\* A function response must bear the name of its function.
NamedResult(p, names) ==
    IF p.kind = "tool_result" /\ p.name = "" /\ p.id \in DOMAIN names
    THEN [p EXCEPT !.name = names[p.id]]
    ELSE p

\* convertIRPartsToGemini: an empty text is left out, an opaque thought cannot be
\* sent, a refusal becomes a text, and there is no signature.
EncodeParts(parts) ==
    FlatMap(LAMBDA p : IF p.n = 0 \/ p.kind = "redacted_thinking" THEN <<>>
                       ELSE IF p.kind = "refusal" THEN <<AsText(p)>>
                       ELSE IF p.kind = "thinking" THEN <<[p EXCEPT !.mark = FALSE]>>
                       ELSE <<p>>,
            parts)

\* What a bug would do: a content may have no parts.
PossiblyEmpty(parts) == parts

\* ensureNonEmptyGeminiParts.
NonEmpty(parts) == IF parts = <<>> THEN <<EmptyText>> ELSE parts

\* encodeIRMessageToGemini.
EncodeMessage(m, names) ==
    Message(IF m.role = "assistant" THEN "model" ELSE "user",
            NonEmpty(EncodeParts(Each(m.parts, LAMBDA p : NamedResult(p, names)))))

EncodeRequest(req) ==
    LET names == NamesById(req.messages)
    IN Body(EncodeParts(req.system),
            Each(req.messages, LAMBDA m : EncodeMessage(m, names)))

-----------------------------------------------------------------------------
(* Responses.                                                              *)

\* Only of a STOP the calls make something else.
DecodeReason(reason, called) ==
    CASE reason = "STOP"          -> IF called THEN "tool_use" ELSE "end_turn"
      [] reason = "MAX_TOKENS"    -> "max_tokens"
      [] reason = "SAFETY"        -> "content_filter"
      [] reason = "STOP_SEQUENCE" -> "stop_sequence"
      [] OTHER                    -> reason

\* isGeminiFinishReason
FinishReasons ==
    {"STOP", "MAX_TOKENS", "SAFETY", "RECITATION", "LANGUAGE", "OTHER", "BLOCKLIST",
     "PROHIBITED_CONTENT", "SPII", "MALFORMED_FUNCTION_CALL", "IMAGE_SAFETY",
     "UNEXPECTED_TOOL_CALL", "STOP_SEQUENCE", "FINISH_REASON_UNSPECIFIED"}

EncodeReason(reason) ==
    CASE reason \in {"end_turn", "tool_use"}      -> "STOP"
      [] reason = "stop_sequence"                 -> "STOP_SEQUENCE"
      [] reason \in {"max_tokens", "pause_turn"}  -> "MAX_TOKENS"
      [] reason = "content_filter"                -> "SAFETY"
      [] reason \in FinishReasons                 -> reason
      [] OTHER -> CASE Bucket(reason) = "length"         -> "MAX_TOKENS"
                    [] Bucket(reason) = "content_filter" -> "SAFETY"
                    [] OTHER                             -> "STOP"

DecodeUsage(u) == Usage(u.prompt, u.hit, 0, u.completion)
EncodeUsage(u) == [prompt |-> u.prompt, hit |-> u.hit, completion |-> u.completion]

\* A response is decoded without a correlator: every ordinal is 0.
DecodeAnswered(p) ==
    IF p.kind = "tool_use" /\ p.id = NoId
    THEN [p EXCEPT !.id = SyntheticId(p.name, p.args, 0)] ELSE p

DecodeResponse(resp) ==
    Response(Each(resp.parts, DecodeAnswered),
             DecodeReason(resp.reason, Calls(resp.parts) # <<>>), DecodeUsage(resp.usage))

EncodeResponse(resp) ==
    Response(EncodeParts(resp.parts), EncodeReason(resp.reason), EncodeUsage(resp.usage))
=============================================================================
