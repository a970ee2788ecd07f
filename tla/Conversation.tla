---------------------------- MODULE Conversation ----------------------------
(***************************************************************************)
(* A conversation of a client of one protocol with a provider of another.  *)
(* The gateway keeps nothing of it: the client sends the whole history     *)
(* with every request, and the history has in it what the gateway made of  *)
(* the answers before.  What a conversion loses or renames comes back with *)
(* the next request.                                                       *)
(*                                                                         *)
(* Every request is Decode<inbound>Request, then Encode<outbound>Request;  *)
(* every answer Decode<outbound>Response, then Encode<inbound>Response.    *)
(***************************************************************************)
EXTENDS RequestOptions, Messages

CONSTANTS
    Inbounds, Outbounds,     \* the protocols of the client, of the provider
    Names,                   \* the functions
    CallLists,               \* the calls that an answer may make, without numbers
    Declarable,              \* [Inbounds -> the tools that such a client may declare]
    Limits, Budgets,         \* the max_tokens and thinking budgets a client asks for
    MaxAnswers,              \* bound: the length of the conversation
    MaxSwitch,               \* bound: the answers before the last change of the provider
    MapDeveloperToSystem

Protocols == {"anthropic", "chat", "responses", "gemini"}

ASSUME ProtocolsAssumption == Inbounds \subseteq Protocols /\ Outbounds \subseteq Protocols
ASSUME LimitsAssumption    == Limits \subseteq Nat /\ Budgets \subseteq Int

Anthropic == INSTANCE AnthropicMessages
Chat      == INSTANCE ChatMessages
Responses == INSTANCE ResponsesMessages
Gemini    == INSTANCE GeminiMessages

VARIABLES
    inbound,
    outbound,     \* that of the last request: the router may choose another for the next
    copiesIds,    \* the client sends the ids of calls back; one of Gemini need not
    history,      \* the conversation, as the client keeps it
    count,        \* the numbers given to what was said
    said,         \* what was said, by whom, in order
    open,         \* the calls that the client has to answer
    failed,       \* the calls whose results the client marked as errors
    options,      \* of the first request
    stage,        \* "asking", "sending" or "answering"
    answers,
    sent, offer,  \* what the provider was sent: the conversation, the options
    told          \* the last answer: as the provider gave it, as the client got it

vars == <<inbound, outbound, copiesIds, history, count, said, open, failed, options,
          stage, answers, sent, offer, told>>

config == <<inbound, copiesIds>>

Unsent    == Body(<<>>, <<>>)
NoOptions == [tools |-> {}, choice |-> NoChoice, max |-> 0, thinking |-> NoThinking]
Untold    == Response(<<>>, "", <<>>)

-----------------------------------------------------------------------------
(* The gateway.                                                            *)

DecodeRequest(body) ==
    CASE inbound = "anthropic" -> Anthropic!DecodeRequest(body)
      [] inbound = "chat"      -> Chat!DecodeRequest(body)
      [] inbound = "responses" -> Responses!DecodeRequest(body)
      [] inbound = "gemini"    -> Gemini!DecodeRequest(body)

EncodeRequest(to, req) ==
    CASE to = "anthropic" -> Anthropic!EncodeRequest(req)
      [] to = "chat"      -> Chat!EncodeRequest(req)
      [] to = "responses" -> Responses!EncodeRequest(req)
      [] to = "gemini"    -> Gemini!EncodeRequest(req)

DecodeResponse(resp) ==
    CASE outbound = "anthropic" -> Anthropic!DecodeResponse(resp)
      [] outbound = "chat"      -> Chat!DecodeResponse(resp)
      [] outbound = "responses" -> Responses!DecodeResponse(resp)
      [] outbound = "gemini"    -> Gemini!DecodeResponse(resp)

EncodeResponse(resp) ==
    CASE inbound = "anthropic" -> Anthropic!EncodeResponse(resp)
      [] inbound = "chat"      -> Chat!EncodeResponse(resp)
      [] inbound = "responses" -> Responses!EncodeResponse(resp)
      [] inbound = "gemini"    -> Gemini!EncodeResponse(resp)

-----------------------------------------------------------------------------
(* The client.                                                             *)

Text(n)        == Part("text", n)
ClientSays(ns) == [i \in 1..Len(ns) |-> [by |-> "client", what |-> "said", n |-> ns[i]]]

\* What its user shows, of the media that its API takes.
MediaOf == [anthropic |-> "document", chat |-> "image", responses |-> "image",
            gemini |-> "video"]

ToolChoices(from, tools) ==
    LET choice(type, name, allowed) == [type |-> type, name |-> name, allowed |-> allowed]
        some == (SUBSET tools) \ {{}}
        plain(types) == {choice(t, Unset, {}) : t \in types}
        named(type) == {choice(type, f, {}) : f \in tools}
    IN IF tools = {} THEN {NoChoice}
       ELSE {NoChoice} \cup
            CASE from = "anthropic" -> plain({"auto", "any", "none"}) \cup named("tool")
              [] from = "chat" ->
                   plain({"auto", "required", "none"}) \cup named("function")
              [] from = "responses" ->
                   plain({"auto", "required", "none"}) \cup named("function")
                       \cup {choice(t, Unset, a) : t \in {"auto", "required"}, a \in some}
              [] from = "gemini" ->
                   plain({"AUTO", "ANY", "NONE"}) \cup {choice("ANY", Unset, a) : a \in some}

Thinkings(from) ==
    LET thinking(mode, budget, effort) ==
            [mode |-> mode, budget |-> budget, effort |-> effort]
    IN CASE from = "anthropic" ->
              {thinking("enabled", b, Unset) : b \in Budgets}
                  \cup {thinking("disabled", 0, Unset), thinking("adaptive", 0, Unset)}
         [] from \in {"chat", "responses"} ->
              {thinking("effort", 0, e) : e \in {"minimal", "low", "medium", "high"}}
         [] from = "gemini" -> {thinking("budget", b, Unset) : b \in Budgets \cup {-1, 0}}

\* Tools with a choice among them, or a thinking budget with a limit.
WithTools(from, tools) ==
    {[NoOptions EXCEPT !.tools = tools, !.choice = c] : c \in ToolChoices(from, tools)}

WithThinking(from, max) ==
    {[NoOptions EXCEPT !.max = max, !.thinking = t] : t \in Thinkings(from)}

Options(from) ==
    (UNION {WithTools(from, t) : t \in SUBSET Declarable[from]})
        \cup (UNION {WithThinking(from, m) : m \in Limits})

\* An instruction in the middle of a conversation, where the API has it.
Instruction(n) ==
    CASE inbound = "chat"      -> <<Message("system", <<Text(n)>>)>>
      [] inbound = "responses" -> <<Message("developer", <<Text(n)>>)>>

\* The results of calls, and what the user has to say besides.
ResultMessages(results, texts) ==
    LET singly(role) == Each(results, LAMBDA r : Message(role, <<r>>))
        beside == IF texts = <<>> THEN <<>> ELSE <<Message("user", texts)>>
    IN CASE inbound = "anthropic" -> <<Message("user", results \o texts)>>
         [] inbound = "chat"      -> singly("tool") \o beside
         [] inbound = "responses" -> singly("function_call_output") \o beside
         [] inbound = "gemini"    -> <<Message("user", results)>> \o beside

\* The answer, as the client puts it into the history.
AnswerMessages(parts) ==
    LET item(p) ==
            Message(CASE p.kind = "tool_use" -> "function_call"
                      [] p.kind \in {"thinking", "redacted_thinking"} -> "reasoning"
                      [] OTHER -> "assistant", <<p>>)
    IN CASE inbound = "responses" -> Each(parts, item)
         [] inbound = "gemini"    -> <<Message("model", parts)>>
         [] OTHER                 -> <<Message("assistant", parts)>>

AsksWith(messages, spoken, opts) ==
    /\ history' = [history EXCEPT !.messages = @ \o messages]
    /\ said' = said \o spoken
    /\ count' = count + Len(SelectSeq(spoken, LAMBDA s : s.what = "said"))
    /\ options' = opts
    /\ stage' = "sending"
    /\ open' = <<>>
    /\ told' = [provider |-> Untold, client |-> Untold]
    /\ UNCHANGED <<config, outbound, answers, sent, offer>>

\* A text, at first with a picture or the like or not; after an instruction or not.
AskText ==
    /\ stage = "asking" /\ open = <<>>
    /\ \E instructs \in IF inbound \in {"chat", "responses"} THEN BOOLEAN ELSE {FALSE},
          shows \in IF answers = 0 THEN BOOLEAN ELSE {FALSE},
          opts \in IF answers = 0 THEN Options(inbound) ELSE {NoOptions} :
         LET before == IF instructs THEN Instruction(count + 1) ELSE <<>>
             n      == count + Len(before) + 1
             parts  == IF shows THEN <<Text(n), Part(MediaOf[inbound], n + 1)>>
                       ELSE <<Text(n)>>
         IN AsksWith(before \o <<Message("user", parts)>>,
                     ClientSays([i \in 1..Len(before) + Len(parts) |-> count + i]), opts)
    /\ UNCHANGED failed

\* The results of all calls, in any order if it can be told which is which, the first of
\* them an error or not, followed by a text or not.
AnswerCalls ==
    /\ stage = "asking" /\ open # <<>>
    /\ \E order \in {open, Reverse(open)},
          errors \in IF inbound = "anthropic" THEN {{}, {1}} ELSE {{}},
          adds \in BOOLEAN :
         LET result(i) == [order[i] EXCEPT !.kind = "tool_result", !.args = "",
                                           !.name = IF inbound = "gemini" THEN @ ELSE "",
                                           !.mark = i \in errors]
             results == [i \in 1..Len(order) |-> result(i)]
             answered == [i \in 1..Len(order) |->
                            [by |-> "client", what |-> "result", n |-> order[i].n]]
             extra == IF adds THEN <<count + 1>> ELSE <<>>
         IN /\ \/ order = open \/ copiesIds
               \/ \A i, j \in 1..Len(open) : i # j => open[i].name # open[j].name
            /\ failed' = failed \cup {order[i].n : i \in errors}
            /\ AsksWith(ResultMessages(results, Each(extra, Text)),
                        answered \o ClientSays(extra), NoOptions)

-----------------------------------------------------------------------------
(* The gateway sends a request; the provider answers it.                   *)

Send ==
    /\ stage = "sending"
    /\ \E to \in IF outbound = "none" \/ answers <= MaxSwitch THEN Outbounds ELSE {outbound} :
         /\ outbound' = to
         /\ sent'  = EncodeRequest(to, DecodeRequest(history))
         /\ offer' = Convert(inbound, to, options)
    /\ stage' = "answering"
    /\ UNCHANGED <<config, history, count, said, open, failed, options, answers, told>>

\* What there may be in an answer: thoughts, then what is said, then the calls.
Thoughts ==
    LET plain  == Part("thinking", 0)
        opaque == Part("redacted_thinking", 0)
    IN {<<>>} \cup CASE outbound = "anthropic" -> {<<plain, opaque>>}
                     [] outbound = "responses" -> {<<plain>>, <<opaque>>}
                     [] OTHER                  -> {<<plain>>}

Speeches ==
    {<<Part("text", 0)>>} \cup
    (IF outbound \in {"chat", "responses"} THEN {<<Part("refusal", 0)>>} ELSE {})

Contents ==
    {t \o s : t \in Thoughts, s \in Speeches}
    \cup {t \o s \o c : t \in Thoughts, s \in {<<>>, <<Part("text", 0)>>},
                        c \in CallLists}

\* A provider of Gemini gives a call no id; one of Anthropic signs its thoughts.
Numbered(parts) ==
    [i \in 1..Len(parts) |->
        [parts[i] EXCEPT
            !.n    = count + i,
            !.id   = IF parts[i].kind = "tool_use" /\ outbound # "gemini"
                     THEN <<count + i>> ELSE NoId,
            !.mark = parts[i].kind = "thinking" /\ outbound = "anthropic"]]

\* Why an answer ended, one that was cut off or refused with the calls it had made by
\* then or without.  Some providers of OpenAI's API say "stop" when they call a function.
\* The statuses of Responses that are left out are those of work in the background.
Reasons(calls) ==
    CASE outbound = "anthropic" ->
           {"max_tokens", "refusal", "model_context_window_exceeded"}
               \cup IF calls THEN {"tool_use"} ELSE {"end_turn", "stop_sequence", "pause_turn"}
      [] outbound = "chat" ->
           {"stop", "length", "content_filter"} \cup IF calls THEN {"tool_calls"} ELSE {}
      [] outbound = "responses" -> {"completed", "incomplete", "failed"}
      [] outbound = "gemini" ->
           {"STOP", "MAX_TOKENS", "SAFETY", "RECITATION"}
               \cup IF calls THEN {}
                    ELSE {"STOP_SEQUENCE", "OTHER", "MALFORMED_FUNCTION_CALL"}

\* Prompt tokens read from a cache, and written to it where the API tells of that.
TokensUsed ==
    IF outbound = "anthropic" THEN [input |-> 2, hit |-> 3, write |-> 1, completion |-> 3]
    ELSE [prompt |-> 5, hit |-> 2, completion |-> 3]

\* Between clients and providers of Anthropic the thoughts must be kept, too.
Thoughtful == inbound = "anthropic" /\ outbound = "anthropic"

Spoken(parts) ==
    LET heard == OfKind(parts, {"text", "tool_use"}
                                   \cup (IF Thoughtful THEN {"thinking"} ELSE {}))
    IN Each(heard, LAMBDA p :
              [by |-> "model", n |-> p.n,
               what |-> CASE p.kind = "tool_use" -> "call"
                          [] p.kind = "thinking" -> "thought"
                          [] OTHER               -> "said"])

Kept(p) == IF copiesIds THEN p ELSE [p EXCEPT !.id = NoId]

Answer ==
    /\ stage = "answering" /\ answers < MaxAnswers
    /\ \E parts \in {Numbered(c) : c \in Contents} :
         \E reason \in Reasons(Calls(parts) # <<>>) :
           LET resp == Response(parts, reason, TokensUsed)
               got  == EncodeResponse(DecodeResponse(resp))
               kept == Each(got.parts, Kept)
           IN /\ told' = [provider |-> resp, client |-> got]
              /\ history' = [history EXCEPT !.messages = @ \o AnswerMessages(kept)]
              /\ open' = Calls(kept)
              /\ said' = said \o Spoken(parts)
              /\ count' = count + Len(parts)
    /\ answers' = answers + 1
    /\ stage' = "asking"
    /\ options' = NoOptions /\ offer' = NoOptions
    /\ UNCHANGED <<config, outbound, failed, sent>>

-----------------------------------------------------------------------------

Init ==
    /\ inbound \in Inbounds /\ outbound = "none"
    /\ copiesIds \in IF inbound = "gemini" THEN BOOLEAN ELSE {TRUE}
    /\ history = IF inbound = "chat" THEN Body(<<>>, <<Message("system", <<Text(1)>>)>>)
                 ELSE Body(<<Text(1)>>, <<>>)
    /\ count = 1 /\ said = ClientSays(<<1>>)
    /\ open = <<>> /\ failed = {} /\ answers = 0 /\ stage = "asking"
    /\ options = NoOptions /\ sent = Unsent /\ offer = NoOptions
    /\ told = [provider |-> Untold, client |-> Untold]

Next == AskText \/ AnswerCalls \/ Send \/ Answer

Spec == Init /\ [][Next]_vars

-----------------------------------------------------------------------------
(* Properties of the requests that are sent.                               *)

FromModel == {"assistant", "model", "function_call", "reasoning"}

\* What the provider reads in a conversation.
Heard(body) ==
    LET hear(role, p) ==
            [by |-> IF role \in FromModel THEN "model" ELSE "client", n |-> p.n,
             what |-> CASE p.kind = "tool_use"    -> "call"
                        [] p.kind = "tool_result" -> "result"
                        [] p.kind \in {"thinking", "redacted_thinking"} -> "thought"
                        [] OTHER                  -> "said"]
        ofMessage(m) == Each(m.parts, LAMBDA p : hear(m.role, p))
    IN ofMessage(Message("system", body.system)) \o FlatMap(ofMessage, body.messages)

\* Every text, picture, call and result of the conversation reaches the provider with
\* every request, once, in order, from the side that it came from; nothing else that
\* was to be kept does.
ConversationKept ==
    LET numbers == {said[i].n : i \in 1..Len(said)}
        ToKeep(s) == s.n \in numbers /\ (s.what = "thought" => Thoughtful)
    IN stage = "answering" => SelectSeq(Heard(sent), ToKeep) = SelectSeq(said, ToKeep)

SentParts == FlatMap(LAMBDA m : m.parts, sent.messages)

\* A result is read by the provider as that of the call it answers: the last call
\* before it with its id is that call, Gemini is told the function's name, and it says
\* that the call failed if and only if the client said so.
ResultsPaired ==
    \A i \in 1..Len(SentParts) :
        LET r == SentParts[i]
            calls == SelectSeq(SubSeq(SentParts, 1, i - 1),
                               LAMBDA p : p.kind = "tool_use" /\ p.id = r.id)
        IN r.kind = "tool_result" =>
             /\ calls # <<>> /\ Last(calls).n = r.n
             /\ outbound = "gemini" => r.name = Last(calls).name
             /\ r.mark = (r.n \in failed)

\* A provider caches the requests by their beginnings: what was sent for the earlier
\* turns is sent to it again, unchanged, whatever is said later.
PrefixStable ==
    [][sent # Unsent /\ sent' # sent /\ outbound' = outbound =>
         sent'.system = sent.system /\ IsPrefix(sent.messages, sent'.messages)]_vars

\* No message is sent to OpenAI or Gemini without content: they refuse the request.
EveryMessageSays ==
    outbound # "anthropic" =>
        \A i \in 1..Len(sent.messages) : sent.messages[i].parts # <<>>

\* A signed thought is sent back to Anthropic with its signature.
SignatureKept ==
    outbound = "anthropic" =>
        \A i \in 1..Len(SentParts) : SentParts[i].kind = "thinking" => SentParts[i].mark

\* The provider is told to choose among the tools that it is sent, not of one that was
\* dropped.
ChoiceOffered == ChoosesAmong(outbound, offer, options.tools)

\* A budget for thinking that Anthropic accepts is sent, and one is sent if there is.
BudgetFits ==
    stage = "answering" /\ outbound = "anthropic" =>
        FitsLimit(offer, DecodeThinking(inbound, options.thinking))

\* A client that turned thinking off does not have the provider think: Gemini thinks
\* unless it is told not to.
OffIsOff ==
    stage = "answering" /\ DecodeThinking(inbound, options.thinking).mode = "disabled" =>
        /\ outbound = "gemini" => offer.thinking.mode = "budget" /\ offer.thinking.budget = 0
        /\ offer.thinking.mode \notin {"enabled", "adaptive", "effort", "dynamic"}

-----------------------------------------------------------------------------
(* Properties of the answers.                                              *)

\* What a reason says: the answer is complete, was cut off, or refused, or calls.  Gemini
\* has some that do not say which.
Means(reason, calls, byCalls) ==
    CASE reason \in {"max_tokens", "model_context_window_exceeded", "pause_turn", "length",
                     "incomplete", "MAX_TOKENS"} -> "cut"
      [] reason \in {"refusal", "content_filter", "failed", "SAFETY", "RECITATION"}
                                                -> "refused"
      [] reason \in {"tool_use", "tool_calls"}  -> "calls"
      [] reason \in {"OTHER", "MALFORMED_FUNCTION_CALL"} -> "unsaid"
      [] OTHER -> IF calls # <<>> /\ byCalls THEN "calls" ELSE "done"

TotalPrompt(protocol, u) ==
    IF protocol = "anthropic" THEN u.input + u.hit + u.write ELSE u.prompt

\* The reason of the client's answer means what the reason of the provider's meant, if
\* that says what it means.
SameMeaning(p, c) ==
    LET meant == Means(p.reason, Calls(p.parts), TRUE)
    IN meant # "unsaid" =>
         Means(c.reason, Calls(c.parts), inbound \in {"responses", "gemini"}) = meant

\* The same tokens, counted as one protocol counts them and as the other does.
SameCost(from, u, to, v) ==
    /\ TotalPrompt(to, v) = TotalPrompt(from, u)
    /\ v.hit = u.hit /\ v.completion = u.completion

\* The client is told what the answer cost.
CostTold ==
    stage = "asking" /\ answers > 0 =>
        SameCost(outbound, told.provider.usage, inbound, told.client.usage)

\* The reasons of the three APIs whose lists the gateway takes for closed.
Documented(protocol) ==
    CASE protocol = "chat"      -> {"stop", "length", "tool_calls", "content_filter"}
      [] protocol = "responses" -> Responses!Statuses
      [] protocol = "gemini"    -> Gemini!FinishReasons

\* A client of OpenAI's APIs or of Gemini's is given no reason but one of its API's list;
\* one of Anthropic's is given a reason of Anthropic as it is.
ReasonDocumented ==
    /\ inbound # "anthropic" => told.client.reason \in {""} \cup Documented(inbound)
    /\ inbound = "anthropic" /\ outbound = "anthropic" =>
         told.client.reason = told.provider.reason

\* The client is told why the answer ended, with a reason that its API has, and what it
\* cost.
OutcomeTold ==
    /\ stage = "asking" /\ answers > 0 => SameMeaning(told.provider, told.client)
    /\ ReasonDocumented
    /\ CostTold

\* What a provider counts; the tokens of the prompt have those of the cache in them, but
\* for those of Anthropic.
Counts(protocol) ==
    IF protocol = "anthropic" THEN [input : Nat, hit : Nat, write : Nat, completion : Nat]
    ELSE {u \in [prompt : Nat, hit : Nat, completion : Nat] : u.hit <= u.prompt}

\* The types of the variables: what the client is told to have used are counts, though
\* Anthropic's input tokens are what is left of others.
TypeOK ==
    /\ stage \in {"asking", "sending", "answering"}
    /\ count \in Nat /\ answers \in 0..MaxAnswers
    /\ \A i \in 1..Len(said) : said[i].n \in 1..count
    /\ failed \subseteq 1..count
    /\ options.tools \subseteq Declarable[inbound]
    /\ told.client = Untold \/ told.client.usage \in Counts(inbound)
=============================================================================
