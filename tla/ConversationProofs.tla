------------------------- MODULE ConversationProofs -------------------------
(***************************************************************************)
(* What the run of Conversation checks of the options of a request for a   *)
(* few tools, limits and budgets is proved for all of them.                *)
(***************************************************************************)
EXTENDS Conversation, FiniteSetTheorems, TLAPS

Choice(type, name, allowed) == [type |-> type, name |-> name, allowed |-> allowed]

IsChoice(c) == c = Choice(c.type, c.name, c.allowed)

\* What a client of "from" may ask for: a choice that names one of its tools, or allows
\* some of them; a budget.
Sensible(from, choice, tools) ==
    /\ IsChoice(choice)
    /\ choice.allowed \subseteq tools
    /\ choice.name # Unset =>
         /\ choice.name \in tools
         /\ from # "gemini"
         /\ choice.type = IF from = "anthropic" THEN "tool" ELSE "function"

IsThinking(t) ==
    /\ t = [mode |-> t.mode, budget |-> t.budget, effort |-> t.effort]
    /\ t.budget \in Int

\* What is expected of a choice "c" that is sent with the tools "encoded".
Offered(c, encoded) ==
    /\ encoded = {} => c = NoChoice
    /\ c.name # Unset => c.name \in encoded

-----------------------------------------------------------------------------
(* The choice of a tool.                                                   *)

\* What is sent to Anthropic, which is sent every tool.
LEMMA AnthropicChoiceNames ==
    ASSUME NEW declared, NEW type, NEW name, NEW allowed \in SUBSET declared,
           name # Unset => name \in declared, declared # {}
    PROVE  /\ Offered(AnthropicChoice(Choice(type, name, allowed)), declared)
           /\ AnthropicChoice(Choice(type, name, allowed)).allowed = {}
<1>1. CASE type \in {Unset, "absent"}
  BY <1>1 DEF Unset, AnthropicChoice, NoChoice, Choice, Offered
<1>2. CASE type \notin {Unset, "absent"} /\ Cardinality(allowed) = 1
  <2>1. ASSUME allowed = {} PROVE FALSE
    <3>1. Cardinality(allowed) = 0
      BY <2>1, FS_EmptySet
    <3> QED
      BY <1>2, <3>1
  <2>2. (CHOOSE t \in allowed : TRUE) \in declared
    BY <2>1
  <2> QED
    BY <1>2, <2>2 DEF Unset, AnthropicChoice, NoChoice, Choice, Offered
<1>3. CASE type \notin {Unset, "absent"} /\ Cardinality(allowed) # 1
  BY <1>3 DEF Unset, AnthropicChoice, Choice, Offered
<1> QED
  BY <1>1, <1>2, <1>3

\* sanitizeToolChoiceForEncode: no choice without tools, and no tool that was dropped.
LEMMA SanitizedNames ==
    ASSUME NEW declared, declared # {}, NEW encoded,
           NEW type, NEW name, NEW allowed, name # Unset => type = "tool"
    PROVE  /\ Offered(Sanitized(Choice(type, name, allowed), encoded, declared), encoded)
           /\ IsChoice(Sanitized(Choice(type, name, allowed), encoded, declared))
<1> DEFINE c == Choice(type, name, allowed)
           s == Sanitized(c, encoded, declared)
<1>1. CASE encoded = {}
  <2>1. s = NoChoice
    BY <1>1 DEF Unset, Sanitized
  <2> QED
    BY <2>1 DEF Unset, NoChoice, Choice, Offered, IsChoice
<1>2. CASE encoded # {} /\ type = "tool" /\ name # Unset /\ name \notin encoded
  <2>1. s = Choice("auto", Unset, allowed)
    BY <1>2 DEF Unset, Sanitized, Choice
  <2> QED
    BY <1>2, <2>1 DEF Unset, Choice, Offered, IsChoice, NoChoice
<1>3. CASE encoded # {} /\ ~(type = "tool" /\ name # Unset /\ name \notin encoded)
  <2>1. s \in {NoChoice, c}
    BY <1>3 DEF Unset, Sanitized, Choice
  <2> QED
    BY <1>3, <2>1 DEF Unset, Choice, NoChoice, Offered, IsChoice
<1> QED
  BY <1>1, <1>2, <1>3

\* The tool choice of the request that is sent goes with tools that are sent with it: for
\* any tools, any of them run by the provider, and any choice that names tools of the
\* client (a provider refuses the choice of a tool that it is not told of).
THEOREM ChosenToolIsSent ==
    ASSUME NEW from \in Protocols, NEW to \in Protocols, NEW asked,
           Sensible(from, asked.choice, asked.tools)
    PROVE  ChoosesAmong(to, Convert(from, to, asked), asked.tools)
<1> DEFINE declared == asked.tools
           name == asked.choice.name
           allowed == asked.choice.allowed
           type == DecodeType(from, asked.choice.type)
           d == DecodeChoice(from, asked.choice)
           encoded == Encoded(to, declared)
           c == EncodeChoice(to, d, declared)
           effective == IF d = NoChoice THEN NoChoice ELSE Sanitized(d, encoded, declared)
<1>1. d = Choice(type, name, allowed) /\ allowed \subseteq declared
  BY DEF DecodeChoice, Choice, Sensible, IsChoice
<1>2. name # Unset => name \in declared /\ type = "tool"
  BY DEF DecodeType, Protocols, Sensible
<1>3. Convert(from, to, asked).choice = c /\ Convert(from, to, asked).tools = encoded
  BY DEF Convert
<1> SUFFICES ASSUME declared # {}
             PROVE  /\ Offered(c, encoded)
                    /\ to # "gemini" => c.allowed \subseteq encoded
  BY <1>3 DEF Unset, ChoosesAmong, Offered
<1>4. CASE to = "anthropic"
  <2>1. encoded = declared /\ c = AnthropicChoice(d)
    BY <1>4 DEF Unset, Encoded, EncodeChoice
  <2> HIDE DEF c, d, encoded, type, name, allowed
  <2> QED
    BY <1>1, <1>2, <1>4, <2>1, AnthropicChoiceNames
<1>5. Offered(effective, encoded) /\ IsChoice(effective)
  <2> HIDE DEF d, encoded, type, name, allowed
  <2>1. CASE d = NoChoice
    BY <2>1 DEF Unset, NoChoice, Choice, Offered, IsChoice
  <2>2. CASE d # NoChoice
    BY <2>2, <1>1, <1>2, SanitizedNames
  <2> QED
    BY <2>1, <2>2
<1>6. CASE to = "chat"
  <2>1. c = ChatChoice(effective)
    BY <1>6 DEF Unset, EncodeChoice
  <2> HIDE DEF c, d, encoded, effective
  <2> QED
    BY <1>5, <1>6, <2>1 DEF Unset, ChatChoice, NoChoice, Offered, Choice, IsChoice
<1>7. CASE to = "responses"
  <2>1. c = ResponsesChoice(effective, encoded)
    BY <1>7 DEF Unset, EncodeChoice
  <2> HIDE DEF c, d, encoded, effective
  <2> QED
    BY <1>5, <1>7, <2>1 DEF Unset, ResponsesChoice, ChatChoice, NoChoice, Offered, Choice, IsChoice
<1>8. CASE to = "gemini"
  <2>1. c = GeminiChoice(effective)
    BY <1>8 DEF Unset, EncodeChoice
  <2> HIDE DEF c, d, encoded, effective
  <2> QED
    BY <1>5, <1>8, <2>1 DEF Unset, GeminiChoice, NoChoice, Offered, Choice, IsChoice
<1> QED
  BY <1>4, <1>6, <1>7, <1>8 DEF Unset, Protocols

-----------------------------------------------------------------------------
(* Thinking.                                                               *)

\* For any limit and budget that the client asks for: the budget that is sent to Anthropic
\* is at least the smallest that it takes and leaves room below the limit that is sent with
\* it; and if there is such a budget, thinking is not dropped.
THEOREM BudgetFitsLimit ==
    ASSUME NEW from \in Protocols, NEW asked, asked.max \in Nat, IsThinking(asked.thinking)
    PROVE  FitsLimit(Convert(from, "anthropic", asked),
                     DecodeThinking(from, asked.thinking))
<1> DEFINE t == DecodeThinking(from, asked.thinking)
           given == Convert(from, "anthropic", asked)
           max == MaxTokens(asked.max)
           wanted == IF t.budget <= 0 THEN BudgetForEffort(t.effort) ELSE t.budget
<1>1. given.max = max /\ given.thinking = AnthropicThinking(t, asked.max)
  BY DEF Convert, EncodeThinking
<1>2. max \in Nat \ {0}
  BY DefaultAssumption DEF Unset, MaxTokens
<1>3. t.budget \in Int
  BY DEF Unset, DecodeThinking, NoThinking, Protocols, IsThinking
<1>4. BudgetForEffort(t.effort) \in Nat /\ BudgetForEffort(t.effort) >= MinBudget
  BY DEF Unset, BudgetForEffort, MinBudget
<1>5. wanted \in Int /\ (t.budget \notin 1..(MinBudget - 1) => wanted >= MinBudget)
  BY <1>3, <1>4, SMTT(30) DEF Unset, MinBudget
<1> SUFFICES FitsLimit(given, t)
  OBVIOUS
<1> HIDE DEF t, given, max
<1>6. CASE t.mode = "enabled"
  <2>1. Fitted(wanted, asked.max) = IF wanted >= max THEN max - 1 ELSE wanted
    BY DEF Unset, Fitted, max
  <2>2. AnthropicThinking(t, asked.max)
          = IF Fitted(wanted, asked.max) < MinBudget THEN NoThinking
            ELSE [mode |-> "enabled", budget |-> Fitted(wanted, asked.max), effort |-> Unset]
    BY <1>6 DEF Unset, AnthropicThinking
  <2> DEFINE fitted == Fitted(wanted, asked.max)
  <2>3. fitted \in Int /\ fitted < max
    BY <1>2, <1>5, <2>1
  <2>4. max > MinBudget /\ wanted >= MinBudget => fitted >= MinBudget
    BY <1>2, <1>5, <2>1 DEF MinBudget
  <2> HIDE DEF wanted, fitted
  <2>5. CASE fitted < MinBudget
    <3>1. given.thinking = NoThinking
      BY <1>1, <2>2, <2>5 DEF fitted
    <3>2. ~(max > MinBudget /\ wanted >= MinBudget)
      BY <2>3, <2>4, <2>5 DEF MinBudget
    <3> QED
      BY <1>1, <1>5, <3>1, <3>2 DEF FitsLimit, NoThinking
  <2>6. CASE ~(fitted < MinBudget)
    <3>1. given.thinking.mode = "enabled" /\ given.thinking.budget = fitted
      BY <1>1, <2>2, <2>6 DEF fitted
    <3>2. fitted \in MinBudget..(max - 1)
      BY <1>2, <2>3, <2>6 DEF MinBudget
    <3> QED
      BY <1>1, <3>1, <3>2 DEF FitsLimit
  <2> QED
    BY <2>5, <2>6
<1>7. CASE t.mode # "enabled"
  <2>1. given.thinking.mode # "enabled"
    BY <1>1, <1>7 DEF Unset, AnthropicThinking, NoThinking
  <2> QED
    BY <1>7, <2>1 DEF Unset, FitsLimit
<1> QED
  BY <1>6, <1>7

-----------------------------------------------------------------------------
(* The conversation: what is sent is what Convert makes of what was asked. *)

OptionsInv ==
    /\ inbound \in Inbounds
    /\ outbound \in Outbounds \cup {"none"}
    /\ options \in {NoOptions} \cup Options(inbound)
    /\ stage # "answering" => offer = NoOptions
    /\ stage = "answering" =>
         outbound \in Outbounds /\ offer = Convert(inbound, outbound, options)

\* What a client asks for is what the theorems above assume of it.
LEMMA SensibleOptions ==
    ASSUME NEW from \in Protocols, NEW o \in {NoOptions} \cup Options(from)
    PROVE  /\ o.max \in Nat
           /\ IsThinking(o.thinking)
           /\ o.thinking.effort # Unset => from \in {"chat", "responses"}
           /\ Sensible(from, o.choice, o.tools)
<1>1. \A tools : Sensible(from, NoChoice, tools)
  BY DEF NoChoice, Choice, Unset, IsChoice, Sensible
<1>2. IsThinking(NoThinking) /\ NoThinking.effort = Unset
  BY DEF IsThinking, NoThinking, Unset
<1>3. ASSUME NEW tools, NEW c \in ToolChoices(from, tools) PROVE Sensible(from, c, tools)
  <2>1. CASE c = NoChoice
    BY <1>1, <2>1
  <2>2. CASE \E t, a : a \in SUBSET tools /\ c = Choice(t, Unset, a)
    BY <2>2 DEF Sensible, Choice, IsChoice
  <2>3. CASE \E f \in tools :
               \/ from = "anthropic" /\ c = Choice("tool", f, {})
               \/ from \in {"chat", "responses"} /\ c = Choice("function", f, {})
    BY <2>3 DEF Sensible, Choice, IsChoice
  <2> QED
    BY <2>1, <2>2, <2>3 DEF ToolChoices, Choice, Protocols
<1>4. CASE o = NoOptions
  BY <1>1, <1>2, <1>4 DEF NoOptions
<1>5. CASE \E t \in SUBSET Declarable[from] : o \in WithTools(from, t)
  <2>1. PICK t \in SUBSET Declarable[from] : \E c \in ToolChoices(from, t) :
               o = [NoOptions EXCEPT !.tools = t, !.choice = c]
    BY <1>5 DEF WithTools
  <2>2. PICK c \in ToolChoices(from, t) : o = [NoOptions EXCEPT !.tools = t, !.choice = c]
    BY <2>1
  <2>3. o.max = 0 /\ o.thinking = NoThinking /\ o.choice = c /\ o.tools = t
    BY <2>2 DEF NoOptions
  <2> QED
    BY <1>2, <1>3, <2>3
<1>6. CASE \E m \in Limits : o \in WithThinking(from, m)
  <2>1. PICK m \in Limits, t \in Thinkings(from) :
               o = [NoOptions EXCEPT !.max = m, !.thinking = t]
    BY <1>6 DEF WithThinking
  <2>2. IsThinking(t) /\ (t.effort # Unset => from \in {"chat", "responses"})
    BY LimitsAssumption DEF Thinkings, Protocols, IsThinking
  <2>3. o.max = m /\ o.thinking = t /\ o.choice = NoChoice /\ o.tools = {}
    BY <2>1 DEF NoOptions
  <2> QED
    BY <1>1, <2>2, <2>3, LimitsAssumption
<1> QED
  <2>1. o = NoOptions \/ o \in UNION {WithTools(from, t) : t \in SUBSET Declarable[from]}
        \/ o \in UNION {WithThinking(from, m) : m \in Limits}
    BY DEF Options
  <2>2. o \in UNION {WithTools(from, t) : t \in SUBSET Declarable[from]} =>
          \E t \in SUBSET Declarable[from] : o \in WithTools(from, t)
    OBVIOUS
  <2>3. o \in UNION {WithThinking(from, m) : m \in Limits} =>
          \E m \in Limits : o \in WithThinking(from, m)
    OBVIOUS
  <2> QED
    BY <1>4, <1>5, <1>6, <2>1, <2>2, <2>3

LEMMA OptionsInvariant == Spec => []OptionsInv
<1>1. Init => OptionsInv
  BY DEF Init, OptionsInv
<1>2. OptionsInv /\ [Next]_vars => OptionsInv'
  <2> SUFFICES ASSUME OptionsInv, [Next]_vars PROVE OptionsInv'
    OBVIOUS
  <2>1. CASE AskText
    <3>1. options' \in {NoOptions} \cup Options(inbound)
      BY <2>1 DEF AskText, AsksWith
    <3> QED
      BY <2>1, <3>1
      DEF AskText, AsksWith, OptionsInv, config
  <2>2. CASE AnswerCalls
    BY <2>2 DEF AnswerCalls, AsksWith, OptionsInv, config
  <2>3. CASE Send
    <3>1. /\ inbound' = inbound /\ options' = options /\ stage' = "answering"
          /\ outbound' \in IF outbound = "none" \/ answers <= MaxSwitch THEN Outbounds
                           ELSE {outbound}
          /\ offer' = Convert(inbound, outbound', options)
      BY <2>3 DEF Send, config
    <3> QED
      BY <3>1 DEF OptionsInv
  <2>4. CASE Answer
    BY <2>4 DEF Answer, OptionsInv, config
  <2>5. CASE UNCHANGED vars
    BY <2>5 DEF OptionsInv, vars, config
  <2> QED
    BY <2>1, <2>2, <2>3, <2>4, <2>5 DEF Next
<1> QED
  BY <1>1, <1>2, PTL DEF Spec

\* In every conversation, whatever tools and whatever choice among them: the provider is
\* never told to choose a tool that was dropped on the way to it.
THEOREM ChoiceIsOffered == Spec => []ChoiceOffered
<1>1. OptionsInv => ChoiceOffered
  <2> SUFFICES ASSUME OptionsInv PROVE ChoosesAmong(outbound, offer, options.tools)
    BY DEF ChoiceOffered
  <2>1. CASE stage # "answering"
    <3>1. offer = NoOptions
      BY <2>1 DEF OptionsInv
    <3> QED
      BY <3>1 DEF ChoosesAmong, NoOptions, NoChoice
  <2>2. CASE stage = "answering"
    <3>1. /\ inbound \in Protocols /\ outbound \in Protocols
          /\ offer = Convert(inbound, outbound, options)
          /\ options \in {NoOptions} \cup Options(inbound)
      BY <2>2, ProtocolsAssumption DEF OptionsInv
    <3> QED
      BY <3>1, SensibleOptions, ChosenToolIsSent
  <2> QED
    BY <2>1, <2>2
<1> QED
  BY <1>1, OptionsInvariant, PTL

\* In every conversation, whatever limit and budget: the budget that Anthropic is sent is
\* one that it accepts, and it is sent one if there is.
THEOREM BudgetAlwaysFits == Spec => []BudgetFits
<1>1. OptionsInv => BudgetFits
  <2> SUFFICES ASSUME OptionsInv, stage = "answering", outbound = "anthropic"
               PROVE  FitsLimit(offer, DecodeThinking(inbound, options.thinking))
    BY DEF BudgetFits
  <2>1. /\ inbound \in Protocols /\ offer = Convert(inbound, "anthropic", options)
        /\ options \in {NoOptions} \cup Options(inbound)
    BY ProtocolsAssumption DEF OptionsInv
  <2> QED
    BY <2>1, SensibleOptions, BudgetFitsLimit
<1> QED
  BY <1>1, OptionsInvariant, PTL

\* In every conversation: a client that turned thinking off has it off, where it can be
\* said to the provider, and is never taken for one that asks for it.
THEOREM OffStaysOff == Spec => []OffIsOff
<1>1. OptionsInv => OffIsOff
  <2> DEFINE t == DecodeThinking(inbound, options.thinking)
  <2> SUFFICES ASSUME OptionsInv, stage = "answering", t.mode = "disabled"
               PROVE  /\ outbound = "gemini" =>
                           offer.thinking.mode = "budget" /\ offer.thinking.budget = 0
                      /\ offer.thinking.mode \notin {"enabled", "adaptive", "effort", "dynamic"}
    BY DEF OffIsOff
  <2>1. /\ inbound \in Protocols /\ outbound \in Protocols
        /\ offer.thinking = EncodeThinking(outbound, t, options.max)
        /\ IsThinking(options.thinking)
        /\ options.thinking.effort # Unset => inbound \in {"chat", "responses"}
    BY ProtocolsAssumption, SensibleOptions DEF OptionsInv, Convert
  <2>2. t.effort = Unset
    BY <2>1 DEF DecodeThinking, NoThinking, IsThinking, Protocols, Unset
  <2> HIDE DEF t
  <2> QED
    BY <2>1, <2>2
    DEF EncodeThinking, AnthropicThinking, OpenAIThinking, GeminiThinking, NoThinking,
        Protocols, Unset
<1> QED
  BY <1>1, OptionsInvariant, PTL

-----------------------------------------------------------------------------
(* The answer: why it ended, and what it cost.                             *)

\* How the tokens are read and told.
DecodeUsage(from, u) ==
    CASE from = "anthropic" -> Anthropic!DecodeUsage(u)
      [] from = "chat"      -> Chat!DecodeUsage(u)
      [] from = "responses" -> Responses!DecodeUsage(u)
      [] from = "gemini"    -> Gemini!DecodeUsage(u)

EncodeUsage(to, u) ==
    CASE to = "anthropic" -> Anthropic!EncodeUsage(u)
      [] to = "chat"      -> Chat!EncodeUsage(u)
      [] to = "responses" -> Responses!EncodeUsage(u)
      [] to = "gemini"    -> Gemini!EncodeUsage(u)

\* Whatever a provider counts, the client of any protocol is told the same: the tokens of
\* the prompt in all, those read from the cache, those of the answer; and no count that it
\* is told is negative, though Anthropic's input tokens are what is left of the others.
THEOREM CostIsKept ==
    ASSUME NEW from \in Protocols, NEW to \in Protocols, NEW u \in Counts(from)
    PROVE  LET v == EncodeUsage(to, DecodeUsage(from, u))
           IN SameCost(from, u, to, v) /\ v \in Counts(to)
<1> DEFINE d == DecodeUsage(from, u)
           v == EncodeUsage(to, d)
<1>1. /\ d = Usage(d.prompt, d.hit, d.write, d.completion)
      /\ d.prompt \in Nat /\ d.hit \in Nat /\ d.write \in Nat /\ d.completion \in Nat
      /\ d.hit + d.write <= d.prompt
      /\ d.prompt = TotalPrompt(from, u) /\ d.hit = u.hit /\ d.completion = u.completion
  <2>1. CASE from = "anthropic"
    <3>1. d = Usage(u.input + u.write + u.hit, u.hit, u.write, u.completion)
      BY <2>1 DEF DecodeUsage, Anthropic!DecodeUsage, Usage, Anthropic!Usage
    <3>2. u.input \in Nat /\ u.hit \in Nat /\ u.write \in Nat /\ u.completion \in Nat
      BY <2>1 DEF Counts
    <3> HIDE DEF d
    <3> QED
      BY <2>1, <3>1, <3>2 DEF Usage, TotalPrompt
  <2>2. CASE from # "anthropic"
    <3>1. d = Usage(u.prompt, u.hit, 0, u.completion)
      BY <2>2 DEF DecodeUsage, Protocols, Chat!DecodeUsage, Responses!DecodeUsage, Usage,
         Gemini!DecodeUsage, Chat!Usage, Responses!Usage, Gemini!Usage
    <3>2. u.prompt \in Nat /\ u.hit \in Nat /\ u.completion \in Nat /\ u.hit <= u.prompt
      BY <2>2 DEF Counts
    <3> HIDE DEF d
    <3> QED
      BY <2>2, <3>1, <3>2 DEF Usage, TotalPrompt
  <2> QED
    BY <2>1, <2>2
<1> HIDE DEF d
<1>2. CASE to = "anthropic"
  <2>1. v = [input |-> d.prompt - d.write - d.hit, hit |-> d.hit, write |-> d.write,
             completion |-> d.completion]
    BY <1>2 DEF EncodeUsage, Anthropic!EncodeUsage
  <2> HIDE DEF v
  <2>2. SameCost(from, u, to, v) /\ v \in Counts(to)
    BY <1>1, <1>2, <2>1 DEF SameCost, TotalPrompt, Counts
  <2> QED
    BY <2>2 DEF v, d
<1>3. CASE to # "anthropic"
  <2>1. v = [prompt |-> d.prompt, hit |-> d.hit, completion |-> d.completion]
    BY <1>3 DEF EncodeUsage, Protocols, Chat!EncodeUsage, Responses!EncodeUsage,
       Gemini!EncodeUsage
  <2> HIDE DEF v
  <2>2. SameCost(from, u, to, v) /\ v \in Counts(to)
    BY <1>1, <1>3, <2>1 DEF SameCost, TotalPrompt, Counts
  <2> QED
    BY <2>2 DEF v, d
<1> QED
  BY <1>2, <1>3

\* How a reason is read and told; "called" is whether the answer makes calls.
DecodeReason(from, reason, called) ==
    CASE from = "anthropic" -> reason
      [] from = "chat"      -> IF Chat!DecodeReason(reason) = "end_turn" /\ called
                               THEN "tool_use" ELSE Chat!DecodeReason(reason)
      [] from = "responses" -> Responses!DecodeStatus(reason, called)
      [] from = "gemini"    -> Gemini!DecodeReason(reason, called)

EncodeReason(to, reason) ==
    CASE to = "anthropic" -> reason
      [] to = "chat"      -> Chat!EncodeReason(reason)
      [] to = "responses" -> Responses!EncodeStatus(reason)
      [] to = "gemini"    -> Gemini!EncodeReason(reason)

\* The conversions of a response, reason and usage.
LEMMA DecodedResponse ==
    ASSUME outbound \in Protocols, NEW resp
    PROVE  /\ DecodeResponse(resp).reason
                = DecodeReason(outbound, resp.reason, Calls(resp.parts) # <<>>)
           /\ DecodeResponse(resp).usage = DecodeUsage(outbound, resp.usage)
<1>1. CASE outbound = "anthropic"
  BY <1>1 DEF DecodeResponse, Anthropic!DecodeResponse, Anthropic!Response, DecodeReason, DecodeUsage
<1>2. CASE outbound = "chat"
  <2>1. DecodeResponse(resp).reason = Chat!StopReason(resp)
        /\ DecodeResponse(resp).usage = DecodeUsage(outbound, resp.usage)
    BY <1>2 DEF DecodeResponse, Chat!DecodeResponse, Chat!Response, DecodeUsage
  <2>2. Chat!Calls(resp.parts) = Calls(resp.parts)
    BY Zenon DEF Chat!Calls, Chat!OfKind, Calls, OfKind
  <2> QED
    BY <1>2, <2>1, <2>2 DEF Chat!StopReason, DecodeReason
<1>3. CASE outbound = "responses"
  <2>1. DecodeResponse(resp).reason
          = Responses!DecodeStatus(resp.reason, Responses!Calls(resp.parts) # <<>>)
        /\ DecodeResponse(resp).usage = DecodeUsage(outbound, resp.usage)
    BY <1>3 DEF DecodeResponse, Responses!DecodeResponse, Responses!Response, DecodeUsage
  <2>2. Responses!Calls(resp.parts) = Calls(resp.parts)
    BY Zenon DEF Responses!Calls, Responses!OfKind, Calls, OfKind
  <2> QED
    BY <1>3, <2>1, <2>2 DEF DecodeReason
<1>4. CASE outbound = "gemini"
  <2>1. DecodeResponse(resp).reason
          = Gemini!DecodeReason(resp.reason, Gemini!Calls(resp.parts) # <<>>)
        /\ DecodeResponse(resp).usage = DecodeUsage(outbound, resp.usage)
    BY <1>4 DEF DecodeResponse, Gemini!DecodeResponse, Gemini!Response, DecodeUsage
  <2>2. Gemini!Calls(resp.parts) = Calls(resp.parts)
    BY Zenon DEF Gemini!Calls, Gemini!OfKind, Calls, OfKind
  <2> QED
    BY <1>4, <2>1, <2>2 DEF DecodeReason
<1> QED
  BY <1>1, <1>2, <1>3, <1>4 DEF Protocols

LEMMA EncodedResponse ==
    ASSUME inbound \in Protocols, NEW resp
    PROVE  /\ EncodeResponse(resp).reason = EncodeReason(inbound, resp.reason)
           /\ EncodeResponse(resp).usage = EncodeUsage(inbound, resp.usage)
<1>1. CASE inbound = "anthropic"
  BY <1>1 DEF EncodeResponse, Anthropic!EncodeResponse, Anthropic!Response, EncodeReason, EncodeUsage
<1>2. CASE inbound = "chat"
  BY <1>2 DEF EncodeResponse, Chat!EncodeResponse, Chat!Response, EncodeReason, EncodeUsage
<1>3. CASE inbound = "responses"
  BY <1>3 DEF EncodeResponse, Responses!EncodeResponse, Responses!Response, EncodeReason, EncodeUsage
<1>4. CASE inbound = "gemini"
  BY <1>4 DEF EncodeResponse, Gemini!EncodeResponse, Gemini!Response, EncodeReason, EncodeUsage
<1> QED
  BY <1>1, <1>2, <1>3, <1>4 DEF Protocols

\* The reasons that the readers make of those of the providers, and what they mean.
UnifiedReasons ==
    {"end_turn", "stop_sequence", "max_tokens", "pause_turn", "tool_use", "refusal",
     "content_filter", "model_context_window_exceeded", "RECITATION", "OTHER",
     "MALFORMED_FUNCTION_CALL"}

Meaning(read) ==
    CASE read = "tool_use"                                       -> "calls"
      [] read \in {"max_tokens", "pause_turn", "model_context_window_exceeded"} -> "cut"
      [] read \in {"end_turn", "stop_sequence"}                  -> "done"
      [] read \in {"OTHER", "MALFORMED_FUNCTION_CALL"}           -> "unsaid"
      [] OTHER                                                   -> "refused"

LEMMA ReasonRead ==
    ASSUME outbound \in Protocols, NEW calls, NEW reason \in Reasons(calls # <<>>)
    PROVE  LET read == DecodeReason(outbound, reason, calls # <<>>)
           IN /\ read \in UnifiedReasons
              /\ read = "tool_use" => calls # <<>>
              /\ read \in {"end_turn", "stop_sequence"} => calls = <<>>
              /\ Means(reason, calls, TRUE) = Meaning(read)
<1>1. CASE outbound = "anthropic"
  <2>1. DecodeReason(outbound, reason, calls # <<>>) = reason
    BY <1>1 DEF DecodeReason
  <2>2. reason \in {"max_tokens", "refusal", "model_context_window_exceeded"}
                   \cup IF calls # <<>> THEN {"tool_use"}
                        ELSE {"end_turn", "stop_sequence", "pause_turn"}
    BY <1>1 DEF Reasons
  <2> QED
    BY <2>1, <2>2, SMTT(20) DEF Means, Meaning, UnifiedReasons
<1>2. CASE outbound = "chat"
  <2>1. DecodeReason(outbound, reason, calls # <<>>) =
          IF Chat!DecodeReason(reason) = "end_turn" /\ calls # <<>> THEN "tool_use"
          ELSE Chat!DecodeReason(reason)
    BY <1>2 DEF DecodeReason
  <2>2. reason \in {"stop", "length", "content_filter"}
                   \cup IF calls # <<>> THEN {"tool_calls"} ELSE {}
    BY <1>2 DEF Reasons
  <2> QED
    BY <2>1, <2>2, SMTT(20) DEF Means, Meaning, UnifiedReasons, Chat!DecodeReason
<1>3. CASE outbound = "responses"
  <2>1. DecodeReason(outbound, reason, calls # <<>>)
          = Responses!DecodeStatus(reason, calls # <<>>)
    BY <1>3 DEF DecodeReason
  <2>2. reason \in {"completed", "incomplete", "failed"}
    BY <1>3 DEF Reasons
  <2> QED
    BY <2>1, <2>2, SMTT(20) DEF Means, Meaning, UnifiedReasons, Responses!DecodeStatus
<1>4. CASE outbound = "gemini"
  <2>1. DecodeReason(outbound, reason, calls # <<>>)
          = Gemini!DecodeReason(reason, calls # <<>>)
    BY <1>4 DEF DecodeReason
  <2>2. reason \in {"STOP", "MAX_TOKENS", "SAFETY", "RECITATION"}
                   \cup IF calls # <<>> THEN {}
                        ELSE {"STOP_SEQUENCE", "OTHER", "MALFORMED_FUNCTION_CALL"}
    BY <1>4 DEF Reasons
  <2> QED
    BY <2>1, <2>2, SMTT(20) DEF Means, Meaning, UnifiedReasons, Gemini!DecodeReason
<1> QED
  BY <1>1, <1>2, <1>3, <1>4 DEF Protocols

LEMMA ReasonTold ==
    ASSUME inbound \in Protocols, NEW read \in UnifiedReasons, NEW calls,
           read = "tool_use" => calls # <<>>,
           read \in {"end_turn", "stop_sequence"} => calls = <<>>,
           Meaning(read) # "unsaid"
    PROVE  Means(EncodeReason(inbound, read), calls, inbound \in {"responses", "gemini"})
             = Meaning(read)
<1>1. CASE inbound = "anthropic"
  BY <1>1, SMTT(20) DEF EncodeReason, Means, Meaning, UnifiedReasons
<1>2. CASE inbound = "chat"
  BY <1>2, SMTT(20) DEF EncodeReason, Means, Meaning, UnifiedReasons,
     Chat!EncodeReason, Chat!Bucket
<1>3. CASE inbound = "responses"
  BY <1>3, SMTT(20) DEF EncodeReason, Means, Meaning, UnifiedReasons,
     Responses!EncodeStatus, Responses!Bucket, Responses!Statuses
<1>4. CASE inbound = "gemini"
  BY <1>4, SMTT(20) DEF EncodeReason, Means, Meaning, UnifiedReasons,
     Gemini!EncodeReason, Gemini!Bucket, Gemini!FinishReasons
<1> QED
  BY <1>1, <1>2, <1>3, <1>4 DEF Protocols

\* Whatever reason a provider of any protocol gives, with calls or without, the client of
\* any protocol is told one that means the same: the answer is complete, was cut off or
\* refused, or calls; also where "stop" or "completed" is what the API says of calls.  The
\* reasons of Gemini that mean none of the four are excepted.  That the calls come to the
\* client, and no others, is for TLC to show.
THEOREM ReasonMeansTheSame ==
    ASSUME inbound \in Protocols, outbound \in Protocols, NEW calls, NEW got,
           got = <<>> <=> calls = <<>>, NEW reason \in Reasons(calls # <<>>),
           Means(reason, calls, TRUE) # "unsaid"
    PROVE  LET shown == EncodeReason(inbound, DecodeReason(outbound, reason, calls # <<>>))
           IN Means(shown, got, inbound \in {"responses", "gemini"})
                = Means(reason, calls, TRUE)
<1>1. PICK read : read = DecodeReason(outbound, reason, calls # <<>>)
  OBVIOUS
<1>2. /\ read \in UnifiedReasons /\ (read = "tool_use" => calls # <<>>)
      /\ read \in {"end_turn", "stop_sequence"} => calls = <<>>
      /\ Means(reason, calls, TRUE) = Meaning(read)
  BY <1>1, ReasonRead
<1>3. Means(EncodeReason(inbound, read), got, inbound \in {"responses", "gemini"})
        = Meaning(read)
  BY <1>2, ReasonTold
<1> QED
  BY <1>1, <1>2, <1>3

\* Whatever the unified reason is, one of Anthropic's or Gemini's that no other API has, or
\* one that nobody has heard of: a client of Chat, Responses or Gemini is told one of its
\* API's list (regression_test.go, TestRegression_StopReasonsStayInEnum).
THEOREM ReasonsStayInEnum ==
    ASSUME NEW to \in Protocols \ {"anthropic"}, NEW reason
    PROVE  EncodeReason(to, reason) \in Documented(to)
<1>1. CASE to = "chat"
  <2>1. Chat!Bucket(reason) \in {"stop", "length", "tool_calls", "content_filter"}
    BY SMTT(20) DEF Chat!Bucket
  <2>2. Chat!EncodeReason(reason) \in {"stop", "length", "tool_calls", "content_filter"}
    BY <2>1, SMTT(20) DEF Chat!EncodeReason
  <2> QED
    BY <1>1, <2>2 DEF EncodeReason, Documented
<1>2. CASE to = "responses"
  <2>1. Responses!EncodeStatus(reason) \in Responses!Statuses
    BY SMTT(20) DEF Responses!EncodeStatus, Responses!Statuses
  <2> QED
    BY <1>2, <2>1 DEF EncodeReason, Documented
<1>3. CASE to = "gemini"
  <2>1. Gemini!EncodeReason(reason) \in Gemini!FinishReasons
    BY SMTT(20) DEF Gemini!EncodeReason, Gemini!FinishReasons
  <2> QED
    BY <1>3, <2>1 DEF EncodeReason, Documented
<1> QED
  BY <1>1, <1>2, <1>3 DEF Protocols

\* In every conversation, after every answer: the client is told what the answer cost, the
\* tokens read from and written to a cache among those of the prompt or not, as its
\* protocol counts them.
THEOREM CostIsTold == Spec => []CostTold
<1>1. Init => CostTold
  BY DEF Init, CostTold
<1>2. OptionsInv /\ CostTold /\ [Next]_vars => CostTold'
  <2> SUFFICES ASSUME OptionsInv, CostTold, [Next]_vars PROVE CostTold'
    OBVIOUS
  <2>1. CASE AskText \/ AnswerCalls
    BY <2>1 DEF AskText, AnswerCalls, AsksWith, CostTold
  <2>2. CASE Send
    BY <2>2 DEF Send, CostTold
  <2>3. CASE Answer
    <3>1. PICK parts, reason, resp :
            /\ resp = Response(parts, reason, TokensUsed)
            /\ told' = [provider |-> resp, client |-> EncodeResponse(DecodeResponse(resp))]
      BY <2>3 DEF Answer
    <3>2. /\ UNCHANGED <<inbound, outbound>>
          /\ inbound \in Protocols /\ outbound \in Protocols
      BY <2>3, ProtocolsAssumption DEF Answer, config, OptionsInv
    <3>3. resp.usage = TokensUsed /\ TokensUsed \in Counts(outbound)
      <4>1. resp.usage = TokensUsed
        BY <3>1 DEF Response
      <4>2. CASE outbound = "anthropic"
        BY <4>1, <4>2 DEF TokensUsed, Counts
      <4>3. CASE outbound # "anthropic"
        BY <4>1, <4>3 DEF TokensUsed, Counts
      <4> QED
        BY <4>2, <4>3
    <3>4. told'.client.usage = EncodeUsage(inbound, DecodeUsage(outbound, resp.usage))
      BY <3>1, <3>2, DecodedResponse, EncodedResponse
    <3>5. SameCost(outbound, resp.usage, inbound, told'.client.usage)
      BY <3>2, <3>3, <3>4, CostIsKept
    <3> QED
      BY <3>1, <3>2, <3>5 DEF CostTold, SameCost, TotalPrompt
  <2>4. CASE UNCHANGED vars
    BY <2>4 DEF vars, CostTold, SameCost, TotalPrompt
  <2> QED
    BY <2>1, <2>2, <2>3, <2>4 DEF Next
<1> QED
  BY <1>1, <1>2, OptionsInvariant, PTL DEF Spec

\* Nothing is told of an answer when a request is on its way.
UntoldInv == stage = "sending" => told = [provider |-> Untold, client |-> Untold]

LEMMA UntoldReason == Untold.reason = ""
BY DEF Untold, Response

\* In every conversation: a client of OpenAI's APIs or of Gemini's is given no reason but
\* one of its API's list, so that its SDK can read the answer; one of Anthropic's is given
\* a reason of Anthropic unchanged.
THEOREM ReasonIsDocumented == Spec => []ReasonDocumented
<1>1. Init => ReasonDocumented
  <2> SUFFICES ASSUME Init PROVE ReasonDocumented
    OBVIOUS
  <2>1. told = [provider |-> Untold, client |-> Untold]
    BY Zenon DEF Init
  <2>2. told.client.reason = "" /\ told.provider.reason = ""
    BY <2>1, UntoldReason
  <2> QED
    BY <2>2, Zenon DEF ReasonDocumented
<1>2. OptionsInv /\ ReasonDocumented /\ UntoldInv /\ [Next]_vars => ReasonDocumented'
  <2> SUFFICES ASSUME OptionsInv, ReasonDocumented, UntoldInv, [Next]_vars
               PROVE  ReasonDocumented'
    OBVIOUS
  <2>1. CASE AskText \/ AnswerCalls
    <3>1. told' = [provider |-> Untold, client |-> Untold]
      BY <2>1, Zenon DEF AskText, AnswerCalls, AsksWith
    <3>2. told'.client.reason = "" /\ told'.provider.reason = ""
      BY <3>1, UntoldReason
    <3> QED
      BY <3>2, Zenon DEF ReasonDocumented
  <2>2. CASE Send
    <3>1. told' = told /\ stage = "sending"
      BY <2>2 DEF Send
    <3>2. told' = [provider |-> Untold, client |-> Untold]
      BY <3>1, Zenon DEF UntoldInv
    <3>3. told'.client.reason = "" /\ told'.provider.reason = ""
      BY <3>2, UntoldReason
    <3> QED
      BY <3>3, Zenon DEF ReasonDocumented
  <2>3. CASE Answer
    <3>1. PICK parts, reason, resp :
            /\ resp = Response(parts, reason, TokensUsed)
            /\ told' = [provider |-> resp, client |-> EncodeResponse(DecodeResponse(resp))]
      BY <2>3 DEF Answer
    <3>2. /\ inbound' = inbound /\ inbound \in Protocols
          /\ outbound' = outbound /\ outbound \in Protocols
      BY <2>3, ProtocolsAssumption DEF Answer, config, OptionsInv
    <3>3. PICK read : read = DecodeReason(outbound, resp.reason, Calls(resp.parts) # <<>>)
      OBVIOUS
    <3>4. told'.client.reason = EncodeReason(inbound, read)
      BY <3>1, <3>2, <3>3, DecodedResponse, EncodedResponse
    <3>5. CASE inbound # "anthropic"
      <4>1. told'.client.reason \in Documented(inbound)
        BY <3>2, <3>4, <3>5, ReasonsStayInEnum
      <4> QED
        BY <3>2, <3>5, <4>1 DEF ReasonDocumented, Documented
    <3>6. CASE inbound = "anthropic"
      <4>1. outbound = "anthropic" => told'.client.reason = resp.reason
        BY <3>3, <3>4, <3>6 DEF DecodeReason, EncodeReason
      <4>2. told'.provider.reason = resp.reason
        BY <3>1
      <4> QED
        BY <3>2, <3>6, <4>1, <4>2 DEF ReasonDocumented
    <3> QED
      BY <3>5, <3>6
  <2>4. CASE UNCHANGED vars
    BY <2>4 DEF vars, ReasonDocumented, Documented
  <2> QED
    BY <2>1, <2>2, <2>3, <2>4 DEF Next
<1>3. UntoldInv /\ [Next]_vars => UntoldInv'
  <2> SUFFICES ASSUME UntoldInv, [Next]_vars PROVE UntoldInv'
    OBVIOUS
  <2>1. CASE AskText \/ AnswerCalls
    BY <2>1, Zenon DEF AskText, AnswerCalls, AsksWith, UntoldInv
  <2>2. CASE Send
    BY <2>2 DEF Send, UntoldInv
  <2>3. CASE Answer
    BY <2>3 DEF Answer, UntoldInv
  <2>4. CASE UNCHANGED vars
    BY <2>4 DEF vars, UntoldInv
  <2> QED
    BY <2>1, <2>2, <2>3, <2>4 DEF Next
<1>4. Init => UntoldInv
  BY DEF Init, UntoldInv
<1> QED
  BY <1>1, <1>2, <1>3, <1>4, OptionsInvariant, PTL DEF Spec
=============================================================================
