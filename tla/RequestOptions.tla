--------------------------- MODULE RequestOptions ---------------------------
(***************************************************************************)
(* The options of a request that the converters fit to one another: the    *)
(* tools, the choice of a tool among them, the limit of tokens and the     *)
(* budget for thinking.                                                    *)
(***************************************************************************)
EXTENDS Integers, FiniteSets

CONSTANTS
    ServerTools,         \* tools that the provider runs
    ResponsesTools,      \* those of them that the Responses API has, too
    DefaultMaxTokens     \* ModelMaxOutputTokens, or FallbackMaxTokens

ASSUME DefaultAssumption == DefaultMaxTokens \in Nat \ {0}

\* A field that is empty, or absent.
Unset == "unset"

NoChoice   == [type |-> "absent", name |-> Unset, allowed |-> {}]
NoThinking == [mode |-> "absent", budget |-> 0, effort |-> Unset]

-----------------------------------------------------------------------------
(* Tools, and the choice among them.                                       *)

\* The tools of a request that the wire can express; the others are dropped.
Encoded(protocol, tools) ==
    CASE protocol = "anthropic" -> tools
      [] protocol = "responses" -> tools \ (ServerTools \ ResponsesTools)
      [] OTHER                  -> tools \ ServerTools

\* The choice in the terms of the unified request: "auto", "none", "required", "tool".
DecodeType(protocol, type) ==
    CASE protocol = "anthropic" /\ type = "any"                     -> "required"
      [] protocol \in {"chat", "responses"} /\ type = "function"     -> "tool"
      [] protocol = "gemini" /\ type = "ANY"                        -> "required"
      [] protocol = "gemini" /\ type = "AUTO"                       -> "auto"
      [] protocol = "gemini" /\ type = "NONE"                       -> "none"
      [] OTHER                                                     -> type

DecodeChoice(protocol, choice) == [choice EXCEPT !.type = DecodeType(protocol, @)]

\* What a bug would do: the tool that is chosen may have been dropped.
SanitizedByCount(choice, encoded, declared) ==
    IF declared # {} /\ encoded = {} THEN NoChoice ELSE choice

\* sanitizeToolChoiceForEncode: nothing can be chosen when every tool was dropped;
\* the choice of a tool that was dropped is left to the model.
Sanitized(choice, encoded, declared) ==
    IF declared # {} /\ encoded = {} THEN NoChoice
    ELSE IF choice.type = "tool" /\ choice.name # Unset /\ choice.name \notin encoded
         THEN [choice EXCEPT !.type = "auto", !.name = Unset]
    ELSE IF choice.type = Unset /\ choice.allowed = {} THEN NoChoice
    ELSE choice

\* Anthropic can be told of one tool, not of a choice among several.
AnthropicChoice(choice) ==
    IF choice.type \in {Unset, "absent"} THEN NoChoice
    ELSE IF Cardinality(choice.allowed) = 1
         THEN [type |-> "tool", name |-> CHOOSE t \in choice.allowed : TRUE, allowed |-> {}]
    ELSE [type |-> IF choice.type = "required" THEN "any" ELSE choice.type,
          name |-> IF choice.type = "tool" THEN choice.name ELSE Unset, allowed |-> {}]

ChatChoice(choice) ==
    IF choice.type \in {Unset, "absent"} THEN NoChoice
    ELSE [type |-> IF choice.type = "tool" THEN "function" ELSE choice.type,
          name |-> choice.name, allowed |-> {}]

\* A list of the tools allowed is cut down to those that are sent.
ResponsesChoice(choice, encoded) ==
    IF choice.allowed # {}
    THEN [type |-> IF choice.type \in {Unset, "tool"} THEN "required" ELSE choice.type,
          name |-> Unset, allowed |-> choice.allowed \cap encoded]
    ELSE ChatChoice(choice)

\* There is no mode of Gemini for the choice of one tool: the type is sent as it is,
\* without the name.
GeminiChoice(choice) ==
    IF choice.type = "absent" THEN NoChoice
    ELSE [type |-> CASE choice.type = "auto"     -> "AUTO"
                     [] choice.type = "none"     -> "NONE"
                     [] choice.type = "required" -> "ANY"
                     [] choice.type = "tool"     -> "TOOL"
                     [] OTHER                    -> choice.type,
          name |-> Unset, allowed |-> choice.allowed]

\* The tool choice of the request that is sent.
EncodeChoice(protocol, choice, declared) ==
    LET encoded   == Encoded(protocol, declared)
        effective == IF choice = NoChoice THEN NoChoice
                     ELSE Sanitized(choice, encoded, declared)
    IN CASE protocol = "anthropic" -> AnthropicChoice(choice)
         [] protocol = "chat"      -> ChatChoice(effective)
         [] protocol = "responses" -> ResponsesChoice(effective, encoded)
         [] protocol = "gemini"    -> GeminiChoice(effective)

-----------------------------------------------------------------------------
(* Thinking.                                                               *)

MinBudget == 1024        \* minAnthropicThinkingBudget

\* What the client asks for: Anthropic has a mode and a budget, OpenAI an effort,
\* Gemini a budget that is 0 for none and negative for any.
DecodeThinking(protocol, thinking) ==
    IF thinking.mode = "absent" THEN NoThinking
    ELSE CASE protocol = "anthropic" -> thinking
           [] protocol \in {"chat", "responses"} -> [thinking EXCEPT !.mode = "enabled"]
           [] protocol = "gemini" ->
                [thinking EXCEPT
                    !.mode = IF thinking.budget > 0 THEN "enabled"
                             ELSE IF thinking.budget < 0 THEN "adaptive" ELSE "disabled",
                    !.budget = IF @ > 0 THEN @ ELSE 0]

\* anthropicThinkingBudgetForEffort; that it stays below the limit is seen to by the
\* caller, too.
BudgetForEffort(effort) ==
    CASE effort = "minimal" -> MinBudget
      [] effort = "low"     -> 2048
      [] effort = "high"    -> 8192
      [] OTHER              -> 4096

MaxTokens(max) == IF max = 0 THEN DefaultMaxTokens ELSE max

\* What a bug would do: the budget is fitted to what the request says, not to what
\* is sent for it.
FittedToRequest(budget, max) == IF max > 0 /\ budget >= max THEN max - 1 ELSE budget

\* The budget must be less than max_tokens.
Fitted(budget, max) ==
    IF budget >= MaxTokens(max) THEN MaxTokens(max) - 1 ELSE budget

\* What Anthropic is sent: a budget that is too small is not sent at all.
AnthropicThinking(thinking, max) ==
    LET wanted == IF thinking.budget <= 0 THEN BudgetForEffort(thinking.effort)
                  ELSE thinking.budget
        budget == Fitted(wanted, max)
    IN CASE thinking.mode = "absent"  -> NoThinking
         [] thinking.mode = "enabled" ->
              IF budget < MinBudget THEN NoThinking
              ELSE [mode |-> "enabled", budget |-> budget, effort |-> Unset]
         [] OTHER -> [mode |-> thinking.mode, budget |-> 0, effort |-> Unset]

\* OpenAI is sent an effort, which cannot say that there is to be none.
OpenAIThinking(thinking) ==
    IF thinking.effort # Unset THEN [mode |-> "effort", budget |-> 0, effort |-> thinking.effort]
    ELSE IF thinking.mode = "enabled"
         THEN [mode |-> "effort", budget |-> 0, effort |-> "medium"]
    ELSE NoThinking

\* What a bug would do: a client that turned thinking off is taken for one that said
\* nothing of it.
GeminiThinkingWhenOn(thinking) ==
    CASE thinking.mode = "enabled" /\ thinking.budget > 0 ->
              [mode |-> "budget", budget |-> thinking.budget, effort |-> Unset]
      [] thinking.mode \in {"absent", "disabled"} -> NoThinking
      [] OTHER -> [mode |-> "dynamic", budget |-> 0, effort |-> Unset]

\* Gemini thinks unless it is told not to, by a budget of 0.
GeminiThinking(thinking) ==
    CASE thinking.mode = "enabled" /\ thinking.budget > 0 ->
              [mode |-> "budget", budget |-> thinking.budget, effort |-> Unset]
      [] thinking.mode = "disabled" -> [mode |-> "budget", budget |-> 0, effort |-> Unset]
      [] thinking.mode = "absent"   -> NoThinking
      [] OTHER                      -> [mode |-> "dynamic", budget |-> 0, effort |-> Unset]

EncodeThinking(protocol, thinking, max) ==
    CASE protocol = "anthropic" -> AnthropicThinking(thinking, max)
      [] protocol \in {"chat", "responses"} -> OpenAIThinking(thinking)
      [] protocol = "gemini"    -> GeminiThinking(thinking)

-----------------------------------------------------------------------------

\* The options of a request as a client of "from" writes them, and as the provider
\* of "to" reads them.
Convert(from, to, options) ==
    [tools    |-> Encoded(to, options.tools),
     choice   |-> EncodeChoice(to, DecodeChoice(from, options.choice), options.tools),
     max      |-> IF to = "anthropic" THEN MaxTokens(options.max) ELSE options.max,
     thinking |-> EncodeThinking(to, DecodeThinking(from, options.thinking), options.max)]

-----------------------------------------------------------------------------
(* What a provider expects of them.                                        *)

\* A choice goes with tools, and the tools that it names are among them; the names that
\* Gemini is allowed are those of the client, dropped or not.
ChoosesAmong(to, offer, declared) ==
    declared # {} =>
        /\ offer.tools = {} => offer.choice = NoChoice
        /\ offer.choice.name # Unset => offer.choice.name \in offer.tools
        /\ to # "gemini" => offer.choice.allowed \subseteq offer.tools

\* Anthropic's terms for a budget; and only one that cannot meet them is not sent.
FitsLimit(offer, thinking) ==
    /\ offer.thinking.mode = "enabled" =>
         offer.thinking.budget \in MinBudget..(offer.max - 1)
    /\ thinking.mode = "enabled" /\ thinking.budget \notin 1..(MinBudget - 1)
         /\ offer.max > MinBudget => offer.thinking.mode = "enabled"
=============================================================================
