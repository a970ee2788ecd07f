SPECIFICATION Spec
CONSTANTS
    Kinds = {"text", "thinking", "refusal", "tool_use"}
    Calls = {"a", "b"}
    Reasons = {"end_turn", "tool_use", "max_tokens"}
    WebSearch = TRUE
    MaxPieces = 3
    MaxBlocks = 3
    Upstreams = {"anthropic", "chat", "responses", "gemini"}
    Inbounds = {"anthropic", "chat", "responses", "gemini"}
INVARIANTS WellFormed ContentKept CallsKept HonestEnd UsageKept ErrorTold EventsAdmissible
PROPERTY EndReaches
