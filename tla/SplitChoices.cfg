SPECIFICATION Spec
CONSTANTS
    Kinds = {"text", "thinking"}
    Calls = {"a", "b"}
    Reasons = {"end_turn", "tool_use", "max_tokens"}
    WebSearch = FALSE
    MaxPieces = 2
    MaxBlocks = 2
    Upstreams = {"anthropic", "gemini", "responses"}
    Inbounds = {"chat"}
INVARIANT OneCandidate
