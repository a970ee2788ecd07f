SPECIFICATION Spec
CONSTANTS
    Kinds = {"text"}
    Calls = {"a", "b"}
    Reasons = {"end_turn", "tool_use", "max_tokens"}
    WebSearch = FALSE
    MaxPieces = 2
    MaxBlocks = 2
    Upstreams = {"chat"}
    Inbounds = {"anthropic"}
INVARIANT OneMessageStart
