SPECIFICATION Spec

CONSTANTS
    Inbounds = {"chat"}
    Outbounds = {"anthropic"}
    Names = {"f", "g"}
    CallLists <- MCCallLists
    Declarable <- MCDeclarable
    ServerTools = {"search", "bash"}
    ResponsesTools = {"search"}
    DefaultMaxTokens = 4096
    Limits = {0, 1, 1024, 1025, 5000}
    Budgets = {1, 1023, 1024, 4096, 5000}
    MaxAnswers = 2
    MaxSwitch = 1
    MapDeveloperToSystem = TRUE

INVARIANT SignatureKept

CHECK_DEADLOCK FALSE
