--------------------------- MODULE MCConversation ---------------------------
(* Small instances of Conversation.                                        *)
EXTENDS Conversation

Function(name, args) == [Part("tool_use", 0) EXCEPT !.name = name, !.args = args]

\* Two calls of one function; one of each of two.
MCCallLists ==
    {<<Function("f", "x"), Function("f", "y")>>, <<Function("f", "x"), Function("g", "x")>>}

MCDeclarable ==
    [anthropic |-> {"f", "search", "bash"}, chat |-> {"f", "g"},
     responses |-> {"f", "search"}, gemini |-> {"f", "g"}]
=============================================================================
