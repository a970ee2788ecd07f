----------------------------- MODULE MCHandler -----------------------------
(* Small instances of Handler for TLC.                                     *)
EXTENDS Handler

CONSTANTS same, cross, unknown

\* One target per case of the loop: the inbound protocol, another protocol, and
\* a protocol NewClient has no client for.
ThreeTargets == {same, cross, unknown}
Protocols == {"anthropic", "openai-chat", "no-such-protocol"}
Clients == {"anthropic", "openai-chat"}
Protocol3 == [t \in ThreeTargets |->
                 CASE t = same  -> "anthropic"
                   [] t = cross -> "openai-chat"
                   [] OTHER     -> "no-such-protocol"]
=============================================================================
