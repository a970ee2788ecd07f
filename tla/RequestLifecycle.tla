-------------------------- MODULE RequestLifecycle --------------------------
(***************************************************************************)
(* What a client and the StatsReporter may see of one request:             *)
(*                                                                         *)
(*   - a request is answered once: either with one complete response, or   *)
(*     with a 200 header that is committed before the body streams;        *)
(*   - OnRequestStart comes at most once, OnComplete exactly once after it *)
(*     and never without it, and nothing comes after OnComplete;           *)
(*   - an error response is never reported as a success, and a request is  *)
(*     never answered with an error once 200 is committed.                 *)
(***************************************************************************)
VARIABLES
    phase,    \* "open", "started", "committed" or "closed"
    response, \* status of the response header, "none" before it is written
    outcome   \* status of OnComplete, "none" before it is called

lifecycleVars == <<phase, response, outcome>>

Errors == {"499", "502", "503", "upstream"}

Init == phase = "open" /\ response = "none" /\ outcome = "none"

\* Rejected before routing, or not routed: no event is reported.
Refuse ==
    /\ phase = "open"
    /\ phase' = "closed"
    /\ response' \in {"400", "401", "502"}
    /\ UNCHANGED outcome

Start == phase = "open" /\ phase' = "started" /\ UNCHANGED <<response, outcome>>

Fail ==
    /\ phase = "started"
    /\ phase' = "closed"
    /\ response' \in Errors
    /\ outcome' \in {"error", "canceled"}

\* A whole response is delivered, or breaks while it is written.
Deliver ==
    /\ phase = "started"
    /\ phase' = "closed"
    /\ response' = "200"
    /\ outcome' \in {"success", "error"}

Commit ==
    /\ phase = "started"
    /\ phase' = "committed"
    /\ response' = "200"
    /\ UNCHANGED outcome

Finish ==
    /\ phase = "committed"
    /\ phase' = "closed"
    /\ outcome' \in {"success", "error", "canceled"}
    /\ UNCHANGED response

Next == Refuse \/ Start \/ Fail \/ Deliver \/ Commit \/ Finish

Spec == Init /\ [][Next]_lifecycleVars
=============================================================================
