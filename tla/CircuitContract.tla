-------------------------- MODULE CircuitContract --------------------------
(***************************************************************************)
(* What CircuitBreakerRouter promises of each circuit, whatever the number *)
(* of requests and however their calls interleave:                         *)
(*                                                                         *)
(*   - a closed circuit opens on the FailureThreshold-th failure reported  *)
(*     since the last success, and not before;                             *)
(*   - an open circuit becomes half-open RecoveryTimeout after it opened,  *)
(*     not earlier, and late reports neither prolong nor cut the wait;     *)
(*   - a half-open circuit closes after SuccessThreshold successes with no *)
(*     failure in between, and one failure opens it again.                 *)
(***************************************************************************)
EXTENDS Naturals

CONSTANTS Key, FailureThreshold, SuccessThreshold, RecoveryTimeout

VARIABLES
    phase,      \* "Closed", "Open" or "HalfOpen", per key
    evidence,   \* failures since the last success, while closed
    confidence, \* successes, while half-open
    wait        \* ticks left before a probe is allowed, while open

contractVars == <<phase, evidence, confidence, wait>>

Init ==
    /\ phase = [k \in Key |-> "Closed"]
    /\ evidence = [k \in Key |-> 0]
    /\ confidence = [k \in Key |-> 0]
    /\ wait = [k \in Key |-> 0]

Opens(k) ==
    /\ phase' = [phase EXCEPT ![k] = "Open"]
    /\ wait' = [wait EXCEPT ![k] = RecoveryTimeout]
    /\ evidence' = [evidence EXCEPT ![k] = 0]
    /\ confidence' = [confidence EXCEPT ![k] = 0]

Failure(k) ==
    /\ phase[k] = "Closed"
    /\ IF evidence[k] + 1 < FailureThreshold
         THEN /\ evidence' = [evidence EXCEPT ![k] = @ + 1]
              /\ UNCHANGED <<phase, confidence, wait>>
         ELSE Opens(k)

Relapse(k) == phase[k] = "HalfOpen" /\ Opens(k)

Recovered(k) ==
    /\ phase[k] = "Open"
    /\ wait[k] = 0
    /\ phase' = [phase EXCEPT ![k] = "HalfOpen"]
    /\ UNCHANGED <<evidence, confidence, wait>>

Success(k) ==
    /\ phase[k] # "Open"
    /\ IF phase[k] = "HalfOpen" /\ confidence[k] + 1 < SuccessThreshold
         THEN /\ confidence' = [confidence EXCEPT ![k] = @ + 1]
              /\ UNCHANGED <<phase, evidence, wait>>
         ELSE /\ phase' = [phase EXCEPT ![k] = "Closed"]
              /\ evidence' = [evidence EXCEPT ![k] = 0]
              /\ confidence' = [confidence EXCEPT ![k] = 0]
              /\ UNCHANGED wait

Elapse ==
    /\ wait' = [k \in Key |-> IF wait[k] > 0 THEN wait[k] - 1 ELSE 0]
    /\ UNCHANGED <<phase, evidence, confidence>>

Next ==
    \/ \E k \in Key : Failure(k) \/ Relapse(k) \/ Recovered(k) \/ Success(k)
    \/ Elapse

Spec == Init /\ [][Next]_contractVars
=============================================================================
