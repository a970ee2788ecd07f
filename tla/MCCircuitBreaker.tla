------------------------- MODULE MCCircuitBreaker -------------------------
(* Instances of CircuitBreaker for TLC.                                    *)
EXTENDS CircuitBreaker, TLC

CONSTANTS a, b

\* One fixed order.
OneOrder == {<<a, b>>}

\* A single upstream.
OneUpstream == {<<a>>}

\* The requests are interchangeable (safety runs only).
Symmetry == Permutations(Request)
=============================================================================
