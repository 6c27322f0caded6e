-------------------------- MODULE CircuitBreakerMC --------------------------
(* Four calls, a threshold of two, outcomes in any order.                    *)
EXTENDS CircuitBreaker
CONSTANTS c1, c2, c3, c4

=============================================================================
