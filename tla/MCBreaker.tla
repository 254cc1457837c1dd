------------------------------ MODULE MCBreaker ------------------------------
(* Instances of CircuitBreaker for TLC. *)
EXTENDS CircuitBreaker

\* Three requests, so that two can race beside a winner.
Three == {"c1", "c2", "c3"}
=============================================================================
