--------------------------- MODULE MCCircuitBreaker ---------------------------
(* Model values for the circuit breakers. *)
EXTENDS CircuitBreaker, TLC

\* Calls are interchangeable: nothing tells one from another.
UserSymmetry == Permutations(Users)
===============================================================================
