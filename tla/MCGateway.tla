------------------------------ MODULE MCGateway ------------------------------
(* Model values for the gateway. *)
EXTENDS Gateway, TLC

\* Callers are interchangeable.
GatewaySymmetry == Permutations(Callers)
==============================================================================
