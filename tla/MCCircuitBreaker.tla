-------------------------- MODULE MCCircuitBreaker --------------------------
(* Instances of CircuitBreaker for TLC: the threads of the server, and a   *)
(* threshold and a timeout that take several steps to reach.               *)
EXTENDS CircuitBreaker
=============================================================================
