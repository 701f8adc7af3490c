-------------------------- MODULE MCCircuitBreaker --------------------------
(* Three calls on two backends, of three routes: a retried GET, a GET with a  *)
(* higher threshold and a shorter recovery timeout, and a POST whose route    *)
(* allows retries that its method forbids.                                    *)
EXTENDS CircuitBreaker, TLC

CONSTANTS r1, r2, r3

MCThreshold == r1 :> 2 @@ r2 :> 3 @@ r3 :> 2
MCRecovery == r1 :> 2 @@ r2 :> 1 @@ r3 :> 1
MCMaxRetries == r1 :> 3 @@ r2 :> 0 @@ r3 :> 1
MCIdempotent == {r1, r2}
=============================================================================
