------------------------- MODULE MCUpstreamExchange -------------------------
(* A GET and a POST that share an upstream, and a GET with one of its own,     *)
(* reached over TLS, whose backend also speaks unasked.                        *)
EXTENDS UpstreamExchange, TLC

CONSTANTS x1, x2, x3, u1, u2

MCTwoTargets == x1 :> u1 @@ x2 :> u1 @@ x3 :> u2
MCIdempotent == {x1, x3}
MCSymmetry == Permutations(Sockets)
=============================================================================
