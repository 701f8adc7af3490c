------------------------- MODULE MCConnectionBudget -------------------------
(* Three workers with two table entries each, and a limit that reloads move    *)
(* between one and three: fewer slots than connections.                        *)
EXTENDS ConnectionBudget, TLC

MCLimits == {1, 2, 3}
Symmetry == Permutations(Workers) \cup Permutations(Slots)
=============================================================================
