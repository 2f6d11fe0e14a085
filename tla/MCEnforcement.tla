--------------------------- MODULE MCEnforcement ---------------------------
(* One client and two requests of it in progress.  A tick is five minutes, *)
(* a day two ticks; two of a rung lead to the next, and trust multiplies   *)
(* nothing, so that the top bands reach the thresholds too.                *)
EXTENDS Enforcement, TLC

CONSTANTS r1, r2, c1

OneTimes == [b \in 1..4 |-> 1]

Symmetry == Permutations(Handlers)
=============================================================================
