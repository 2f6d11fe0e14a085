---------------------------- MODULE MCRateLimit ----------------------------
(* Two requests in progress, one address, one payer.  A window is two      *)
(* ticks, a call may be one tick late, and a payment moves the payer to    *)
(* the next multiplier.                                                    *)
EXTENDS RateLimit, TLC

CONSTANTS r1, r2, i1, a1

\* The requests are interchangeable.
Symmetry == Permutations(Requests)
=============================================================================
