------------------------------ MODULE MCAdmin ------------------------------
(* Two requests in progress with one admin key.  A window of two ticks is  *)
(* the least that a burst can straddle.                                    *)
EXTENDS Admin, TLC

CONSTANTS h1, h2, k1

\* The requests are interchangeable.
Symmetry == Permutations(Handlers)
=============================================================================
