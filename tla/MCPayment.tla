----------------------------- MODULE MCPayment -----------------------------
(* Two agents, three challenges, two concurrent requests.  The base price  *)
(* is 20, the only quote 40, and a payment is worth 50 points, so prices   *)
(* of 40, 30 and 20 are asked for scores of 0, 50 and 100.                 *)
EXTENDS Payment, TLC

CONSTANTS alice, bob, n1, n2, n3, s1, s2

MCAgents == {alice, bob}
MCNonces == {n1, n2, n3}
MCSlots == {s1, s2}
MCQuotes == {40}
MCOffers == {30, 40}
MCDeposits == {80}

\* The nonces and the slots are interchangeable.
Symmetry == Permutations(MCNonces) \cup Permutations(MCSlots)
=============================================================================
