----------------------------- MODULE MCDeposit -----------------------------
(* Two processes that share a Redis, with one request each in progress.    *)
EXTENDS Deposit, TLC

CONSTANTS p1, p2, s1, s2, v1, v2

MCProcesses == {p1, p2}
MCSlots == {s1, s2}
MCVerifs == {v1, v2}
MCHome == s1 :> p1 @@ s2 :> p2

\* The verification records are interchangeable.
Symmetry == Permutations(MCVerifs)
=============================================================================
