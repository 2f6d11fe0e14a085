--------------------------- MODULE MCReputation ---------------------------
(* Two requests, two agents, logs of three entries.  Many is two payments, *)
(* a day one tick, and two ticks without payments are dormancy.            *)
EXTENDS Reputation, TLC

CONSTANTS j1, j2, a1, a2

MCRiskAge == <<1, 2, 3>>
MCRiskCount == <<0, 1, 2>>

\* Requests and agents are interchangeable.
Symmetry == Permutations(Jobs) \cup Permutations(Agents)
=============================================================================
