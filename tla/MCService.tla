----------------------------- MODULE MCService -----------------------------
(* One call of an agent that can afford one price, beside other clients,   *)
(* over one slot, in cooperative mode.  A tick is half a probe interval.   *)
EXTENDS Service, TLC

CONSTANTS c1
=============================================================================
