------------------------------- MODULE MCQos -------------------------------
(* Four requests.  A tick is five seconds, so the boost is 100 points a    *)
(* tick and 200 before the timeout, as in the code.                        *)
EXTENDS Qos

CONSTANTS r1, r2, r3, r4
=============================================================================
