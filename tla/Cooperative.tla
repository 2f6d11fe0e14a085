---------------------------- MODULE Cooperative ----------------------------
(***************************************************************************)
(* Cooperative QoS: while the operator's own stack schedules requests by   *)
(* priority the Shield does not queue.  It falls back to its own queue for *)
(* a while when a proxied response says "overload", or when the health     *)
(* probe has found the operator unreachable for too long; successful       *)
(* probes end the fallback early.  (index.js: qosOverloadFallbackUntil and *)
(* the health-probe interval.)                                             *)
(*                                                                         *)
(* Times are relative: what is left of the fallback counts down, the time  *)
(* since the first failed probe counts up.  Service composes this module   *)
(* with the requests of /rpc, whose responses call Overloaded.             *)
(***************************************************************************)
EXTENDS Integers

CONSTANTS
    Interval,     \* QOS_HEALTH_INTERVAL_MS, 30 s
    ProbeTimeout, \* 5 s
    Unreachable,  \* QOS_HEALTH_UNREACHABLE_MS
    OverloadFor,  \* 30 s
    Reprobe,      \* QOS_HEALTH_REPROBE_REQUIRED
    Healthy,      \* qosCoopHealthFailingSince = null
    NoProbe       \* no probe is under way

ASSUME CooperativeAssumption ==
    /\ Interval \in Nat \ {0} /\ ProbeTimeout \in Nat
    /\ ProbeTimeout < Interval
    /\ Unreachable \in Nat /\ Reprobe \in Nat
    /\ OverloadFor \in Nat /\ Interval <= OverloadFor
    /\ Healthy \notin Nat /\ NoProbe \notin Nat

VARIABLES
    operator,  \* "up", "overloaded" or "down"
    fallback,  \* time left of the fallback
    failing,   \* time since the first of the failed probes, or Healthy
    successes, \* consecutive successful probes
    due,       \* time to the next probe
    probing    \* how long a probe has been under way, or NoProbe

coopVars == <<operator, fallback, failing, successes, due, probing>>

ForcedFor == 2 * Interval

\* BOUND: how long the operator has been failing is counted up to here.
FailingCap == Unreachable + Interval + ProbeTimeout + 1

\* What a Shield that starts knows.
Fresh ==
    /\ fallback = 0
    /\ failing = Healthy
    /\ successes = 0
    /\ due = Interval
    /\ probing = NoProbe

CoopInit == operator = "up" /\ Fresh

Cooperating == fallback = 0

\* A response with X-QoS-Overload: 1 was proxied.
Overloaded == fallback' = OverloadFor

SendProbe ==
    /\ due = 0 /\ probing = NoProbe
    /\ due' = Interval
    /\ probing' = 0
    /\ UNCHANGED <<operator, fallback, failing, successes>>

\* The operator's answer to OPTIONS /qos-status; nobody answers when it is down.
Status == CASE operator = "up" -> 200
            [] operator = "overloaded" -> 503
            [] OTHER -> 0

\* Mutant: only an answer without content counts.
StrictlyOk(status) == status = 204
ProbeOk(status) == status \in {200, 204}

ProbeSucceeds ==
    /\ probing # NoProbe
    /\ ProbeOk(Status)
    /\ probing' = NoProbe
    /\ successes' = IF successes < Reprobe THEN successes + 1 ELSE successes
    /\ failing' = Healthy
    /\ fallback' = IF successes' >= Reprobe THEN 0 ELSE fallback
    /\ UNCHANGED <<operator, due>>

\* Mutant: a fallback that is on is not prolonged.
ForcedOnce(left) == IF left = 0 THEN ForcedFor ELSE left
Forced(left) == IF ForcedFor > left THEN ForcedFor ELSE left

\* Any other answer, no connection, or no answer before the timeout aborts it.
\* (An operator that is "up" answers in time.)
ProbeFails ==
    /\ probing # NoProbe
    /\ ~ProbeOk(Status)
    /\ probing' = NoProbe
    /\ successes' = 0
    /\ failing' = IF failing = Healthy THEN 0 ELSE failing
    /\ fallback' = IF failing' > Unreachable THEN Forced(fallback) ELSE fallback
    /\ UNCHANGED <<operator, due>>

\* The interval's callback runs and the probe's timer aborts it on time.
CoopTick ==
    /\ due > 0
    /\ probing # ProbeTimeout
    /\ fallback' = IF fallback > 0 THEN fallback - 1 ELSE 0
    /\ failing' = IF failing = Healthy \/ failing = FailingCap THEN failing ELSE failing + 1
    /\ due' = due - 1
    /\ probing' = IF probing = NoProbe THEN NoProbe ELSE probing + 1
    /\ UNCHANGED <<operator, successes>>

OperatorTurns ==
    /\ operator' \in {"up", "overloaded", "down"} \ {operator}
    /\ UNCHANGED <<fallback, failing, successes, due, probing>>

ProbeStep == SendProbe \/ ProbeSucceeds \/ ProbeFails \/ CoopTick
-----------------------------------------------------------------------------
CoopTypeOK ==
    /\ operator \in {"up", "overloaded", "down"}
    /\ fallback \in Nat
    /\ failing \in {Healthy} \cup (0..FailingCap)
    /\ successes \in 0..Reprobe
    /\ due \in 0..Interval
    /\ probing \in {NoProbe} \cup (0..ProbeTimeout)

\* An operator that stays unreachable is not trusted with scheduling: from one
\* probe after the threshold on the fallback is on without a gap, though a
\* response that says "overload" may shorten it; then it can lapse only while
\* the next probe is due or under way.
FallbackHolds ==
    failing # Healthy /\ failing = FailingCap /\ due > 0 /\ probing = NoProbe => fallback > 0
=============================================================================
