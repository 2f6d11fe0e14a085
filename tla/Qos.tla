-------------------------------- MODULE Qos --------------------------------
(***************************************************************************)
(* qosMiddleware and qosOnSlotFree of index.js: the priority queue in      *)
(* front of the upstream node, its bypass, its timers, and the 'finish'    *)
(* and 'close' events of the responses that give slots back.               *)
(*                                                                         *)
(* Everything here runs to completion on one thread; what interleaves is   *)
(* the order of arrivals, timers and response events.  Time is counted in  *)
(* ticks that only age the waiting entries.                                *)
(***************************************************************************)
EXTENDS Integers, FiniteSets

CONSTANTS
    Requests,      \* requests that can be inside the middleware
    Scores,        \* what qosBaseScore can return: amount + 100 * trust score
    MaxInFlight,   \* QOS_MAX_INFLIGHT
    BypassBelow,   \* QOS_MAX_INFLIGHT * QOS_BYPASS_THRESHOLD, rounded up
    MaxDepth,      \* QOS_MAX_QUEUE_DEPTH
    QueueTimeout,  \* QOS_QUEUE_TIMEOUT_MS, in ticks
    AgeBoost,      \* points of priority per tick: its milliseconds over 50
    Mode,          \* QOS_MODE: "standalone", "cooperative" or "off"
    Impatient      \* may a client disconnect while its request is queued?

ASSUME QosAssumption ==
    /\ IsFiniteSet(Requests)
    /\ Scores \subseteq Nat
    /\ MaxInFlight \in Nat \ {0}
    /\ BypassBelow \in 0..MaxInFlight
    /\ MaxDepth \in Nat
    /\ QueueTimeout \in Nat
    /\ AgeBoost \in Nat
    /\ Mode \in {"standalone", "cooperative", "off"}
    /\ Impatient \in BOOLEAN

VARIABLES
    pc,        \* pc[r]: "idle", "waiting" in qosQueue, "upstream" in a slot,
               \* "closing" after 'finish', or "direct" to the node, in no slot
    entry,     \* entry[r]: the queue entry of a waiting request
    inFlight,  \* qosInFlight
    fallback,  \* Date.now() < qosOverloadFallbackUntil
    leaked     \* history: slots given to responses that had already closed

vars == <<pc, entry, inFlight, fallback, leaked>>

NoEntry == [score |-> 0, age |-> 0, ahead |-> {}, gone |-> FALSE]

Waiting(pcs) == {r \in Requests : pcs[r] = "waiting"}
queue == Waiting(pc)

\* Requests whose response has not closed yet and that hold a slot.
Upstream == {r \in Requests : pc[r] = "upstream"}

Init ==
    /\ pc = [r \in Requests |-> "idle"]
    /\ entry = [r \in Requests |-> NoEntry]
    /\ inFlight = 0
    /\ fallback = FALSE
    /\ leaked = 0

-----------------------------------------------------------------------------
\* qosEffectiveScore.
Effective(e) == e.score + AgeBoost * e.age

\* Mutant: the scan keeps the last of the best (>= for >).
BeatsLast(ent, a, b) ==
    \/ Effective(ent[a]) > Effective(ent[b])
    \/ Effective(ent[a]) = Effective(ent[b]) /\ b \in ent[a].ahead

\* The scan keeps the first of the best: a beats b on a tie only from ahead.
Beats(ent, a, b) ==
    \/ Effective(ent[a]) > Effective(ent[b])
    \/ Effective(ent[a]) = Effective(ent[b]) /\ a \in ent[b].ahead

\* r is spliced out of the queue.
Without(ent, S) == [r \in Requests |-> IF r \in S THEN NoEntry
                                       ELSE [ent[r] EXCEPT !.ahead = @ \ S]]

\* How many entries the loop of qosOnSlotFree pops.
Pops(waiting, flight) ==
    IF flight >= MaxInFlight THEN 0
    ELSE IF waiting <= MaxInFlight - flight THEN waiting ELSE MaxInFlight - flight

\* qosOnSlotFree: pop the best entries while slots are free.  Time stands
\* still during the loop, so they are the ones that beat all that stay.  An
\* entry whose response has already closed takes a slot like any other, and
\* neither of the events that would give it back is emitted again.
OnSlotFree(pcs, ent, flight) ==
    \E chosen \in SUBSET Waiting(pcs) :
        /\ Cardinality(chosen) = Pops(Cardinality(Waiting(pcs)), flight)
        /\ \A a \in chosen, b \in Waiting(pcs) \ chosen : Beats(ent, a, b)
        /\ pc' = [r \in Requests |->
                    IF r \notin chosen THEN pcs[r]
                    ELSE IF ent[r].gone THEN "idle" ELSE "upstream"]
        /\ entry' = Without(ent, chosen)
        /\ inFlight' = flight + Cardinality(chosen)
        /\ leaked' = leaked + Cardinality({r \in chosen : ent[r].gone})

-----------------------------------------------------------------------------
\* The three ways through qosMiddleware (a full queue is answered 503 and
\* changes nothing).

Cooperates == Mode = "cooperative" /\ ~fallback

\* No queueing here: QoS is off, or left to the operator.
Direct(r) ==
    /\ pc[r] = "idle"
    /\ Mode = "off" \/ Cooperates
    /\ pc' = [pc EXCEPT ![r] = "direct"]
    /\ UNCHANGED <<entry, inFlight, fallback, leaked>>

Queues == Mode # "off" /\ ~Cooperates

Bypass(r) ==
    /\ pc[r] = "idle"
    /\ Queues
    /\ inFlight < BypassBelow
    /\ pc' = [pc EXCEPT ![r] = "upstream"]
    /\ inFlight' = inFlight + 1
    /\ UNCHANGED <<entry, fallback, leaked>>

Enqueue(r, score) ==
    /\ pc[r] = "idle"
    /\ Queues
    /\ inFlight >= BypassBelow
    /\ Cardinality(queue) < MaxDepth
    /\ LET new == [score |-> score, age |-> 0, ahead |-> queue, gone |-> FALSE]
       IN OnSlotFree([pc EXCEPT ![r] = "waiting"], [entry EXCEPT ![r] = new], inFlight)
    /\ UNCHANGED fallback

\* Mutants: release gives the slot back without handing it on; 'finish' does
\* not release; 'close' releases again what 'finish' released.
FinishSilently(r) ==
    /\ pc[r] = "upstream"
    /\ pc' = [pc EXCEPT ![r] = "closing"]
    /\ inFlight' = inFlight - 1
    /\ UNCHANGED <<entry, fallback, leaked>>

FinishHolding(r) ==
    /\ pc[r] = "upstream"
    /\ pc' = [pc EXCEPT ![r] = "closing"]
    /\ UNCHANGED <<entry, inFlight, fallback, leaked>>

CloseAgain(r) ==
    /\ pc[r] \in {"upstream", "closing"}
    /\ OnSlotFree([pc EXCEPT ![r] = "idle"], entry, inFlight - 1)
    /\ UNCHANGED fallback

\* release, which the flag lets run once: 'finish' when the response has been
\* written, or 'close' without it when the connection dies first.
Finish(r) ==
    /\ pc[r] = "upstream"
    /\ OnSlotFree([pc EXCEPT ![r] = "closing"], entry, inFlight - 1)
    /\ UNCHANGED fallback

Close(r) ==
    \/ /\ pc[r] = "upstream"
       /\ OnSlotFree([pc EXCEPT ![r] = "idle"], entry, inFlight - 1)
       /\ UNCHANGED fallback
    \/ /\ pc[r] \in {"closing", "direct"}
       /\ pc' = [pc EXCEPT ![r] = "idle"]
       /\ UNCHANGED <<entry, inFlight, fallback, leaked>>

\* Mutant: an entry that is due is not late yet.
TimedOutLate(r) ==
    /\ pc[r] = "waiting"
    /\ entry[r].age > QueueTimeout
    /\ pc' = [pc EXCEPT ![r] = "idle"]
    /\ entry' = Without(entry, {r})
    /\ UNCHANGED <<inFlight, fallback, leaked>>

\* The entry's timer: remove it from the queue and answer 504.
TimedOut(r) ==
    /\ pc[r] = "waiting"
    /\ entry[r].age = QueueTimeout
    /\ pc' = [pc EXCEPT ![r] = "idle"]
    /\ entry' = Without(entry, {r})
    /\ UNCHANGED <<inFlight, fallback, leaked>>

\* Timers are fired before time goes on.
Tick ==
    /\ queue # {}
    /\ \A r \in queue : entry[r].age < QueueTimeout
    /\ entry' = [r \in Requests |-> IF r \in queue THEN [entry[r] EXCEPT !.age = @ + 1]
                                                   ELSE entry[r]]
    /\ UNCHANGED <<pc, inFlight, fallback, leaked>>

\* The client disconnects while queued: 'close' has no listener yet.
Abandon(r) ==
    /\ Impatient
    /\ pc[r] = "waiting" /\ ~entry[r].gone
    /\ entry' = [entry EXCEPT ![r].gone = TRUE]
    /\ UNCHANGED <<pc, inFlight, fallback, leaked>>

\* onProxyRes sees X-QoS-Overload, or the health probe forces the fallback;
\* it ends with its window, or when the probe recovers.
Overload ==
    /\ Mode = "cooperative"
    /\ fallback' = ~fallback
    /\ UNCHANGED <<pc, entry, inFlight, leaked>>

Next ==
    \/ \E r \in Requests : Direct(r) \/ Bypass(r) \/ Finish(r) \/ Close(r)
                             \/ TimedOut(r) \/ Abandon(r)
    \/ \E r \in Requests, score \in Scores : Enqueue(r, score)
    \/ Tick
    \/ Overload

\* Timers fire and clocks advance.  That responses end is not assumed.
Fairness == WF_vars(Tick) /\ \A r \in Requests : WF_vars(TimedOut(r))

Spec == Init /\ [][Next]_vars /\ Fairness

-----------------------------------------------------------------------------
TypeOK ==
    /\ pc \in [Requests -> {"idle", "waiting", "upstream", "closing", "direct"}]
    /\ entry \in [Requests -> [score : Scores \cup {0}, age : 0..QueueTimeout,
                               ahead : SUBSET Requests, gone : BOOLEAN]]
    /\ inFlight \in Nat
    /\ fallback \in BOOLEAN
    /\ leaked \in Nat

\* qosInFlight counts exactly the slots in use, never more than the cap,
\* although each slot has two events that may give it back and every give-back
\* hands it on within the same call; the queue keeps to its depth.
SlotsExact ==
    /\ inFlight = Cardinality(Upstream) + leaked
    /\ inFlight <= MaxInFlight
    /\ Cardinality(queue) <= MaxDepth

\* Nobody waits while a slot is free, whatever order bypasses, releases,
\* timeouts and changes of mode come in.  (So no bypass overtakes the queue.)
WorkConserving == queue # {} => inFlight = MaxInFlight

\* The queue is a queue: a request is not dispatched before one that was
\* there when it arrived and has no lower base score, whatever time passes.
FairOrder ==
    [][\A q, r \in Requests :
         (/\ pc[q] = "waiting" /\ pc'[q] = "upstream"
          /\ pc[r] = "waiting" /\ r \in entry[q].ahead
          /\ entry[r].score >= entry[q].score)
         => pc'[r] # "waiting"]_vars

\* Every queued request is answered in the end: dispatched, or 504.
QueuedIsAnswered == \A r \in Requests : pc[r] = "waiting" ~> pc[r] # "waiting"
=============================================================================
