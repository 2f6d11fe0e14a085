------------------------------ MODULE Service ------------------------------
(***************************************************************************)
(* One process of the Shield from boot to exit, and the SDK calls of one   *)
(* agent that it serves, over connections that break; other clients are    *)
(* the slots their requests hold.                                          *)
(*                                                                         *)
(* A call of the SDK (x402-client-sdk.ts) asks, is served or challenged,   *)
(* pays within its budget and asks again, once.  The Shield debits it (the *)
(* details are in Payment), schedules it (Qos) and proxies it.  A client   *)
(* whose connection breaks gives up; its request goes on.  On SIGTERM the  *)
(* process drains its queue before it exits.                               *)
(***************************************************************************)
EXTENDS Cooperative, FiniteSets

CONSTANTS
    Calls,       \* the agent's calls
    Prices,      \* the prices challenges can name
    Budget,      \* priorityBudget
    Escrow,      \* the agent's balance
    MaxInflight, \* QOS_MAX_INFLIGHT
    Mode,        \* QOS_MODE: "off", "standalone" or "cooperative"
    MaxLost,     \* bound on broken connections
    MaxBoots     \* bound on process starts

ASSUME ServiceAssumption ==
    /\ IsFiniteSet(Calls)
    /\ Prices \subseteq Nat
    /\ Budget \in Nat /\ Escrow \in Nat
    /\ MaxInflight \in Nat \ {0}
    /\ Mode \in {"off", "standalone", "cooperative"}
    /\ MaxLost \in Nat /\ MaxBoots \in Nat \ {0}

Idle == [pc |-> "idle", price |-> 0]

VARIABLES
    call,     \* call[c]: where the SDK's call is, and the price it accepted
    srv,      \* srv[c]: where its request is in the process
    balance,  \* the agent's escrow
    debits,   \* history: debits[c], the amounts debited for c
    phase,    \* "booting", "up", "draining", "closing" or "down"
    others,   \* slots held by, or leaked to, other clients' requests
    overdue,  \* drainDeadlineMs have passed since the signal
    promised, \* history: the requests queued or holding a slot at the signal
    cut,      \* history: those of them that the exit cut off in good time
    lost, boots

callVars == <<call, srv, balance, debits>>
phaseVars == <<phase, overdue, promised, cut, boots>>
vars == <<coopVars, callVars, phaseVars, others, lost>>

Init ==
    /\ CoopInit
    /\ call = [c \in Calls |-> Idle]
    /\ srv = [c \in Calls |-> "none"]
    /\ balance = Escrow
    /\ debits = [c \in Calls |-> 0]
    /\ phase = "booting"
    /\ others = 0
    /\ overdue = FALSE
    /\ promised = {}
    /\ cut = {}
    /\ lost = 0
    /\ boots = 1

At(where) == {c \in Calls : srv[c] = where}
Pending == At("queued") \cup At("running")
Running == phase \in {"up", "draining", "closing"}

\* The SDK waits for an answer; it is about to send the proof of payment.
Waiting(c) == call[c].pc \in {"asking", "paying"}
Paid(c) == call[c].price > 0

-----------------------------------------------------------------------------
\* The SDK: _fetchWithX402.

\* Once the server is closing, a request gets through only on a connection
\* that is still open.
Ask(c) ==
    /\ Running
    /\ call[c].pc = "idle"
    /\ call' = [call EXCEPT ![c].pc = "asking"]
    /\ srv' = [srv EXCEPT ![c] = "shield"]
    /\ UNCHANGED <<coopVars, balance, debits, phaseVars, others, lost>>

\* fetch rejects: nobody listens.
Unreached(c) ==
    /\ phase # "up"
    /\ call[c].pc \in {"idle", "deciding"}
    /\ call' = [call EXCEPT ![c].pc = "failed"]
    /\ UNCHANGED <<coopVars, srv, balance, debits, phaseVars, others, lost>>

\* _parseChallenge, and the budget.
Acceptable(price) == price > 0 /\ price <= Budget

\* onChallenge approves: sign, report to onPayment, ask again with the proof.
Pay(c) ==
    /\ Running
    /\ call[c].pc = "deciding"
    /\ call' = [call EXCEPT ![c].pc = "paying"]
    /\ srv' = [srv EXCEPT ![c] = "shield"]
    /\ UNCHANGED <<coopVars, balance, debits, phaseVars, others, lost>>

\* onChallenge returns false.
Decline(c) ==
    /\ call[c].pc = "deciding"
    /\ call' = [call EXCEPT ![c] = [Idle EXCEPT !.pc = "failed"]]
    /\ UNCHANGED <<coopVars, srv, balance, debits, phaseVars, others, lost>>

\* What the SDK makes of an answer; it is not there for it any more if its
\* connection broke.
OnAnswer(c, status) ==
    call' = IF ~Waiting(c) THEN call
            ELSE [call EXCEPT ![c].pc = IF status = "ok" THEN "served" ELSE "failed"]

OnChallengeOf(c, price) ==
    call' = IF ~Waiting(c) THEN call
            ELSE IF Acceptable(price)
            THEN [call EXCEPT ![c] = [pc |-> "deciding", price |-> price]]
            ELSE [call EXCEPT ![c].pc = "failed"]

-----------------------------------------------------------------------------
\* The Shield.

Leave(c) == srv' = [srv EXCEPT ![c] = "none"]

\* Mutant: the slots of other clients are forgotten.
DispatchedBlind(s, held) ==
    \E D \in SUBSET {c \in Calls : s[c] = "queued"} :
        /\ Cardinality(D) <= MaxInflight /\ held \in Nat
        /\ srv' = [c \in Calls |-> IF c \in D THEN "running" ELSE s[c]]

\* qosOnSlotFree after the other changes of a step made srv into s
\* and left the others held slots: queued requests take those that are free.
Dispatched(s, held) ==
    LET queued == {c \in Calls : s[c] = "queued"}
        free == MaxInflight - held - Cardinality({c \in Calls : s[c] = "running"})
        n == IF free < Cardinality(queued) THEN free ELSE Cardinality(queued)
    IN \E D \in SUBSET queued :
         /\ Cardinality(D) = n
         /\ srv' = [c \in Calls |-> IF c \in D THEN "running" ELSE s[c]]

\* x402Shield answers an unpaid request 402.
Challenge(c, price) ==
    /\ srv[c] = "shield" /\ ~Paid(c)
    /\ Leave(c)
    /\ OnChallengeOf(c, price)
    /\ UNCHANGED <<coopVars, balance, debits, phaseVars, others, lost>>

\* Or lets it through: the load is low.
LetPass(c) ==
    /\ srv[c] = "shield" /\ ~Paid(c)
    /\ srv' = [srv EXCEPT ![c] = "passed"]
    /\ UNCHANGED <<coopVars, call, balance, debits, phaseVars, others, lost>>

\* Mutant: an empty escrow is no obstacle.
DebitLeniently(c) ==
    /\ srv[c] = "shield" /\ Paid(c)
    /\ srv' = [srv EXCEPT ![c] = "passed"]
    /\ UNCHANGED <<coopVars, call, balance, debits, phaseVars, others, lost>>

\* verifyX402Authorization: the nonce is consumed and the price debited.
Debit(c) ==
    /\ srv[c] = "shield" /\ Paid(c)
    /\ balance >= call[c].price
    /\ balance' = balance - call[c].price
    /\ debits' = [debits EXCEPT ![c] = @ + call[c].price]
    /\ srv' = [srv EXCEPT ![c] = "passed"]
    /\ UNCHANGED <<coopVars, call, phaseVars, others, lost>>

\* A bad method or length, a ban, a rate limit, an expired nonce or an empty
\* escrow; behind the debit, a rate limit or a full queue.
Refuse(c) ==
    /\ srv[c] \in {"shield", "passed"}
    /\ Leave(c)
    /\ OnAnswer(c, "refused")
    /\ UNCHANGED <<coopVars, balance, debits, phaseVars, others, lost>>

\* qosMiddleware leaves the scheduling to the operator: no slot is held.
Forward(c) ==
    /\ srv[c] = "passed"
    /\ Mode = "off" \/ (Mode = "cooperative" /\ Cooperating)
    /\ srv' = [srv EXCEPT ![c] = "proxied"]
    /\ UNCHANGED <<coopVars, call, balance, debits, phaseVars, others, lost>>

\* Or schedules it here: it takes a slot at once or waits in the queue.
Enqueue(c) ==
    /\ srv[c] = "passed"
    /\ Mode = "standalone" \/ (Mode = "cooperative" /\ ~Cooperating)
    /\ Dispatched([srv EXCEPT ![c] = "queued"], others)
    /\ UNCHANGED <<coopVars, call, balance, debits, phaseVars, others, lost>>

\* Mutant: the entry is removed and nobody is told.
QueueTimeoutSilent(c) ==
    /\ srv[c] = "queued"
    /\ Leave(c)
    /\ UNCHANGED <<coopVars, call, balance, debits, phaseVars, others, lost>>

QueueTimeout(c) ==
    /\ srv[c] = "queued"
    /\ Leave(c)
    /\ OnAnswer(c, "timeout")
    /\ UNCHANGED <<coopVars, balance, debits, phaseVars, others, lost>>

\* The upstream answers, or onError answers 502.  A response whose client is
\* gone never ends: a slot taken for it is not given back.
Respond(c) ==
    /\ srv[c] \in {"running", "proxied"}
    /\ srv[c] = "running" => Waiting(c)
    /\ Dispatched([srv EXCEPT ![c] = "none"], others)
    /\ OnAnswer(c, IF operator = "up" THEN "ok" ELSE "unavailable")
    /\ IF operator = "overloaded" /\ Mode = "cooperative" THEN Overloaded ELSE UNCHANGED fallback
    /\ UNCHANGED <<operator, failing, successes, due, probing,
                   balance, debits, phaseVars, others, lost>>

\* BOUND: at most MaxLost connections break.  A slot that is held is given
\* back (res "close"); a queued request stays in the queue.
Disconnect(c) ==
    /\ Waiting(c) /\ lost < MaxLost
    /\ lost' = lost + 1
    /\ call' = [call EXCEPT ![c].pc = "failed"]
    /\ Dispatched(IF srv[c] = "running" THEN [srv EXCEPT ![c] = "none"] ELSE srv, others)
    /\ UNCHANGED <<coopVars, balance, debits, phaseVars, others>>

\* The requests of other clients.  One that leaves its slot to another queued
\* one of theirs changes nothing here.
OtherEnters ==
    /\ Running
    /\ others + Cardinality(At("running")) < MaxInflight
    /\ others' = others + 1
    /\ UNCHANGED <<coopVars, callVars, phaseVars, lost>>

OtherLeaves ==
    /\ others > 0
    /\ others' = others - 1
    /\ Dispatched(srv, others - 1)
    /\ UNCHANGED <<coopVars, call, balance, debits, phaseVars, lost>>

-----------------------------------------------------------------------------
\* The process.

\* boot(): Redis is healthy, or not required.
Listen ==
    /\ phase = "booting"
    /\ phase' = "up"
    /\ UNCHANGED <<coopVars, callVars, overdue, promised, cut, boots, others, lost>>

\* The process is gone, and with it every request.
Vanish ==
    /\ phase' = "down"
    /\ others' = 0
    /\ srv' = [c \in Calls |-> "none"]
    /\ call' = [c \in Calls |-> IF Waiting(c) THEN [call[c] EXCEPT !.pc = "failed"] ELSE call[c]]
    /\ UNCHANGED <<coopVars, balance, debits, overdue, promised, boots, lost>>

\* waitForRedisOrFail times out, or anything kills the process.
\* BOUND: not in its last life.
Die ==
    /\ phase # "down" /\ boots < MaxBoots
    /\ Vanish
    /\ UNCHANGED cut

\* SIGTERM: the server stops listening, the drain begins.
Signal ==
    /\ phase = "up"
    /\ phase' = "draining"
    /\ overdue' = FALSE
    /\ promised' = Pending
    /\ UNCHANGED <<coopVars, callVars, cut, boots, others, lost>>

\* drainDeadlineMs have passed since the signal.
Deadline ==
    /\ phase = "draining" /\ ~overdue
    /\ overdue' = TRUE
    /\ UNCHANGED <<coopVars, callVars, phase, promised, cut, boots, others, lost>>

\* Mutants: only the queue must be empty; there is no deadline.
DrainedQueue == At("queued") = {} \/ overdue
DrainedForGood == Pending = {} /\ others = 0
Drained == (Pending = {} /\ others = 0) \/ overdue

\* The 200 ms tick of the drain; it goes on to store.close().
DrainTick ==
    /\ phase = "draining"
    /\ Drained
    /\ phase' = "closing"
    /\ UNCHANGED <<coopVars, callVars, overdue, promised, cut, boots, others, lost>>

\* 100 ms after the store is closed.
Exit ==
    /\ phase = "closing"
    /\ Vanish
    /\ cut' = IF overdue THEN cut ELSE cut \cup (promised \cap Pending)

\* BOUND: the process is started MaxBoots times.
Restart ==
    /\ phase = "down" /\ boots < MaxBoots
    /\ phase' = "booting"
    /\ boots' = boots + 1
    /\ promised' = {}
    /\ overdue' = FALSE
    /\ fallback' = 0 /\ failing' = Healthy /\ successes' = 0
    /\ due' = Interval /\ probing' = NoProbe
    /\ UNCHANGED <<operator, callVars, cut, others, lost>>

Client(c) == Ask(c) \/ Unreached(c) \/ Pay(c) \/ Decline(c)

Serve(c) ==
    \/ \E price \in Prices : Challenge(c, price)
    \/ LetPass(c)
    \/ Debit(c)
    \/ Refuse(c)
    \/ Forward(c)
    \/ Enqueue(c)
    \/ QueueTimeout(c)
    \/ Respond(c)

\* The probe runs where the mode is cooperative.
Probe ==
    /\ Mode = "cooperative" /\ phase # "down"
    /\ ProbeStep
    /\ UNCHANGED <<callVars, phaseVars, others, lost>>

Operator == OperatorTurns /\ UNCHANGED <<callVars, phaseVars, others, lost>>

Next ==
    \/ \E c \in Calls : Client(c) \/ Serve(c) \/ Disconnect(c)
    \/ OtherEnters \/ OtherLeaves
    \/ Listen \/ Die \/ Signal \/ Deadline \/ DrainTick \/ Exit \/ Restart
    \/ Probe
    \/ Operator

\* The callback that decides returns, the handlers of a running process run
\* (store calls settle, proxyTimeout bounds the upstream), so do its timers,
\* and the container's restart policy starts it again.  Nothing makes a call
\* begin, an operator recover, or a signal come.
Fairness ==
    /\ \A c \in Calls :
         /\ WF_vars(Pay(c) \/ Decline(c) \/ Unreached(c))
         /\ WF_vars(Serve(c))
    /\ WF_vars(Listen) /\ WF_vars(Deadline) /\ WF_vars(DrainTick) /\ WF_vars(Exit)
    /\ WF_vars(Restart)
    /\ WF_vars(Probe)

Spec == Init /\ [][Next]_vars /\ Fairness
-----------------------------------------------------------------------------
\* The type invariant; no more slots are taken than there are.
TypeOK ==
    /\ CoopTypeOK
    /\ call \in [Calls -> [pc : {"idle", "asking", "deciding", "paying", "served", "failed"},
                           price : Nat]]
    /\ srv \in [Calls -> {"none", "shield", "passed", "queued", "running", "proxied"}]
    /\ balance \in Nat
    /\ debits \in [Calls -> Nat]
    /\ phase \in {"booting", "up", "draining", "closing", "down"}
    /\ overdue \in BOOLEAN
    /\ promised \subseteq Calls /\ cut \subseteq Calls
    /\ lost \in 0..MaxLost
    /\ boots \in 1..MaxBoots
    /\ others \in Nat /\ others + Cardinality(At("running")) <= MaxInflight

\* A call is charged at most once, the price its user approved and its budget
\* allows, however it ends and whoever breaks off; and nobody is served on
\* credit: a call that was challenged and then served has been charged.
ChargedAsAgreed ==
    \A c \in Calls :
        /\ debits[c] # 0 => /\ debits[c] = call[c].price
                           /\ debits[c] <= Budget
                           /\ call[c].pc \in {"paying", "served", "failed"}
        /\ call[c].pc = "served" /\ Paid(c) => debits[c] = call[c].price

\* A shutdown keeps its promise: a request that was queued or held a slot when
\* the signal came is not cut off by an exit before the deadline.
DrainHonoured == cut = {}

\* No call hangs: every call that began is served or fails, though the process
\* may die, drain or restart, and connections break, at any point of it.
CallsEnd ==
    \A c \in Calls : call[c].pc # "idle" ~> call[c].pc \in {"served", "failed"}

\* A shutdown ends, even when slots have leaked to clients that left.
ShutdownEnds == phase = "draining" ~> phase = "down"

\* When the operator recovers for good the Shield cooperates again, unless it
\* stops.
CooperativeResumes ==
    <>[](operator = "up") => []<>(Cooperating \/ phase = "down")
=============================================================================
