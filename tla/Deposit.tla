------------------------------ MODULE Deposit ------------------------------
(***************************************************************************)
(* POST /escrow/deposit: the request handler of index.js, verifyDepositTx  *)
(* running behind the circuit breaker of lib/solana-circuit.js, and the    *)
(* deposit keys of lib/store.js, for Shield processes that share a Redis.  *)
(*                                                                         *)
(* The handler awaits the breaker, not the verification.  When the         *)
(* breaker's timer fires the handler goes on, and the verification it      *)
(* started goes on too, owned by nobody.  Each action is one awaited       *)
(* operation with the code that runs when it settles.                      *)
(***************************************************************************)
EXTENDS Naturals, FiniteSets

CONSTANTS
    Sigs,       \* transaction signatures that pass the format gate
    Slots,      \* requests that can be in progress, over all processes
    Processes,  \* Shield processes
    Home,       \* Home[s]: the process that request s is served by
    Verifs,     \* verifications that can be running, orphans included
    NoSig, NoSlot,
    Slow        \* may a verification outlive DEPOSIT_PENDING_TTL_MS and
                \* SOLANA_CIRCUIT_TIMEOUT_MS (15 s each)?

ASSUME DepositAssumption ==
    /\ Home \in [Slots -> Processes]
    /\ NoSig \notin Sigs
    /\ NoSlot \notin Slots
    /\ Slow \in BOOLEAN

VARIABLES
    chain,     \* chain[g]: the transaction g, as the Solana RPC reports it
    used,      \* signatures added by addSignature
    credited,  \* credited[g]: how often g's lamports were added to escrow
    locked,    \* signatures with a pending-deposit key
    knownBad,  \* signatures in the negative cache
    breaker,   \* breaker[p]: state of process p's circuit breaker
    pc,        \* where request s is suspended
    sig,       \* sig[s]: the signature request s submitted
    ver,       \* ver[v]: the phase of verification v, its signature, the request
               \* that started it, and whether that request still awaits it
    crashed    \* history: some process has died

storeVars == <<used, credited, locked, knownBad>>
vars == <<chain, storeVars, breaker, pc, sig, ver, crashed>>

NoVer == [phase |-> "none", sig |-> NoSig, origin |-> NoSlot, awaited |-> FALSE]

Busy == {v \in Verifs : ver[v].phase # "none"}
InProgress == {s \in Slots : pc[s] # "idle"}
Live(g) == {s \in InProgress : sig[s] = g}

-----------------------------------------------------------------------------
Init ==
    /\ chain = [g \in Sigs |-> "absent"]
    /\ used = {}
    /\ credited = [g \in Sigs |-> 0]
    /\ locked = {}
    /\ knownBad = {}
    /\ breaker = [p \in Processes |-> "closed"]
    /\ pc = [s \in Slots |-> "idle"]
    /\ sig = [s \in Slots |-> NoSig]
    /\ ver = [v \in Verifs |-> NoVer]
    /\ crashed = FALSE

\* The transaction reaches DEPOSIT_COMMITMENT, as a transfer to the operator
\* or as something else.
Land(g) ==
    /\ chain[g] = "absent"
    /\ \E fate \in {"transfer", "other"} : chain' = [chain EXCEPT ![g] = fate]
    /\ UNCHANGED <<storeVars, breaker, pc, sig, ver, crashed>>

\* A request past the format gate.
\* BOUND: it starts only while a verification record remains for it.
Arrive(s, g) ==
    /\ pc[s] = "idle"
    /\ Cardinality(Busy) + Cardinality(InProgress) < Cardinality(Verifs)
    /\ pc' = [pc EXCEPT ![s] = "check"]
    /\ sig' = [sig EXCEPT ![s] = g]
    /\ UNCHANGED <<chain, storeVars, breaker, ver, crashed>>

\* The response is out.
Leave(s) ==
    /\ pc' = [pc EXCEPT ![s] = "idle"]
    /\ sig' = [sig EXCEPT ![s] = NoSig]

\* isDepositKnownBad: 400 on a cached rejection.
CheckKnownBad(s) ==
    /\ pc[s] = "check"
    /\ IF sig[s] \in knownBad
         THEN Leave(s)
         ELSE pc' = [pc EXCEPT ![s] = "claim"] /\ UNCHANGED sig
    /\ UNCHANGED <<chain, storeVars, breaker, ver, crashed>>

\* What opossum does with a call: pass it on, or reject it at once.
Admits(state) == state \in {"closed", "half"}
Called(state) == IF state = "half" THEN "probing" ELSE state
Succeeded(state) == IF state = "open" THEN "open" ELSE "closed"
Failed(state) == IF state = "closed" THEN {"closed", "open"} ELSE {"open"}

\* Mutant: the answer of SET NX is not looked at.
ClaimBlind(s) ==
    /\ pc[s] = "claim"
    /\ locked' = locked \cup {sig[s]}
    /\ IF Admits(breaker[Home[s]])
         THEN /\ \E v \in Verifs \ Busy :
                   ver' = [ver EXCEPT ![v] = [phase |-> "check", sig |-> sig[s],
                                              origin |-> s, awaited |-> TRUE]]
              /\ breaker' = [breaker EXCEPT ![Home[s]] = Called(@)]
              /\ pc' = [pc EXCEPT ![s] = "verify"]
         ELSE pc' = [pc EXCEPT ![s] = "clear"] /\ UNCHANGED <<ver, breaker>>
    /\ UNCHANGED <<chain, used, credited, knownBad, sig, crashed>>

\* claimPendingDeposit: 409 if the signature is claimed; else fire the
\* breaker, which rejects the call or starts verifyDepositTx.
Claim(s) ==
    /\ pc[s] = "claim"
    /\ IF sig[s] \in locked
         THEN Leave(s) /\ UNCHANGED <<locked, breaker, ver>>
         ELSE /\ locked' = locked \cup {sig[s]}
              /\ IF Admits(breaker[Home[s]])
                   THEN /\ \E v \in Verifs \ Busy :
                             ver' = [ver EXCEPT ![v] = [phase |-> "check", sig |-> sig[s],
                                                        origin |-> s, awaited |-> TRUE]]
                        /\ breaker' = [breaker EXCEPT ![Home[s]] = Called(@)]
                        /\ pc' = [pc EXCEPT ![s] = "verify"]
                   ELSE pc' = [pc EXCEPT ![s] = "clear"] /\ UNCHANGED <<ver, breaker>>
              /\ UNCHANGED sig
    /\ UNCHANGED <<chain, used, credited, knownBad, crashed>>

\* Verification v goes on to its next await.
GoOn(v, phase) ==
    /\ ver' = [ver EXCEPT ![v].phase = phase]
    /\ UNCHANGED <<breaker, pc>>

\* Verification v settles.  The handler, if it still waits, goes on with the
\* result; the result of an orphan is dropped.
Settle(v, verdict) ==
    LET s == ver[v].origin IN
    /\ ver' = [ver EXCEPT ![v] = NoVer]
    /\ IF ~ver[v].awaited
         THEN UNCHANGED <<breaker, pc>>
       ELSE IF verdict = "error"
         THEN /\ \E state \in Failed(breaker[Home[s]]) :
                    breaker' = [breaker EXCEPT ![Home[s]] = state]
              /\ pc' = [pc EXCEPT ![s] = "clear"]
         ELSE /\ breaker' = [breaker EXCEPT ![Home[s]] = Succeeded(@)]
              /\ pc' = [pc EXCEPT ![s] = IF verdict = "ok" THEN "clear" ELSE "reject"]

\* Mutants: used signatures are not looked up; the signature is added before
\* the transaction is validated.
CheckNothing(v) ==
    /\ ver[v].phase = "check"
    /\ GoOn(v, "fetch")
    /\ UNCHANGED <<chain, storeVars, sig, crashed>>

CheckAndMark(v) ==
    /\ ver[v].phase = "check"
    /\ used' = used \cup {ver[v].sig}
    /\ IF ver[v].sig \in used THEN Settle(v, "bad") ELSE GoOn(v, "fetch")
    /\ UNCHANGED <<chain, credited, locked, knownBad, sig, crashed>>

\* hasSignature.
CheckUsed(v) ==
    /\ ver[v].phase = "check"
    /\ IF ver[v].sig \in used THEN Settle(v, "bad") ELSE GoOn(v, "fetch")
    /\ UNCHANGED <<chain, storeVars, sig, crashed>>

\* getParsedTransaction answers and the transaction is validated, or throws.
Answer(v) ==
    /\ ver[v].phase = "fetch"
    /\ IF chain[ver[v].sig] = "transfer" THEN GoOn(v, "mark") ELSE Settle(v, "bad")
    /\ UNCHANGED <<chain, storeVars, sig, crashed>>

RpcError(v) ==
    /\ ver[v].phase = "fetch"
    /\ Settle(v, "error")
    /\ UNCHANGED <<chain, storeVars, sig, crashed>>

\* addSignature, then incrEscrow.
Mark(v) ==
    /\ ver[v].phase = "mark"
    /\ used' = used \cup {ver[v].sig}
    /\ GoOn(v, "credit")
    /\ UNCHANGED <<chain, credited, locked, knownBad, sig, crashed>>

AddCredit(v) ==
    /\ ver[v].phase = "credit"
    /\ credited' = [credited EXCEPT ![ver[v].sig] = @ + 1]
    /\ Settle(v, "ok")
    /\ UNCHANGED <<chain, used, locked, knownBad, sig, crashed>>

\* Mutant: the half-open probe has no timer.
TimeoutClosed(s) ==
    /\ Slow
    /\ pc[s] = "verify"
    /\ breaker[Home[s]] = "closed"
    /\ ver' = [v \in Verifs |-> IF ver[v].origin = s THEN [ver[v] EXCEPT !.awaited = FALSE]
                                                   ELSE ver[v]]
    /\ \E state \in Failed(breaker[Home[s]]) :
          breaker' = [breaker EXCEPT ![Home[s]] = state]
    /\ pc' = [pc EXCEPT ![s] = "clear"]
    /\ UNCHANGED <<chain, storeVars, sig, crashed>>

\* The breaker's timer fires: the call counts as failed, the handler answers
\* 503, and nothing stops the verification.
Timeout(s) ==
    /\ Slow
    /\ pc[s] = "verify"
    /\ ver' = [v \in Verifs |-> IF ver[v].origin = s THEN [ver[v] EXCEPT !.awaited = FALSE]
                                                   ELSE ver[v]]
    /\ \E state \in Failed(breaker[Home[s]]) :
          breaker' = [breaker EXCEPT ![Home[s]] = state]
    /\ pc' = [pc EXCEPT ![s] = "clear"]
    /\ UNCHANGED <<chain, storeVars, sig, crashed>>

\* markDepositKnownBad; the offense is recorded without being awaited.
Reject(s) ==
    /\ pc[s] = "reject"
    /\ knownBad' = knownBad \cup {sig[s]}
    /\ pc' = [pc EXCEPT ![s] = "clear"]
    /\ UNCHANGED <<chain, used, credited, locked, breaker, sig, ver, crashed>>

\* The finally block: clearPendingDeposit, whoever holds the key by now.
Clear(s) ==
    /\ pc[s] = "clear"
    /\ locked' = locked \ {sig[s]}
    /\ Leave(s)
    /\ UNCHANGED <<chain, used, credited, knownBad, breaker, ver, crashed>>

\* The requests between their claim on g and their finally block.
Holders(g) == {s \in Slots : pc[s] \in {"verify", "reject", "clear"} /\ sig[s] = g}

\* The TTL of the pending key passes: before its holder is done only if
\* verifications are slow, but always after its holder died.
LockExpire(g) ==
    /\ g \in locked
    /\ Slow \/ Holders(g) = {}
    /\ locked' = locked \ {g}
    /\ UNCHANGED <<chain, used, credited, knownBad, breaker, pc, sig, ver, crashed>>

\* Mutant: every lookup renews the TTL of the cached rejection.
KnownBadSlides(g) ==
    /\ g \in knownBad
    /\ Live(g) = {}
    /\ knownBad' = knownBad \ {g}
    /\ UNCHANGED <<chain, used, credited, locked, breaker, pc, sig, ver, crashed>>

KnownBadExpire(g) ==
    /\ g \in knownBad
    /\ knownBad' = knownBad \ {g}
    /\ UNCHANGED <<chain, used, credited, locked, breaker, pc, sig, ver, crashed>>

\* resetTimeout passes: the breaker lets one call through.
BreakerReset(p) ==
    /\ breaker[p] = "open"
    /\ breaker' = [breaker EXCEPT ![p] = "half"]
    /\ UNCHANGED <<chain, storeVars, pc, sig, ver, crashed>>

\* A process dies with its requests and verifications; Redis keeps its keys.
Crash(p) ==
    LET Dead(s) == s \in Slots /\ Home[s] = p IN
    /\ pc' = [s \in Slots |-> IF Dead(s) THEN "idle" ELSE pc[s]]
    /\ sig' = [s \in Slots |-> IF Dead(s) THEN NoSig ELSE sig[s]]
    /\ ver' = [v \in Verifs |-> IF Dead(ver[v].origin) THEN NoVer ELSE ver[v]]
    /\ breaker' = [breaker EXCEPT ![p] = "closed"]
    /\ crashed' = TRUE
    /\ UNCHANGED <<chain, storeVars>>

Handle(s) == CheckKnownBad(s) \/ Claim(s) \/ Reject(s) \/ Clear(s)
Verify(v) == CheckUsed(v) \/ Mark(v) \/ AddCredit(v)

Next ==
    \/ \E g \in Sigs : Land(g) \/ LockExpire(g) \/ KnownBadExpire(g)
    \/ \E s \in Slots, g \in Sigs : Arrive(s, g)
    \/ \E s \in Slots : Handle(s) \/ Timeout(s)
    \/ \E v \in Verifs : Verify(v) \/ Answer(v) \/ RpcError(v)
    \/ \E p \in Processes : BreakerReset(p) \/ Crash(p)

\* The event loop resumes what has settled and fires its timers.  Nothing is
\* assumed of the Solana RPC: a call may hang for ever.
Fairness ==
    /\ \A s \in Slots : WF_vars(Handle(s)) /\ WF_vars(Timeout(s))
    /\ \A v \in Verifs : WF_vars(Verify(v))

Spec == Init /\ [][Next]_vars /\ Fairness

-----------------------------------------------------------------------------
TypeOK ==
    /\ chain \in [Sigs -> {"absent", "transfer", "other"}]
    /\ used \subseteq Sigs
    /\ credited \in [Sigs -> Nat]
    /\ locked \subseteq Sigs
    /\ knownBad \subseteq Sigs
    /\ breaker \in [Processes -> {"closed", "open", "half", "probing"}]
    /\ pc \in [Slots -> {"idle", "check", "claim", "verify", "reject", "clear"}]
    /\ sig \in [Slots -> Sigs \cup {NoSig}]
    /\ \A s \in Slots : pc[s] = "idle" <=> sig[s] = NoSig
    /\ ver \in [Verifs -> [phase : {"none", "check", "fetch", "mark", "credit"},
                           sig : Sigs \cup {NoSig}, origin : Slots \cup {NoSlot},
                           awaited : BOOLEAN]]
    /\ crashed \in BOOLEAN

\* One on-chain transfer is credited once, however often, however
\* concurrently and to however many processes its signature is submitted,
\* and whenever a process dies.
CreditOnce == \A g \in Sigs : credited[g] <= 1

\* A signature counts as consumed only if its lamports were credited, are
\* about to be, or were lost with a process that died between the two.
MarkedIsCredited ==
    \A g \in used :
        credited[g] >= 1 \/ crashed \/ \E v \in Verifs : ver[v].phase = "credit" /\ ver[v].sig = g

\* Concurrent submissions of a signature do not check it concurrently.
OneVerification ==
    \A v, w \in Busy : ver[v].sig = ver[w].sig => v = w

\* Every request is answered and releases its claim, even if Solana never
\* answers: the breaker's timer ends the wait.
RequestsEnd == \A s \in Slots : pc[s] # "idle" ~> pc[s] = "idle"

\* An RPC that keeps answering, keys that expire, a breaker that is reset, and
\* a client that keeps submitting what it paid.
Persistence ==
    /\ \A v \in Verifs : SF_vars(Answer(v))
    /\ \A g \in Sigs : WF_vars(LockExpire(g)) /\ WF_vars(KnownBadExpire(g))
    /\ \A p \in Processes : WF_vars(BreakerReset(p))
    /\ \A s \in Slots, g \in Sigs : SF_vars(Arrive(s, g))

\* Neither the pending key, the negative cache nor the breaker can keep a
\* transfer from being credited to a client that keeps submitting it, unless
\* a process dies.
TransferIsCredited ==
    Persistence => \A g \in Sigs : chain[g] = "transfer" ~> (credited[g] >= 1 \/ crashed)
=============================================================================
