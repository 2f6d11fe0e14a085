------------------------------ MODULE Payment ------------------------------
(***************************************************************************)
(* The paid path of /rpc: x402Shield, verifyX402Authorization, the nonce   *)
(* pre-check, issueNonce and recordPayment of index.js over the nonce,     *)
(* escrow and reputation operations of lib/store.js.                       *)
(*                                                                         *)
(* Each store operation is awaited, so a request is a sequence of steps    *)
(* that other requests interleave with; pc[s] names the await request s is *)
(* suspended at.  consumeNonceAndDebit is one step in both backends: a     *)
(* tick that never awaits in memory, a Lua script in Redis.                *)
(***************************************************************************)
EXTENDS Integers, FiniteSets, FiniteSetsExt

CONSTANTS
    Agents,          \* public keys
    Nonces,          \* draws of crypto.randomBytes(16); no value is drawn twice
    Slots,           \* requests the process can have in progress on /rpc
    NoOne,           \* no pubkey hint
    NoToken,         \* no Authorization header
    Backend,         \* "memory" or "redis", chosen once by createStore
    BasePrice,       \* BASE_PRICE_MICRO_LAMPORTS
    Quotes,          \* what calcDynamicPrice returns at the loads considered
    Offers,          \* amounts agents sign
    ScorePerPayment, \* 5 in the code; larger here so that discounts move quickly
    Deposits,        \* amounts credited by one deposit
    MaxDeposited     \* bound on what one agent deposits in a behaviour

ASSUME PaymentAssumption ==
    /\ IsFiniteSet(Slots) /\ IsFiniteSet(Nonces)
    /\ NoOne \notin Agents
    /\ Backend \in {"memory", "redis"}
    /\ BasePrice \in Nat
    /\ Quotes \subseteq {q \in Nat : q >= BasePrice}
    /\ Offers \subseteq Nat
    /\ ScorePerPayment \in Nat
    /\ Deposits \subseteq Nat
    /\ MaxDeposited \in Nat

Tokens == [nonce : Nonces, pubkey : Agents, amount : Offers, authentic : BOOLEAN]

NoCharge == [pubkey |-> NoOne, amount |-> 0]
NoReq == [token |-> NoToken, hint |-> NoOne, base |-> 0]
NoChallenge == [amount |-> 0, base |-> 0, hint |-> NoOne]

VARIABLES
    escrow,     \* escrow[a]: prepaid micro-lamports
    status,     \* status[n]: what the store still knows of nonce n
    challenge,  \* challenge[n]: what was stored with nonce n
    paidCount,  \* paidCount[a], the reputation record
    totalPaid,  \* totalPaid[a], the reputation record
    pc,         \* where request s is suspended
    req,        \* what request s carries, and the price at its load
    score,      \* the Trust-Score request s has read for its hint
    reason,     \* why the proof of request s was refused
    charge,     \* history: who was debited on nonce n, and how much
    forwarded,  \* history: verified requests forwarded on nonce n
    deposited,  \* history: what agent a was credited
    crashed     \* history: the process has been restarted

storeVars == <<escrow, status, challenge, paidCount, totalPaid>>
reqVars == <<req, score, reason>>
historyVars == <<charge, forwarded, deposited, crashed>>
vars == <<storeVars, pc, reqVars, historyVars>>

-----------------------------------------------------------------------------
\* Trust-Score and discount.

MinOf(a, b) == IF a <= b THEN a ELSE b
MaxOf(a, b) == IF a >= b THEN a ELSE b

ScoreOf(count) == MinOf(100, count * ScorePerPayment)

\* getTrustScore of hint h, given every agent's payment count.
Score(counts, h) == IF h \in Agents THEN ScoreOf(counts[h]) ELSE 0

\* Math.round(price * (1 - score / 200)), never below the base price.
Discounted(price, sc) ==
    MaxOf(BasePrice, (price * (200 - sc) + 100) \div 200)

-----------------------------------------------------------------------------
Init ==
    /\ escrow = [a \in Agents |-> 0]
    /\ status = [n \in Nonces |-> "unissued"]
    /\ challenge = [n \in Nonces |-> NoChallenge]
    /\ paidCount = [a \in Agents |-> 0]
    /\ totalPaid = [a \in Agents |-> 0]
    /\ pc = [s \in Slots |-> "idle"]
    /\ req = [s \in Slots |-> NoReq]
    /\ score = [s \in Slots |-> 0]
    /\ reason = [s \in Slots |-> "none"]
    /\ charge = [n \in Nonces |-> NoCharge]
    /\ forwarded = [n \in Nonces |-> 0]
    /\ deposited = [a \in Agents |-> 0]
    /\ crashed = FALSE

\* A deposit is credited (module Deposit) by one incrEscrow.
Credit(a, amount) ==
    /\ deposited[a] + amount <= MaxDeposited
    /\ escrow' = [escrow EXCEPT ![a] = @ + amount]
    /\ deposited' = [deposited EXCEPT ![a] = @ + amount]
    /\ UNCHANGED <<status, challenge, paidCount, totalPaid, pc, reqVars, charge,
                   forwarded, crashed>>

\* BOUND: a request starts only while an unissued nonce remains for it.
NonceLeft ==
    Cardinality({n \in Nonces : status[n] = "unissued"})
        > Cardinality({t \in Slots : pc[t] # "idle"})

\* A request under load.  (Below the load threshold it is forwarded unpaid
\* and changes nothing here.)  What is signed is a challenge that was issued.
Arrive(s, token, hint, base) ==
    /\ pc[s] = "idle"
    /\ NonceLeft
    /\ token # NoToken => status[token.nonce] # "unissued"
    /\ pc' = [pc EXCEPT ![s] = IF token = NoToken THEN "quote" ELSE "precheck"]
    /\ req' = [req EXCEPT ![s] = [token |-> token, hint |-> hint, base |-> base]]
    /\ UNCHANGED <<storeVars, score, reason, historyVars>>

\* A failed proof is answered with a new challenge.
Refuse(s, why) ==
    /\ pc' = [pc EXCEPT ![s] = "quote"]
    /\ reason' = [reason EXCEPT ![s] = why]

\* The response is out: the request's locals are gone.
Leave(s) ==
    /\ pc' = [pc EXCEPT ![s] = "idle"]
    /\ req' = [req EXCEPT ![s] = NoReq]
    /\ score' = [score EXCEPT ![s] = 0]
    /\ reason' = [reason EXCEPT ![s] = "none"]

\* noncePreCheck reads the nonce, then the signature is verified.
PreCheck(s) ==
    /\ pc[s] = "precheck"
    /\ LET t == req[s].token IN
       IF status[t.nonce] \in {"unissued", "gone"}
         THEN Refuse(s, "nonce_unknown")
       ELSE IF ~t.authentic
         THEN Refuse(s, "invalid_signature")
       ELSE /\ pc' = [pc EXCEPT ![s] = "consume"]
            /\ UNCHANGED reason
    /\ UNCHANGED <<storeVars, req, score, historyVars>>

\* Mutants: the binding is not checked; a challenge without a hint is bound
\* to nobody (what the Lua script does, in the memory backend too).
HintIgnored(hint, pubkey) == FALSE
HintStrict(hint, pubkey) == hint # pubkey

\* The stored hint is null when no hint was sent.  JavaScript's test skips
\* a null hint; in the Lua script cjson decodes it to cjson.null, which is
\* a true value different from every public key.
HintRejects(hint, pubkey) ==
    /\ hint # pubkey
    /\ hint # NoOne \/ Backend = "redis"

\* Mutants: one test missing (used, amount), or a nonce that is gone taken for
\* a used one.
OutcomeReusable(n, pubkey, amount) ==
    CASE status[n] \in {"unissued", "gone", "expired"} -> "nonce_expired"
      [] OTHER -> IF amount < challenge[n].amount THEN "insufficient_payment"
                  ELSE IF HintRejects(challenge[n].hint, pubkey) THEN "pubkey_hint_mismatch"
                  ELSE IF escrow[pubkey] < amount THEN "insufficient_balance"
                  ELSE "ok"

OutcomeCheap(n, pubkey, amount) ==
    CASE status[n] = "used" -> "nonce_already_used"
      [] status[n] \in {"unissued", "gone", "expired"} -> "nonce_expired"
      [] OTHER -> IF HintRejects(challenge[n].hint, pubkey) THEN "pubkey_hint_mismatch"
                  ELSE IF escrow[pubkey] < amount THEN "insufficient_balance"
                  ELSE "ok"

OutcomeBlaming(n, pubkey, amount) ==
    CASE status[n] = "expired" -> "nonce_expired"
      [] status[n] \in {"unissued", "gone", "used"} -> "nonce_already_used"
      [] OTHER -> IF amount < challenge[n].amount THEN "insufficient_payment"
                  ELSE IF HintRejects(challenge[n].hint, pubkey) THEN "pubkey_hint_mismatch"
                  ELSE IF escrow[pubkey] < amount THEN "insufficient_balance"
                  ELSE "ok"

\* Why consumeNonceAndDebit(n, pubkey, amount) refuses, in the order of its tests.
ConsumeOutcome(n, pubkey, amount) ==
    CASE status[n] \in {"unissued", "gone"}      -> "nonce_not_found"
      [] status[n] = "used"                      -> "nonce_already_used"
      [] status[n] = "expired"                   -> "nonce_expired"
      [] OTHER ->
           IF amount < challenge[n].amount                 THEN "insufficient_payment"
           ELSE IF HintRejects(challenge[n].hint, pubkey)  THEN "pubkey_hint_mismatch"
           ELSE IF escrow[pubkey] < amount             THEN "insufficient_balance"
           ELSE "ok"

\* consumeNonceAndDebit: check, mark used and debit, all in one step.
Consume(s) ==
    /\ pc[s] = "consume"
    /\ LET t == req[s].token
           outcome == ConsumeOutcome(t.nonce, t.pubkey, t.amount)
       IN IF outcome = "ok"
          THEN /\ status' = [status EXCEPT ![t.nonce] = "used"]
               /\ escrow' = [escrow EXCEPT ![t.pubkey] = @ - t.amount]
               /\ charge' = [charge EXCEPT
                    ![t.nonce] = [pubkey |-> t.pubkey, amount |-> t.amount]]
               /\ pc' = [pc EXCEPT ![s] = "record"]
               /\ UNCHANGED reason
          ELSE /\ Refuse(s, outcome)
               /\ UNCHANGED <<status, escrow, charge>>
    /\ UNCHANGED <<challenge, paidCount, totalPaid, req, score, forwarded,
                   deposited, crashed>>

\* Mutants: the price asked is recorded, not the amount paid; the verified
\* request falls through to the challenge.
RecordAsked(s) ==
    /\ pc[s] = "record"
    /\ LET t == req[s].token IN
         /\ paidCount' = [paidCount EXCEPT ![t.pubkey] = @ + 1]
         /\ totalPaid' = [totalPaid EXCEPT ![t.pubkey] = @ + challenge[t.nonce].amount]
    /\ pc' = [pc EXCEPT ![s] = "forward"]
    /\ UNCHANGED <<escrow, status, challenge, reqVars, historyVars>>

RecordDropped(s) ==
    /\ pc[s] = "record"
    /\ LET t == req[s].token IN
         /\ paidCount' = [paidCount EXCEPT ![t.pubkey] = @ + 1]
         /\ totalPaid' = [totalPaid EXCEPT ![t.pubkey] = @ + t.amount]
    /\ pc' = [pc EXCEPT ![s] = "quote"]
    /\ UNCHANGED <<escrow, status, challenge, reqVars, historyVars>>

\* recordPayment; the dashboard and attestation logs it appends to are left out.
RecordPayment(s) ==
    /\ pc[s] = "record"
    /\ LET t == req[s].token IN
         /\ paidCount' = [paidCount EXCEPT ![t.pubkey] = @ + 1]
         /\ totalPaid' = [totalPaid EXCEPT ![t.pubkey] = @ + t.amount]
    /\ pc' = [pc EXCEPT ![s] = "forward"]
    /\ UNCHANGED <<escrow, status, challenge, reqVars, historyVars>>

\* getTrustScore, then next() with req.x402Verified set.
Forward(s) ==
    /\ pc[s] = "forward"
    /\ forwarded' = [forwarded EXCEPT ![req[s].token.nonce] = @ + 1]
    /\ Leave(s)
    /\ UNCHANGED <<storeVars, charge, deposited, crashed>>

\* The Trust-Score behind the hint is read before the challenge is priced.
QuoteScore(s) ==
    /\ pc[s] = "quote"
    /\ score' = [score EXCEPT ![s] = Score(paidCount, req[s].hint)]
    /\ pc' = [pc EXCEPT ![s] = "issue"]
    /\ UNCHANGED <<storeVars, req, reason, historyVars>>

\* issueNonce stores the challenge, bound to the hint; the 402 follows.
IssueNonce(s, n) ==
    /\ pc[s] = "issue"
    /\ status[n] = "unissued"
    /\ status' = [status EXCEPT ![n] = "live"]
    /\ challenge' = [challenge EXCEPT
         ![n] = [amount |-> Discounted(req[s].base, score[s]),
                 base |-> req[s].base,
                 hint |-> req[s].hint]]
    /\ Leave(s)
    /\ UNCHANGED <<escrow, paidCount, totalPaid, historyVars>>

\* NONCE_TTL_MS passes.  Redis drops the key; in memory the entry stays,
\* expired, until the sweeper deletes it.
Expire(n) ==
    /\ status[n] \in {"live", "used", "expired"}
    /\ \/ status' = [status EXCEPT ![n] = "gone"]
       \/ /\ Backend = "memory" /\ status[n] = "live"
          /\ status' = [status EXCEPT ![n] = "expired"]
    /\ UNCHANGED <<escrow, challenge, paidCount, totalPaid, pc, reqVars, historyVars>>

\* The process dies and restarts over the same Redis.  (With the memory
\* backend a restart is Init: nothing survives.)
Crash ==
    /\ Backend = "redis"
    /\ pc' = [s \in Slots |-> "idle"]
    /\ req' = [s \in Slots |-> NoReq]
    /\ score' = [s \in Slots |-> 0]
    /\ reason' = [s \in Slots |-> "none"]
    /\ crashed' = TRUE
    /\ UNCHANGED <<storeVars, charge, forwarded, deposited>>

Step(s) ==
    \/ PreCheck(s)
    \/ Consume(s)
    \/ RecordPayment(s)
    \/ Forward(s)
    \/ QuoteScore(s)
    \/ \E n \in Nonces : IssueNonce(s, n)

Next ==
    \/ \E a \in Agents, amount \in Deposits : Credit(a, amount)
    \/ \E s \in Slots, token \in Tokens \cup {NoToken}, hint \in Agents \cup {NoOne},
          base \in Quotes : Arrive(s, token, hint, base)
    \/ \E s \in Slots : Step(s)
    \/ \E n \in Nonces : Expire(n)
    \/ Crash

Spec == Init /\ [][Next]_vars
-----------------------------------------------------------------------------
Statuses == {"unissued", "live", "used", "expired", "gone"}
Reasons == {"none", "nonce_unknown", "invalid_signature", "nonce_not_found",
            "nonce_already_used", "nonce_expired", "insufficient_payment",
            "pubkey_hint_mismatch", "insufficient_balance"}

\* Every amount of micro-lamports the Shield can be asked to move.
Amounts == Offers \cup Deposits \cup UNION {{Discounted(q, sc) : sc \in 0..100} : q \in Quotes}

\* The type invariant; in particular no balance is ever negative.
TypeOK ==
    /\ escrow \in [Agents -> Nat]
    /\ status \in [Nonces -> Statuses]
    /\ challenge \in [Nonces -> [amount : Nat, base : Nat, hint : Agents \cup {NoOne}]]
    /\ paidCount \in [Agents -> Nat]
    /\ totalPaid \in [Agents -> Nat]
    /\ pc \in [Slots -> {"idle", "precheck", "consume", "record", "forward",
                         "quote", "issue"}]
    /\ req \in [Slots -> [token : Tokens \cup {NoToken}, hint : Agents \cup {NoOne},
                          base : Nat]]
    /\ score \in [Slots -> 0..100]
    /\ reason \in [Slots -> Reasons]
    /\ charge \in [Nonces -> [pubkey : Agents \cup {NoOne}, amount : Nat]]
    /\ forwarded \in [Nonces -> Nat]
    /\ deposited \in [Agents -> Nat]
    /\ crashed \in BOOLEAN

Charged == {n \in Nonces : charge[n] # NoCharge}

\* One paid challenge opens the gate once: whatever the interleaving of
\* requests carrying the same Authorization header, and across restarts, at
\* most one of them is forwarded as verified, and only after a debit.
SingleUse ==
    \A n \in Nonces : /\ forwarded[n] <= 1
                      /\ forwarded[n] = 1 => n \in Charged

\* Nobody pays less than the price that the payer's own reputation justifies
\* now: a challenge priced for somebody else's Trust-Score cannot be used,
\* and a score read before the challenge was issued is never too high.
DiscountEarned ==
    \A n \in Charged :
        charge[n].amount >= Discounted(challenge[n].base, Score(paidCount, charge[n].pubkey))

\* A request is blamed for a replay only if somebody really was debited on
\* that nonce (the reason is recorded as an offense of the caller's address).
ReplayBlameDeserved ==
    \A s \in Slots :
        reason[s] = "nonce_already_used" => req[s].token.nonce \in Charged

\* A payer is blamed for a hint mismatch only if the challenge was bound to
\* the hint of some other public key.
HintBlameDeserved ==
    \A s \in Slots :
        reason[s] = "pubkey_hint_mismatch" =>
            challenge[req[s].token.nonce].hint \notin {NoOne, req[s].token.pubkey}

Recording(a) == {s \in Slots : pc[s] = "record" /\ req[s].token.pubkey = a}

\* What the requests in S have debited together.
Held(requests, S) == MapThenSumSet(LAMBDA s : requests[s].token.amount, S)

\* The books close: a deposit is either still in escrow, or recorded as paid,
\* or held by a request between its debit and its recordPayment; a crash in
\* that window loses the record, never the reverse.  The same holds of the
\* number of payments the Trust-Score is computed from.
BooksBalance ==
    \A a \in Agents :
        LET known == escrow[a] + totalPaid[a] + Held(req, Recording(a))
            debits == Cardinality({n \in Charged : charge[n].pubkey = a})
            counted == paidCount[a] + Cardinality(Recording(a))
        IN /\ known <= deposited[a] /\ counted <= debits
           /\ ~crashed => known = deposited[a] /\ counted = debits

\* An accepted payment is never dropped by the middleware: once the nonce is
\* debited its request is forwarded as verified, or still in hand between the
\* debit and next(), unless the process died meanwhile.
DebitIsForwarded ==
    \A n \in Charged :
        \/ forwarded[n] = 1
        \/ crashed
        \/ \E s \in Slots : pc[s] \in {"record", "forward"} /\ req[s].token.nonce = n

\* The paid path implements the ledger.
Promise == INSTANCE Ledger WITH
    Vouchers <- Nonces,
    balance  <- escrow,
    voucher  <- [n \in Nonces |->
                   [price  |-> challenge[n].amount,
                    holder |-> challenge[n].hint,
                    issued |-> status[n] # "unissued"]],
    redeemed <- Charged

ImplementsLedger == Promise!LedgerSpec
=============================================================================
