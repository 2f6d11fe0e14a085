--------------------------- MODULE PaymentProofs ---------------------------
(***************************************************************************)
(* Proofs about module Payment, for every number of agents, challenges and *)
(* concurrent requests, every price and both backends.                     *)
(***************************************************************************)
EXTENDS Payment, FiniteSetTheorems, TLAPS

USE PaymentAssumption

-----------------------------------------------------------------------------
(* Scores and discounts.                                                   *)

LEMMA ScoreOfType == \A c \in Nat : ScoreOf(c) \in 0..100
<1> SUFFICES ASSUME NEW c \in Nat PROVE ScoreOf(c) \in 0..100
  OBVIOUS
<1>1. c * ScorePerPayment \in Nat
  OBVIOUS
<1> QED
  BY <1>1 DEF ScoreOf, MinOf

LEMMA ScoreOfMonotone ==
    \A c \in Nat : ScoreOf(c) <= ScoreOf(c + 1)
<1> SUFFICES ASSUME NEW c \in Nat PROVE ScoreOf(c) <= ScoreOf(c + 1)
  OBVIOUS
<1>1. /\ c * ScorePerPayment \in Nat
      /\ (c + 1) * ScorePerPayment \in Nat
      /\ c * ScorePerPayment <= (c + 1) * ScorePerPayment
  OBVIOUS
<1> QED
  BY <1>1 DEF ScoreOf, MinOf

LEMMA DiscountedType ==
    \A p \in Nat, sc \in 0..100 : Discounted(p, sc) \in Nat
<1> SUFFICES ASSUME NEW p \in Nat, NEW sc \in 0..100
             PROVE  Discounted(p, sc) \in Nat
  OBVIOUS
<1>1. p * (200 - sc) \in Nat
  OBVIOUS
<1>2. (p * (200 - sc) + 100) \div 200 \in Nat
  BY <1>1
<1> QED
  BY <1>2 DEF Discounted, MaxOf

\* A higher score never raises the price.
LEMMA DiscountedAntitone ==
    \A p \in Nat, lo \in 0..100, hi \in 0..100 :
        lo <= hi => Discounted(p, hi) <= Discounted(p, lo)
<1> SUFFICES ASSUME NEW p \in Nat, NEW lo \in 0..100, NEW hi \in 0..100, lo <= hi
             PROVE  Discounted(p, hi) <= Discounted(p, lo)
  OBVIOUS
<1> DEFINE x == p * (200 - hi) + 100
           y == p * (200 - lo) + 100
<1>1. x \in Nat /\ y \in Nat
  OBVIOUS
<1>2. x <= y
  <2>1. p * (200 - lo) = p * (200 - hi) + p * (hi - lo)
    OBVIOUS
  <2>2. p * (hi - lo) \in Nat /\ p * (200 - hi) \in Nat
    OBVIOUS
  <2> QED
    BY <2>1, <2>2
<1> HIDE DEF x, y
<1>3. x \div 200 <= y \div 200 /\ x \div 200 \in Nat /\ y \div 200 \in Nat
  BY <1>1, <1>2
<1>4. MaxOf(BasePrice, x \div 200) <= MaxOf(BasePrice, y \div 200)
  BY <1>3 DEF MaxOf
<1> QED
  BY <1>4 DEF Discounted, x, y

LEMMA ScoreType ==
    ASSUME NEW counts \in [Agents -> Nat], NEW h PROVE Score(counts, h) \in 0..100
BY ScoreOfType DEF Score

LEMMA OutcomeType ==
    \A n, a, x : ConsumeOutcome(n, a, x) \in Reasons \cup {"ok"}
<1> SUFFICES ASSUME NEW n, NEW a, NEW x
             PROVE  ConsumeOutcome(n, a, x) \in Reasons \cup {"ok"}
  OBVIOUS
<1>1. CASE status[n] \in {"unissued", "gone"}
  BY <1>1 DEF ConsumeOutcome, Reasons
<1>2. CASE status[n] = "used"
  BY <1>2 DEF ConsumeOutcome, Reasons
<1>3. CASE status[n] = "expired"
  BY <1>3 DEF ConsumeOutcome, Reasons
<1>4. CASE status[n] \notin {"unissued", "gone", "used", "expired"}
  BY <1>4 DEF ConsumeOutcome, Reasons
<1> QED
  BY <1>1, <1>2, <1>3, <1>4

\* What an accepted consumeNonceAndDebit has established.
LEMMA OutcomeOk ==
    ASSUME NEW n, NEW a, NEW x, ConsumeOutcome(n, a, x) = "ok"
    PROVE  /\ status[n] \notin {"unissued", "gone", "used", "expired"}
           /\ ~(x < challenge[n].amount)
           /\ ~HintRejects(challenge[n].hint, a)
           /\ ~(escrow[a] < x)
<1>1. status[n] \notin {"unissued", "gone"}
  BY DEF ConsumeOutcome
<1>2. status[n] # "used"
  BY DEF ConsumeOutcome
<1>3. status[n] # "expired"
  BY DEF ConsumeOutcome
<1> QED
  BY <1>1, <1>2, <1>3 DEF ConsumeOutcome

-----------------------------------------------------------------------------
(* Types; in particular escrow balances stay natural numbers.              *)

\* A request suspended where its token is used has one; its price at the
\* load was quoted when it arrived.
TokenInv ==
    \A s \in Slots :
        /\ pc[s] \in {"precheck", "consume", "record", "forward"} =>
               req[s].token \in Tokens
        /\ pc[s] # "idle" => req[s].base \in Quotes

Typed == TypeOK /\ TokenInv

THEOREM TypeCorrect == Spec => []Typed
<1>1. Init => Typed
  <2> SUFFICES ASSUME Init PROVE TypeOK /\ TokenInv
    BY DEF Typed
  <2>1. NoReq \in [token : Tokens \cup {NoToken}, hint : Agents \cup {NoOne}, base : Nat]
    BY DEF NoReq
  <2>2. NoCharge \in [pubkey : Agents \cup {NoOne}, amount : Nat]
    BY DEF NoCharge
  <2>3. NoChallenge \in [amount : Nat, base : Nat, hint : Agents \cup {NoOne}]
    BY DEF NoChallenge
  <2>4. /\ req \in [Slots -> [token : Tokens \cup {NoToken},
                             hint : Agents \cup {NoOne}, base : Nat]]
        /\ charge \in [Nonces -> [pubkey : Agents \cup {NoOne}, amount : Nat]]
        /\ challenge \in [Nonces -> [amount : Nat, base : Nat,
                                     hint : Agents \cup {NoOne}]]
    BY <2>1, <2>2, <2>3 DEF Init
  <2>5. TokenInv
    BY DEF Init, TokenInv
  <2>6. /\ pc \in [Slots -> {"idle", "precheck", "consume", "record", "forward",
                            "quote", "issue"}]
        /\ status \in [Nonces -> Statuses]
        /\ reason \in [Slots -> Reasons]
        /\ score \in [Slots -> 0..100]
    BY DEF Init, Statuses, Reasons
  <2>7. /\ escrow \in [Agents -> Nat] /\ paidCount \in [Agents -> Nat]
        /\ totalPaid \in [Agents -> Nat] /\ deposited \in [Agents -> Nat]
        /\ forwarded \in [Nonces -> Nat] /\ crashed \in BOOLEAN
    BY DEF Init
  <2> QED
    BY <2>4, <2>5, <2>6, <2>7 DEF TypeOK
<1>2. Typed /\ [Next]_vars => Typed'
  <2> SUFFICES ASSUME TypeOK, TokenInv, [Next]_vars
               PROVE  TypeOK' /\ TokenInv'
    BY DEF Typed
  <2> USE DEF TypeOK, TokenInv, storeVars, reqVars, historyVars
  <2>1. ASSUME NEW a \in Agents, NEW amount \in Deposits, Credit(a, amount)
        PROVE  TypeOK' /\ TokenInv'
    BY <2>1 DEF Credit
  <2>2. ASSUME NEW s \in Slots, NEW token \in Tokens \cup {NoToken},
               NEW hint \in Agents \cup {NoOne}, NEW base \in Quotes,
               Arrive(s, token, hint, base)
        PROVE  TypeOK' /\ TokenInv'
    BY <2>2 DEF Arrive
  <2>3. ASSUME NEW s \in Slots, PreCheck(s)
        PROVE  TypeOK' /\ TokenInv'
    BY <2>3 DEF PreCheck, Refuse, Reasons
  <2>4. ASSUME NEW s \in Slots, Consume(s)
        PROVE  TypeOK' /\ TokenInv'
    <3> DEFINE t == req[s].token
               outcome == ConsumeOutcome(t.nonce, t.pubkey, t.amount)
    <3>0. t \in Tokens
      BY <2>4 DEF Consume
    <3>1. CASE outcome = "ok"
      <4>1. t.amount \in Nat /\ t.pubkey \in Agents /\ t.nonce \in Nonces
        BY <3>0 DEF Tokens
      <4>2. ~(escrow[t.pubkey] < t.amount)
        BY <3>1, OutcomeOk
      <4>3. escrow[t.pubkey] - t.amount \in Nat
        BY <4>1, <4>2
      <4>4. [pubkey |-> t.pubkey, amount |-> t.amount]
               \in [pubkey : Agents \cup {NoOne}, amount : Nat]
        BY <4>1
      <4>5. /\ status' = [status EXCEPT ![t.nonce] = "used"]
            /\ escrow' = [escrow EXCEPT ![t.pubkey] = @ - t.amount]
            /\ charge' = [charge EXCEPT
                 ![t.nonce] = [pubkey |-> t.pubkey, amount |-> t.amount]]
            /\ pc' = [pc EXCEPT ![s] = "record"]
            /\ UNCHANGED <<challenge, paidCount, totalPaid, reqVars, forwarded,
                           deposited, crashed>>
        BY <2>4, <3>1 DEF Consume
      <4> HIDE DEF t
      <4>6. charge' \in [Nonces -> [pubkey : Agents \cup {NoOne}, amount : Nat]]
        BY <4>1, <4>4, <4>5
      <4>7. escrow' \in [Agents -> Nat] /\ status' \in [Nonces -> Statuses]
        BY <4>1, <4>3, <4>5 DEF Statuses
      <4>8. TokenInv'
        <5>1. req' = req /\ pc[s] = "consume"
          BY <2>4 DEF Consume
        <5>2. \A u \in Slots : pc'[u] = pc[u] \/ (u = s /\ pc'[u] = "record")
          BY <4>5
        <5> QED
          BY <5>1, <5>2, <3>0 DEF t
      <4> QED
        BY <4>5, <4>6, <4>7, <4>8
    <3>2. CASE outcome # "ok"
      <4>1. outcome \in Reasons
        BY <3>2, OutcomeType
      <4>2. /\ pc[s] = "consume"
            /\ pc' = [pc EXCEPT ![s] = "quote"]
            /\ reason' = [reason EXCEPT ![s] = outcome]
            /\ UNCHANGED <<storeVars, req, score, historyVars>>
        BY <2>4, <3>2 DEF Consume, Refuse
      <4> HIDE DEF t, outcome
      <4>3. TokenInv'
        <5>1. \A u \in Slots : pc'[u] = pc[u] \/ (u = s /\ pc'[u] = "quote")
          BY <4>2
        <5> QED
          BY <4>2, <5>1
      <4> QED
        BY <4>1, <4>2, <4>3
    <3> QED
      BY <3>1, <3>2
  <2>5. ASSUME NEW s \in Slots, RecordPayment(s)
        PROVE  TypeOK' /\ TokenInv'
    <3>1. req[s].token.amount \in Nat /\ req[s].token.pubkey \in Agents
      BY <2>5 DEF RecordPayment, Tokens
    <3> QED
      BY <2>5, <3>1 DEF RecordPayment
  <2>6. ASSUME NEW s \in Slots, Forward(s)
        PROVE  TypeOK' /\ TokenInv'
    BY <2>6 DEF Forward, Leave, NoReq, Reasons, Tokens
  <2>7. ASSUME NEW s \in Slots, QuoteScore(s)
        PROVE  TypeOK' /\ TokenInv'
    BY <2>7, ScoreType DEF QuoteScore
  <2>8. ASSUME NEW s \in Slots, NEW n \in Nonces, IssueNonce(s, n)
        PROVE  TypeOK' /\ TokenInv'
    <3>1. Discounted(req[s].base, score[s]) \in Nat
      BY DiscountedType
    <3> QED
      BY <2>8, <3>1 DEF IssueNonce, Leave, Statuses, NoReq, Reasons
  <2>9. ASSUME NEW n \in Nonces, Expire(n)
        PROVE  TypeOK' /\ TokenInv'
    BY <2>9 DEF Expire, Statuses
  <2>10. CASE Crash
    BY <2>10 DEF Crash, NoReq, Reasons
  <2>11. CASE UNCHANGED vars
    BY <2>11 DEF vars
  <2> QED
    BY <2>1, <2>2, <2>3, <2>4, <2>5, <2>6, <2>7, <2>8, <2>9, <2>10, <2>11
       DEF Next, Step
<1> QED
  BY <1>1, <1>2, PTL DEF Spec

-----------------------------------------------------------------------------
(* Single use.  SingleUse is not inductive: it says nothing of the requests *)
(* that have been debited and are not forwarded yet.  SpendInv adds that    *)
(* the store's status of a nonce agrees with the debits, and that at most   *)
(* one request holds a debited nonce it has not been forwarded for.         *)

Holds(s, n) == pc[s] \in {"record", "forward"} /\ req[s].token.nonce = n

StatusInv ==
    \A n \in Nonces :
        /\ status[n] \in {"unissued", "live", "expired"} => n \notin Charged
        /\ status[n] = "used" => n \in Charged

HolderInv ==
    \A s \in Slots, n \in Nonces : Holds(s, n) =>
        /\ n \in Charged
        /\ forwarded[n] = 0
        /\ \A t \in Slots : Holds(t, n) => t = s

BlameInv ==
    \A s \in Slots : reason[s] # "none" =>
        /\ pc[s] \in {"quote", "issue"}
        /\ req[s].token \in Tokens

SpendInv == StatusInv /\ HolderInv /\ SingleUse /\ BlameInv /\ ReplayBlameDeserved

\* A debit is visible in the history: nobody is called NoOne.
LEMMA ChargeVisible ==
    ASSUME NEW a \in Agents, NEW x PROVE [pubkey |-> a, amount |-> x] # NoCharge
BY DEF NoCharge

LEMMA SpendStep == Typed /\ SpendInv /\ [Next]_vars => SpendInv'
<1> SUFFICES ASSUME Typed, SpendInv, [Next]_vars
             PROVE  SpendInv'
  OBVIOUS
<1> USE DEF storeVars, reqVars, historyVars
<1>t. TypeOK /\ TokenInv
  BY DEF Typed
<1>0. StatusInv /\ HolderInv /\ SingleUse /\ BlameInv /\ ReplayBlameDeserved
  BY DEF SpendInv
\* Steps that debit nobody, forward nothing and change no nonce.
<1>f. ASSUME UNCHANGED <<status, charge, forwarded>>,
             NEW s \in Slots,
             \A t \in Slots \ {s} : pc'[t] = pc[t] /\ req'[t] = req[t]
                                      /\ reason'[t] = reason[t],
             \A n \in Nonces : Holds(s, n)' => Holds(s, n),
             reason'[s] # "none" => /\ pc'[s] \in {"quote", "issue"}
                                    /\ req'[s].token \in Tokens,
             reason'[s] = "nonce_already_used" => req'[s].token.nonce \in Charged
      PROVE  SpendInv'
  <2>1. Charged' = Charged
    BY <1>f DEF Charged
  <2>2. StatusInv' /\ SingleUse'
    BY <1>0, <1>f, <2>1 DEF StatusInv, SingleUse
  <2>3. \A t \in Slots, n \in Nonces : Holds(t, n)' => Holds(t, n)
    BY <1>f DEF Holds
  <2>4. HolderInv'
    BY <1>0, <1>f, <2>1, <2>3 DEF HolderInv
  <2>5. BlameInv' /\ ReplayBlameDeserved'
    BY <1>0, <1>f, <2>1 DEF BlameInv, ReplayBlameDeserved
  <2> QED
    BY <2>2, <2>4, <2>5 DEF SpendInv
<1>1. ASSUME NEW a \in Agents, NEW amount \in Deposits, Credit(a, amount)
      PROVE  SpendInv'
  BY <1>0, <1>1 DEF Credit, SpendInv, StatusInv, HolderInv, SingleUse, BlameInv,
                    ReplayBlameDeserved, Holds, Charged
<1>2. ASSUME NEW s \in Slots, NEW token \in Tokens \cup {NoToken},
             NEW hint \in Agents \cup {NoOne}, NEW base \in Quotes,
             Arrive(s, token, hint, base)
      PROVE  SpendInv'
  <2>1. reason[s] = "none"
    BY <1>0, <1>2 DEF Arrive, BlameInv
  <2>2. pc'[s] \in {"quote", "precheck"}
    BY <1>2, <1>t DEF Arrive, TypeOK
  <2> QED
    BY <1>f, <1>2, <1>t, <2>1, <2>2 DEF Arrive, TypeOK, Holds
<1>3. ASSUME NEW s \in Slots, PreCheck(s)
      PROVE  SpendInv'
  <2>1. reason[s] = "none" /\ req[s].token \in Tokens
    BY <1>0, <1>t, <1>3 DEF PreCheck, BlameInv, TokenInv
  <2>2. pc'[s] \in {"quote", "consume"} /\ req' = req
    BY <1>3, <1>t DEF PreCheck, Refuse, TypeOK
  <2>3. reason'[s] = "none" \/ (reason'[s] # "nonce_already_used" /\ pc'[s] = "quote")
    BY <1>3, <1>t, <2>1 DEF PreCheck, Refuse, TypeOK
  <2> QED
    BY <1>f, <1>3, <1>t, <2>1, <2>2, <2>3 DEF PreCheck, Refuse, TypeOK, Holds
<1>4. ASSUME NEW s \in Slots, Consume(s)
      PROVE  SpendInv'
  <2> DEFINE t == req[s].token
             m == t.nonce
             outcome == ConsumeOutcome(m, t.pubkey, t.amount)
  <2>0. t \in Tokens /\ reason[s] = "none"
    BY <1>0, <1>4, <1>t DEF Consume, TokenInv, BlameInv
  <2>1. m \in Nonces /\ t.pubkey \in Agents
    BY <2>0 DEF Tokens
  <2>2. CASE outcome = "ok"
    <3>1. status[m] \notin {"unissued", "gone", "used", "expired"}
      BY <2>2, OutcomeOk
    <3>2. status[m] = "live"
      BY <3>1, <2>1, <1>t DEF TypeOK, Statuses
    <3>3. m \notin Charged
      BY <3>2, <2>1, <1>0 DEF StatusInv
    <3>4. forwarded[m] = 0
      <4> HIDE DEF m
      <4>1. forwarded[m] \in Nat
        BY <2>1, <1>t DEF TypeOK
      <4>2. forwarded[m] <= 1 /\ forwarded[m] # 1
        BY <3>3, <2>1, <1>0 DEF SingleUse
      <4> QED
        BY <4>1, <4>2
    <3>5. \A u \in Slots : ~Holds(u, m)
      BY <3>3, <2>1, <1>0 DEF HolderInv
    <3>6. /\ status' = [status EXCEPT ![m] = "used"]
          /\ charge' = [charge EXCEPT
               ![m] = [pubkey |-> t.pubkey, amount |-> t.amount]]
          /\ pc' = [pc EXCEPT ![s] = "record"]
          /\ UNCHANGED <<req, reason, forwarded>>
      BY <1>4, <2>2 DEF Consume
    <3>7. [pubkey |-> t.pubkey, amount |-> t.amount] # NoCharge
      BY <2>1, ChargeVisible
    <3>8. pc[s] = "consume"
      BY <1>4 DEF Consume
    <3> HIDE DEF m, t, outcome
    <3>9. Charged' = Charged \cup {m}
      BY <3>6, <3>7, <2>1, <1>t DEF Charged, TypeOK
    <3>10. \A u \in Slots, n \in Nonces :
              Holds(u, n)' <=> (Holds(u, n) \/ (u = s /\ n = m))
      BY <3>6, <3>8, <1>t DEF Holds, TypeOK, m, t
    <3>11. StatusInv'
      BY <3>6, <3>9, <1>0, <1>t DEF StatusInv, TypeOK
    <3>12. HolderInv'
      BY <3>4, <3>5, <3>6, <3>9, <3>10, <1>0 DEF HolderInv
    <3>13. SingleUse' /\ BlameInv' /\ ReplayBlameDeserved'
      <4>1. \A u \in Slots : reason[u] # "none" => pc'[u] = pc[u]
        BY <2>0, <3>6, <1>t DEF TypeOK
      <4> QED
        BY <4>1, <3>6, <3>9, <1>0 DEF SingleUse, BlameInv, ReplayBlameDeserved
    <3> QED
      BY <3>11, <3>12, <3>13 DEF SpendInv
  <2>3. CASE outcome # "ok"
    <3>1. /\ UNCHANGED <<status, charge, forwarded, req>>
          /\ pc' = [pc EXCEPT ![s] = "quote"]
          /\ reason' = [reason EXCEPT ![s] = outcome]
      BY <1>4, <2>3 DEF Consume, Refuse
    <3>2. outcome = "nonce_already_used" => m \in Charged
      <4>1. outcome = "nonce_already_used" => status[m] = "used"
        BY DEF ConsumeOutcome
      <4> QED
        BY <4>1, <2>1, <1>0 DEF StatusInv
    <3> HIDE DEF outcome
    <3>3. /\ pc'[s] = "quote" /\ reason'[s] = outcome /\ req'[s] = req[s]
          /\ \A u \in Slots \ {s} : pc'[u] = pc[u] /\ req'[u] = req[u]
                                      /\ reason'[u] = reason[u]
      BY <3>1, <1>t DEF TypeOK
    <3>4. \A n \in Nonces : Holds(s, n)' => Holds(s, n)
      BY <3>3 DEF Holds
    <3> QED
      BY <1>f, <2>0, <3>1, <3>2, <3>3, <3>4
  <2> QED
    BY <2>2, <2>3
<1>5. ASSUME NEW s \in Slots, RecordPayment(s)
      PROVE  SpendInv'
  <2>1. reason[s] = "none"
    BY <1>0, <1>5 DEF RecordPayment, BlameInv
  <2> QED
    BY <1>f, <1>5, <1>t, <2>1 DEF RecordPayment, TypeOK, Holds
<1>6. ASSUME NEW s \in Slots, Forward(s)
      PROVE  SpendInv'
  <2> DEFINE m == req[s].token.nonce
  <2>1. m \in Nonces
    BY <1>6, <1>t DEF Forward, TokenInv, Tokens
  <2>2. Holds(s, m)
    BY <1>6 DEF Forward, Holds
  <2>3. /\ m \in Charged /\ forwarded[m] = 0
        /\ \A u \in Slots : Holds(u, m) => u = s
    BY <2>1, <2>2, <1>0 DEF HolderInv
  <2>4. /\ forwarded' = [forwarded EXCEPT ![m] = @ + 1]
        /\ pc' = [pc EXCEPT ![s] = "idle"]
        /\ req' = [req EXCEPT ![s] = NoReq]
        /\ reason' = [reason EXCEPT ![s] = "none"]
        /\ UNCHANGED <<status, charge>>
    BY <1>6 DEF Forward, Leave
  <2> HIDE DEF m
  <2>5. Charged' = Charged
    BY <2>4 DEF Charged
  <2>6. \A u \in Slots, n \in Nonces : Holds(u, n)' => Holds(u, n) /\ u # s
    BY <2>4, <1>t DEF Holds, TypeOK
  <2>7. HolderInv'
    BY <2>1, <2>3, <2>4, <2>5, <2>6, <1>0, <1>t DEF HolderInv, TypeOK
  <2>8. StatusInv' /\ SingleUse'
    BY <2>1, <2>3, <2>4, <2>5, <1>0, <1>t DEF StatusInv, SingleUse, TypeOK
  <2>9. BlameInv' /\ ReplayBlameDeserved'
    BY <2>4, <2>5, <1>0, <1>t DEF BlameInv, ReplayBlameDeserved, TypeOK
  <2> QED
    BY <2>7, <2>8, <2>9 DEF SpendInv
<1>7. ASSUME NEW s \in Slots, QuoteScore(s)
      PROVE  SpendInv'
  BY <1>f, <1>0, <1>7, <1>t DEF QuoteScore, TypeOK, Holds, BlameInv, ReplayBlameDeserved
<1>8. ASSUME NEW s \in Slots, NEW n \in Nonces, IssueNonce(s, n)
      PROVE  SpendInv'
  <2>1. /\ status' = [status EXCEPT ![n] = "live"]
        /\ pc' = [pc EXCEPT ![s] = "idle"]
        /\ req' = [req EXCEPT ![s] = NoReq]
        /\ reason' = [reason EXCEPT ![s] = "none"]
        /\ UNCHANGED <<charge, forwarded>>
    BY <1>8 DEF IssueNonce, Leave
  <2>2. Charged' = Charged /\ n \notin Charged
    BY <1>8, <2>1, <1>0 DEF IssueNonce, Charged, StatusInv
  <2>3. StatusInv' /\ SingleUse'
    BY <2>1, <2>2, <1>0, <1>t DEF StatusInv, SingleUse, TypeOK
  <2>4. \A u \in Slots, k \in Nonces : Holds(u, k)' => Holds(u, k)
    BY <2>1, <1>t DEF Holds, TypeOK
  <2>5. HolderInv'
    BY <2>1, <2>2, <2>4, <1>0 DEF HolderInv
  <2>6. BlameInv' /\ ReplayBlameDeserved'
    BY <2>1, <2>2, <1>0, <1>t DEF BlameInv, ReplayBlameDeserved, TypeOK
  <2> QED
    BY <2>3, <2>5, <2>6 DEF SpendInv
<1>9. ASSUME NEW n \in Nonces, Expire(n)
      PROVE  SpendInv'
  <2>1. /\ UNCHANGED <<pc, req, reason, charge, forwarded>>
        /\ \A k \in Nonces : \/ status'[k] = status[k]
                             \/ status'[k] = "gone"
                             \/ status[k] = "live" /\ status'[k] = "expired"
    BY <1>9, <1>t DEF Expire, TypeOK
  <2>2. Charged' = Charged
    BY <2>1 DEF Charged
  <2>3. StatusInv'
    BY <2>1, <2>2, <1>0 DEF StatusInv
  <2> QED
    BY <2>1, <2>2, <2>3, <1>0
       DEF SpendInv, HolderInv, SingleUse, BlameInv, ReplayBlameDeserved, Holds
<1>10. CASE Crash
  BY <1>10, <1>0 DEF Crash, SpendInv, StatusInv, HolderInv, SingleUse, BlameInv,
                     ReplayBlameDeserved, Holds, Charged
<1>11. CASE UNCHANGED vars
  BY <1>11, <1>0 DEF vars, SpendInv, StatusInv, HolderInv, SingleUse, BlameInv,
                     ReplayBlameDeserved, Holds, Charged
<1> QED
  BY <1>1, <1>2, <1>3, <1>4, <1>5, <1>6, <1>7, <1>8, <1>9, <1>10, <1>11
     DEF Next, Step

LEMMA SpendCorrect == Spec => []SpendInv
<1>1. Init => SpendInv
  BY DEF Init, SpendInv, StatusInv, HolderInv, SingleUse, BlameInv,
         ReplayBlameDeserved, Holds, Charged
<1> QED
  BY <1>1, SpendStep, TypeCorrect, PTL DEF Spec

\* However requests carrying one payment proof interleave, and across
\* restarts, at most one of them is forwarded as paid, after a debit.
THEOREM SingleUseHolds == Spec => []SingleUse
<1>1. SpendInv => SingleUse
  BY DEF SpendInv
<1> QED
  BY <1>1, SpendCorrect, PTL

\* Nobody is blamed for replaying a challenge that was never paid.
THEOREM ReplayBlameHolds == Spec => []ReplayBlameDeserved
<1>1. SpendInv => ReplayBlameDeserved
  BY DEF SpendInv
<1> QED
  BY <1>1, SpendCorrect, PTL

-----------------------------------------------------------------------------
(* What becomes of a debit, and of a refusal.                              *)

LEMMA KeepsDebits ==
    Typed /\ SpendInv /\ DebitIsForwarded /\ [Next]_vars => DebitIsForwarded'
<1> SUFFICES ASSUME Typed, SpendInv, DebitIsForwarded, [Next]_vars
             PROVE  DebitIsForwarded'
  OBVIOUS
<1> USE DEF storeVars, reqVars, historyVars
<1>t. TypeOK /\ TokenInv
  BY DEF Typed
<1>0. \A n \in Charged : \/ forwarded[n] = 1 \/ crashed
                         \/ \E s \in Slots : Holds(s, n)
  BY DEF DebitIsForwarded, Holds
\* Steps that debit nobody and leave a debited nonce in the hands it is in.
<1>k. ASSUME UNCHANGED <<charge, forwarded, crashed>>,
             \A s \in Slots, n \in Nonces : Holds(s, n) => Holds(s, n)'
      PROVE  DebitIsForwarded'
  <2>1. Charged' = Charged
    BY <1>k DEF Charged
  <2> QED
    BY <1>0, <1>k, <2>1 DEF DebitIsForwarded, Holds, Charged
\* A request that holds no debited nonce moves.
<1>m. ASSUME NEW s \in Slots, pc[s] \notin {"record", "forward"},
             UNCHANGED <<charge, forwarded, crashed>>,
             \A t \in Slots \ {s} : pc'[t] = pc[t] /\ req'[t] = req[t]
      PROVE  DebitIsForwarded'
  BY <1>k, <1>m DEF Holds
<1>1. ASSUME NEW a \in Agents, NEW amount \in Deposits, Credit(a, amount)
      PROVE  DebitIsForwarded'
  BY <1>1, <1>k DEF Credit, Holds
<1>2. ASSUME NEW s \in Slots, NEW token \in Tokens \cup {NoToken},
             NEW hint \in Agents \cup {NoOne}, NEW base \in Quotes,
             Arrive(s, token, hint, base)
      PROVE  DebitIsForwarded'
  BY <1>2, <1>m, <1>t DEF Arrive, TypeOK
<1>3. ASSUME NEW s \in Slots, PreCheck(s) PROVE DebitIsForwarded'
  BY <1>3, <1>m, <1>t DEF PreCheck, Refuse, TypeOK
<1>4. ASSUME NEW s \in Slots, Consume(s) PROVE DebitIsForwarded'
  <2> DEFINE t == req[s].token
             outcome == ConsumeOutcome(t.nonce, t.pubkey, t.amount)
  <2>1. CASE outcome = "ok"
    <3>1. /\ pc[s] = "consume" /\ t \in Tokens
          /\ charge' = [charge EXCEPT
               ![t.nonce] = [pubkey |-> t.pubkey, amount |-> t.amount]]
          /\ pc' = [pc EXCEPT ![s] = "record"]
          /\ UNCHANGED <<req, forwarded, crashed>>
      BY <1>4, <1>t, <2>1 DEF Consume, TokenInv
    <3> HIDE DEF outcome
    <3>2. \A n \in Charged' : n \in Charged \/ n = t.nonce
      BY <3>1, <1>t DEF Charged, TypeOK
    <3>3. \A u \in Slots, n \in Nonces : Holds(u, n) => Holds(u, n)'
      BY <3>1, <1>t DEF Holds, TypeOK
    <3>4. Holds(s, t.nonce)'
      BY <3>1, <1>t DEF Holds, TypeOK
    <3>5. Charged \subseteq Nonces
      BY DEF Charged
    <3> QED
      BY <1>0, <3>1, <3>2, <3>3, <3>4, <3>5 DEF DebitIsForwarded, Holds
  <2>2. CASE outcome # "ok"
    BY <1>4, <1>m, <1>t, <2>2 DEF Consume, Refuse, TypeOK
  <2> QED
    BY <2>1, <2>2
<1>5. ASSUME NEW s \in Slots, RecordPayment(s) PROVE DebitIsForwarded'
  BY <1>5, <1>k, <1>t DEF RecordPayment, TypeOK, Holds
<1>6. ASSUME NEW s \in Slots, Forward(s) PROVE DebitIsForwarded'
  <2> DEFINE m == req[s].token.nonce
  <2>1. m \in Nonces /\ Holds(s, m)
    BY <1>6, <1>t DEF Forward, TokenInv, Tokens, Holds
  <2>2. forwarded[m] = 0
    BY <2>1 DEF SpendInv, HolderInv
  <2>3. /\ forwarded' = [forwarded EXCEPT ![m] = forwarded[m] + 1]
        /\ pc' = [pc EXCEPT ![s] = "idle"] /\ req' = [req EXCEPT ![s] = NoReq]
        /\ UNCHANGED <<charge, crashed>>
    BY <1>6 DEF Forward, Leave
  <2>4. \A u \in Slots, n \in Nonces : Holds(u, n) => Holds(u, n)' \/ n = m
    BY <2>3, <1>t DEF Holds, TypeOK
  <2> HIDE DEF m
  <2>5. forwarded'[m] = 1 /\ \A n \in Nonces \ {m} : forwarded'[n] = forwarded[n]
    BY <2>1, <2>2, <2>3, <1>t DEF TypeOK
  <2>6. Charged' = Charged /\ Charged \subseteq Nonces
    BY <2>3 DEF Charged
  <2> QED
    BY <1>0, <2>3, <2>4, <2>5, <2>6 DEF DebitIsForwarded, Holds
<1>7. ASSUME NEW s \in Slots, QuoteScore(s) PROVE DebitIsForwarded'
  BY <1>7, <1>m, <1>t DEF QuoteScore, TypeOK
<1>8. ASSUME NEW s \in Slots, NEW n \in Nonces, IssueNonce(s, n) PROVE DebitIsForwarded'
  BY <1>8, <1>m, <1>t DEF IssueNonce, Leave, TypeOK
<1>9. ASSUME NEW n \in Nonces, Expire(n) PROVE DebitIsForwarded'
  BY <1>9, <1>k DEF Expire, Holds
<1>10. CASE Crash
  BY <1>10 DEF Crash, DebitIsForwarded
<1>11. CASE UNCHANGED vars
  BY <1>11, <1>k DEF vars, Holds
<1> QED
  BY <1>1, <1>2, <1>3, <1>4, <1>5, <1>6, <1>7, <1>8, <1>9, <1>10, <1>11
     DEF Next, Step

\* A debited nonce is forwarded as paid, or in hand, unless a process died.
THEOREM DebitIsForwardedHolds == Spec => []DebitIsForwarded
<1>1. Init => DebitIsForwarded
  BY DEF Init, DebitIsForwarded, Charged
<1> QED
  BY <1>1, KeepsDebits, TypeCorrect, SpendCorrect, PTL DEF Spec

\* The challenge that a refusal was about stays as it was issued.
HintInv ==
    \A s \in Slots : reason[s] = "pubkey_hint_mismatch" =>
        /\ status[req[s].token.nonce] # "unissued"
        /\ challenge[req[s].token.nonce].hint \notin {NoOne, req[s].token.pubkey}

LEMMA HintStep ==
    ASSUME Backend = "memory", Typed, SpendInv, HintInv, [Next]_vars
    PROVE  HintInv'
<1> USE DEF storeVars, reqVars, historyVars
<1>t. TypeOK /\ TokenInv /\ BlameInv
  BY DEF Typed, SpendInv
\* Challenges that were issued stay, and nobody is blamed for a mismatch.
<1>k. ASSUME \A n \in Nonces : status[n] # "unissued" =>
                 status'[n] # "unissued" /\ challenge'[n] = challenge[n],
             \A s \in Slots : reason'[s] = "pubkey_hint_mismatch" =>
                 reason[s] = reason'[s] /\ req'[s] = req[s]
      PROVE  HintInv'
  <2>1. \A s \in Slots : reason[s] = "pubkey_hint_mismatch" => req[s].token.nonce \in Nonces
    BY <1>t DEF BlameInv, Tokens
  <2> QED
    BY <1>k, <2>1 DEF HintInv
<1>1. ASSUME NEW a \in Agents, NEW amount \in Deposits, Credit(a, amount) PROVE HintInv'
  BY <1>1, <1>k DEF Credit
<1>2. ASSUME NEW s \in Slots, NEW token \in Tokens \cup {NoToken},
             NEW hint \in Agents \cup {NoOne}, NEW base \in Quotes,
             Arrive(s, token, hint, base)
      PROVE  HintInv'
  <2>1. pc[s] = "idle" /\ reason[s] = "none"
    BY <1>2, <1>t DEF Arrive, BlameInv
  <2> QED
    BY <1>2, <1>k, <1>t, <2>1 DEF Arrive, TypeOK
<1>3. ASSUME NEW s \in Slots, PreCheck(s) PROVE HintInv'
  BY <1>3, <1>k, <1>t DEF PreCheck, Refuse, TypeOK
<1>4. ASSUME NEW s \in Slots, Consume(s) PROVE HintInv'
  <2> DEFINE t == req[s].token
             outcome == ConsumeOutcome(t.nonce, t.pubkey, t.amount)
  <2>1. CASE outcome = "ok"
    BY <1>4, <1>k, <1>t, <2>1 DEF Consume, TypeOK
  <2>2. CASE outcome # "ok"
    <3>1. /\ reason' = [reason EXCEPT ![s] = outcome]
          /\ UNCHANGED <<status, challenge, req>>
      BY <1>4, <2>2 DEF Consume, Refuse
    <3>2. outcome = "pubkey_hint_mismatch" =>
            /\ status[t.nonce] # "unissued"
            /\ challenge[t.nonce].hint \notin {NoOne, t.pubkey}
      BY DEF ConsumeOutcome, HintRejects
    <3> HIDE DEF outcome
    <3>3. /\ reason'[s] = outcome
          /\ \A u \in Slots \ {s} : reason'[u] = reason[u]
      BY <3>1, <1>t DEF TypeOK
    <3> QED
      BY <3>1, <3>2, <3>3 DEF HintInv
  <2> QED
    BY <2>1, <2>2
<1>5. ASSUME NEW s \in Slots, RecordPayment(s) PROVE HintInv'
  BY <1>5, <1>k DEF RecordPayment
<1>6. ASSUME NEW s \in Slots, Forward(s) PROVE HintInv'
  BY <1>6, <1>k, <1>t DEF Forward, Leave, TypeOK
<1>7. ASSUME NEW s \in Slots, QuoteScore(s) PROVE HintInv'
  BY <1>7, <1>k DEF QuoteScore
<1>8. ASSUME NEW s \in Slots, NEW n \in Nonces, IssueNonce(s, n) PROVE HintInv'
  <2>1. \A k \in Nonces : status[k] # "unissued" =>
           status'[k] # "unissued" /\ challenge'[k] = challenge[k]
    BY <1>8, <1>t DEF IssueNonce, TypeOK
  <2>2. \A u \in Slots : reason'[u] = "pubkey_hint_mismatch" =>
           reason[u] = reason'[u] /\ req'[u] = req[u]
    BY <1>8, <1>t DEF IssueNonce, Leave, TypeOK
  <2> QED
    BY <1>k, <2>1, <2>2
<1>9. ASSUME NEW n \in Nonces, Expire(n) PROVE HintInv'
  BY <1>9, <1>k, <1>t DEF Expire, TypeOK
<1>10. CASE Crash
  BY <1>10, <1>k DEF Crash
<1>11. CASE UNCHANGED vars
  BY <1>11, <1>k DEF vars
<1> QED
  BY <1>1, <1>2, <1>3, <1>4, <1>5, <1>6, <1>7, <1>8, <1>9, <1>10, <1>11
     DEF Next, Step

\* With the memory backend a payer is told of a hint mismatch only when the
\* challenge was bound to somebody else.  (Redis also tells those whose
\* challenge was bound to nobody.)
THEOREM HintBlameHolds ==
    ASSUME Backend = "memory" PROVE Spec => []HintBlameDeserved
<1>1. Init => HintInv
  BY DEF Init, HintInv
<1>2. HintInv => HintBlameDeserved
  BY DEF HintInv, HintBlameDeserved
<1>3. Typed /\ SpendInv /\ HintInv /\ [Next]_vars => HintInv'
  BY HintStep
<1> QED
  BY <1>1, <1>2, <1>3, TypeCorrect, SpendCorrect, PTL DEF Spec

-----------------------------------------------------------------------------
(* The discount.  A price is fixed in three steps, with other payments in  *)
(* between: a score is read, a challenge is stored, a debit is made.       *)
(* PriceInv carries the bound through them; it is kept because scores only *)
(* grow and a higher score never raises a price.                           *)

ScoreReadInv ==
    \A s \in Slots : pc[s] = "issue" => score[s] <= Score(paidCount, req[s].hint)

ChallengeInv ==
    \A n \in Nonces : status[n] # "unissued" =>
        challenge[n].amount
            >= Discounted(challenge[n].base, Score(paidCount, challenge[n].hint))

PriceInv == ScoreReadInv /\ ChallengeInv /\ DiscountEarned

LEMMA ScoresGrow ==
    Typed /\ [Next]_vars => \A h : Score(paidCount, h) <= Score(paidCount', h)
<1> SUFFICES ASSUME Typed, [Next]_vars, NEW h
             PROVE  Score(paidCount, h) <= Score(paidCount', h)
  OBVIOUS
<1>t. TypeOK /\ TokenInv
  BY DEF Typed
<1>s. Score(paidCount, h) \in 0..100
  BY <1>t, ScoreType DEF TypeOK
<1>1. ASSUME NEW s \in Slots, RecordPayment(s)
      PROVE  Score(paidCount, h) <= Score(paidCount', h)
  <2>1. req[s].token.pubkey \in Agents
    BY <1>1, <1>t DEF RecordPayment, TokenInv, Tokens
  <2>2. CASE h = req[s].token.pubkey
    <3>1. paidCount[h] \in Nat /\ paidCount'[h] = paidCount[h] + 1 /\ h \in Agents
      BY <1>1, <1>t, <2>1, <2>2 DEF RecordPayment, TypeOK
    <3>2. ScoreOf(paidCount[h]) <= ScoreOf(paidCount[h] + 1)
      BY <3>1, ScoreOfMonotone
    <3> QED
      BY <3>1, <3>2 DEF Score
  <2>3. CASE h # req[s].token.pubkey
    <3>1. h \in Agents => paidCount'[h] = paidCount[h]
      BY <1>1, <1>t, <2>3 DEF RecordPayment, TypeOK
    <3>2. Score(paidCount', h) = Score(paidCount, h)
      BY <3>1 DEF Score
    <3> QED
      BY <3>2, <1>s
  <2> QED
    BY <2>2, <2>3
<1>2. (\E s \in Slots : RecordPayment(s)) \/ UNCHANGED paidCount
  BY DEF Next, Step, Credit, Arrive, PreCheck, Consume, Forward, QuoteScore,
         IssueNonce, Expire, Crash, vars, storeVars
<1>3. CASE UNCHANGED paidCount
  BY <1>3, <1>s
<1> QED
  BY <1>1, <1>2, <1>3

\* A bound on a price survives the growth of the score.
LEMMA BoundKept ==
    ASSUME NEW p \in Nat, NEW lo \in 0..100, NEW hi \in 0..100, lo <= hi,
           NEW x \in Nat, x >= Discounted(p, lo)
    PROVE  x >= Discounted(p, hi)
<1>1. Discounted(p, hi) <= Discounted(p, lo)
  BY DiscountedAntitone
<1>2. Discounted(p, hi) \in Nat /\ Discounted(p, lo) \in Nat
  BY DiscountedType
<1> QED
  BY <1>1, <1>2

LEMMA PriceStep == Typed /\ Typed' /\ SpendInv /\ PriceInv /\ [Next]_vars => PriceInv'
<1> SUFFICES ASSUME Typed, Typed', SpendInv, PriceInv, [Next]_vars
             PROVE  PriceInv'
  OBVIOUS
<1> USE DEF storeVars, reqVars, historyVars
<1>t. TypeOK /\ TokenInv /\ TypeOK'
  BY DEF Typed
<1>0. ScoreReadInv /\ ChallengeInv /\ DiscountEarned
  BY DEF PriceInv
<1>g. \A h : /\ Score(paidCount, h) \in 0..100
             /\ Score(paidCount', h) \in 0..100
             /\ Score(paidCount, h) <= Score(paidCount', h)
  BY <1>t, ScoreType, ScoresGrow DEF TypeOK
\* What is already priced, paid or read stays within its bound.
<1>c. \A n \in Nonces : status[n] # "unissued" /\ challenge'[n] = challenge[n] =>
         challenge'[n].amount
             >= Discounted(challenge'[n].base, Score(paidCount', challenge'[n].hint))
  <2> SUFFICES ASSUME NEW n \in Nonces, status[n] # "unissued"
               PROVE  challenge[n].amount >=
                        Discounted(challenge[n].base, Score(paidCount', challenge[n].hint))
    OBVIOUS
  <2>1. challenge[n].amount \in Nat /\ challenge[n].base \in Nat
    BY <1>t DEF TypeOK
  <2> DEFINE lo == Score(paidCount, challenge[n].hint)
             hi == Score(paidCount', challenge[n].hint)
  <2>2. challenge[n].amount >= Discounted(challenge[n].base, lo)
    BY <1>0 DEF ChallengeInv
  <2>3. lo \in 0..100 /\ hi \in 0..100 /\ lo <= hi
    BY <1>g
  <2> HIDE DEF lo, hi
  <2>4. challenge[n].amount >= Discounted(challenge[n].base, hi)
    BY <2>1, <2>2, <2>3, BoundKept
  <2> QED
    BY <2>4 DEF hi
<1>d. \A n \in Charged : charge'[n] = charge[n] /\ challenge'[n] = challenge[n] =>
         charge'[n].amount
             >= Discounted(challenge'[n].base, Score(paidCount', charge'[n].pubkey))
  <2> SUFFICES ASSUME NEW n \in Charged
               PROVE  charge[n].amount >=
                        Discounted(challenge[n].base, Score(paidCount', charge[n].pubkey))
    OBVIOUS
  <2>1. charge[n].amount \in Nat /\ challenge[n].base \in Nat
    BY <1>t DEF TypeOK, Charged
  <2> DEFINE lo == Score(paidCount, charge[n].pubkey)
             hi == Score(paidCount', charge[n].pubkey)
  <2>2. charge[n].amount >= Discounted(challenge[n].base, lo)
    BY <1>0 DEF DiscountEarned
  <2>3. lo \in 0..100 /\ hi \in 0..100 /\ lo <= hi
    BY <1>g
  <2> HIDE DEF lo, hi
  <2>4. charge[n].amount >= Discounted(challenge[n].base, hi)
    BY <2>1, <2>2, <2>3, BoundKept
  <2> QED
    BY <2>4 DEF hi
<1>r. \A s \in Slots :
         pc[s] = "issue" /\ req'[s] = req[s] /\ score'[s] = score[s] =>
           score'[s] <= Score(paidCount', req'[s].hint)
  <2> SUFFICES ASSUME NEW s \in Slots, pc[s] = "issue"
               PROVE  score[s] <= Score(paidCount', req[s].hint)
    OBVIOUS
  <2>1. score[s] \in 0..100 /\ score[s] <= Score(paidCount, req[s].hint)
    BY <1>t, <1>0 DEF TypeOK, ScoreReadInv
  <2> QED
    BY <2>1, <1>g
\* Steps that price nothing and debit nobody.
<1>f. ASSUME UNCHANGED <<challenge, charge>>,
             \A n \in Nonces : status'[n] # "unissued" => status[n] # "unissued",
             \A s \in Slots : pc'[s] = "issue" =>
                 pc[s] = "issue" /\ req'[s] = req[s] /\ score'[s] = score[s]
      PROVE  PriceInv'
  <2>1. ScoreReadInv'
    BY <1>f, <1>r DEF ScoreReadInv
  <2>2. ChallengeInv'
    BY <1>f, <1>c DEF ChallengeInv
  <2>3. DiscountEarned'
    BY <1>f, <1>d DEF DiscountEarned, Charged
  <2> QED
    BY <2>1, <2>2, <2>3 DEF PriceInv
<1>1. ASSUME NEW a \in Agents, NEW amount \in Deposits, Credit(a, amount)
      PROVE  PriceInv'
  BY <1>f, <1>1 DEF Credit
<1>2. ASSUME NEW s \in Slots, NEW token \in Tokens \cup {NoToken},
             NEW hint \in Agents \cup {NoOne}, NEW base \in Quotes,
             Arrive(s, token, hint, base)
      PROVE  PriceInv'
  BY <1>f, <1>2, <1>t DEF Arrive, TypeOK
<1>3. ASSUME NEW s \in Slots, PreCheck(s)
      PROVE  PriceInv'
  BY <1>f, <1>3, <1>t DEF PreCheck, Refuse, TypeOK
<1>4. ASSUME NEW s \in Slots, Consume(s)
      PROVE  PriceInv'
  <2> DEFINE t == req[s].token
             m == t.nonce
             outcome == ConsumeOutcome(m, t.pubkey, t.amount)
  <2>0. t \in Tokens
    BY <1>4, <1>t DEF Consume, TokenInv
  <2>1. m \in Nonces /\ t.pubkey \in Agents /\ t.amount \in Nat
    BY <2>0 DEF Tokens
  <2>2. CASE outcome = "ok"
    <3>1. /\ status[m] \notin {"unissued", "gone", "used", "expired"}
          /\ ~(t.amount < challenge[m].amount)
          /\ ~HintRejects(challenge[m].hint, t.pubkey)
      BY <2>2, OutcomeOk
    <3>2. /\ status' = [status EXCEPT ![m] = "used"]
          /\ charge' = [charge EXCEPT
               ![m] = [pubkey |-> t.pubkey, amount |-> t.amount]]
          /\ pc' = [pc EXCEPT ![s] = "record"]
          /\ UNCHANGED <<req, score, challenge, paidCount>>
      BY <1>4, <2>2 DEF Consume
    <3> HIDE DEF t, m, outcome
    <3>3. challenge[m].amount
              >= Discounted(challenge[m].base, Score(paidCount, challenge[m].hint))
      BY <3>1, <2>1, <1>0 DEF ChallengeInv
    <3>4. challenge[m].amount \in Nat /\ challenge[m].base \in Nat
      BY <2>1, <1>t DEF TypeOK
    \* The payer is the hinted agent, or there was no hint and no discount.
    <3>5. Score(paidCount, challenge[m].hint) <= Score(paidCount, t.pubkey)
      <4>1. CASE challenge[m].hint = t.pubkey
        BY <4>1, <1>g
      <4>2. CASE challenge[m].hint = NoOne
        <5>1. Score(paidCount, challenge[m].hint) = 0
          BY <4>2 DEF Score
        <5> QED
          BY <5>1, <1>g
      <4> QED
        BY <4>1, <4>2, <3>1 DEF HintRejects
    <3>6. challenge[m].amount
              >= Discounted(challenge[m].base, Score(paidCount, t.pubkey))
      BY <3>3, <3>4, <3>5, <1>g, BoundKept
    <3>7. Discounted(challenge[m].base, Score(paidCount, t.pubkey)) \in Nat
      BY <3>4, <1>g, DiscountedType
    <3>8. t.amount >= Discounted(challenge[m].base, Score(paidCount, t.pubkey))
      BY <3>1, <3>4, <3>6, <3>7, <2>1
    <3>9. DiscountEarned'
      <4> SUFFICES ASSUME NEW n \in Charged'
                   PROVE  charge'[n].amount >= Discounted(challenge'[n].base,
                                                 Score(paidCount', charge'[n].pubkey))
        BY DEF DiscountEarned
      <4>1. CASE n = m
        <5>1. charge'[m] = [pubkey |-> t.pubkey, amount |-> t.amount]
          BY <3>2, <2>1, <1>t DEF TypeOK
        <5> QED
          BY <4>1, <5>1, <3>2, <3>8
      <4>2. CASE n # m
        <5>1. n \in Charged /\ charge'[n] = charge[n] /\ challenge'[n] = challenge[n]
          BY <4>2, <3>2, <1>t DEF Charged, TypeOK
        <5> QED
          BY <5>1, <1>d
      <4> QED
        BY <4>1, <4>2
    <3>10. ChallengeInv'
      BY <3>1, <3>2, <2>1, <1>c, <1>t DEF ChallengeInv, TypeOK
    <3>11. ScoreReadInv'
      BY <3>2, <1>r, <1>t DEF ScoreReadInv, TypeOK
    <3> QED
      BY <3>9, <3>10, <3>11 DEF PriceInv
  <2>3. CASE outcome # "ok"
    <3>1. /\ UNCHANGED <<status, charge, challenge, req, score>>
          /\ pc' = [pc EXCEPT ![s] = "quote"]
      BY <1>4, <2>3 DEF Consume, Refuse
    <3> QED
      BY <3>1, <1>f, <1>t DEF TypeOK
  <2> QED
    BY <2>2, <2>3
<1>5. ASSUME NEW s \in Slots, RecordPayment(s)
      PROVE  PriceInv'
  BY <1>f, <1>5, <1>t DEF RecordPayment, TypeOK
<1>6. ASSUME NEW s \in Slots, Forward(s)
      PROVE  PriceInv'
  BY <1>f, <1>6, <1>t DEF Forward, Leave, TypeOK
<1>7. ASSUME NEW s \in Slots, QuoteScore(s)
      PROVE  PriceInv'
  <2>1. /\ UNCHANGED <<status, challenge, charge, paidCount, req>>
        /\ pc' = [pc EXCEPT ![s] = "issue"]
        /\ score' = [score EXCEPT ![s] = Score(paidCount, req[s].hint)]
    BY <1>7 DEF QuoteScore
  <2>2. ScoreReadInv'
    <3> SUFFICES ASSUME NEW u \in Slots, pc'[u] = "issue"
                 PROVE  score'[u] <= Score(paidCount', req'[u].hint)
      BY DEF ScoreReadInv
    <3>1. CASE u = s
      <4>1. score'[u] = Score(paidCount', req'[u].hint)
        BY <2>1, <3>1, <1>t DEF TypeOK
      <4> QED
        BY <4>1, <1>g
    <3>2. CASE u # s
      BY <2>1, <3>2, <1>r, <1>t DEF TypeOK
    <3> QED
      BY <3>1, <3>2
  <2>3. ChallengeInv' /\ DiscountEarned'
    BY <2>1, <1>c, <1>d DEF ChallengeInv, DiscountEarned, Charged
  <2> QED
    BY <2>2, <2>3 DEF PriceInv
<1>8. ASSUME NEW s \in Slots, NEW n \in Nonces, IssueNonce(s, n)
      PROVE  PriceInv'
  <2> DEFINE base == req[s].base
             hint == req[s].hint
  <2>1. /\ status[n] = "unissued" /\ pc[s] = "issue"
        /\ status' = [status EXCEPT ![n] = "live"]
        /\ challenge' = [challenge EXCEPT
             ![n] = [amount |-> Discounted(base, score[s]), base |-> base,
                     hint |-> hint]]
        /\ pc' = [pc EXCEPT ![s] = "idle"]
        /\ req' = [req EXCEPT ![s] = NoReq]
        /\ score' = [score EXCEPT ![s] = 0]
        /\ UNCHANGED <<charge, paidCount>>
    BY <1>8 DEF IssueNonce, Leave
  <2>2. n \notin Charged
    BY <2>1 DEF SpendInv, StatusInv
  <2>3. base \in Nat /\ score[s] \in 0..100 /\ score[s] <= Score(paidCount, hint)
    BY <2>1, <1>t, <1>0 DEF TypeOK, ScoreReadInv
  <2>4. Discounted(base, score[s]) \in Nat
    BY <2>3, DiscountedType
  <2>5. Discounted(base, score[s]) >= Discounted(base, Score(paidCount, hint))
    BY <2>3, <1>g, DiscountedAntitone, DiscountedType
  <2> HIDE DEF base, hint
  <2>6. challenge'[n] = [amount |-> Discounted(base, score[s]), base |-> base,
                         hint |-> hint]
    BY <2>1, <1>t DEF TypeOK
  <2>7. \A k \in Nonces \ {n} : challenge'[k] = challenge[k] /\ status'[k] = status[k]
    BY <2>1, <1>t DEF TypeOK
  <2>8. ChallengeInv'
    <3> SUFFICES ASSUME NEW k \in Nonces, status'[k] # "unissued"
                 PROVE  challenge'[k].amount >= Discounted(challenge'[k].base,
                                              Score(paidCount', challenge'[k].hint))
      BY DEF ChallengeInv
    <3>1. CASE k = n
      BY <3>1, <2>1, <2>5, <2>6
    <3>2. CASE k # n
      BY <3>2, <2>7, <1>c
    <3> QED
      BY <3>1, <3>2
  <2>9. DiscountEarned'
    BY <2>1, <2>2, <2>7, <1>d DEF DiscountEarned, Charged
  <2>10. ScoreReadInv'
    BY <2>1, <1>r, <1>t DEF ScoreReadInv, TypeOK
  <2> QED
    BY <2>8, <2>9, <2>10 DEF PriceInv
<1>9. ASSUME NEW n \in Nonces, Expire(n)
      PROVE  PriceInv'
  BY <1>f, <1>9, <1>t DEF Expire, TypeOK
<1>10. CASE Crash
  BY <1>f, <1>10 DEF Crash
<1>11. CASE UNCHANGED vars
  BY <1>f, <1>11 DEF vars
<1> QED
  BY <1>1, <1>2, <1>3, <1>4, <1>5, <1>6, <1>7, <1>8, <1>9, <1>10, <1>11
     DEF Next, Step

\* Nobody pays less than the price their own reputation justifies: a
\* discount cannot be borrowed, and a stale score is never too high.
THEOREM DiscountEarnedHolds == Spec => []DiscountEarned
<1>1. Init => PriceInv
  BY DEF Init, PriceInv, ScoreReadInv, ChallengeInv, DiscountEarned, Charged
<1>2. PriceInv => DiscountEarned
  BY DEF PriceInv
<1> QED
  BY <1>1, <1>2, PriceStep, SpendCorrect, TypeCorrect, PTL DEF Spec

-----------------------------------------------------------------------------
(* Refinement.  The balance is the escrow, a voucher is a challenge that   *)
(* has been issued, and it is redeemed when its debit is made: Credit is   *)
(* Fund, IssueNonce is Offer, an accepted Consume is Redeem, and every     *)
(* other step, expiry and restart included, leaves the ledger alone.       *)

Mapped(n) == [price  |-> challenge[n].amount,
              holder |-> challenge[n].hint,
              issued |-> status[n] # "unissued"]

LEMMA AmountsContain ==
    /\ \A x \in Offers : x \in Amounts
    /\ \A x \in Deposits : x \in Amounts
    /\ \A q \in Quotes, sc \in 0..100 : Discounted(q, sc) \in Amounts
<1>1. ASSUME NEW q \in Quotes, NEW sc \in 0..100
      PROVE  Discounted(q, sc) \in UNION {{Discounted(x, y) : y \in 0..100} : x \in Quotes}
  <2>1. Discounted(q, sc) \in {Discounted(q, y) : y \in 0..100}
    OBVIOUS
  <2> QED
    BY <2>1
<1> QED
  BY <1>1 DEF Amounts

LEMMA LedgerFund ==
    ASSUME NEW a \in Agents, NEW amount \in Deposits, Credit(a, amount)
    PROVE  Promise!LedgerNext
<1>1. Promise!Fund(a, amount)
  BY DEF Credit, Promise!Fund, Charged
<1>2. amount \in Amounts
  BY AmountsContain
<1> QED
  BY <1>1, <1>2 DEF Promise!LedgerNext

LEMMA LedgerOffer ==
    ASSUME Typed, NEW s \in Slots, NEW n \in Nonces, IssueNonce(s, n)
    PROVE  Promise!LedgerNext
<1>0. PICK ask, hint : ask = Discounted(req[s].base, score[s]) /\ hint = req[s].hint
  OBVIOUS
<1>1. ask \in Amounts /\ hint \in Agents \cup {NoOne}
  <2>1. req[s].base \in Quotes /\ score[s] \in 0..100 /\ hint \in Agents \cup {NoOne}
    BY <1>0 DEF IssueNonce, Typed, TypeOK, TokenInv
  <2> QED
    BY <1>0, <2>1, AmountsContain
<1>2. /\ status[n] = "unissued"
      /\ status' = [status EXCEPT ![n] = "live"]
      /\ challenge' = [challenge EXCEPT
           ![n] = [amount |-> ask, base |-> req[s].base, hint |-> hint]]
      /\ UNCHANGED <<escrow, charge>>
  BY <1>0 DEF IssueNonce, historyVars
<1>3. challenge \in [Nonces -> [amount : Nat, base : Nat, hint : Agents \cup {NoOne}]]
      /\ status \in [Nonces -> Statuses]
  BY DEF Typed, TypeOK
<1>4. Mapped(n)' = [price |-> ask, holder |-> hint, issued |-> TRUE]
  BY <1>2, <1>3 DEF Mapped
<1>5. \A k \in Nonces \ {n} : Mapped(k)' = Mapped(k)
  BY <1>2, <1>3 DEF Mapped
<1>6. [k \in Nonces |-> Mapped(k)']
        = [[k \in Nonces |-> Mapped(k)] EXCEPT
             ![n] = [price |-> ask, holder |-> hint, issued |-> TRUE]]
  BY <1>4, <1>5
<1>7. [k \in Nonces |-> Mapped(k)'][n] = [price |-> ask, holder |-> hint, issued |-> TRUE]
  BY <1>4
<1>8. Mapped(n).issued = FALSE
  BY <1>2 DEF Mapped
<1>9. [price |-> ask, holder |-> hint, issued |-> TRUE]
        \in [price : Amounts, holder : Agents \cup {NoOne}, issued : {TRUE}]
  BY <1>1
<1>10. Promise!Offer(n)
  BY <1>2, <1>6, <1>7, <1>8, <1>9 DEF Promise!Offer, Mapped, Charged
<1> QED
  BY <1>10 DEF Promise!LedgerNext

LEMMA LedgerRedeem ==
    ASSUME Typed, SpendInv, NEW s \in Slots, Consume(s)
    PROVE  Promise!LedgerNext \/ UNCHANGED <<escrow, status, challenge, charge>>
<1> DEFINE t == req[s].token
           m == t.nonce
           outcome == ConsumeOutcome(m, t.pubkey, t.amount)
<1>t. TypeOK /\ TokenInv /\ StatusInv
  BY DEF Typed, SpendInv
<1>0. t \in Tokens
  BY <1>t DEF Consume, TokenInv
<1>1. m \in Nonces /\ t.pubkey \in Agents /\ t.amount \in Nat /\ t.amount \in Amounts
  BY <1>0, AmountsContain DEF Tokens
<1>2. CASE outcome # "ok"
  BY <1>2 DEF Consume
<1>3. CASE outcome = "ok"
  <2>1. /\ status[m] \notin {"unissued", "gone", "used", "expired"}
        /\ ~(t.amount < challenge[m].amount)
        /\ ~HintRejects(challenge[m].hint, t.pubkey)
        /\ ~(escrow[t.pubkey] < t.amount)
    BY <1>3, OutcomeOk
  <2>2. /\ status' = [status EXCEPT ![m] = "used"]
        /\ escrow' = [escrow EXCEPT ![t.pubkey] = @ - t.amount]
        /\ charge' = [charge EXCEPT ![m] = [pubkey |-> t.pubkey, amount |-> t.amount]]
        /\ UNCHANGED challenge
    BY <1>3 DEF Consume
  <2> HIDE DEF t, m, outcome
  <2>3. challenge[m].amount \in Nat /\ escrow[t.pubkey] \in Nat
    BY <1>1, <1>t DEF TypeOK
  <2>4. m \notin Charged
    BY <2>1, <1>1, <1>t DEF StatusInv, TypeOK, Statuses
  <2>5. Charged' = Charged \cup {m}
    <3>1. [pubkey |-> t.pubkey, amount |-> t.amount] # NoCharge
      BY <1>1, ChargeVisible
    <3> QED
      BY <2>2, <3>1, <1>1, <1>t DEF Charged, TypeOK
  <2>6. \A k \in Nonces : Mapped(k)' = Mapped(k)
    BY <2>1, <2>2, <1>1, <1>t DEF Mapped, TypeOK
  <2>7. [k \in Nonces |-> Mapped(k)'] = [k \in Nonces |-> Mapped(k)]
    BY <2>6
  <2>8. /\ status[m] # "unissued"
        /\ challenge[m].hint \in {NoOne, t.pubkey}
        /\ t.amount >= challenge[m].amount
        /\ t.amount <= escrow[t.pubkey]
    BY <2>1, <2>3, <1>1 DEF HintRejects
  <2>9. Promise!Redeem(m)
    BY <2>2, <2>4, <2>5, <2>7, <2>8, <1>1 DEF Promise!Redeem, Mapped
  <2> QED
    BY <1>1, <2>9 DEF Promise!LedgerNext
<1> QED
  BY <1>2, <1>3

LEMMA LedgerStutter ==
    ASSUME UNCHANGED <<escrow, challenge, charge>>,
           \A n \in Nonces : status'[n] = "unissued" <=> status[n] = "unissued"
    PROVE  UNCHANGED Promise!ledgerVars
<1>1. \A k \in Nonces : Mapped(k)' = Mapped(k)
  BY DEF Mapped
<1>2. [k \in Nonces |-> Mapped(k)'] = [k \in Nonces |-> Mapped(k)]
  BY <1>1
<1> QED
  BY <1>2 DEF Promise!ledgerVars, Mapped, Charged

\* The detailed payment path implements the ledger: every behaviour of the
\* Shield, under any interleaving and any number of restarts, moves money
\* only as the ledger allows.
THEOREM PaymentImplementsLedger == Spec => ImplementsLedger
<1>1. Init => Promise!LedgerInit
  <2> SUFFICES ASSUME Init PROVE Promise!LedgerInit
    OBVIOUS
  <2>1. Charged = {}
    BY DEF Init, Charged
  <2>2. \A k \in Nonces : Mapped(k) = [price |-> 0, holder |-> NoOne, issued |-> FALSE]
    BY DEF Init, Mapped, NoChallenge
  <2> QED
    BY <2>1, <2>2 DEF Init, Promise!LedgerInit, Promise!Unissued, Mapped
<1>2. Typed /\ SpendInv /\ [Next]_vars => [Promise!LedgerNext]_(Promise!ledgerVars)
  <2> SUFFICES ASSUME Typed, SpendInv, [Next]_vars
               PROVE  Promise!LedgerNext \/ UNCHANGED Promise!ledgerVars
    OBVIOUS
  <2> USE DEF storeVars, reqVars, historyVars
  <2>1. ASSUME NEW a \in Agents, NEW amount \in Deposits, Credit(a, amount)
        PROVE  Promise!LedgerNext
    BY <2>1, LedgerFund
  <2>2. ASSUME NEW s \in Slots, Consume(s)
        PROVE  Promise!LedgerNext \/ UNCHANGED Promise!ledgerVars
    BY <2>2, LedgerRedeem, LedgerStutter
  <2>3. ASSUME NEW s \in Slots, NEW n \in Nonces, IssueNonce(s, n)
        PROVE  Promise!LedgerNext
    BY <2>3, LedgerOffer
  <2>4. ASSUME NEW n \in Nonces, Expire(n)
        PROVE  UNCHANGED Promise!ledgerVars
    <3>1. /\ UNCHANGED <<escrow, challenge, charge>>
          /\ \A k \in Nonces : status'[k] = "unissued" <=> status[k] = "unissued"
      BY <2>4 DEF Expire, Typed, TypeOK
    <3> QED
      BY <3>1, LedgerStutter
  <2>5. ASSUME \/ \E s \in Slots, token \in Tokens \cup {NoToken},
                     hint \in Agents \cup {NoOne}, base \in Quotes :
                       Arrive(s, token, hint, base)
               \/ \E s \in Slots : \/ PreCheck(s) \/ RecordPayment(s)
                                   \/ Forward(s) \/ QuoteScore(s)
               \/ Crash
               \/ UNCHANGED vars
        PROVE  UNCHANGED Promise!ledgerVars
    <3>1. UNCHANGED <<escrow, challenge, charge, status>>
      BY <2>5 DEF Arrive, PreCheck, RecordPayment, Forward, QuoteScore, Crash, vars
    <3> QED
      BY <3>1, LedgerStutter
  <2> QED
    BY <2>1, <2>2, <2>3, <2>4, <2>5 DEF Next, Step
<1> QED
  BY <1>1, <1>2, TypeCorrect, SpendCorrect, PTL DEF Spec, ImplementsLedger,
     Promise!LedgerSpec

-----------------------------------------------------------------------------
(* Sums.  What requests hold is a sum over a finite set, as MapThenSumSet   *)
(* defines it: its recursive function is shown to exist and to be unique,   *)
(* then not to depend on the order in which the elements are taken.  A      *)
(* counterexample would be a set of subsets, and among those of a finite    *)
(* set there is a smallest one.                                             *)

LEMMA Smallest ==
    ASSUME NEW S, IsFiniteSet(S), NEW B, B \subseteq SUBSET S, B # {}
    PROVE  \E T \in B : \A U \in B : U \subseteq T => U = T
<1>1. IsWellFoundedOn(StrictSubsetOrdering(S), SUBSET S)
  BY FS_StrictSubsetOrderingWellFounded, FS_FiniteSubsetsOfFinite
<1>2. PICK T \in B : \A U \in B : ~ (<<U, T>> \in StrictSubsetOrdering(S))
  BY <1>1, WFMin
<1>3. ASSUME NEW U \in B, U \subseteq T, U # T PROVE FALSE
  <2>1. U \in SUBSET S /\ T \in SUBSET S
    OBVIOUS
  <2>2. <<U, T>> \in StrictSubsetOrdering(S)
    BY <1>3, <2>1, Zenon DEF StrictSubsetOrdering
  <2> QED
    BY <1>2, <2>2
<1> QED
  BY <1>3

Pick(s) == CHOOSE x \in s : TRUE

Adds(g, f, S) ==
    g = [s \in SUBSET S |-> IF s = {} THEN 0 ELSE f[Pick(s)] + g[s \ {Pick(s)}]]

LEMMA PickIn == \A s : s # {} => Pick(s) \in s
BY DEF Pick

LEMMA AddsAgree ==
    ASSUME NEW S, IsFiniteSet(S), NEW f, NEW g, Adds(g, f, S),
           NEW R, NEW e, NEW k, Adds(k, e, R), S \subseteq R,
           \A x \in S : f[x] = e[x]
    PROVE  \A T \in SUBSET S : g[T] = k[T]
<1> DEFINE B == {T \in SUBSET S : g[T] # k[T]}
<1>1. SUFFICES ASSUME B # {} PROVE FALSE
  OBVIOUS
<1>2. PICK T \in B : \A U \in B : U \subseteq T => U = T
  <2>1. B \subseteq SUBSET S
    OBVIOUS
  <2> HIDE DEF B
  <2> QED
    BY <1>1, <2>1, Smallest
<1>3. /\ g[T] = IF T = {} THEN 0 ELSE f[Pick(T)] + g[T \ {Pick(T)}]
      /\ k[T] = IF T = {} THEN 0 ELSE e[Pick(T)] + k[T \ {Pick(T)}]
  <2>1. T \in SUBSET S /\ T \in SUBSET R
    BY <1>2
  <2> QED
    BY <2>1 DEF Adds
<1>4. CASE T = {}
  BY <1>2, <1>3, <1>4
<1>5. CASE T # {}
  <2>1. Pick(T) \in T
    BY <1>5, PickIn
  <2>2. T \ {Pick(T)} \in SUBSET S /\ T \ {Pick(T)} # T /\ T \ {Pick(T)} \subseteq T
    BY <2>1, <1>2
  <2>3. g[T \ {Pick(T)}] = k[T \ {Pick(T)}]
    BY <2>2, <1>2
  <2>4. f[Pick(T)] = e[Pick(T)]
    BY <2>1, <1>2
  <2> QED
    BY <1>2, <1>3, <1>5, <2>3, <2>4
<1> QED
  BY <1>4, <1>5

LEMMA AddsExists ==
    ASSUME NEW S, IsFiniteSet(S), NEW f
    PROVE  \E g : Adds(g, f, S)
<1> DEFINE B == {T \in SUBSET S : ~ \E g : Adds(g, f, T)}
<1>1. SUFFICES ASSUME B # {} PROVE FALSE
  OBVIOUS
<1>2. PICK T \in B : \A U \in B : U \subseteq T => U = T
  <2>1. B \subseteq SUBSET S
    OBVIOUS
  <2> HIDE DEF B
  <2> QED
    BY <1>1, <2>1, Smallest
<1>3. \A U \in SUBSET T : U # T => \E g : Adds(g, f, U)
  BY <1>2
<1> DEFINE Sub(U) == CHOOSE g : Adds(g, f, U)
           V(U) == Sub(U)[U]
           G == [U \in SUBSET T |-> IF U = T
                   THEN (IF T = {} THEN 0 ELSE f[Pick(T)] + V(T \ {Pick(T)})) ELSE V(U)]
<1>4. \A U \in SUBSET T : U # T => Adds(Sub(U), f, U)
  BY <1>3
<1>5. ASSUME NEW U \in SUBSET T PROVE G[U] = IF U = {} THEN 0 ELSE f[Pick(U)] + G[U \ {Pick(U)}]
  <2>0. CASE U = T /\ T = {}
    BY <2>0
  <2>1. CASE U = T /\ T # {}
    <3>1. Pick(T) \in T
      BY <2>1, PickIn
    <3>2. T \ {Pick(T)} \in SUBSET T /\ T \ {Pick(T)} # T
      BY <3>1
    <3>3. G[T \ {Pick(T)}] = V(T \ {Pick(T)})
      BY <3>2
    <3> HIDE DEF V
    <3> QED
      BY <2>1, <3>3
  <2>2. CASE U # T
    <3> DEFINE W == U \ {Pick(U)}
    <3>1. Adds(Sub(U), f, U) /\ G[U] = Sub(U)[U]
      BY <2>2, <1>4
    <3> HIDE DEF Sub
    <3>2. G[U] = IF U = {} THEN 0 ELSE f[Pick(U)] + Sub(U)[W]
      BY <3>1 DEF Adds
    <3>3. CASE U = {}
      BY <3>2, <3>3
    <3>4. CASE U # {}
      <4>1. Pick(U) \in U
        BY <3>4, PickIn
      <4>2. W \in SUBSET T /\ W # T /\ W \subseteq U /\ W \in SUBSET W
        BY <4>1
      <4>3. Adds(Sub(W), f, W) /\ G[W] = Sub(W)[W]
        BY <4>2, <1>4
      <4>4. IsFiniteSet(W)
        BY <1>2, <4>2, FS_Subset
      <4> HIDE DEF W, G
      <4>5. Sub(W)[W] = Sub(U)[W]
        BY <3>1, <4>2, <4>3, <4>4, AddsAgree
      <4> QED
        BY <3>2, <3>4, <4>3, <4>5 DEF W
    <3> QED
      BY <3>3, <3>4
  <2> QED
    BY <2>0, <2>1, <2>2
<1>6. Adds(G, f, T)
  <2>1. G = [U \in SUBSET T |-> G[U]]
    OBVIOUS
  <2> HIDE DEF G
  <2>2. [U \in SUBSET T |-> G[U]] = [U \in SUBSET T |-> IF U = {} THEN 0 ELSE f[Pick(U)] + G[U \ {Pick(U)}]]
    BY <1>5
  <2> QED
    BY <2>1, <2>2 DEF Adds
<1> QED
  BY <1>2, <1>6

LEMMA AddsRemove ==
    ASSUME NEW S, IsFiniteSet(S), NEW f, \A x \in S : f[x] \in Nat, NEW g, Adds(g, f, S)
    PROVE  \A T \in SUBSET S : /\ g[T] \in Nat
                               /\ \A x \in T : g[T] = f[x] + g[T \ {x}]
<1>1. ASSUME NEW T \in SUBSET S, T # {}
      PROVE  Pick(T) \in T /\ g[T] = f[Pick(T)] + g[T \ {Pick(T)}]
  BY <1>1, PickIn DEF Adds
<1>2. g[{}] = 0
  BY DEF Adds
<1> DEFINE Fine(T) == g[T] \in Nat /\ \A x \in T : g[T] = f[x] + g[T \ {x}]
           B == {T \in SUBSET S : ~ Fine(T)}
<1>3. SUFFICES ASSUME B # {} PROVE FALSE
  OBVIOUS
<1>4. PICK T \in B : \A U \in B : U \subseteq T => U = T
  <2>1. B \subseteq SUBSET S
    OBVIOUS
  <2> HIDE DEF B
  <2> QED
    BY <1>3, <2>1, Smallest
<1> DEFINE p == Pick(T)
<1>5. T \in SUBSET S /\ ~ Fine(T) /\ \A U \in SUBSET T : U # T => Fine(U)
  BY <1>4
<1>6. T # {}
  <2> SUFFICES ASSUME T = {} PROVE Fine(T)
    BY <1>5
  <2> QED
    BY <1>2
<1>7. p \in T /\ g[T] = f[p] + g[T \ {p}]
  BY <1>1, <1>5, <1>6
<1> HIDE DEF p, B
<1>8. \A x \in T : T \ {x} \in SUBSET T /\ T \ {x} # T
  OBVIOUS
<1>9. \A x \in T : g[T \ {x}] \in Nat /\ f[x] \in Nat
  BY <1>5, <1>8
<1>10. g[T \ {p}] \in Nat /\ f[p] \in Nat /\ g[T] \in Nat
  <2>1. g[T \ {p}] \in Nat /\ f[p] \in Nat
    BY <1>7, <1>9
  <2> QED
    BY <1>7, <2>1
<1>11. ASSUME NEW x \in T, x # p PROVE g[T] = f[x] + g[T \ {x}]
  <2>1. g[T \ {p}] = f[x] + g[(T \ {p}) \ {x}]
    BY <1>5, <1>7, <1>8, <1>11
  <2>2. g[T \ {x}] = f[p] + g[(T \ {x}) \ {p}]
    BY <1>5, <1>7, <1>8, <1>11
  <2>3. (T \ {x}) \ {p} = (T \ {p}) \ {x}
    OBVIOUS
  <2>4. (T \ {p}) \ {x} \in SUBSET T /\ (T \ {p}) \ {x} # T
    BY <1>7
  <2>5. g[(T \ {p}) \ {x}] \in Nat
    BY <1>5, <2>4
  <2>6. g[T \ {x}] = f[p] + g[(T \ {p}) \ {x}] /\ f[x] \in Nat
    BY <1>9, <2>2, <2>3
  <2> QED
    BY <1>7, <1>10, <2>1, <2>5, <2>6
<1> QED
  BY <1>5, <1>7, <1>10, <1>11

AmountsOf(requests, S) == [s \in S |-> requests[s].token.amount]

LEMMA HeldAdds ==
    ASSUME NEW S, IsFiniteSet(S), NEW r
    PROVE  \E g : Adds(g, AmountsOf(r, S), S) /\ Held(r, S) = g[S]
<1> DEFINE Unfolds(g) == g = [s \in SUBSET S |-> IF s = {} THEN 0
                               ELSE r[Pick(s)].token.amount + g[s \ {Pick(s)}]]
           f == AmountsOf(r, S)
<1>1. Held(r, S) = (CHOOSE g : Unfolds(g))[S]
  BY Zenon DEF Held, MapThenSumSet, MapThenFoldSet, Pick
<1>2. ASSUME NEW g PROVE Unfolds(g) <=> Adds(g, f, S)
  <2>1. ASSUME NEW s \in SUBSET S
        PROVE  (IF s = {} THEN 0 ELSE r[Pick(s)].token.amount + g[s \ {Pick(s)}])
                 = (IF s = {} THEN 0 ELSE f[Pick(s)] + g[s \ {Pick(s)}])
    <3>1. s # {} => Pick(s) \in S
      BY PickIn
    <3>2. s # {} => f[Pick(s)] = r[Pick(s)].token.amount
      BY <3>1 DEF AmountsOf
    <3> QED
      BY <3>2
  <2>2. [s \in SUBSET S |-> IF s = {} THEN 0 ELSE r[Pick(s)].token.amount + g[s \ {Pick(s)}]]
          = [s \in SUBSET S |-> IF s = {} THEN 0 ELSE f[Pick(s)] + g[s \ {Pick(s)}]]
    BY <2>1
  <2> QED
    BY <2>2 DEF Adds
<1> HIDE DEF f
<1>3. PICK k : Adds(k, f, S)
  BY AddsExists
<1>4. \E g : Unfolds(g)
  <2>1. Unfolds(k)
    BY <1>2, <1>3
  <2> QED
    BY <2>1
<1> HIDE DEF Unfolds
<1>5. Unfolds(CHOOSE g : Unfolds(g))
  BY <1>4
<1>6. Adds(CHOOSE g : Unfolds(g), f, S)
  BY <1>2, <1>5
<1> QED
  BY <1>1, <1>6 DEF f

\* What requests hold does not depend on the others, ...
LEMMA HeldSame ==
    ASSUME NEW S, IsFiniteSet(S), NEW q, NEW r, \A s \in S : q[s] = r[s]
    PROVE  Held(q, S) = Held(r, S)
<1>1. PICK g : Adds(g, AmountsOf(q, S), S) /\ Held(q, S) = g[S]
  BY HeldAdds
<1>2. PICK k : Adds(k, AmountsOf(r, S), S) /\ Held(r, S) = k[S]
  BY HeldAdds
<1>3. \A s \in S : AmountsOf(q, S)[s] = AmountsOf(r, S)[s]
  BY DEF AmountsOf
<1> QED
  BY <1>1, <1>2, <1>3, AddsAgree

\* ... and each adds what it holds.
LEMMA HeldRemove ==
    ASSUME NEW S, IsFiniteSet(S), NEW r, \A s \in S : r[s].token.amount \in Nat
    PROVE  /\ Held(r, S) \in Nat /\ Held(r, {}) = 0
           /\ \A s \in S : Held(r, S) = r[s].token.amount + Held(r, S \ {s})
<1>1. PICK g : Adds(g, AmountsOf(r, S), S) /\ Held(r, S) = g[S]
  BY HeldAdds
<1>2. \A s \in S : AmountsOf(r, S)[s] = r[s].token.amount
  BY DEF AmountsOf
<1>3. \A s \in S : AmountsOf(r, S)[s] \in Nat
  BY <1>2
<1>4. g[S] \in Nat /\ \A s \in S : g[S] = AmountsOf(r, S)[s] + g[S \ {s}]
  BY <1>1, <1>3, AddsRemove
<1>5. ASSUME NEW s \in S PROVE Held(r, S) = r[s].token.amount + Held(r, S \ {s})
  <2> DEFINE T == S \ {s}
  <2>1. IsFiniteSet(T) /\ T \subseteq S
    BY FS_RemoveElement
  <2> HIDE DEF T
  <2>2. PICK k : Adds(k, AmountsOf(r, T), T) /\ Held(r, T) = k[T]
    BY <2>1, HeldAdds
  <2>3. \A t \in T : AmountsOf(r, T)[t] = AmountsOf(r, S)[t]
    BY <2>1 DEF AmountsOf
  <2>4. k[T] = g[T]
    BY <1>1, <2>1, <2>2, <2>3, AddsAgree
  <2> QED
    BY <1>1, <1>2, <1>4, <2>2, <2>4 DEF T
<1>6. Held(r, {}) = 0
  <2>1. PICK k : Adds(k, AmountsOf(r, {}), {}) /\ Held(r, {}) = k[{}]
    BY HeldAdds, FS_EmptySet
  <2> QED
    BY <2>1 DEF Adds
<1> QED
  BY <1>1, <1>4, <1>5, <1>6

-----------------------------------------------------------------------------
(* The books.  BooksBalance is inductive once the amounts have their types  *)
(* (Typed) and a nonce that can be consumed was never debited (StatusInv).  *)

Debits(a) == {n \in Nonces : charge[n].pubkey = a}

\* The balance of one agent's numbers: escrow, paid, held, deposited, and the
\* payments counted, in hand and debited.
Closes(e, p, h, d, count, hand, debits, lost) ==
    /\ e + p + h <= d /\ count + hand <= debits
    /\ ~lost => (e + p + h = d /\ count + hand = debits)

Balanced(a) ==
    Closes(escrow[a], totalPaid[a], Held(req, Recording(a)), deposited[a],
           paidCount[a], Cardinality(Recording(a)), Cardinality(Debits(a)), crashed)

BooksInv == \A a \in Agents : Balanced(a)

LEMMA DebitsVisible ==
    ASSUME Typed, NEW a \in Agents
    PROVE  Debits(a) = {n \in Charged : charge[n].pubkey = a}
BY DEF Debits, Charged, NoCharge

LEMMA BooksClosed == Typed /\ BooksInv => BooksBalance
<1> SUFFICES ASSUME Typed, BooksInv, NEW a \in Agents
             PROVE  LET known == escrow[a] + totalPaid[a] + Held(req, Recording(a))
                        debits == Cardinality({n \in Charged : charge[n].pubkey = a})
                        counted == paidCount[a] + Cardinality(Recording(a))
                    IN /\ known <= deposited[a] /\ counted <= debits
                       /\ ~crashed => known = deposited[a] /\ counted = debits
  BY DEF BooksBalance
<1>1. Debits(a) = {n \in Charged : charge[n].pubkey = a}
  BY DebitsVisible
<1>2. Balanced(a)
  BY DEF BooksInv
<1> QED
  BY <1>1, <1>2, Zenon DEF Balanced, Closes

\* The sets counted are finite and the numbers are natural numbers.
LEMMA BookNumbers ==
    ASSUME Typed, NEW a \in Agents
    PROVE  /\ IsFiniteSet(Recording(a)) /\ Recording(a) \subseteq Slots
           /\ \A s \in Recording(a) : req[s].token.amount \in Nat
           /\ Held(req, Recording(a)) \in Nat
           /\ Cardinality(Recording(a)) \in Nat
           /\ IsFiniteSet(Debits(a)) /\ Cardinality(Debits(a)) \in Nat
           /\ escrow[a] \in Nat /\ totalPaid[a] \in Nat
           /\ paidCount[a] \in Nat /\ deposited[a] \in Nat
<1>1. Recording(a) \subseteq Slots /\ Debits(a) \subseteq Nonces
  BY DEF Recording, Debits
<1>2. IsFiniteSet(Recording(a)) /\ IsFiniteSet(Debits(a))
  BY <1>1, FS_Subset
<1>3. Cardinality(Recording(a)) \in Nat /\ Cardinality(Debits(a)) \in Nat
  BY <1>2, FS_CardinalityType
<1>4. \A s \in Recording(a) : req[s].token.amount \in Nat
  BY DEF Typed, TokenInv, Recording, Tokens
<1>5. Held(req, Recording(a)) \in Nat
  BY <1>2, <1>4, HeldRemove
<1>6. /\ escrow[a] \in Nat /\ totalPaid[a] \in Nat
      /\ paidCount[a] \in Nat /\ deposited[a] \in Nat
  BY DEF Typed, TypeOK
<1> QED
  BY <1>1, <1>2, <1>3, <1>4, <1>5, <1>6

\* A step that touches neither the record of an agent nor the requests
\* between their debit and their record.
LEMMA HandUnchanged ==
    ASSUME Typed, NEW a \in Agents,
           \A s \in Slots : pc'[s] = "record" <=> pc[s] = "record",
           \A s \in Slots : pc[s] = "record" => req'[s] = req[s]
    PROVE  Recording(a)' = Recording(a) /\ Held(req, Recording(a))' = Held(req, Recording(a))
<1>1. Recording(a)' = Recording(a)
  BY DEF Recording
<1>2. \A s \in Recording(a) : req'[s] = req[s]
  BY DEF Recording
<1>3. IsFiniteSet(Recording(a))
  BY BookNumbers
<1>4. Held(req', Recording(a)) = Held(req, Recording(a))
  BY <1>2, <1>3, HeldSame
<1> QED
  BY <1>1, <1>4

LEMMA BooksQuiet ==
    ASSUME Typed, BooksInv,
           UNCHANGED <<escrow, totalPaid, paidCount, deposited, charge, crashed>>,
           \A s \in Slots : pc'[s] = "record" <=> pc[s] = "record",
           \A s \in Slots : pc[s] = "record" => req'[s] = req[s]
    PROVE  BooksInv'
<1> SUFFICES ASSUME NEW a \in Agents PROVE Balanced(a)'
  BY DEF BooksInv
<1>1. Recording(a)' = Recording(a) /\ Held(req, Recording(a))' = Held(req, Recording(a))
  BY HandUnchanged
<1>2. Debits(a)' = Debits(a)
  BY DEF Debits
<1>3. Balanced(a)
  BY DEF BooksInv
<1> QED
  BY <1>1, <1>2, <1>3 DEF Balanced

LEMMA BooksCredit ==
    ASSUME Typed, BooksInv, NEW b \in Agents, NEW amount \in Deposits, Credit(b, amount)
    PROVE  BooksInv'
<1> SUFFICES ASSUME NEW a \in Agents PROVE Balanced(a)'
  BY DEF BooksInv
<1>1. UNCHANGED <<totalPaid, paidCount, pc, req, charge, crashed>>
  BY DEF Credit, reqVars
<1>2. Recording(a)' = Recording(a) /\ Held(req, Recording(a))' = Held(req, Recording(a))
  BY <1>1, HandUnchanged
<1>3. Debits(a)' = Debits(a)
  BY <1>1 DEF Debits
<1>4. Balanced(a)
  BY DEF BooksInv
<1> DEFINE x == IF a = b THEN amount ELSE 0
           h == Held(req, Recording(a))
<1>5. x \in Nat /\ h \in Nat /\ escrow[a] \in Nat /\ totalPaid[a] \in Nat /\ deposited[a] \in Nat
  BY BookNumbers
<1>6. escrow'[a] = escrow[a] + x /\ deposited'[a] = deposited[a] + x
  <2>1. /\ escrow' = [escrow EXCEPT ![b] = @ + amount]
        /\ deposited' = [deposited EXCEPT ![b] = @ + amount]
    BY DEF Credit
  <2>2. escrow \in [Agents -> Nat] /\ deposited \in [Agents -> Nat]
    BY DEF Typed, TypeOK
  <2>3. CASE a = b
    BY <2>1, <2>2, <2>3
  <2>4. CASE a # b
    BY <2>1, <2>2, <2>4
  <2> QED
    BY <2>3, <2>4
<1> HIDE DEF x, h
<1>7. /\ escrow[a] + totalPaid[a] + h <= deposited[a] =>
           (escrow[a] + x) + totalPaid[a] + h <= deposited[a] + x
      /\ escrow[a] + totalPaid[a] + h = deposited[a] =>
           (escrow[a] + x) + totalPaid[a] + h = deposited[a] + x
  BY <1>5
<1>8. Balanced(a)' <=> Closes(escrow[a] + x, totalPaid[a], h, deposited[a] + x, paidCount[a],
                              Cardinality(Recording(a)), Cardinality(Debits(a)), crashed)
  BY <1>1, <1>2, <1>3, <1>6 DEF Balanced, h
<1> QED
  BY <1>4, <1>7, <1>8, Zenon DEF Balanced, Closes, h

\* The debit and the mark of the nonce are one step: what leaves the escrow
\* is in the hand of the request, and the debit is counted once.
LEMMA BooksDebit ==
    ASSUME Typed, StatusInv, BooksInv, NEW s \in Slots, Consume(s),
           ConsumeOutcome(req[s].token.nonce, req[s].token.pubkey, req[s].token.amount) = "ok"
    PROVE  BooksInv'
<1> SUFFICES ASSUME NEW a \in Agents PROVE Balanced(a)'
  BY DEF BooksInv
<1> DEFINE t == req[s].token
<1>1. /\ pc[s] = "consume" /\ pc' = [pc EXCEPT ![s] = "record"]
      /\ escrow' = [escrow EXCEPT ![t.pubkey] = @ - t.amount]
      /\ charge' = [charge EXCEPT ![t.nonce] = [pubkey |-> t.pubkey, amount |-> t.amount]]
      /\ UNCHANGED <<totalPaid, paidCount, req, deposited, crashed>>
  BY DEF Consume
<1>2. t \in Tokens
  BY <1>1 DEF Typed, TokenInv
<1>3. t.nonce \in Nonces /\ t.pubkey \in Agents /\ t.amount \in Nat
  BY <1>2 DEF Tokens
<1>4. t.nonce \notin Charged
  <2>1. status[t.nonce] = "live"
    BY <1>3, OutcomeOk DEF Typed, TypeOK, Statuses
  <2> QED
    BY <1>3, <2>1 DEF StatusInv
<1>5. ~(escrow[t.pubkey] < t.amount)
  BY OutcomeOk
<1>6. req[s].token.amount = t.amount /\ req[s].token.pubkey = t.pubkey
  OBVIOUS
<1> HIDE DEF t
<1>7. /\ pc \in [Slots -> {"idle", "precheck", "consume", "record", "forward", "quote", "issue"}]
      /\ escrow \in [Agents -> Nat]
      /\ charge \in [Nonces -> [pubkey : Agents \cup {NoOne}, amount : Nat]]
  BY DEF Typed, TypeOK
<1>8. Balanced(a)
  BY DEF BooksInv
<1>9. CASE t.pubkey # a
  <2>1. Recording(a)' = Recording(a)
    BY <1>1, <1>6, <1>7, <1>9 DEF Recording
  <2>2. Debits(a)' = Debits(a)
    <3>1. charge[t.nonce].pubkey # a
      BY <1>3, <1>4 DEF Charged, NoCharge
    <3>2. charge'[t.nonce].pubkey = t.pubkey /\ \A n \in Nonces : n # t.nonce => charge'[n] = charge[n]
      BY <1>1, <1>3, <1>7
    <3> QED
      BY <1>9, <3>1, <3>2 DEF Debits
  <2>3. escrow'[a] = escrow[a]
    BY <1>1, <1>7, <1>9
  <2> QED
    BY <1>1, <1>8, <2>1, <2>2, <2>3 DEF Balanced
<1>10. CASE t.pubkey = a
  <2> DEFINE H == Recording(a)
  <2>0. IsFiniteSet(H) /\ \A u \in H : req[u].token.amount \in Nat
    BY BookNumbers
  <2>1. Recording(a)' = H \cup {s} /\ s \notin H
    <3>1. pc'[s] = "record" /\ \A u \in Slots : u # s => pc'[u] = pc[u]
      BY <1>1, <1>7
    <3> QED
      BY <1>1, <1>6, <1>10, <3>1 DEF Recording
  <2>2. Debits(a)' = Debits(a) \cup {t.nonce} /\ t.nonce \notin Debits(a)
    <3>1. charge[t.nonce].pubkey # a
      BY <1>3, <1>4 DEF Charged, NoCharge
    <3>2. charge'[t.nonce].pubkey = t.pubkey /\ \A n \in Nonces : n # t.nonce => charge'[n] = charge[n]
      BY <1>1, <1>3, <1>7
    <3> QED
      BY <1>3, <1>10, <3>1, <3>2 DEF Debits
  <2>3. escrow'[a] = escrow[a] - t.amount
    BY <1>1, <1>3, <1>7, <1>10
  <2>4. Held(req, H \cup {s}) = t.amount + Held(req, H)
    <3>1. IsFiniteSet(H \cup {s})
      BY <2>0, FS_AddElement
    <3>2. (H \cup {s}) \ {s} = H
      BY <2>1
    <3>3. \A u \in H \cup {s} : req[u].token.amount \in Nat
      BY <1>3, <1>6, <2>0
    <3> QED
      BY <1>6, <3>1, <3>2, <3>3, HeldRemove
  <2>5. Cardinality(H \cup {s}) = Cardinality(H) + 1
    BY <2>0, <2>1, FS_AddElement
  <2>6. Cardinality(Debits(a) \cup {t.nonce}) = Cardinality(Debits(a)) + 1
    BY <2>2, BookNumbers, FS_AddElement
  <2> DEFINE e == escrow[a]
             h == Held(req, H)
             x == t.amount
             m == Cardinality(H)
             k == Cardinality(Debits(a))
  <2>7. /\ e \in Nat /\ h \in Nat /\ x \in Nat /\ totalPaid[a] \in Nat /\ deposited[a] \in Nat
        /\ m \in Nat /\ k \in Nat /\ paidCount[a] \in Nat
    BY <1>3, BookNumbers
  <2>8. Balanced(a)' <=> Closes(e - x, totalPaid[a], x + h, deposited[a],
                                paidCount[a], m + 1, k + 1, crashed)
    BY <1>1, <2>1, <2>2, <2>3, <2>4, <2>5, <2>6 DEF Balanced
  <2>9. Closes(e, totalPaid[a], h, deposited[a], paidCount[a], m, k, crashed)
    BY <1>8 DEF Balanced
  <2> HIDE DEF e, h, x, m, k
  <2>10. /\ (e - x) + totalPaid[a] + (x + h) = e + totalPaid[a] + h
         /\ paidCount[a] + (m + 1) <= k + 1 <=> paidCount[a] + m <= k
         /\ paidCount[a] + (m + 1) = k + 1 <=> paidCount[a] + m = k
    BY <2>7
  <2> QED
    BY <2>8, <2>9, <2>10, Zenon DEF Closes
<1> QED
  BY <1>9, <1>10

\* recordPayment moves what the request holds into the payer's record.
LEMMA BooksRecord ==
    ASSUME Typed, BooksInv, NEW s \in Slots, RecordPayment(s)
    PROVE  BooksInv'
<1> SUFFICES ASSUME NEW a \in Agents PROVE Balanced(a)'
  BY DEF BooksInv
<1> DEFINE t == req[s].token
<1>1. /\ pc[s] = "record" /\ pc' = [pc EXCEPT ![s] = "forward"]
      /\ paidCount' = [paidCount EXCEPT ![t.pubkey] = @ + 1]
      /\ totalPaid' = [totalPaid EXCEPT ![t.pubkey] = @ + t.amount]
      /\ UNCHANGED <<escrow, req, charge, deposited, crashed>>
  BY DEF RecordPayment, reqVars, historyVars
<1>2. t \in Tokens
  BY <1>1 DEF Typed, TokenInv
<1>3. t.pubkey \in Agents /\ t.amount \in Nat
  BY <1>2 DEF Tokens
<1>4. req[s].token.amount = t.amount /\ req[s].token.pubkey = t.pubkey
  OBVIOUS
<1> HIDE DEF t
<1>5. /\ pc \in [Slots -> {"idle", "precheck", "consume", "record", "forward", "quote", "issue"}]
      /\ paidCount \in [Agents -> Nat] /\ totalPaid \in [Agents -> Nat]
  BY DEF Typed, TypeOK
<1>6. Debits(a)' = Debits(a)
  BY <1>1 DEF Debits
<1>7. Balanced(a)
  BY DEF BooksInv
<1>8. CASE t.pubkey # a
  <2>1. Recording(a)' = Recording(a)
    BY <1>1, <1>4, <1>5, <1>8 DEF Recording
  <2>2. paidCount'[a] = paidCount[a] /\ totalPaid'[a] = totalPaid[a]
    BY <1>1, <1>5, <1>8
  <2> QED
    BY <1>1, <1>6, <1>7, <2>1, <2>2 DEF Balanced
<1>9. CASE t.pubkey = a
  <2> DEFINE H == Recording(a)
  <2>0. IsFiniteSet(H) /\ \A u \in H : req[u].token.amount \in Nat
    BY BookNumbers
  <2>1. Recording(a)' = H \ {s} /\ s \in H
    <3>1. pc'[s] = "forward" /\ \A u \in Slots : u # s => pc'[u] = pc[u]
      BY <1>1, <1>5
    <3> QED
      BY <1>1, <1>4, <1>9, <3>1 DEF Recording
  <2>2. paidCount'[a] = paidCount[a] + 1 /\ totalPaid'[a] = totalPaid[a] + t.amount
    BY <1>1, <1>3, <1>5, <1>9
  <2>3. Held(req, H) = t.amount + Held(req, H \ {s})
    <3> HIDE DEF H
    <3>1. \A u \in H : Held(req, H) = req[u].token.amount + Held(req, H \ {u})
      BY <2>0, HeldRemove
    <3> QED
      BY <1>4, <2>1, <3>1
  <2>4. IsFiniteSet(H \ {s}) /\ Cardinality(H \ {s}) = Cardinality(H) - 1
    BY <2>0, <2>1, FS_RemoveElement
  <2>5. Held(req, H \ {s}) \in Nat
    BY <2>0, <2>4, HeldRemove
  <2> DEFINE g == Held(req, H \ {s})
             x == t.amount
             m == Cardinality(H)
             k == Cardinality(Debits(a))
             p == totalPaid[a]
             c == paidCount[a]
  <2>6. /\ escrow[a] \in Nat /\ g \in Nat /\ x \in Nat /\ p \in Nat
        /\ m \in Nat /\ k \in Nat /\ c \in Nat
    BY <1>3, <2>5, BookNumbers
  <2>7. Balanced(a)' <=> Closes(escrow[a], p + x, g, deposited[a], c + 1, m - 1, k, crashed)
    BY <1>1, <1>6, <2>1, <2>2, <2>4 DEF Balanced
  <2>8. Closes(escrow[a], p, x + g, deposited[a], c, m, k, crashed)
    BY <1>7, <2>3 DEF Balanced
  <2> HIDE DEF g, x, m, k, p, c
  <2>9. /\ escrow[a] + (p + x) + g = escrow[a] + p + (x + g)
        /\ (c + 1) + (m - 1) = c + m
    BY <2>6
  <2> QED
    BY <2>7, <2>8, <2>9, Zenon DEF Closes
<1> QED
  BY <1>8, <1>9

\* A crash in the window loses the record, never the debit.
LEMMA BooksCrash ==
    ASSUME Typed, BooksInv, Crash
    PROVE  BooksInv'
<1> SUFFICES ASSUME NEW a \in Agents PROVE Balanced(a)'
  BY DEF BooksInv
<1>1. /\ pc' = [u \in Slots |-> "idle"] /\ crashed'
      /\ UNCHANGED <<escrow, totalPaid, paidCount, charge, deposited>>
  BY DEF Crash, storeVars
<1>2. Recording(a)' = {}
  BY <1>1 DEF Recording
<1>3. Debits(a)' = Debits(a)
  BY <1>1 DEF Debits
<1>4. Held(req', {}) = 0 /\ Cardinality({}) = 0
  BY HeldRemove, FS_EmptySet
<1>5. Balanced(a)
  BY DEF BooksInv
<1> DEFINE h == Held(req, Recording(a))
           m == Cardinality(Recording(a))
           k == Cardinality(Debits(a))
<1>6. /\ escrow[a] \in Nat /\ totalPaid[a] \in Nat /\ h \in Nat /\ deposited[a] \in Nat
      /\ paidCount[a] \in Nat /\ m \in Nat /\ k \in Nat
  BY BookNumbers
<1>7. Held(req, Recording(a))' = 0 /\ Cardinality(Recording(a))' = 0
  BY <1>2, <1>4
<1>8. Balanced(a)' <=> Closes(escrow[a], totalPaid[a], 0, deposited[a], paidCount[a], 0, k, TRUE)
  BY <1>1, <1>3, <1>7 DEF Balanced
<1>9. escrow[a] + totalPaid[a] + h <= deposited[a] /\ paidCount[a] + m <= k
  BY <1>5 DEF Balanced, Closes
<1> HIDE DEF h, m, k
<1>10. escrow[a] + totalPaid[a] + 0 <= deposited[a] /\ paidCount[a] + 0 <= k
  BY <1>6, <1>9
<1> QED
  BY <1>8, <1>10, Zenon DEF Closes

LEMMA BooksInit == Init => BooksInv
<1> SUFFICES ASSUME Init, NEW a \in Agents PROVE Balanced(a)
  BY DEF BooksInv
<1>1. Recording(a) = {} /\ Debits(a) = {}
  BY DEF Init, Recording, Debits, NoCharge
<1>2. Held(req, {}) = 0 /\ Cardinality({}) = 0
  BY HeldRemove, FS_EmptySet
<1>3. escrow[a] = 0 /\ totalPaid[a] = 0 /\ deposited[a] = 0 /\ paidCount[a] = 0
  BY DEF Init
<1>4. Balanced(a) <=> Closes(0, 0, 0, 0, 0, 0, 0, crashed)
  BY <1>1, <1>2, <1>3 DEF Balanced
<1> QED
  BY <1>4 DEF Closes

LEMMA BooksStep == Typed /\ StatusInv /\ BooksInv /\ [Next]_vars => BooksInv'
<1> SUFFICES ASSUME Typed, StatusInv, BooksInv, [Next]_vars PROVE BooksInv'
  OBVIOUS
<1>0. pc \in [Slots -> {"idle", "precheck", "consume", "record", "forward", "quote", "issue"}]
      /\ req \in [Slots -> [token : Tokens \cup {NoToken}, hint : Agents \cup {NoOne}, base : Nat]]
  BY DEF Typed, TypeOK
<1>1. ASSUME NEW a \in Agents, NEW amount \in Deposits, Credit(a, amount)
      PROVE  BooksInv'
  BY <1>1, BooksCredit
<1>2. ASSUME NEW s \in Slots, NEW token \in Tokens \cup {NoToken},
             NEW hint \in Agents \cup {NoOne}, NEW base \in Quotes,
             Arrive(s, token, hint, base)
      PROVE  BooksInv'
  <2>1. /\ UNCHANGED <<escrow, totalPaid, paidCount, deposited, charge, crashed>>
        /\ \A u \in Slots : pc'[u] = "record" <=> pc[u] = "record"
        /\ \A u \in Slots : pc[u] = "record" => req'[u] = req[u]
    BY <1>0, <1>2 DEF Arrive, storeVars, historyVars
  <2> QED
    BY <2>1, BooksQuiet
<1>3. ASSUME NEW s \in Slots, PreCheck(s)
      PROVE  BooksInv'
  <2>1. /\ UNCHANGED <<escrow, totalPaid, paidCount, deposited, charge, crashed>>
        /\ \A u \in Slots : pc'[u] = "record" <=> pc[u] = "record"
        /\ \A u \in Slots : pc[u] = "record" => req'[u] = req[u]
    BY <1>0, <1>3 DEF PreCheck, Refuse, storeVars, historyVars
  <2> QED
    BY <2>1, BooksQuiet
<1>4. ASSUME NEW s \in Slots, Consume(s)
      PROVE  BooksInv'
  <2>1. CASE ConsumeOutcome(req[s].token.nonce, req[s].token.pubkey, req[s].token.amount) = "ok"
    BY <1>4, <2>1, BooksDebit
  <2>2. CASE ConsumeOutcome(req[s].token.nonce, req[s].token.pubkey, req[s].token.amount) # "ok"
    <3>1. /\ UNCHANGED <<escrow, totalPaid, paidCount, deposited, charge, crashed>>
          /\ \A u \in Slots : pc'[u] = "record" <=> pc[u] = "record"
          /\ \A u \in Slots : pc[u] = "record" => req'[u] = req[u]
      BY <1>0, <1>4, <2>2 DEF Consume, Refuse
    <3> QED
      BY <3>1, BooksQuiet
  <2> QED
    BY <2>1, <2>2
<1>5. ASSUME NEW s \in Slots, RecordPayment(s)
      PROVE  BooksInv'
  BY <1>5, BooksRecord
<1>6. ASSUME NEW s \in Slots,
             Forward(s) \/ QuoteScore(s) \/ \E n \in Nonces : IssueNonce(s, n)
      PROVE  BooksInv'
  <2>1. /\ UNCHANGED <<escrow, totalPaid, paidCount, deposited, charge, crashed>>
        /\ \A u \in Slots : pc'[u] = "record" <=> pc[u] = "record"
        /\ \A u \in Slots : pc[u] = "record" => req'[u] = req[u]
    BY <1>0, <1>6 DEF Forward, QuoteScore, IssueNonce, Leave, storeVars, historyVars
  <2> QED
    BY <2>1, BooksQuiet
<1>7. ASSUME NEW n \in Nonces, Expire(n)
      PROVE  BooksInv'
  <2>1. UNCHANGED <<escrow, totalPaid, paidCount, deposited, charge, crashed, pc, req>>
    BY <1>7 DEF Expire, reqVars, historyVars
  <2> QED
    BY <2>1, BooksQuiet
<1>8. CASE Crash
  BY <1>8, BooksCrash
<1>9. CASE UNCHANGED vars
  <2>1. UNCHANGED <<escrow, totalPaid, paidCount, deposited, charge, crashed, pc, req>>
    BY <1>9 DEF vars, storeVars, reqVars, historyVars
  <2> QED
    BY <2>1, BooksQuiet
<1> QED
  BY <1>1, <1>2, <1>3, <1>4, <1>5, <1>6, <1>7, <1>8, <1>9 DEF Next, Step

\* A deposit is in escrow, recorded as paid or held by a request between its
\* debit and its recordPayment, and the payments counted are the debits; a
\* crash in that window can only lose the record (recordPayment, index.js).
THEOREM BooksBalanceHolds == Spec => []BooksBalance
<1>1. Init => BooksInv
  BY BooksInit
<1>2. Typed /\ StatusInv /\ BooksInv /\ [Next]_vars => BooksInv'
  BY BooksStep
<1>3. SpendInv => StatusInv
  BY DEF SpendInv
<1>4. Typed /\ BooksInv => BooksBalance
  BY BooksClosed
<1> QED
  BY <1>1, <1>2, <1>3, <1>4, TypeCorrect, SpendCorrect, PTL DEF Spec
=============================================================================
