--------------------------- MODULE ServiceProofs ---------------------------
(***************************************************************************)
(* Proofs about modules Service and Cooperative, for any number of calls,  *)
(* slots and starts, any prices and budget, and every QOS_MODE: an agent   *)
(* is charged what it agreed to, a drain keeps its promise, no more slots  *)
(* are taken than there are, and the fallback of an operator that stays    *)
(* unreachable has no gap.                                                 *)
(***************************************************************************)
EXTENDS Service, FiniteSetTheorems, TLAPS

USE CooperativeAssumption, ServiceAssumption

-----------------------------------------------------------------------------
(* Slots.                                                                  *)

Places == {"none", "shield", "passed", "queued", "running", "proxied"}

Holding(s) == {c \in Calls : s[c] = "running"}

LEMMA Finite ==
    \A S \in SUBSET Calls : IsFiniteSet(S) /\ Cardinality(S) \in Nat
BY FS_Subset, FS_CardinalityType

\* Fewer requests hold fewer slots.
LEMMA Fewer ==
    ASSUME NEW S \in SUBSET Calls, NEW T \in SUBSET S
    PROVE  Cardinality(T) <= Cardinality(S)
BY Finite, FS_Subset

\* Those that take a slot are none of those that have one.
LEMMA Joined ==
    ASSUME NEW S \in SUBSET Calls, NEW T \in SUBSET Calls, S \cap T = {}
    PROVE  Cardinality(S \cup T) = Cardinality(S) + Cardinality(T)
<1>1. IsFiniteSet(S) /\ IsFiniteSet(T) /\ Cardinality(S) \in Nat /\ Cardinality(T) \in Nat
  BY Finite
<1>2. Cardinality(S \cup T) = Cardinality(S) + Cardinality(T) - Cardinality(S \cap T)
  BY <1>1, FS_Union
<1>3. Cardinality(S \cap T) = 0
  BY FS_EmptySet
<1> QED
  BY <1>1, <1>2, <1>3

\* qosOnSlotFree does not take more slots than there are, and moves requests
\* from the queue only.
LEMMA DispatchedFits ==
    ASSUME NEW s \in [Calls -> Places], NEW held \in Nat,
           held + Cardinality(Holding(s)) <= MaxInflight,
           Dispatched(s, held)
    PROVE  /\ srv' \in [Calls -> Places]
           /\ held + Cardinality(Holding(srv')) <= MaxInflight
           /\ \A c \in Calls : srv'[c] = s[c] \/ (s[c] = "queued" /\ srv'[c] = "running")
<1> DEFINE queued == {c \in Calls : s[c] = "queued"}
           free == MaxInflight - held - Cardinality(Holding(s))
           n == IF free < Cardinality(queued) THEN free ELSE Cardinality(queued)
<1>1. PICK D \in SUBSET queued :
        Cardinality(D) = n /\ srv' = [c \in Calls |-> IF c \in D THEN "running" ELSE s[c]]
  BY DEF Dispatched, Holding
<1>2. srv' \in [Calls -> Places] /\ \A c \in Calls : srv'[c] = s[c] \/ (s[c] = "queued" /\ srv'[c] = "running")
  BY <1>1 DEF Places
<1>3. Holding(srv') = Holding(s) \cup D /\ Holding(s) \cap D = {}
  BY <1>1 DEF Holding
<1>4. Cardinality(Holding(srv')) = Cardinality(Holding(s)) + n
  BY <1>1, <1>3, Joined DEF Holding
<1>5. Cardinality(Holding(s)) \in Nat /\ Cardinality(queued) \in Nat
  BY Finite DEF Holding
<1>6. n <= free /\ n \in Int
  BY <1>5
<1> HIDE DEF n, queued
<1> QED
  BY <1>2, <1>4, <1>5, <1>6

-----------------------------------------------------------------------------
(* Types.                                                                  *)

States == {"idle", "asking", "deciding", "paying", "served", "failed"}

CallsOK ==
    /\ call \in [Calls -> [pc : States, price : Nat]]
    /\ balance \in Nat
    /\ debits \in [Calls -> Nat]

PhaseOK ==
    /\ phase \in {"booting", "up", "draining", "closing", "down"}
    /\ overdue \in BOOLEAN
    /\ promised \subseteq Calls /\ cut \subseteq Calls
    /\ lost \in 0..MaxLost
    /\ boots \in 1..MaxBoots

SlotsOK ==
    /\ srv \in [Calls -> Places]
    /\ others \in Nat
    /\ others + Cardinality(Holding(srv)) <= MaxInflight

LEMMA TypeParts == TypeOK <=> CoopTypeOK /\ CallsOK /\ PhaseOK /\ SlotsOK
BY DEF TypeOK, CallsOK, PhaseOK, SlotsOK, States, Places, At, Holding

LEMMA TypePartsNext == CoopTypeOK' /\ CallsOK' /\ PhaseOK' /\ SlotsOK' => TypeOK'
BY DEF TypeOK, CallsOK, PhaseOK, SlotsOK, States, Places, At, Holding

\* Requests that leave free slots.
LEMMA SlotsKept ==
    ASSUME SlotsOK, srv' \in [Calls -> Places], others' \in Nat, others' <= others,
           Holding(srv') \subseteq Holding(srv)
    PROVE  SlotsOK'
<1>1. Cardinality(Holding(srv')) <= Cardinality(Holding(srv))
  BY Fewer DEF Holding
<1>2. Cardinality(Holding(srv')) \in Nat /\ Cardinality(Holding(srv)) \in Nat
  BY Finite DEF Holding
<1> QED
  BY <1>1, <1>2 DEF SlotsOK

\* Requests that leave, and others that take their slots.
LEMMA SlotsPassedOn ==
    ASSUME SlotsOK, NEW s \in [Calls -> Places], Holding(s) \subseteq Holding(srv),
           others' \in Nat, others' <= others, Dispatched(s, others')
    PROVE  SlotsOK'
<1>1. Cardinality(Holding(s)) <= Cardinality(Holding(srv))
  BY Fewer DEF Holding
<1>2. Cardinality(Holding(s)) \in Nat /\ Cardinality(Holding(srv)) \in Nat
  BY Finite DEF Holding
<1>3. others' + Cardinality(Holding(s)) <= MaxInflight
  BY <1>1, <1>2 DEF SlotsOK
<1>4. srv' \in [Calls -> Places] /\ others' + Cardinality(Holding(srv')) <= MaxInflight
  BY <1>3, DispatchedFits
<1> QED
  BY <1>4 DEF SlotsOK

LEMMA TypeInit == Init => TypeOK
<1> SUFFICES ASSUME Init PROVE TypeOK
  OBVIOUS
<1>1. CoopTypeOK
  BY DEF Init, CoopInit, Fresh, CoopTypeOK
<1>2. CallsOK
  BY DEF Init, CallsOK, States, Idle
<1>3. PhaseOK
  <2>0. boots = 1 /\ lost = 0 /\ overdue = FALSE
    BY DEF Init
  <2>1. 1 \in 1..MaxBoots
    OBVIOUS
  <2>2. 0 \in 0..MaxLost
    OBVIOUS
  <2> QED
    BY <2>0, <2>1, <2>2 DEF Init, PhaseOK
<1>4. SlotsOK
  <2>1. srv \in [Calls -> Places] /\ others = 0
    BY DEF Init, Places
  <2>2. Holding(srv) = {}
    BY DEF Init, Holding
  <2> QED
    BY <2>1, <2>2, FS_EmptySet DEF SlotsOK
<1> QED
  BY <1>1, <1>2, <1>3, <1>4, TypeParts

LEMMA CoopStep == CoopTypeOK /\ ProbeStep => CoopTypeOK'
<1> SUFFICES ASSUME CoopTypeOK, ProbeStep PROVE CoopTypeOK'
  OBVIOUS
<1> USE DEF CoopTypeOK
<1>1. CASE SendProbe
  BY <1>1 DEF SendProbe
<1>2. CASE ProbeSucceeds
  <2>1. successes' \in 0..Reprobe /\ fallback' \in Nat
    BY <1>2 DEF ProbeSucceeds
  <2> QED
    BY <1>2, <2>1 DEF ProbeSucceeds
<1>3. CASE ProbeFails
  <2>1. ForcedFor \in Nat /\ 0 \in 0..FailingCap
    BY DEF ForcedFor, FailingCap
  <2>2. fallback' \in Nat
    BY <1>3, <2>1 DEF ProbeFails, Forced
  <2> QED
    BY <1>3, <2>1, <2>2 DEF ProbeFails
<1>4. CASE CoopTick
  <2>1. FailingCap \in Nat
    BY DEF FailingCap
  <2>2. failing' \in {Healthy} \cup (0..FailingCap)
    BY <1>4, <2>1 DEF CoopTick
  <2>3. probing' \in {NoProbe} \cup (0..ProbeTimeout)
    BY <1>4 DEF CoopTick
  <2>4. fallback' \in Nat /\ due' \in 0..Interval
    BY <1>4 DEF CoopTick
  <2> QED
    BY <1>4, <2>2, <2>3, <2>4 DEF CoopTick
<1> QED
  BY <1>1, <1>2, <1>3, <1>4 DEF ProbeStep

\* A step that concerns one call.
LEMMA CallType ==
    ASSUME TypeOK, NEW c \in Calls, Client(c) \/ Serve(c) \/ Disconnect(c)
    PROVE  TypeOK'
<1>1. CoopTypeOK /\ CallsOK /\ PhaseOK /\ SlotsOK
  BY TypeParts
<1> USE DEF Waiting, Paid
<1>2. PhaseOK'
  <2>1. UNCHANGED phaseVars /\ lost' \in 0..MaxLost
    <3>1. CASE Disconnect(c)
      BY <1>1, <3>1 DEF Disconnect, phaseVars, PhaseOK
    <3> QED
      BY <1>1, <3>1 DEF Client, Serve, Ask, Unreached, Pay, Decline, Challenge, LetPass, Debit,
            Refuse, Forward, Enqueue, QueueTimeout, Respond, phaseVars, PhaseOK
  <2> QED
    BY <1>1, <2>1 DEF PhaseOK, phaseVars
<1>3. CoopTypeOK'
  <2>1. CASE Respond(c)
    BY <1>1, <2>1 DEF Respond, Overloaded, CoopTypeOK
  <2>2. CASE ~Respond(c)
    <3>1. UNCHANGED coopVars
      BY <2>2 DEF Client, Serve, Ask, Unreached, Pay, Decline, Challenge, LetPass, Debit,
            Refuse, Forward, Enqueue, QueueTimeout, Disconnect, coopVars
    <3> QED
      BY <1>1, <3>1 DEF CoopTypeOK, coopVars
  <2> QED
    BY <2>1, <2>2
<1>4. CallsOK'
  <2> USE <1>1 DEF CallsOK, States
  <2>1. CASE Client(c)
    BY <2>1 DEF Client, Ask, Unreached, Pay, Decline, Idle
  <2>2. ASSUME NEW price \in Prices, Challenge(c, price) PROVE CallsOK'
    BY <2>2 DEF Challenge, OnChallengeOf
  <2>3. CASE LetPass(c) \/ Forward(c) \/ Enqueue(c)
    BY <2>3 DEF LetPass, Forward, Enqueue
  <2>4. CASE Debit(c)
    BY <2>4 DEF Debit
  <2>5. CASE Refuse(c) \/ QueueTimeout(c) \/ Respond(c)
    BY <2>5 DEF Refuse, QueueTimeout, Respond, OnAnswer
  <2>6. CASE Disconnect(c)
    BY <2>6 DEF Disconnect
  <2> QED
    BY <2>1, <2>2, <2>3, <2>4, <2>5, <2>6 DEF Serve
<1>5. SlotsOK'
  <2>1. srv \in [Calls -> Places] /\ others \in Nat
    BY <1>1 DEF SlotsOK
  <2>2. CASE Enqueue(c)
    <3> DEFINE s == [srv EXCEPT ![c] = "queued"]
    <3>1. s \in [Calls -> Places]
      BY <2>1 DEF Places
    <3>2. Holding(s) \subseteq Holding(srv)
      BY <2>1 DEF Holding
    <3>3. Dispatched(s, others') /\ others' = others
      BY <2>2 DEF Enqueue
    <3> HIDE DEF s
    <3> QED
      BY <1>1, <2>1, <3>1, <3>2, <3>3, SlotsPassedOn
  <2>3. CASE Respond(c)
    <3> DEFINE s == [srv EXCEPT ![c] = "none"]
    <3>1. s \in [Calls -> Places]
      BY <2>1 DEF Places
    <3>2. Holding(s) \subseteq Holding(srv)
      BY <2>1 DEF Holding
    <3>3. Dispatched(s, others') /\ others' = others
      BY <2>3 DEF Respond
    <3> HIDE DEF s
    <3> QED
      BY <1>1, <2>1, <3>1, <3>2, <3>3, SlotsPassedOn
  <2>4. CASE Disconnect(c)
    <3> DEFINE s == IF srv[c] = "running" THEN [srv EXCEPT ![c] = "none"] ELSE srv
    <3>1. s \in [Calls -> Places]
      BY <2>1 DEF Places
    <3>2. Holding(s) \subseteq Holding(srv)
      BY <2>1 DEF Holding
    <3>3. Dispatched(s, others') /\ others' = others
      BY <2>4 DEF Disconnect
    <3> HIDE DEF s
    <3> QED
      BY <1>1, <2>1, <3>1, <3>2, <3>3, SlotsPassedOn
  <2>5. CASE Client(c) \/ (Serve(c) /\ ~Enqueue(c) /\ ~Respond(c))
    <3>1. others' = others /\ srv' \in [Calls -> Places]
      BY <2>1, <2>5 DEF Client, Serve, Ask, Unreached, Pay, Decline, Challenge, LetPass, Debit,
            Refuse, Forward, QueueTimeout, Leave, Places
    <3>2. Holding(srv') \subseteq Holding(srv)
      BY <2>1, <2>5 DEF Client, Serve, Ask, Unreached, Pay, Decline, Challenge, LetPass, Debit,
            Refuse, Forward, QueueTimeout, Leave, Holding
    <3> QED
      BY <1>1, <2>1, <3>1, <3>2, SlotsKept
  <2> QED
    BY <2>2, <2>3, <2>4, <2>5
<1> QED
  BY <1>2, <1>3, <1>4, <1>5, TypePartsNext

\* The process goes, and the rest of the step is as Vanish says.
LEMMA VanishType ==
    ASSUME TypeOK, Vanish, cut' \subseteq Calls
    PROVE  TypeOK'
<1>1. CoopTypeOK /\ CallsOK /\ PhaseOK /\ SlotsOK
  BY TypeParts
<1>2. CoopTypeOK'
  BY <1>1 DEF Vanish, CoopTypeOK, coopVars
<1>3. CallsOK'
  BY <1>1 DEF Vanish, CallsOK, States, Waiting
<1>4. PhaseOK'
  BY <1>1 DEF Vanish, PhaseOK
<1>5. SlotsOK'
  <2>1. srv' \in [Calls -> Places] /\ others' = 0 /\ others \in Nat
    BY <1>1 DEF Vanish, Places, SlotsOK
  <2>2. Holding(srv') \subseteq Holding(srv)
    BY DEF Vanish, Holding
  <2> QED
    BY <1>1, <2>1, <2>2, SlotsKept
<1> QED
  BY <1>2, <1>3, <1>4, <1>5, TypePartsNext

\* The invariant types; at most MaxInflight slots are taken.
LEMMA TypeStep == TypeOK /\ [Next]_vars => TypeOK'
<1> SUFFICES ASSUME TypeOK, [Next]_vars PROVE TypeOK'
  OBVIOUS
<1>1. CoopTypeOK /\ CallsOK /\ PhaseOK /\ SlotsOK
  BY TypeParts
<1> USE DEF vars, callVars, phaseVars
<1>2. ASSUME UNCHANGED <<callVars, others>>, CoopTypeOK', PhaseOK' PROVE TypeOK'
  <2>1. CallsOK'
    BY <1>1, <1>2 DEF CallsOK
  <2>2. SlotsOK'
    BY <1>1, <1>2 DEF SlotsOK, Holding
  <2> QED
    BY <1>2, <2>1, <2>2, TypePartsNext
<1>3. ASSUME UNCHANGED coopVars PROVE CoopTypeOK'
  BY <1>1, <1>3 DEF CoopTypeOK, coopVars
<1>4. ASSUME UNCHANGED <<phaseVars, lost>> PROVE PhaseOK'
  BY <1>1, <1>4 DEF PhaseOK
<1>5. ASSUME NEW c \in Calls, Client(c) \/ Serve(c) \/ Disconnect(c) PROVE TypeOK'
  BY <1>5, CallType
<1>6. CASE OtherEnters \/ OtherLeaves
  <2>1. CoopTypeOK' /\ PhaseOK'
    BY <1>3, <1>4, <1>6 DEF OtherEnters, OtherLeaves
  <2>2. CallsOK'
    BY <1>1, <1>6 DEF OtherEnters, OtherLeaves, CallsOK
  <2>3. CASE OtherEnters
    <3>1. At("running") = Holding(srv) /\ Cardinality(Holding(srv)) \in Nat
      BY Finite DEF At, Holding
    <3> QED
      BY <1>1, <2>1, <2>2, <2>3, <3>1, TypePartsNext DEF OtherEnters, SlotsOK, Holding
  <2>4. CASE OtherLeaves
    <3>1. others' \in Nat /\ others' <= others /\ Dispatched(srv, others')
      BY <1>1, <2>4 DEF OtherLeaves, SlotsOK
    <3>2. srv \in [Calls -> Places] /\ Holding(srv) \subseteq Holding(srv)
      BY <1>1 DEF SlotsOK
    <3> QED
      BY <1>1, <2>1, <2>2, <3>1, <3>2, SlotsPassedOn, TypePartsNext
  <2> QED
    BY <1>6, <2>3, <2>4
<1>7. CASE Listen \/ Signal \/ Deadline \/ DrainTick
  <2>1. PhaseOK'
    <3>1. Pending \subseteq Calls
      BY DEF Pending, At
    <3> QED
      BY <1>1, <1>7, <3>1 DEF Listen, Signal, Deadline, DrainTick, PhaseOK
  <2> QED
    BY <1>2, <1>3, <1>7, <2>1 DEF Listen, Signal, Deadline, DrainTick
<1>8. CASE Die
  BY <1>1, <1>8, VanishType DEF Die, PhaseOK
<1>9. CASE Exit
  <2>1. Vanish /\ cut' \subseteq Calls
    BY <1>1, <1>9 DEF Exit, PhaseOK
  <2> QED
    BY <2>1, VanishType
<1>10. CASE Restart
  <2>1. PhaseOK'
    <3>1. boots' \in 1..MaxBoots
      BY <1>1, <1>10 DEF Restart, PhaseOK
    <3> QED
      BY <1>1, <1>10, <3>1 DEF Restart, PhaseOK
  <2>2. CoopTypeOK'
    BY <1>1, <1>10 DEF Restart, CoopTypeOK
  <2> QED
    BY <1>2, <1>10, <2>1, <2>2 DEF Restart
<1>11. CASE Probe
  <2>1. CoopTypeOK'
    BY <1>1, <1>11, CoopStep DEF Probe
  <2> QED
    BY <1>2, <1>4, <1>11, <2>1 DEF Probe
<1>12. CASE Operator
  <2>1. CoopTypeOK'
    BY <1>1, <1>12 DEF Operator, OperatorTurns, CoopTypeOK
  <2> QED
    BY <1>2, <1>4, <1>12, <2>1 DEF Operator
<1>13. CASE UNCHANGED vars
  BY <1>2, <1>3, <1>4, <1>13 DEF coopVars
<1> QED
  BY <1>5, <1>6, <1>7, <1>8, <1>9, <1>10, <1>11, <1>12, <1>13 DEF Next

\* The invariant types; in particular the slots taken by the agent's requests
\* and by other clients' are at most MaxInflight together (qosOnSlotFree).
THEOREM TypeCorrect == Spec => []TypeOK
BY TypeInit, TypeStep, PTL DEF Spec

-----------------------------------------------------------------------------
(* Where a call and its request can be together, and what has been debited *)
(* there.                                                                  *)

\* The request of c stays where it is, or leaves the queue for a slot.
Stays(c) == srv'[c] = srv[c] \/ (srv[c] = "queued" /\ srv'[c] = "running")

Agreed(c) ==
    /\ debits[c] \in {0, call[c].price}
    /\ call[c].price <= Budget
    /\ call[c].pc \in {"idle", "asking"} => call[c].price = 0
    /\ call[c].pc \in {"idle", "deciding"} => srv[c] = "none" /\ debits[c] = 0
    /\ Waiting(c) => srv[c] # "none"
    /\ srv[c] = "shield" => debits[c] = 0
    /\ srv[c] \in {"passed", "queued", "running", "proxied"} => debits[c] = call[c].price
    /\ call[c].pc = "served" => debits[c] = call[c].price

ChargeInv == \A c \in Calls : Agreed(c)

LEMMA AgreedStays ==
    ASSUME TypeOK, NEW c \in Calls, Agreed(c), Stays(c),
           call'[c] = call[c], debits'[c] = debits[c]
    PROVE  Agreed(c)'
BY DEF Agreed, Stays, Waiting

\* qosOnSlotFree moves requests from the queue only.
LEMMA DispatchedMoves ==
    ASSUME NEW s, NEW held, Dispatched(s, held), NEW c \in Calls
    PROVE  srv'[c] = s[c] \/ (s[c] = "queued" /\ srv'[c] = "running")
BY DEF Dispatched

\* A step of one call leaves the others where they are, but for the queue.
LEMMA OthersStay ==
    ASSUME TypeOK, NEW c \in Calls, Client(c) \/ Serve(c) \/ Disconnect(c),
           NEW d \in Calls, d # c
    PROVE  Stays(d) /\ call'[d] = call[d] /\ debits'[d] = debits[d]
<1>1. CallsOK /\ SlotsOK
  BY TypeParts
<1> USE <1>1 DEF CallsOK, SlotsOK, Stays
<1>2. CASE Client(c)
  BY <1>2 DEF Client, Ask, Unreached, Pay, Decline
<1>3. ASSUME NEW price \in Prices, Challenge(c, price)
      PROVE  Stays(d) /\ call'[d] = call[d] /\ debits'[d] = debits[d]
  BY <1>3 DEF Challenge, OnChallengeOf, Leave
<1>4. CASE LetPass(c) \/ Debit(c) \/ Forward(c)
  BY <1>4 DEF LetPass, Debit, Forward
<1>5. CASE Refuse(c) \/ QueueTimeout(c)
  BY <1>5 DEF Refuse, QueueTimeout, Leave, OnAnswer
<1>6. CASE Enqueue(c)
  <2> DEFINE s == [srv EXCEPT ![c] = "queued"]
  <2>1. Dispatched(s, others) /\ UNCHANGED <<call, debits>>
    BY <1>6 DEF Enqueue
  <2>2. s[d] = srv[d]
    OBVIOUS
  <2> HIDE DEF s
  <2> QED
    BY <2>1, <2>2, DispatchedMoves
<1>7. CASE Respond(c)
  <2> DEFINE s == [srv EXCEPT ![c] = "none"]
  <2>1. Dispatched(s, others) /\ call'[d] = call[d] /\ UNCHANGED debits
    BY <1>7 DEF Respond, OnAnswer
  <2>2. s[d] = srv[d]
    OBVIOUS
  <2> HIDE DEF s
  <2> QED
    BY <2>1, <2>2, DispatchedMoves
<1>8. CASE Disconnect(c)
  <2> DEFINE s == IF srv[c] = "running" THEN [srv EXCEPT ![c] = "none"] ELSE srv
  <2>1. Dispatched(s, others) /\ call'[d] = call[d] /\ UNCHANGED debits
    BY <1>8 DEF Disconnect
  <2>2. s[d] = srv[d]
    OBVIOUS
  <2> HIDE DEF s
  <2> QED
    BY <2>1, <2>2, DispatchedMoves
<1> QED
  BY <1>2, <1>3, <1>4, <1>5, <1>6, <1>7, <1>8 DEF Serve

\* A step of a call keeps what is debited for it in line with its price.
LEMMA AgreedStep ==
    ASSUME TypeOK, NEW c \in Calls, Agreed(c), Client(c) \/ Serve(c) \/ Disconnect(c)
    PROVE  Agreed(c)'
<1>1. CallsOK /\ SlotsOK
  BY TypeParts
<1>2. call[c] \in [pc : States, price : Nat] /\ srv[c] \in Places /\ debits[c] \in Nat
  BY <1>1 DEF CallsOK, SlotsOK
<1> USE <1>1, <1>2 DEF CallsOK, SlotsOK, Agreed, Waiting, Paid, States, Places
<1>3. CASE Client(c)
  BY <1>3 DEF Client, Ask, Unreached, Pay, Decline, Idle
<1>4. ASSUME NEW price \in Prices, Challenge(c, price) PROVE Agreed(c)'
  <2>1. price \in Nat /\ srv'[c] = "none" /\ debits' = debits
    BY <1>4 DEF Challenge, Leave
  <2>2. CASE ~Waiting(c)
    <3>1. call' = call
      BY <1>4, <2>2 DEF Challenge, OnChallengeOf
    <3> QED
      BY <1>4, <2>1, <2>2, <3>1 DEF Challenge
  <2>3. CASE Waiting(c) /\ Acceptable(price)
    BY <1>4, <2>1, <2>3 DEF Challenge, OnChallengeOf, Acceptable
  <2>4. CASE Waiting(c) /\ ~Acceptable(price)
    BY <1>4, <2>1, <2>4 DEF Challenge, OnChallengeOf
  <2> QED
    BY <2>2, <2>3, <2>4
<1>5. CASE LetPass(c) \/ Forward(c)
  BY <1>5 DEF LetPass, Forward
<1>6. CASE Debit(c)
  BY <1>6 DEF Debit
<1>7. CASE Refuse(c) \/ QueueTimeout(c)
  BY <1>7 DEF Refuse, QueueTimeout, Leave, OnAnswer
<1>8. CASE Enqueue(c)
  <2> DEFINE s == [srv EXCEPT ![c] = "queued"]
  <2>1. Dispatched(s, others) /\ UNCHANGED <<call, debits>> /\ srv[c] = "passed"
    BY <1>8 DEF Enqueue
  <2>2. s[c] = "queued"
    OBVIOUS
  <2>3. srv'[c] \in {"queued", "running"}
    <3> HIDE DEF s
    <3> QED
      BY <2>1, <2>2, DispatchedMoves
  <2> QED
    BY <2>1, <2>3
<1>9. CASE Respond(c)
  <2> DEFINE s == [srv EXCEPT ![c] = "none"]
  <2>1. Dispatched(s, others) /\ UNCHANGED debits /\ srv[c] \in {"running", "proxied"}
    BY <1>9 DEF Respond
  <2>2. s[c] = "none"
    OBVIOUS
  <2>3. srv'[c] = "none"
    <3> HIDE DEF s
    <3> QED
      BY <2>1, <2>2, DispatchedMoves
  <2> QED
    BY <1>9, <2>1, <2>3 DEF Respond, OnAnswer
<1>10. CASE Disconnect(c)
  <2> DEFINE s == IF srv[c] = "running" THEN [srv EXCEPT ![c] = "none"] ELSE srv
  <2>1. Dispatched(s, others) /\ UNCHANGED debits /\ call' = [call EXCEPT ![c].pc = "failed"]
    BY <1>10 DEF Disconnect
  <2>2. s[c] \in {srv[c], "none"}
    OBVIOUS
  <2>3. srv'[c] \in {srv[c], "none"} \/ (srv[c] = "queued" /\ srv'[c] = "running")
    <3> HIDE DEF s
    <3> QED
      BY <2>1, <2>2, DispatchedMoves
  <2> QED
    BY <2>1, <2>3
<1> QED
  BY <1>3, <1>4, <1>5, <1>6, <1>7, <1>8, <1>9, <1>10 DEF Serve

\* The process dies: those who waited have failed.
LEMMA AgreedVanish ==
    ASSUME TypeOK, NEW c \in Calls, Agreed(c), Vanish
    PROVE  Agreed(c)'
<1>1. CallsOK /\ SlotsOK
  BY TypeParts
<1> QED
  BY <1>1 DEF Vanish, Agreed, Waiting, CallsOK, States

\* Other clients take and leave slots.
LEMMA OthersMove ==
    ASSUME TypeOK, OtherEnters \/ OtherLeaves, NEW c \in Calls
    PROVE  Stays(c) /\ call'[c] = call[c] /\ debits'[c] = debits[c]
<1>1. CASE OtherEnters
  BY <1>1 DEF OtherEnters, callVars, Stays
<1>2. CASE OtherLeaves
  <2>1. Dispatched(srv, others - 1) /\ UNCHANGED <<call, debits>>
    BY <1>2 DEF OtherLeaves
  <2> QED
    BY <2>1, DispatchedMoves DEF Stays
<1> QED
  BY <1>1, <1>2

LEMMA ChargeStep == TypeOK /\ ChargeInv /\ [Next]_vars => ChargeInv'
<1> SUFFICES ASSUME TypeOK, ChargeInv, [Next]_vars, NEW c \in Calls
             PROVE  Agreed(c)'
  BY DEF ChargeInv
<1>1. Agreed(c)
  BY DEF ChargeInv
<1>2. ASSUME NEW d \in Calls, Client(d) \/ Serve(d) \/ Disconnect(d) PROVE Agreed(c)'
  <2>1. CASE d = c
    BY <1>1, <1>2, <2>1, AgreedStep
  <2>2. CASE d # c
    BY <1>1, <1>2, <2>2, OthersStay, AgreedStays
  <2> QED
    BY <2>1, <2>2
<1>3. CASE OtherEnters \/ OtherLeaves
  BY <1>1, <1>3, OthersMove, AgreedStays
<1>4. CASE Die \/ Exit
  BY <1>1, <1>4, AgreedVanish DEF Die, Exit
<1>5. CASE Listen \/ Signal \/ Deadline \/ DrainTick \/ Restart \/ Probe \/ Operator
           \/ UNCHANGED vars
  <2>1. UNCHANGED callVars
    BY <1>5 DEF Listen, Signal, Deadline, DrainTick, Restart, Probe, Operator, vars
  <2> QED
    BY <1>1, <2>1, AgreedStays DEF callVars, Stays
<1> QED
  BY <1>2, <1>3, <1>4, <1>5 DEF Next

LEMMA ChargeInit == Init => ChargeInv
BY DEF Init, ChargeInv, Agreed, Waiting, Idle

LEMMA ChargeCorrect == Spec => []ChargeInv
BY TypeInit, TypeStep, ChargeInit, ChargeStep, PTL DEF Spec

\* A call is charged at most once, the price its user approved, within its
\* budget, and nobody is served on credit (_fetchWithX402 against
\* verifyX402Authorization).
THEOREM ChargedAsAgreedHolds == Spec => []ChargedAsAgreed
<1>1. TypeOK /\ ChargeInv => ChargedAsAgreed
  <2> SUFFICES ASSUME TypeOK, ChargeInv, NEW c \in Calls
               PROVE  /\ debits[c] # 0 => /\ debits[c] = call[c].price
                                          /\ debits[c] <= Budget
                                          /\ call[c].pc \in {"paying", "served", "failed"}
                      /\ call[c].pc = "served" /\ Paid(c) => debits[c] = call[c].price
    BY DEF ChargedAsAgreed
  <2>1. call[c].pc \in States /\ Agreed(c)
    BY DEF TypeOK, States, ChargeInv
  <2> QED
    BY <2>1 DEF Agreed, States
<1> QED
  BY <1>1, TypeCorrect, ChargeCorrect, PTL

-----------------------------------------------------------------------------
(* The drain.                                                              *)

\* What becomes of a request that was promised to be served.
Kept(c) ==
    \/ srv[c] = "none" /\ call[c].pc \in {"served", "failed"}
    \/ srv[c] \in {"queued", "running"} /\ (phase = "draining" \/ overdue)

DrainInv ==
    /\ phase \in {"draining", "closing"} => \A c \in promised : Kept(c)
    /\ cut = {}

LEMMA KeptStays ==
    ASSUME TypeOK, NEW c \in Calls, Kept(c), Stays(c), call'[c] = call[c],
           UNCHANGED <<phase, overdue>>
    PROVE  Kept(c)'
BY DEF Kept, Stays

\* A promised request leaves the queue or its slot for good.
LEMMA KeptStep ==
    ASSUME TypeOK, NEW c \in Calls, Agreed(c), Kept(c),
           Client(c) \/ Serve(c) \/ Disconnect(c)
    PROVE  Kept(c)'
<1>1. CallsOK /\ SlotsOK
  BY TypeParts
<1>2. call[c] \in [pc : States, price : Nat] /\ srv[c] \in Places
  BY <1>1 DEF CallsOK, SlotsOK
<1> USE <1>1, <1>2 DEF CallsOK, SlotsOK, Kept, States, Places, phaseVars
<1>3. CASE Client(c)
  BY <1>3 DEF Client, Ask, Unreached, Pay, Decline, Agreed
<1>4. CASE Serve(c) /\ ~QueueTimeout(c) /\ ~Respond(c)
  BY <1>4 DEF Serve, Challenge, LetPass, Debit, Refuse, Forward, Enqueue
<1>5. CASE QueueTimeout(c)
  BY <1>5 DEF QueueTimeout, Leave, OnAnswer, Waiting, Agreed
<1>6. CASE Respond(c)
  <2> DEFINE s == [srv EXCEPT ![c] = "none"]
  <2>1. Dispatched(s, others) /\ srv[c] \in {"running", "proxied"}
    BY <1>6 DEF Respond
  <2>2. s[c] = "none"
    OBVIOUS
  <2>3. srv'[c] = "none"
    <3> HIDE DEF s
    <3> QED
      BY <2>1, <2>2, DispatchedMoves
  <2> QED
    BY <1>6, <2>1, <2>3 DEF Respond, OnAnswer, Waiting, Agreed
<1>7. CASE Disconnect(c)
  <2> DEFINE s == IF srv[c] = "running" THEN [srv EXCEPT ![c] = "none"] ELSE srv
  <2>1. Dispatched(s, others) /\ call' = [call EXCEPT ![c].pc = "failed"]
    BY <1>7 DEF Disconnect
  <2>2. s[c] \in {srv[c], "none"}
    OBVIOUS
  <2>3. srv'[c] \in {srv[c], "none"} \/ (srv[c] = "queued" /\ srv'[c] = "running")
    <3> HIDE DEF s
    <3> QED
      BY <2>1, <2>2, DispatchedMoves
  <2> QED
    BY <1>7, <2>1, <2>3 DEF Disconnect
<1> QED
  BY <1>3, <1>4, <1>5, <1>6, <1>7 DEF Serve

LEMMA DrainStep == TypeOK /\ ChargeInv /\ DrainInv /\ [Next]_vars => DrainInv'
<1> SUFFICES ASSUME TypeOK, ChargeInv, DrainInv, [Next]_vars PROVE DrainInv'
  OBVIOUS
<1>1. promised \subseteq Calls /\ cut = {}
  BY DEF TypeOK, DrainInv
<1>2. ASSUME UNCHANGED phaseVars, \A c \in Calls : Kept(c) => Kept(c)' PROVE DrainInv'
  BY <1>1, <1>2 DEF DrainInv, phaseVars
<1>3. ASSUME NEW d \in Calls, Client(d) \/ Serve(d) \/ Disconnect(d) PROVE DrainInv'
  <2>1. UNCHANGED phaseVars
    BY <1>3 DEF Client, Serve, Ask, Unreached, Pay, Decline, Challenge, LetPass, Debit,
          Refuse, Forward, Enqueue, QueueTimeout, Respond, Disconnect
  <2>2. ASSUME NEW c \in Calls, Kept(c) PROVE Kept(c)'
    <3>1. CASE d = c
      BY <1>3, <2>2, <3>1, KeptStep DEF ChargeInv
    <3>2. CASE d # c
      BY <1>3, <2>1, <2>2, <3>2, OthersStay, KeptStays DEF phaseVars
    <3> QED
      BY <3>1, <3>2
  <2> QED
    BY <1>2, <2>1, <2>2
<1>4. CASE OtherEnters \/ OtherLeaves
  <2>1. UNCHANGED phaseVars
    BY <1>4 DEF OtherEnters, OtherLeaves
  <2> QED
    BY <1>2, <1>4, <2>1, OthersMove, KeptStays DEF phaseVars
<1>5. CASE Probe \/ Operator \/ UNCHANGED vars
  <2>1. UNCHANGED phaseVars /\ UNCHANGED callVars
    BY <1>5 DEF Probe, Operator, vars
  <2> QED
    BY <1>2, <2>1 DEF phaseVars, callVars, Kept
<1>6. CASE Listen \/ Die \/ Restart
  BY <1>1, <1>6 DEF Listen, Die, Vanish, Restart, DrainInv
<1>7. CASE Signal
  BY <1>1, <1>7 DEF Signal, DrainInv, Kept, Pending, At, callVars
<1>8. CASE Deadline
  BY <1>1, <1>8 DEF Deadline, DrainInv, Kept, callVars
<1>9. CASE DrainTick
  BY <1>1, <1>9 DEF DrainTick, DrainInv, Kept, Drained, Pending, At, callVars
<1>10. CASE Exit
  <2>1. overdue \/ promised \cap Pending = {}
    BY <1>1, <1>10 DEF Exit, DrainInv, Kept, Pending, At
  <2>2. cut' = {}
    BY <1>1, <1>10, <2>1 DEF Exit
  <2> QED
    BY <1>10, <2>2 DEF Exit, Vanish, DrainInv
<1> QED
  BY <1>3, <1>4, <1>5, <1>6, <1>7, <1>8, <1>9, <1>10 DEF Next

LEMMA DrainInit == Init => DrainInv
BY DEF Init, DrainInv

\* A request that was queued or held a slot when SIGTERM came is not cut off
\* before drainDeadlineMs, whatever arrives, breaks or fails meanwhile
\* (shutdown of index.js).
THEOREM DrainHonouredHolds == Spec => []DrainHonoured
<1>1. DrainInv => DrainHonoured
  BY DEF DrainInv, DrainHonoured
<1> QED
  BY <1>1, TypeCorrect, ChargeCorrect, DrainInit, DrainStep, PTL DEF Spec

-----------------------------------------------------------------------------
(* The fallback.                                                           *)

\* If the operator was unreachable for too long when the last probe was sent,
\* the fallback lasts until the next one is due.
FallInv ==
    failing # Healthy /\ probing = NoProbe /\ failing > Unreachable + (Interval - due)
        => fallback >= due

LEMMA FallProbe == CoopTypeOK /\ FallInv /\ ProbeStep => FallInv'
<1> SUFFICES ASSUME CoopTypeOK, FallInv, ProbeStep,
                    failing' # Healthy, probing' = NoProbe,
                    failing' > Unreachable + (Interval - due')
             PROVE  fallback' >= due'
  BY DEF FallInv
<1> USE DEF CoopTypeOK
<1>1. CASE SendProbe
  BY <1>1 DEF SendProbe
<1>2. CASE ProbeSucceeds
  BY <1>2 DEF ProbeSucceeds
<1>3. CASE ProbeFails
  <2>1. due' = due /\ due \in Nat /\ due <= Interval
    BY <1>3 DEF ProbeFails
  <2>2. failing' \in Nat
    BY <1>3 DEF ProbeFails, FailingCap
  <2>3. failing' > Unreachable
    BY <2>1, <2>2
  <2>4. fallback' = Forced(fallback)
    BY <1>3, <2>3 DEF ProbeFails
  <2> QED
    BY <2>1, <2>4 DEF Forced, ForcedFor
<1>4. CASE CoopTick
  <2>1. /\ due > 0 /\ due' = due - 1 /\ due \in Nat
        /\ probing = NoProbe /\ failing \in Nat
        /\ failing' = IF failing = FailingCap THEN failing ELSE failing + 1
        /\ fallback' = IF fallback > 0 THEN fallback - 1 ELSE 0
    BY <1>4 DEF CoopTick, FailingCap
  <2>2. failing > Unreachable + (Interval - due)
    BY <2>1 DEF FailingCap
  <2>3. fallback >= due
    BY <2>1, <2>2 DEF FallInv
  <2> QED
    BY <2>1, <2>3
<1> QED
  BY <1>1, <1>2, <1>3, <1>4 DEF ProbeStep

LEMMA FallStep == TypeOK /\ FallInv /\ [Next]_vars => FallInv'
<1> SUFFICES ASSUME TypeOK, FallInv, [Next]_vars PROVE FallInv'
  OBVIOUS
<1>1. CoopTypeOK
  BY DEF TypeOK
<1>2. CASE UNCHANGED <<failing, probing, due, fallback>>
  BY <1>2 DEF FallInv
<1>3. CASE UNCHANGED <<failing, probing, due>> /\ fallback' = OverloadFor
  BY <1>1, <1>3 DEF FallInv, CoopTypeOK
<1>4. CASE Probe
  BY <1>1, <1>4, FallProbe DEF Probe
<1>5. CASE Restart
  BY <1>5 DEF Restart, FallInv
<1>6. CASE Operator
  BY <1>2, <1>6 DEF Operator, OperatorTurns
<1>7. ASSUME NEW c \in Calls, Respond(c) PROVE FallInv'
  BY <1>2, <1>3, <1>7 DEF Respond, Overloaded
<1>8. CASE UNCHANGED coopVars
  BY <1>2, <1>8 DEF coopVars
<1>9. ASSUME NEW c \in Calls, Client(c) \/ Disconnect(c) \/ (Serve(c) /\ ~Respond(c)) PROVE FallInv'
  <2>1. UNCHANGED coopVars
    BY <1>9 DEF Client, Serve, Ask, Unreached, Pay, Decline, Challenge, LetPass, Debit,
          Refuse, Forward, Enqueue, QueueTimeout, Disconnect
  <2> QED
    BY <1>8, <2>1
<1>10. CASE OtherEnters \/ OtherLeaves \/ Listen \/ Die \/ Signal \/ Deadline \/ DrainTick \/ Exit
            \/ UNCHANGED vars
  <2>1. UNCHANGED coopVars
    BY <1>10 DEF OtherEnters, OtherLeaves, Listen, Die, Vanish, Signal, Deadline, DrainTick,
          Exit, vars
  <2> QED
    BY <1>8, <2>1
<1> QED
  BY <1>4, <1>5, <1>6, <1>7, <1>9, <1>10 DEF Next

LEMMA FallInit == Init => FallInv
BY DEF Init, CoopInit, Fresh, FallInv

\* An operator that stays unreachable is not trusted with scheduling between
\* probes, whatever overload its proxied responses report (the health-probe
\* interval of index.js and onProxyRes).
THEOREM FallbackHoldsAlways == Spec => []FallbackHolds
<1>1. TypeOK /\ FallInv => FallbackHolds
  <2> SUFFICES ASSUME CoopTypeOK, FallInv, failing # Healthy, failing = FailingCap, due > 0,
                      probing = NoProbe
               PROVE  fallback > 0
    BY DEF FallbackHolds, TypeOK
  <2>1. due \in Nat /\ failing > Unreachable + (Interval - due) /\ fallback \in Nat
    BY DEF CoopTypeOK, FailingCap
  <2> QED
    BY <2>1 DEF FallInv
<1> QED
  BY <1>1, TypeCorrect, FallInit, FallStep, PTL DEF Spec
=============================================================================
