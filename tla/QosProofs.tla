----------------------------- MODULE QosProofs -----------------------------
(***************************************************************************)
(* Proofs about module Qos, for any number of requests and slots, any      *)
(* depth, scores and timeouts, and every mode: slots are counted exactly,  *)
(* the cap holds, and nobody waits while a slot is free.                   *)
(***************************************************************************)
EXTENDS Qos, FiniteSetTheorems, TLAPS

USE QosAssumption

-----------------------------------------------------------------------------
InSlot(pcs) == {r \in Requests : pcs[r] = "upstream"}

States == {"idle", "waiting", "upstream", "closing", "direct"}

LEMMA Finite ==
    \A S \in SUBSET Requests : IsFiniteSet(S) /\ Cardinality(S) \in Nat
BY FS_Subset, FS_CardinalityType

LEMMA DisjointUnion ==
    \A S \in SUBSET Requests, T \in SUBSET Requests :
        S \cap T = {} => Cardinality(S \cup T) = Cardinality(S) + Cardinality(T)
<1> SUFFICES ASSUME NEW S \in SUBSET Requests, NEW T \in SUBSET Requests, S \cap T = {}
             PROVE  Cardinality(S \cup T) = Cardinality(S) + Cardinality(T)
  OBVIOUS
<1>1. IsFiniteSet(S) /\ IsFiniteSet(T) /\ Cardinality(S) \in Nat /\ Cardinality(T) \in Nat
  BY Finite
<1>2. Cardinality(S \cup T) = Cardinality(S) + Cardinality(T) - Cardinality(S \cap T)
  BY <1>1, FS_Union
<1>3. Cardinality(S \cap T) = 0
  BY FS_EmptySet
<1> QED
  BY <1>1, <1>2, <1>3

\* What a call of qosOnSlotFree establishes, given that the slots were
\* counted exactly before it.
LEMMA Drained ==
    ASSUME NEW pcs \in [Requests -> States], NEW ent, NEW flight \in 0..MaxInFlight,
           leaked \in Nat,
           flight = Cardinality(InSlot(pcs)) + leaked,
           OnSlotFree(pcs, ent, flight)
    PROVE  /\ pc' \in [Requests -> States]
           /\ leaked' \in Nat
           /\ inFlight' \in 0..MaxInFlight
           /\ inFlight' = Cardinality(InSlot(pc')) + leaked'
           /\ Waiting(pc') \subseteq Waiting(pcs)
           /\ Waiting(pc') # {} => inFlight' = MaxInFlight
<1> DEFINE W == Waiting(pcs)
           U == InSlot(pcs)
<1>1. PICK chosen \in SUBSET W :
        /\ Cardinality(chosen) = Pops(Cardinality(W), flight)
        /\ pc' = [r \in Requests |->
                    IF r \notin chosen THEN pcs[r]
                    ELSE IF ent[r].gone THEN "idle" ELSE "upstream"]
        /\ inFlight' = flight + Cardinality(chosen)
        /\ leaked' = leaked + Cardinality({r \in chosen : ent[r].gone})
  BY DEF OnSlotFree
<1> DEFINE gone == {r \in chosen : ent[r].gone}
           served == chosen \ gone
<1>2. /\ W \subseteq Requests /\ U \subseteq Requests /\ W \cap U = {}
      /\ chosen \subseteq W /\ gone \subseteq chosen
  BY DEF Waiting, InSlot
<1>3. /\ InSlot(pc') = U \cup served
      /\ Waiting(pc') = W \ chosen
      /\ pc' \in [Requests -> States]
  BY <1>1 DEF InSlot, Waiting, States
<1> HIDE DEF W, U, gone, served
<1>4. /\ IsFiniteSet(W) /\ IsFiniteSet(U) /\ IsFiniteSet(chosen)
      /\ IsFiniteSet(gone) /\ IsFiniteSet(served)
      /\ Cardinality(W) \in Nat /\ Cardinality(U) \in Nat
      /\ Cardinality(chosen) \in Nat /\ Cardinality(gone) \in Nat
      /\ Cardinality(served) \in Nat
  <2>1. chosen \subseteq Requests /\ gone \subseteq Requests /\ served \subseteq Requests
    BY <1>2 DEF served
  <2> QED
    BY <1>2, <2>1, Finite
<1>5. Cardinality(chosen) = Cardinality(gone) + Cardinality(served)
  <2>1. /\ chosen = gone \cup served /\ gone \cap served = {}
        /\ gone \in SUBSET Requests /\ served \in SUBSET Requests
    BY <1>2 DEF served
  <2> QED
    BY <2>1, DisjointUnion
<1>6. Cardinality(U \cup served) = Cardinality(U) + Cardinality(served)
  <2>1. U \cap served = {} /\ U \in SUBSET Requests /\ served \in SUBSET Requests
    BY <1>2 DEF served
  <2> QED
    BY <2>1, DisjointUnion
<1>7. leaked' = leaked + Cardinality(gone)
  BY <1>1 DEF gone
<1>8. inFlight' = Cardinality(InSlot(pc')) + leaked'
  <2>1. Cardinality(InSlot(pc')) = Cardinality(U) + Cardinality(served)
    BY <1>3, <1>6
  <2>2. flight = Cardinality(U) + leaked
    BY DEF U
  <2> QED
    BY <1>1, <1>4, <1>5, <1>7, <2>1, <2>2
<1>9. CASE Cardinality(W) <= MaxInFlight - flight
  <2>1. Cardinality(chosen) = Cardinality(W)
    BY <1>1, <1>4, <1>9 DEF Pops
  <2>2. chosen = W
    BY <1>2, <1>4, <2>1, FS_Subset
  <2>3. inFlight' \in 0..MaxInFlight
    BY <1>1, <1>4, <1>9, <2>1
  <2> QED
    BY <1>2, <1>3, <1>4, <1>7, <1>8, <2>2, <2>3 DEF W
<1>10. CASE ~(Cardinality(W) <= MaxInFlight - flight)
  <2>1. inFlight' = MaxInFlight
    BY <1>1, <1>4, <1>10 DEF Pops
  <2> QED
    BY <1>2, <1>3, <1>4, <1>7, <1>8, <2>1 DEF W
<1> QED
  BY <1>9, <1>10

-----------------------------------------------------------------------------
(* The invariant: types, the exact count, the cap, the depth, and no free  *)
(* slot while somebody waits.                                              *)

SlotInv ==
    /\ pc \in [Requests -> States]
    /\ leaked \in Nat
    /\ inFlight \in 0..MaxInFlight
    /\ inFlight = Cardinality(InSlot(pc)) + leaked
    /\ Cardinality(queue) <= MaxDepth
    /\ WorkConserving

\* A smaller queue is not deeper.
LEMMA Shallower ==
    \A S \in SUBSET Requests : \A T \in SUBSET S :
        Cardinality(S) <= MaxDepth => Cardinality(T) <= MaxDepth
<1> SUFFICES ASSUME NEW S \in SUBSET Requests, NEW T \in SUBSET S,
                    Cardinality(S) <= MaxDepth
             PROVE  Cardinality(T) <= MaxDepth
  OBVIOUS
<1>1. Cardinality(S) \in Nat /\ Cardinality(T) \in Nat /\ IsFiniteSet(S)
  BY Finite
<1>2. Cardinality(T) <= Cardinality(S)
  BY <1>1, FS_Subset
<1> QED
  BY <1>1, <1>2

\* A request enters or leaves the set of those in a slot.
LEMMA OneMore ==
    \A S \in SUBSET Requests, r \in Requests :
        r \notin S => Cardinality(S \cup {r}) = Cardinality(S) + 1
BY Finite, FS_AddElement

LEMMA OneLess ==
    \A S \in SUBSET Requests : \A r \in S : Cardinality(S \ {r}) = Cardinality(S) - 1
BY Finite, FS_RemoveElement

\* The drain re-establishes the invariant.
LEMMA DrainedInv ==
    ASSUME NEW pcs \in [Requests -> States], NEW ent, NEW flight \in 0..MaxInFlight,
           leaked \in Nat, flight = Cardinality(InSlot(pcs)) + leaked,
           Cardinality(Waiting(pcs)) <= MaxDepth,
           OnSlotFree(pcs, ent, flight)
    PROVE  SlotInv'
<1>1. /\ pc' \in [Requests -> States] /\ leaked' \in Nat /\ inFlight' \in 0..MaxInFlight
      /\ inFlight' = Cardinality(InSlot(pc')) + leaked'
      /\ Waiting(pc') \subseteq Waiting(pcs)
      /\ Waiting(pc') # {} => inFlight' = MaxInFlight
  BY Drained
<1>2. Waiting(pcs) \subseteq Requests
  BY DEF Waiting
<1>3. Cardinality(Waiting(pc')) <= MaxDepth
  BY <1>1, <1>2, Shallower
<1> QED
  BY <1>1, <1>3 DEF SlotInv, WorkConserving, queue

\* Steps that touch no slot and add nobody to the queue.
LEMMA QuietInv ==
    ASSUME SlotInv, pc' \in [Requests -> States], InSlot(pc') = InSlot(pc),
           Waiting(pc') \subseteq Waiting(pc), UNCHANGED <<inFlight, leaked>>
    PROVE  SlotInv'
<1>1. Waiting(pc) \subseteq Requests
  BY DEF Waiting
<1>2. Cardinality(Waiting(pc)) <= MaxDepth
  BY DEF SlotInv, queue
<1>3. Cardinality(Waiting(pc')) <= MaxDepth
  BY <1>1, <1>2, Shallower
<1> QED
  BY <1>3 DEF SlotInv, WorkConserving, queue

LEMMA SlotStep == SlotInv /\ [Next]_vars => SlotInv'
<1> SUFFICES ASSUME SlotInv, [Next]_vars PROVE SlotInv'
  OBVIOUS
<1>0. /\ pc \in [Requests -> States] /\ leaked \in Nat /\ inFlight \in 0..MaxInFlight
      /\ inFlight = Cardinality(InSlot(pc)) + leaked
      /\ Cardinality(Waiting(pc)) <= MaxDepth
      /\ Waiting(pc) # {} => inFlight = MaxInFlight
  BY DEF SlotInv, WorkConserving, queue
<1>1. InSlot(pc) \in SUBSET Requests /\ Waiting(pc) \in SUBSET Requests
  BY DEF InSlot, Waiting
<1>q. ASSUME UNCHANGED <<pc, inFlight, leaked>> PROVE SlotInv'
  BY <1>0, <1>q, QuietInv
<1>2. ASSUME NEW r \in Requests, Direct(r) PROVE SlotInv'
  <2>1. pc[r] = "idle" /\ pc' = [pc EXCEPT ![r] = "direct"]
        /\ UNCHANGED <<inFlight, leaked>>
    BY <1>2 DEF Direct
  <2>2. /\ pc' \in [Requests -> States]
        /\ InSlot(pc') = InSlot(pc) /\ Waiting(pc') \subseteq Waiting(pc)
    BY <1>0, <2>1 DEF States, InSlot, Waiting
  <2> QED
    BY <2>1, <2>2, QuietInv
<1>3. ASSUME NEW r \in Requests, Bypass(r) PROVE SlotInv'
  <2>1. /\ pc[r] = "idle" /\ pc' = [pc EXCEPT ![r] = "upstream"]
        /\ inFlight < BypassBelow /\ inFlight' = inFlight + 1 /\ leaked' = leaked
    BY <1>3 DEF Bypass
  <2>2. /\ pc' \in [Requests -> States] /\ r \notin InSlot(pc)
        /\ InSlot(pc') = InSlot(pc) \cup {r} /\ Waiting(pc') = Waiting(pc)
    BY <1>0, <2>1 DEF States, InSlot, Waiting
  <2>3. Cardinality(InSlot(pc')) = Cardinality(InSlot(pc)) + 1
    BY <1>1, <2>2, OneMore
  <2>4. Cardinality(InSlot(pc)) \in Nat
    BY <1>1, Finite
  <2>5. inFlight' \in 0..MaxInFlight
    BY <1>0, <2>1
  <2>6. inFlight' = Cardinality(InSlot(pc')) + leaked'
    BY <1>0, <2>1, <2>3, <2>4
  <2>7. Waiting(pc') = {}
    BY <1>0, <2>1, <2>2
  <2> QED
    BY <1>0, <2>1, <2>2, <2>5, <2>6, <2>7 DEF SlotInv, WorkConserving, queue
<1>4. ASSUME NEW r \in Requests, NEW score \in Scores, Enqueue(r, score) PROVE SlotInv'
  <2>0. PICK pcs, ent : /\ pcs = [pc EXCEPT ![r] = "waiting"]
                        /\ OnSlotFree(pcs, ent, inFlight)
    BY <1>4 DEF Enqueue
  <2>1. pc[r] = "idle" /\ Cardinality(Waiting(pc)) < MaxDepth
    BY <1>4 DEF Enqueue, queue
  <2>2. /\ pcs \in [Requests -> States] /\ r \notin Waiting(pc)
        /\ InSlot(pcs) = InSlot(pc) /\ Waiting(pcs) = Waiting(pc) \cup {r}
    BY <1>0, <2>0, <2>1 DEF States, InSlot, Waiting
  <2>3. Cardinality(Waiting(pcs)) = Cardinality(Waiting(pc)) + 1
    BY <1>1, <2>2, OneMore
  <2>4. Cardinality(Waiting(pcs)) <= MaxDepth
    BY <1>1, <2>1, <2>3, Finite
  <2>5. PICK flight : flight = inFlight
    OBVIOUS
  <2> QED
    BY <1>0, <2>0, <2>2, <2>4, <2>5, DrainedInv
\* A slot is given back: whoever is drained then finds the count exact.
<1>5. ASSUME NEW r \in Requests, pc[r] = "upstream", NEW state \in {"closing", "idle"},
             OnSlotFree([pc EXCEPT ![r] = state], entry, inFlight - 1)
      PROVE  SlotInv'
  <2>0. PICK pcs, ent, flight : /\ pcs = [pc EXCEPT ![r] = state]
                                /\ flight = inFlight - 1
                                /\ OnSlotFree(pcs, ent, flight)
    BY <1>5
  <2>1. /\ pcs \in [Requests -> States] /\ r \in InSlot(pc)
        /\ InSlot(pcs) = InSlot(pc) \ {r} /\ Waiting(pcs) = Waiting(pc)
    BY <1>0, <1>5, <2>0 DEF States, InSlot, Waiting
  <2>2. Cardinality(InSlot(pcs)) = Cardinality(InSlot(pc)) - 1
    BY <1>1, <2>1, OneLess
  <2>3. Cardinality(InSlot(pcs)) \in Nat /\ Cardinality(InSlot(pc)) \in Nat
    BY <1>1, <2>1, Finite
  <2>4. flight \in 0..MaxInFlight /\ flight = Cardinality(InSlot(pcs)) + leaked
    BY <1>0, <2>0, <2>2, <2>3
  <2> QED
    BY <1>0, <2>0, <2>1, <2>4, DrainedInv
<1>6. ASSUME NEW r \in Requests, Finish(r) PROVE SlotInv'
  BY <1>5, <1>6 DEF Finish
<1>7. ASSUME NEW r \in Requests, Close(r) PROVE SlotInv'
  <2>1. CASE pc[r] = "upstream"
    BY <1>5, <1>7, <2>1 DEF Close
  <2>2. CASE pc[r] # "upstream"
    <3>1. pc[r] \in {"closing", "direct"} /\ pc' = [pc EXCEPT ![r] = "idle"]
          /\ UNCHANGED <<inFlight, leaked>>
      BY <1>7, <2>2 DEF Close
    <3>2. /\ pc' \in [Requests -> States]
          /\ InSlot(pc') = InSlot(pc) /\ Waiting(pc') \subseteq Waiting(pc)
      BY <1>0, <3>1 DEF States, InSlot, Waiting
    <3> QED
      BY <3>1, <3>2, QuietInv
  <2> QED
    BY <2>1, <2>2
<1>8. ASSUME NEW r \in Requests, TimedOut(r) PROVE SlotInv'
  <2>1. pc[r] = "waiting" /\ pc' = [pc EXCEPT ![r] = "idle"]
        /\ UNCHANGED <<inFlight, leaked>>
    BY <1>8 DEF TimedOut
  <2>2. /\ pc' \in [Requests -> States]
        /\ InSlot(pc') = InSlot(pc) /\ Waiting(pc') \subseteq Waiting(pc)
    BY <1>0, <2>1 DEF States, InSlot, Waiting
  <2> QED
    BY <2>1, <2>2, QuietInv
<1>9. ASSUME Tick \/ Overload \/ UNCHANGED vars \/ \E r \in Requests : Abandon(r)
      PROVE  SlotInv'
  BY <1>q, <1>9 DEF Tick, Overload, vars, Abandon
<1> QED
  BY <1>2, <1>3, <1>4, <1>6, <1>7, <1>8, <1>9 DEF Next

LEMMA SlotInit == Init => SlotInv
<1> SUFFICES ASSUME Init PROVE SlotInv
  OBVIOUS
<1>1. InSlot(pc) = {} /\ Waiting(pc) = {} /\ pc \in [Requests -> States]
  BY DEF Init, InSlot, Waiting, States
<1>2. Cardinality({}) = 0
  BY FS_EmptySet
<1> QED
  BY <1>1, <1>2 DEF Init, SlotInv, WorkConserving, queue

\* qosInFlight counts exactly the slots in use and keeps to the cap, and the
\* queue keeps to its depth.
THEOREM SlotsExactHolds == Spec => []SlotsExact
<1>1. SlotInv => SlotsExact
  BY DEF SlotInv, SlotsExact, Upstream, InSlot
<1> QED
  BY <1>1, SlotInit, SlotStep, PTL DEF Spec

\* Nobody waits while a slot is free.
THEOREM WorkConservingHolds == Spec => []WorkConserving
<1>1. SlotInv => WorkConserving
  BY DEF SlotInv
<1> QED
  BY <1>1, SlotInit, SlotStep, PTL DEF Spec

-----------------------------------------------------------------------------
(* The order of the queue.  Who is ahead of whom is a strict order among   *)
(* the waiting, and who is ahead has aged at least as much: the boost for  *)
(* waiting never lets an entry overtake one that was there before it.      *)

Entries == [score : Scores \cup {0}, age : 0..QueueTimeout,
            ahead : SUBSET Requests, gone : BOOLEAN]

Ordered(pcs, ent) ==
    \A q, r \in Requests : r \in ent[q].ahead =>
        /\ pcs[q] = "waiting" /\ pcs[r] = "waiting"
        /\ q \notin ent[r].ahead
        /\ ent[q].age <= ent[r].age

OrderInv == entry \in [Requests -> Entries] /\ Ordered(pc, entry)

\* The boost grows with the age.
LEMMA Boosted == \A a, b \in Nat : a <= b => AgeBoost * a <= AgeBoost * b
<1> SUFFICES ASSUME NEW a \in Nat, NEW b \in Nat, a <= b
             PROVE  AgeBoost * a <= AgeBoost * b
  OBVIOUS
<1>1. b - a \in Nat /\ b = a + (b - a)
  OBVIOUS
<1>2. AgeBoost * (b - a) \in Nat
  BY <1>1
<1>3. AgeBoost * b = AgeBoost * a + AgeBoost * (b - a)
  BY <1>1
<1>4. AgeBoost * a \in Nat /\ AgeBoost * b \in Nat
  OBVIOUS
<1> QED
  BY <1>2, <1>3, <1>4

\* Entries are spliced out.
LEMMA Spliced ==
    ASSUME NEW ent \in [Requests -> Entries], NEW S \in SUBSET Requests
    PROVE  /\ Without(ent, S) \in [Requests -> Entries]
           /\ \A r \in Requests :
                 /\ r \in S => Without(ent, S)[r].ahead = {}
                 /\ r \notin S => /\ Without(ent, S)[r].ahead = ent[r].ahead \ S
                                  /\ Without(ent, S)[r].age = ent[r].age
<1>1. NoEntry \in Entries /\ NoEntry.ahead = {}
  BY DEF NoEntry, Entries
<1> DEFINE kept(r) == [ent[r] EXCEPT !.ahead = ent[r].ahead \ S]
<1>2. \A r \in Requests : /\ kept(r) \in Entries
                          /\ kept(r).ahead = ent[r].ahead \ S
                          /\ kept(r).age = ent[r].age
  <2> TAKE r \in Requests
  <2>1. ent[r] \in Entries
    OBVIOUS
  <2> QED
    BY <2>1 DEF Entries
<1>3. Without(ent, S) = [r \in Requests |-> IF r \in S THEN NoEntry ELSE kept(r)]
  BY DEF Without
<1> HIDE DEF kept
<1> QED
  BY <1>1, <1>2, <1>3

\* Splicing keeps the order of those that stay.
LEMMA SplicedOrder ==
    ASSUME NEW ent \in [Requests -> Entries], NEW S \in SUBSET Requests,
           NEW pcs \in [Requests -> States], NEW after \in [Requests -> States],
           Ordered(pcs, ent), \A r \in Requests \ S : pcs[r] = "waiting" => after[r] = "waiting"
    PROVE  Ordered(after, Without(ent, S))
<1> DEFINE left == Without(ent, S)
<1>1. \A r \in Requests : /\ r \in S => left[r].ahead = {}
                          /\ r \notin S => /\ left[r].ahead = ent[r].ahead \ S
                                           /\ left[r].age = ent[r].age
  BY Spliced
<1> HIDE DEF left
<1>2. Ordered(after, left)
  BY <1>1 DEF Ordered
<1> QED
  BY <1>2 DEF left

\* A drain takes nobody past an entry that was ahead with no lower score.
LEMMA DrainedOrder ==
    ASSUME NEW pcs \in [Requests -> States], NEW ent \in [Requests -> Entries],
           NEW flight, Ordered(pcs, ent), OnSlotFree(pcs, ent, flight),
           pc' \in [Requests -> States]
    PROVE  /\ OrderInv'
           /\ \A q, r \in Requests :
                (/\ pcs[q] = "waiting" /\ pc'[q] = "upstream"
                 /\ r \in ent[q].ahead /\ ent[r].score >= ent[q].score)
                => pc'[r] # "waiting"
<1>1. PICK chosen \in SUBSET Waiting(pcs) :
        /\ \A a \in chosen, b \in Waiting(pcs) \ chosen : Beats(ent, a, b)
        /\ pc' = [r \in Requests |->
                    IF r \notin chosen THEN pcs[r]
                    ELSE IF ent[r].gone THEN "idle" ELSE "upstream"]
        /\ entry' = Without(ent, chosen)
  BY DEF OnSlotFree
<1>2. chosen \in SUBSET Requests
  BY DEF Waiting
<1>3. \A r \in Requests : /\ r \notin chosen => pc'[r] = pcs[r]
                          /\ r \in chosen => pc'[r] # "waiting"
  BY <1>1
<1>4. entry' \in [Requests -> Entries]
  BY <1>1, <1>2, Spliced
<1>5. Ordered(pc, entry)'
  <2>1. Ordered(pc', entry')
    BY <1>1, <1>2, <1>3, SplicedOrder
  <2> QED
    BY <2>1 DEF Ordered
<1>6. ASSUME NEW q \in Requests, NEW r \in Requests,
             pcs[q] = "waiting", pc'[q] = "upstream",
             r \in ent[q].ahead, ent[r].score >= ent[q].score, pc'[r] = "waiting"
      PROVE  FALSE
  <2>1. q \in chosen /\ r \in Waiting(pcs) \ chosen
    BY <1>3, <1>6 DEF Waiting
  <2>2. Beats(ent, q, r)
    BY <1>1, <2>1
  <2>3. q \notin ent[r].ahead /\ ent[q].age <= ent[r].age
    BY <1>6 DEF Ordered
  <2>4. Effective(ent[q]) > Effective(ent[r])
    BY <2>2, <2>3 DEF Beats
  <2>5. /\ ent[q].age \in Nat /\ ent[r].age \in Nat
        /\ ent[q].score \in Nat /\ ent[r].score \in Nat
    <3>1. ent[q] \in Entries /\ ent[r] \in Entries
      OBVIOUS
    <3>2. Scores \cup {0} \subseteq Nat /\ 0..QueueTimeout \subseteq Nat
      OBVIOUS
    <3>3. \A e \in Entries : e.age \in 0..QueueTimeout /\ e.score \in Scores \cup {0}
      BY DEF Entries
    <3> QED
      BY <3>1, <3>2, <3>3
  <2>6. AgeBoost * ent[q].age <= AgeBoost * ent[r].age
    BY <2>3, <2>5, Boosted
  <2> DEFINE bq == AgeBoost * ent[q].age
             br == AgeBoost * ent[r].age
  <2>7. bq \in Nat /\ br \in Nat /\ bq <= br
    BY <2>5, <2>6
  <2>8. ent[q].score + bq > ent[r].score + br
    BY <2>4 DEF Effective
  <2> HIDE DEF bq, br
  <2> QED
    BY <1>6, <2>5, <2>7, <2>8
<1> QED
  BY <1>4, <1>5, <1>6 DEF OrderInv

\* What a step keeps, and whom it dispatches.
Fair == \A q, r \in Requests :
    (/\ pc[q] = "waiting" /\ pc'[q] = "upstream"
     /\ pc[r] = "waiting" /\ r \in entry[q].ahead
     /\ entry[r].score >= entry[q].score)
    => pc'[r] # "waiting"

LEMMA OrderStep ==
    ASSUME SlotInv, OrderInv, [Next]_vars, SlotInv'
    PROVE  OrderInv' /\ Fair
<1>0. /\ pc \in [Requests -> States] /\ entry \in [Requests -> Entries]
      /\ Ordered(pc, entry) /\ pc' \in [Requests -> States]
  BY DEF SlotInv, OrderInv
\* Nobody is dispatched and nobody leaves the queue.
<1>q. ASSUME UNCHANGED entry,
             \A r \in Requests : /\ pc[r] = "waiting" => pc'[r] = "waiting"
      PROVE  OrderInv' /\ Fair
  <2>1. Ordered(pc, entry)'
    BY <1>0, <1>q DEF Ordered
  <2> QED
    BY <1>0, <1>q, <2>1 DEF OrderInv, Fair
\* A slot is given back.
<1>d. ASSUME NEW r \in Requests, pc[r] = "upstream", NEW state \in {"closing", "idle"},
             OnSlotFree([pc EXCEPT ![r] = state], entry, inFlight - 1)
      PROVE  OrderInv' /\ Fair
  <2>1. PICK pcs, flight : /\ pcs = [pc EXCEPT ![r] = state]
                           /\ OnSlotFree(pcs, entry, flight)
    BY <1>d
  <2>2. /\ pcs \in [Requests -> States]
        /\ \A q \in Requests : pc[q] = "waiting" <=> pcs[q] = "waiting"
    BY <1>0, <1>d, <2>1 DEF States
  <2>3. Ordered(pcs, entry)
    BY <1>0, <2>2 DEF Ordered
  <2>4. /\ OrderInv'
        /\ \A a, b \in Requests :
             (/\ pcs[a] = "waiting" /\ pc'[a] = "upstream"
              /\ b \in entry[a].ahead /\ entry[b].score >= entry[a].score)
             => pc'[b] # "waiting"
    BY <1>0, <2>1, <2>2, <2>3, DrainedOrder
  <2> QED
    BY <2>2, <2>4 DEF Fair
<1>1. ASSUME NEW r \in Requests, Direct(r) \/ Bypass(r) PROVE OrderInv' /\ Fair
  BY <1>0, <1>1, <1>q DEF Direct, Bypass
<1>2. ASSUME NEW r \in Requests, Finish(r) PROVE OrderInv' /\ Fair
  BY <1>2, <1>d DEF Finish
<1>3. ASSUME NEW r \in Requests, Close(r) PROVE OrderInv' /\ Fair
  <2>1. CASE pc[r] = "upstream"
    BY <1>3, <1>d, <2>1 DEF Close
  <2>2. CASE pc[r] # "upstream"
    BY <1>0, <1>3, <1>q, <2>2 DEF Close
  <2> QED
    BY <2>1, <2>2
<1>4. ASSUME NEW r \in Requests, NEW score \in Scores, Enqueue(r, score)
      PROVE  OrderInv' /\ Fair
  <2> DEFINE new == [score |-> score, age |-> 0, ahead |-> queue, gone |-> FALSE]
  <2>1. PICK pcs, ent, flight :
          /\ pcs = [pc EXCEPT ![r] = "waiting"] /\ ent = [entry EXCEPT ![r] = new]
          /\ OnSlotFree(pcs, ent, flight)
    BY <1>4 DEF Enqueue
  <2>2. pc[r] = "idle"
    BY <1>4 DEF Enqueue
  <2>3. /\ new \in Entries /\ new.ahead = queue /\ new.age = 0
    <3>1. queue \in SUBSET Requests /\ 0 \in 0..QueueTimeout
      BY DEF queue, Waiting
    <3> QED
      BY <3>1 DEF Entries
  <2> HIDE DEF new
  <2>4. /\ ent \in [Requests -> Entries] /\ ent[r] = new
        /\ \A q \in Requests \ {r} : ent[q] = entry[q]
    BY <1>0, <2>1, <2>3
  <2>5. /\ pcs \in [Requests -> States] /\ pcs[r] = "waiting"
        /\ \A q \in Requests \ {r} : pcs[q] = pc[q]
    BY <1>0, <2>1 DEF States
  <2>6. \A q \in Requests : q \in queue => pc[q] = "waiting" /\ q # r
    BY <2>2 DEF queue, Waiting
  <2>7. \A q \in Requests : ent[q].age \in Nat
    <3>1. \A e \in Entries : e.age \in 0..QueueTimeout
      BY DEF Entries
    <3> QED
      BY <2>4, <3>1
  <2>8. Ordered(pcs, ent)
    <3> SUFFICES ASSUME NEW q \in Requests, NEW b \in Requests, b \in ent[q].ahead
                 PROVE  /\ pcs[q] = "waiting" /\ pcs[b] = "waiting"
                        /\ q \notin ent[b].ahead
                        /\ ent[q].age <= ent[b].age
      BY DEF Ordered
    <3>1. CASE q = r
      <4>1. b \in queue /\ b # r /\ pc[b] = "waiting"
        BY <2>3, <2>4, <2>6, <3>1
      <4>2. r \notin entry[b].ahead
        BY <1>0, <2>2 DEF Ordered
      <4> QED
        BY <2>3, <2>4, <2>5, <2>7, <3>1, <4>1, <4>2
    <3>2. CASE q # r
      <4>1. b \in entry[q].ahead
        BY <2>4, <3>2
      <4>2. b # r
        BY <1>0, <2>2, <4>1 DEF Ordered
      <4> QED
        BY <1>0, <2>4, <2>5, <3>2, <4>1, <4>2 DEF Ordered
    <3> QED
      BY <3>1, <3>2
  <2>9. /\ OrderInv'
        /\ \A a, b \in Requests :
             (/\ pcs[a] = "waiting" /\ pc'[a] = "upstream"
              /\ b \in ent[a].ahead /\ ent[b].score >= ent[a].score)
             => pc'[b] # "waiting"
    BY <1>0, <2>1, <2>4, <2>5, <2>8, DrainedOrder
  <2>10. Fair
    <3> SUFFICES ASSUME NEW a \in Requests, NEW b \in Requests,
                        pc[a] = "waiting", pc'[a] = "upstream", pc[b] = "waiting",
                        b \in entry[a].ahead, entry[b].score >= entry[a].score
                 PROVE  pc'[b] # "waiting"
      BY DEF Fair
    <3>1. a # r /\ b # r
      BY <2>2
    <3> QED
      BY <2>4, <2>5, <2>9, <3>1
  <2> QED
    BY <2>9, <2>10
<1>5. ASSUME NEW r \in Requests, TimedOut(r) PROVE OrderInv' /\ Fair
  <2>1. /\ pc' = [pc EXCEPT ![r] = "idle"] /\ entry' = Without(entry, {r})
        /\ pc[r] = "waiting"
    BY <1>5 DEF TimedOut
  <2>2. \A q \in Requests \ {r} : pc'[q] = pc[q]
    BY <1>0, <2>1
  <2>3. pc'[r] = "idle"
    BY <1>0, <2>1
  <2>4. entry' \in [Requests -> Entries]
    BY <1>0, <2>1, Spliced
  <2>5. Ordered(pc', entry')
    <3>1. {r} \in SUBSET Requests
      OBVIOUS
    <3> QED
      BY <1>0, <2>1, <2>2, <3>1, SplicedOrder
  <2>6. Ordered(pc, entry)'
    BY <2>5 DEF Ordered
  <2>7. Fair
    BY <2>2, <2>3 DEF Fair
  <2> QED
    BY <2>4, <2>6, <2>7 DEF OrderInv
\* Everybody waiting grows older together.
<1>6. ASSUME Tick PROVE OrderInv' /\ Fair
  <2>1. /\ \A r \in queue : entry[r].age < QueueTimeout
        /\ UNCHANGED pc
        /\ entry' = [r \in Requests |-> IF r \in queue
                       THEN [entry[r] EXCEPT !.age = entry[r].age + 1] ELSE entry[r]]
    BY <1>6 DEF Tick
  <2>2. \A r \in Requests :
          /\ entry'[r] \in Entries
          /\ entry'[r].ahead = entry[r].ahead
          /\ pc[r] = "waiting" => entry'[r].age = entry[r].age + 1
    <3> TAKE r \in Requests
    <3>1. entry[r] \in Entries
      BY <1>0
    <3>2. entry[r].age \in 0..QueueTimeout
      BY <3>1 DEF Entries
    <3> DEFINE older == [entry[r] EXCEPT !.age = entry[r].age + 1]
    <3>3. older.ahead = entry[r].ahead /\ older.age = entry[r].age + 1
      BY <3>1 DEF Entries
    <3>4. CASE r \in queue
      <4>1. entry[r].age + 1 \in 0..QueueTimeout
        BY <2>1, <3>2, <3>4
      <4>2. older \in Entries
        BY <3>1, <4>1 DEF Entries
      <4>3. entry'[r] = older
        BY <2>1, <3>4
      <4> QED
        BY <3>3, <4>2, <4>3
    <3>5. CASE r \notin queue
      <4>1. entry'[r] = entry[r] /\ pc[r] # "waiting"
        BY <2>1, <3>5 DEF queue, Waiting
      <4> QED
        BY <3>1, <4>1
    <3> QED
      BY <3>4, <3>5
  <2>3. \A r \in Requests : entry[r].age \in Nat
    <3>1. \A e \in Entries : e.age \in 0..QueueTimeout
      BY DEF Entries
    <3> QED
      BY <1>0, <3>1
  <2>4. entry' \in [Requests -> Entries]
    BY <2>1, <2>2
  <2>5. Ordered(pc, entry)'
    <3>1. \A q, r \in Requests : r \in entry[q].ahead =>
            /\ pc[q] = "waiting" /\ pc[r] = "waiting"
            /\ q \notin entry[r].ahead
            /\ entry'[q].age <= entry'[r].age
      BY <1>0, <2>2, <2>3 DEF Ordered
    <3> QED
      BY <2>1, <2>2, <3>1 DEF Ordered
  <2>6. Fair
    BY <2>1 DEF Fair
  <2> QED
    BY <2>4, <2>5, <2>6 DEF OrderInv
<1>7. ASSUME NEW r \in Requests, Abandon(r) PROVE OrderInv' /\ Fair
  <2>1. /\ UNCHANGED pc /\ pc[r] = "waiting"
        /\ entry' = [entry EXCEPT ![r] = [entry[r] EXCEPT !.gone = TRUE]]
    BY <1>7 DEF Abandon
  <2> DEFINE left == [entry[r] EXCEPT !.gone = TRUE]
  <2>2. entry[r] \in Entries
    BY <1>0
  <2>3. left \in Entries /\ left.ahead = entry[r].ahead /\ left.age = entry[r].age
    BY <2>2 DEF Entries
  <2> HIDE DEF left
  <2>4. /\ entry' \in [Requests -> Entries]
        /\ \A q \in Requests : entry'[q].ahead = entry[q].ahead /\ entry'[q].age = entry[q].age
    BY <1>0, <2>1, <2>3 DEF left
  <2>5. Ordered(pc, entry)'
    BY <1>0, <2>1, <2>4 DEF Ordered
  <2>6. Fair
    BY <2>1 DEF Fair
  <2> QED
    BY <2>4, <2>5, <2>6 DEF OrderInv
<1>8. ASSUME Overload \/ UNCHANGED vars PROVE OrderInv' /\ Fair
  BY <1>8, <1>q DEF Overload, vars
<1> QED
  BY <1>1, <1>2, <1>3, <1>4, <1>5, <1>6, <1>7, <1>8 DEF Next

LEMMA OrderInit == Init => OrderInv
<1> SUFFICES ASSUME Init PROVE OrderInv
  OBVIOUS
<1>1. NoEntry \in Entries /\ NoEntry.ahead = {}
  BY DEF NoEntry, Entries
<1>2. entry \in [Requests -> Entries] /\ \A r \in Requests : entry[r].ahead = {}
  BY <1>1 DEF Init
<1> QED
  BY <1>2 DEF OrderInv, Ordered

\* A request is not dispatched before one that was in the queue when it
\* arrived and has no lower base score, whatever boost time gives either.
THEOREM FairOrderHolds == Spec => FairOrder
<1>1. SlotInv /\ OrderInv /\ [Next]_vars => SlotInv' /\ OrderInv' /\ [Fair]_vars
  BY SlotStep, OrderStep
<1>2. SlotInv /\ OrderInv /\ [Next]_vars =>
        [\A q, r \in Requests :
           (/\ pc[q] = "waiting" /\ pc'[q] = "upstream"
            /\ pc[r] = "waiting" /\ r \in entry[q].ahead
            /\ entry[r].score >= entry[q].score)
           => pc'[r] # "waiting"]_vars
  BY <1>1 DEF Fair
<1> QED
  BY <1>1, <1>2, SlotInit, OrderInit, PTL DEF Spec, FairOrder

Switch == fallback \in BOOLEAN

LEMMA SwitchStep == Switch /\ [Next]_vars => Switch'
<1> USE DEF Switch
<1> SUFFICES ASSUME Switch, [Next]_vars PROVE Switch'
  OBVIOUS
<1>1. UNCHANGED fallback \/ fallback' = ~fallback
  BY DEF Next, Direct, Bypass, Finish, Close, TimedOut, Abandon, Enqueue, Tick, Overload, vars
<1> QED
  BY <1>1

\* The state is well typed: queued entries are never older than the timeout.
THEOREM TypeCorrect == Spec => []TypeOK
<1>1. SlotInv /\ OrderInv /\ Switch => TypeOK
  BY DEF SlotInv, OrderInv, Switch, TypeOK, States, Entries
<1>2. SlotInv /\ OrderInv /\ [Next]_vars => SlotInv' /\ OrderInv'
  BY SlotStep, OrderStep
<1>3. Init => Switch
  BY DEF Init, Switch
<1> QED
  BY <1>1, <1>2, <1>3, SlotInit, OrderInit, SwitchStep, PTL DEF Spec
=============================================================================
