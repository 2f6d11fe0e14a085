-------------------------- MODULE RateLimitProofs --------------------------
(***************************************************************************)
(* Proofs about module RateLimit, for any number of requests, addresses    *)
(* and payers, any limits and windows, and any number of faults: the       *)
(* limits hold over every window, a refusal rests on a full window, and    *)
(* only a marked request skips a bucket.                                   *)
(***************************************************************************)
EXTENDS RateLimit, FiniteSetTheorems, TLAPS

USE RateLimitAssumption

-----------------------------------------------------------------------------
(* Types.                                                                  *)

Record == [pc : {"idle", "shield", "lookup", "consume", "blocked", "served"},
           pass : {"edge", "auth"},
           ip : Ips \cup {NoOne}, agent : Agents \cup {NoOne},
           stamp : 0..MaxTime, todo : Plans,
           member : Members \cup {NoMember}, counted : SUBSET Keys,
           degraded : BOOLEAN]

\* What TypeOK says of one request, and that it enters the store's calls
\* without an entry of another call.
Sound(q, now) ==
    /\ q.pc = "consume" => q.todo # <<>>
    /\ q.pc = "lookup" => q.agent \in Agents
    /\ q.pc \in {"lookup", "consume"} => q.stamp <= now /\ now - q.stamp <= MaxLag
    /\ q.pc \in {"idle", "shield", "lookup"} => q.member = NoMember
    /\ q.pc = "consume" => q.member = NoMember \/ q.member.ts = q.stamp

Finite == \A k \in Keys : IsFiniteSet(admitted[k])

Typed == TypeOK /\ Finite /\ \A r \in Requests : Sound(h[r], clock)

LEMMA KeysOfPlans ==
    /\ <<"global", Everybody>> \in Keys
    /\ \A ip \in Ips : <<"ip", ip>> \in Keys
    /\ \A a \in Agents : <<"pubkey", a>> \in Keys /\ <<"paid", a>> \in Keys
BY DEF Keys

LEMMA MultiplierType == \A c \in Nat : Multiplier(c) \in {1, 2, 5, 10}
<1> SUFFICES ASSUME NEW c \in Nat PROVE Multiplier(c) \in {1, 2, 5, 10}
  OBVIOUS
<1> DEFINE score == c * ScorePerPayment
<1>1. score \in Nat
  OBVIOUS
<1>2. Multiplier(c) = CASE score <= 20 -> 1
                        [] score > 20 /\ score <= 50 -> 2
                        [] score > 50 /\ score <= 80 -> 5
                        [] OTHER -> 10
  BY DEF Multiplier
<1> HIDE DEF score
<1> QED
  BY <1>1, <1>2

LEMMA MultiplierGrows == \A c \in Nat : Multiplier(c) <= Multiplier(c + 1)
<1> SUFFICES ASSUME NEW c \in Nat PROVE Multiplier(c) <= Multiplier(c + 1)
  OBVIOUS
<1> DEFINE low == c * ScorePerPayment
           high == (c + 1) * ScorePerPayment
<1>1. low \in Nat /\ high \in Nat /\ high = low + ScorePerPayment
  OBVIOUS
<1>2. low <= high
  BY <1>1
<1>3. Multiplier(c) = CASE low <= 20 -> 1
                        [] low > 20 /\ low <= 50 -> 2
                        [] low > 50 /\ low <= 80 -> 5
                        [] OTHER -> 10
  BY DEF Multiplier
<1>4. Multiplier(c + 1) = CASE high <= 20 -> 1
                            [] high > 20 /\ high <= 50 -> 2
                            [] high > 50 /\ high <= 80 -> 5
                            [] OTHER -> 10
  BY DEF Multiplier
<1> HIDE DEF low, high
<1> QED
  BY <1>1, <1>2, <1>3, <1>4

\* The plans are plans, with a bucket to begin with.
LEMMA PairType ==
    \A k1, k2 \in Keys, max1, max2 \in Nat :
        LET plan == <<[key |-> k1, max |-> max1], [key |-> k2, max |-> max2]>>
        IN plan \in Plans /\ plan # <<>>
BY DEF Plans

LEMMA HeadTail ==
    ASSUME NEW S, NEW s \in Seq(S), s # <<>>
    PROVE  Head(s) \in S /\ Tail(s) \in Seq(S)
OBVIOUS

LEMMA HeadType ==
    \A plan \in Plans : plan # <<>> =>
        /\ Head(plan).key \in Keys /\ Head(plan).max \in Nat
        /\ Tail(plan) \in Plans
<1> SUFFICES ASSUME NEW plan \in Plans, plan # <<>>
             PROVE  /\ Head(plan).key \in Keys /\ Head(plan).max \in Nat
                    /\ Tail(plan) \in Plans
  OBVIOUS
<1> DEFINE B == [key : Keys, max : Nat]
<1>1. plan \in Seq(B)
  BY DEF Plans
<1>2. Head(plan) \in B /\ Tail(plan) \in Seq(B)
  BY <1>1, HeadTail
<1> QED
  BY <1>2 DEF Plans

LEMMA EdgePlanType ==
    \A ip \in Ips : /\ EdgePlan(ip) \in Plans
                    /\ EdgePlan(ip) # <<>>
BY KeysOfPlans, PairType DEF EdgePlan, Bucket

LEMMA AuthPlanType ==
    \A a \in Agents, c \in {1, 2, 5, 10} :
        /\ AuthPlan(a, c) \in Plans
        /\ AuthPlan(a, c) # <<>>
<1> SUFFICES ASSUME NEW a \in Agents, NEW c \in {1, 2, 5, 10}
             PROVE  AuthPlan(a, c) \in Plans /\ AuthPlan(a, c) # <<>>
  OBVIOUS
<1>1. PaidBase * c \in Nat
  OBVIOUS
<1> QED
  BY <1>1, KeysOfPlans, PairType DEF AuthPlan, Bucket

LEMMA IdleType == Idle \in Record /\ \A now \in Nat : Sound(Idle, now)
BY DEF Idle, Record, Plans, Sound, NoMember

LEMMA GoOnType ==
    ASSUME NEW q \in Record, NEW now
    PROVE  GoOn(q) \in Record /\ Sound(GoOn(q), now)
<1>1. <<>> \in Plans
  BY DEF Plans
<1> DEFINE q1 == [q EXCEPT !.pc = IF q.pass = "edge" THEN "shield" ELSE "served"]
           q2 == [q1 EXCEPT !.todo = <<>>]
           q3 == [q2 EXCEPT !.member = NoMember]
<1>2. GoOn(q) = q3
  BY DEF GoOn
<1>3. q1 \in Record /\ q1.pc \in {"shield", "served"}
  BY DEF Record
<1> HIDE DEF q1
<1>4. q2 \in Record /\ q2.pc \in {"shield", "served"}
  BY <1>1, <1>3 DEF Record
<1> HIDE DEF q2
<1>5. q3 \in Record /\ q3.pc \in {"shield", "served"} /\ q3.member = NoMember
  BY <1>4 DEF Record
<1> QED
  BY <1>2, <1>5 DEF Sound

\* The head of the middleware.
LEMMA EnterType ==
    ASSUME NEW q \in Record, q.member = NoMember, Typed,
           NEW pc \in {"lookup", "consume"}, NEW plan \in Plans,
           pc = "lookup" => q.agent \in Agents,
           pc = "consume" => plan # <<>>
    PROVE  Enter(q, pc, plan) \in Record /\ Sound(Enter(q, pc, plan), clock)
<1>1. clock \in 0..MaxTime
  BY DEF Typed, TypeOK
<1>2. CASE store = "down"
  <2>1. [q EXCEPT !.degraded = TRUE] \in Record
    BY DEF Record
  <2> QED
    BY <1>2, <2>1, GoOnType DEF Enter
<1>3. CASE store # "down"
  <2> DEFINE q1 == [q EXCEPT !.pc = pc]
             q2 == [q1 EXCEPT !.stamp = clock]
             q3 == [q2 EXCEPT !.todo = plan]
  <2>1. Enter(q, pc, plan) = q3
    BY <1>3 DEF Enter
  <2>2. q1 \in Record /\ q1.pc = pc /\ q1.agent = q.agent /\ q1.member = NoMember
    BY DEF Record
  <2> HIDE DEF q1
  <2>3. /\ q2 \in Record /\ q2.pc = pc /\ q2.agent = q.agent /\ q2.member = NoMember
        /\ q2.stamp = clock
    BY <1>1, <2>2 DEF Record
  <2> HIDE DEF q2
  <2>4. /\ q3 \in Record /\ q3.pc = pc /\ q3.agent = q.agent /\ q3.member = NoMember
        /\ q3.stamp = clock /\ q3.todo = plan
    BY <2>3 DEF Record
  <2> HIDE DEF q3
  <2>5. clock <= clock /\ clock - clock <= MaxLag
    BY <1>1
  <2> QED
    BY <2>1, <2>4, <2>5 DEF Sound
<1> QED
  BY <1>2, <1>3

\* A call's entry is of its time, and new entries are entries.
LEMMA MemberType ==
    ASSUME Typed, NEW r \in Requests, h[r].pc = "consume", NEW k \in Keys
    PROVE  Member(r, k) \in Members /\ Member(r, k).ts = h[r].stamp
<1>1. h[r] \in Record /\ Sound(h[r], clock) /\ admitted[k] \in SUBSET Members
  BY DEF Typed, TypeOK, Record
<1>2. CASE h[r].member # NoMember
  BY <1>1, <1>2 DEF Member, Record, Sound
<1>3. CASE h[r].member = NoMember
  <2> DEFINE same == {m \in admitted[k] : m.ts = h[r].stamp}
  <2>1. IsFiniteSet(same)
    BY FS_Subset DEF Typed, Finite
  <2>2. Cardinality(same) \in Nat
    BY <2>1, FS_CardinalityType
  <2>3. Member(r, k) = [ts |-> h[r].stamp, n |-> 1 + Cardinality(same)]
    BY <1>3 DEF Member
  <2> HIDE DEF same
  <2> QED
    BY <1>1, <2>2, <2>3 DEF Members, Record
<1> QED
  BY <1>2, <1>3

LEMMA InsertType ==
    ASSUME Typed, NEW r \in Requests, h[r].pc = "consume", Insert(r)
    PROVE  /\ bucket' \in [Keys -> SUBSET Members]
           /\ admitted' \in [Keys -> SUBSET Members]
           /\ Finite'
<1> DEFINE k == Head(h[r].todo).key
<1>1. h[r] \in Record /\ Sound(h[r], clock)
  BY DEF Typed, TypeOK, Record
<1>2. k \in Keys
  BY <1>1, HeadType DEF Record, Sound
<1>3. Member(r, k) \in Members
  BY <1>2, MemberType
<1>4. /\ bucket' = [bucket EXCEPT ![k] = Kept(@, h[r].stamp) \cup {Member(r, k)}]
      /\ admitted' = [admitted EXCEPT ![k] = @ \cup {Member(r, k)}]
  BY DEF Insert
<1> HIDE DEF k
<1>5. IsFiniteSet(admitted[k] \cup {Member(r, k)})
  BY <1>2, FS_AddElement DEF Typed, Finite
<1> QED
  BY <1>2, <1>3, <1>4, <1>5 DEF Typed, TypeOK, Finite, Kept

\* One request moves, the rest of the state stays well typed.
LEMMA OneMoves ==
    ASSUME Typed, NEW r \in Requests, NEW q \in Record, Sound(q, clock),
           h' = [h EXCEPT ![r] = q], clock' = clock,
           store' = store, faults' \in 0..MaxFaults,
           bucket' \in [Keys -> SUBSET Members],
           admitted' \in [Keys -> SUBSET Members],
           Finite', paidCount' \in [Agents -> Nat]
    PROVE  Typed'
<1>1. h \in [Requests -> Record] /\ \A s \in Requests : Sound(h[s], clock)
  BY DEF Typed, TypeOK, Record
<1>2. h' \in [Requests -> Record] /\ \A s \in Requests : Sound(h'[s], clock')
  BY <1>1
<1>3. clock' \in 0..MaxTime /\ store' \in {"up", "failing", "down"}
  BY DEF Typed, TypeOK
<1>4. TypeOK'
  BY <1>2, <1>3 DEF TypeOK, Sound, Record
<1> QED
  BY <1>2, <1>4 DEF Typed

\* The same for a step that leaves the buckets alone.
LEMMA OneGoes ==
    ASSUME Typed, NEW r \in Requests, NEW q \in Record, Sound(q, clock),
           h' = [h EXCEPT ![r] = q],
           UNCHANGED <<clock, store, bucket, admitted, faults>>,
           paidCount' \in [Agents -> Nat]
    PROVE  Typed'
<1>1. /\ bucket' \in [Keys -> SUBSET Members] /\ admitted' \in [Keys -> SUBSET Members]
      /\ Finite' /\ faults' \in 0..MaxFaults
  BY DEF Typed, TypeOK, Finite
<1> QED
  BY <1>1, OneMoves
LEMMA TypeStep == Typed /\ [Next]_vars => Typed'
<1> SUFFICES ASSUME Typed, [Next]_vars PROVE Typed'
  OBVIOUS
<1>t. /\ h \in [Requests -> Record] /\ paidCount \in [Agents -> Nat]
      /\ clock \in 0..MaxTime /\ \A s \in Requests : Sound(h[s], clock)
  BY DEF Typed, TypeOK, Record
<1>1. ASSUME NEW r \in Requests, NEW ip \in Ips, Arrive(r, ip) PROVE Typed'
  <2> DEFINE q == [Idle EXCEPT !.ip = ip]
  <2>1. q \in Record /\ q.member = NoMember
    BY IdleType DEF Idle, Record
  <2>2. h' = [h EXCEPT ![r] = Enter(q, "consume", EdgePlan(ip))]
    BY <1>1 DEF Arrive
  <2> HIDE DEF q
  <2>3. /\ Enter(q, "consume", EdgePlan(ip)) \in Record
        /\ Sound(Enter(q, "consume", EdgePlan(ip)), clock)
    BY <2>1, EnterType, EdgePlanType
  <2> QED
    BY <1>1, <1>t, <2>2, <2>3, OneGoes DEF Arrive
<1>2. ASSUME NEW r \in Requests, PassUnpaid(r) PROVE Typed'
  <2> DEFINE q1 == [h[r] EXCEPT !.pass = "auth"]
             q2 == [q1 EXCEPT !.degraded = h[r].degraded \/ store = "down"]
  <2>1. h' = [h EXCEPT ![r] = GoOn(q2)]
    BY <1>2, <1>t DEF PassUnpaid
  <2>2. q1 \in Record
    BY <1>t DEF Record
  <2> HIDE DEF q1
  <2>3. q2 \in Record
    BY <2>2 DEF Record
  <2> HIDE DEF q2
  <2> QED
    BY <1>2, <1>t, <2>1, <2>3, GoOnType, OneGoes DEF PassUnpaid
<1>3. ASSUME NEW r \in Requests, NEW a \in Agents, PassPaid(r, a) PROVE Typed'
  <2> DEFINE q1 == [h[r] EXCEPT !.pass = "auth"]
             q2 == [q1 EXCEPT !.agent = a]
  <2>1. h' = [h EXCEPT ![r] = Enter(q2, "lookup", <<>>)]
    BY <1>3, <1>t DEF PassPaid
  <2>2. q1 \in Record /\ q1.member = NoMember
    BY <1>3, <1>t DEF Record, PassPaid, Sound
  <2> HIDE DEF q1
  <2>3. q2 \in Record /\ q2.member = NoMember /\ q2.agent = a
    BY <2>2 DEF Record
  <2> HIDE DEF q2
  <2>4. <<>> \in Plans
    BY DEF Plans
  <2>5. /\ Enter(q2, "lookup", <<>>) \in Record
        /\ Sound(Enter(q2, "lookup", <<>>), clock)
    BY <2>3, <2>4, EnterType
  <2>6. paidCount' \in [Agents -> Nat]
    BY <1>3, <1>t DEF PassPaid
  <2> QED
    BY <1>3, <2>1, <2>5, <2>6, OneGoes DEF PassPaid
<1>4. ASSUME NEW r \in Requests, Challenge(r) \/ Leave(r) PROVE Typed'
  <2>1. h' = [h EXCEPT ![r] = Idle]
    BY <1>4 DEF Challenge, Leave
  <2>2. Idle \in Record /\ Sound(Idle, clock)
    BY <1>t, IdleType
  <2> QED
    BY <1>4, <1>t, <2>1, <2>2, OneGoes DEF Challenge, Leave
<1>5. ASSUME NEW r \in Requests, Lookup(r) PROVE Typed'
  <2> DEFINE m == IF store = "up" THEN Multiplier(paidCount[h[r].agent]) ELSE 1
             q1 == [h[r] EXCEPT !.pc = "consume"]
             q2 == [q1 EXCEPT !.todo = AuthPlan(h[r].agent, m)]
  <2>1. h' = [h EXCEPT ![r] = q2]
    BY <1>5, <1>t DEF Lookup
  <2>2. h[r].pc = "lookup" /\ h[r].agent \in Agents
    BY <1>5, <1>t DEF Lookup, Sound
  <2>3. m \in {1, 2, 5, 10}
    BY <1>t, <2>2, MultiplierType
  <2> HIDE DEF m
  <2>4. AuthPlan(h[r].agent, m) \in Plans /\ AuthPlan(h[r].agent, m) # <<>>
    BY <2>2, <2>3, AuthPlanType
  <2>5. /\ q1 \in Record /\ q1.pc = "consume" /\ q1.member = NoMember
        /\ q1.stamp <= clock /\ clock - q1.stamp <= MaxLag
    BY <1>t, <2>2 DEF Record, Sound
  <2> HIDE DEF q1
  <2>6. /\ q2 \in Record /\ q2.pc = "consume" /\ q2.member = NoMember
        /\ q2.stamp = q1.stamp /\ q2.todo # <<>>
    BY <2>4, <2>5 DEF Record
  <2> HIDE DEF q2
  <2>7. Sound(q2, clock)
    BY <2>5, <2>6 DEF Sound
  <2> QED
    BY <1>5, <1>t, <2>1, <2>6, <2>7, OneGoes DEF Lookup
<1>6. ASSUME NEW r \in Requests, Admit(r) PROVE Typed'
  <2> DEFINE k == Head(h[r].todo).key
             q1 == [h[r] EXCEPT !.todo = Tail(@)]
             q2 == [q1 EXCEPT !.member = NoMember]
             q3 == [q2 EXCEPT !.counted = @ \cup {k}]
             q4 == IF q3.todo = <<>> THEN GoOn(q3) ELSE q3
  <2>1. h[r].pc = "consume" /\ h[r].todo # <<>> /\ h[r].todo \in Plans
    BY <1>6, <1>t DEF Admit, Sound, Record
  <2>2. k \in Keys /\ Tail(h[r].todo) \in Plans
    BY <2>1, HeadType
  <2>3. h' = [h EXCEPT ![r] = q4]
    BY <1>6, <1>t DEF Admit
  <2>4. /\ q1 \in Record /\ q1.pc = "consume"
        /\ q1.stamp <= clock /\ clock - q1.stamp <= MaxLag
    BY <1>t, <2>1, <2>2 DEF Record, Sound
  <2> HIDE DEF q1, k
  <2>5. /\ q2 \in Record /\ q2.pc = "consume" /\ q2.member = NoMember
        /\ q2.stamp = q1.stamp
    BY <2>4 DEF Record
  <2> HIDE DEF q2
  <2>6. /\ q3 \in Record /\ q3.pc = "consume" /\ q3.member = NoMember
        /\ q3.stamp = q1.stamp
    BY <2>2, <2>5 DEF Record
  <2> HIDE DEF q3
  <2>7. q4 \in Record /\ Sound(q4, clock)
    <3>1. CASE q3.todo = <<>>
      BY <2>6, <3>1, GoOnType
    <3>2. CASE q3.todo # <<>>
      BY <2>4, <2>6, <3>2 DEF Sound
    <3> QED
      BY <3>1, <3>2
  <2> HIDE DEF q4
  <2>8. /\ bucket' \in [Keys -> SUBSET Members] /\ admitted' \in [Keys -> SUBSET Members]
        /\ Finite'
    BY <1>6, InsertType DEF Admit
  <2>9. paidCount' \in [Agents -> Nat] /\ faults' \in 0..MaxFaults
    BY <1>6 DEF Admit, Typed, TypeOK
  <2> QED
    BY <1>6, <2>3, <2>7, <2>8, <2>9, OneMoves DEF Admit
<1>7. ASSUME NEW r \in Requests, Refuse(r) PROVE Typed'
  <2> DEFINE q == [h[r] EXCEPT !.pc = "blocked"]
  <2>1. h' = [h EXCEPT ![r] = q]
    BY <1>7 DEF Refuse
  <2>2. q \in Record /\ Sound(q, clock)
    BY <1>t DEF Record, Sound
  <2> HIDE DEF q
  <2>3. bucket' \in [Keys -> SUBSET Members]
    BY <1>7 DEF Refuse, Kept, Typed, TypeOK
  <2>4. /\ admitted' \in [Keys -> SUBSET Members] /\ Finite'
        /\ paidCount' \in [Agents -> Nat] /\ faults' \in 0..MaxFaults
    BY <1>7 DEF Refuse, Typed, TypeOK, Finite
  <2> QED
    BY <1>7, <2>1, <2>2, <2>3, <2>4, OneMoves DEF Refuse
<1>8. ASSUME NEW r \in Requests, LoseReply(r) PROVE Typed'
  <2> DEFINE k == Head(h[r].todo).key
             e == Member(r, k)
             q1 == [h[r] EXCEPT !.member = e]
             q2 == [q1 EXCEPT !.counted = @ \cup {k}]
  <2>1. h[r].pc = "consume" /\ h[r].todo # <<>> /\ h[r].todo \in Plans
    BY <1>8, <1>t DEF LoseReply, Sound, Record
  <2>2. k \in Keys
    BY <2>1, HeadType
  <2>3. h' = [h EXCEPT ![r] = q2]
    BY <1>8, <1>t DEF LoseReply
  <2> HIDE DEF k
  <2>4. e \in Members /\ e.ts = h[r].stamp
    BY <2>1, <2>2, MemberType
  <2> HIDE DEF e
  <2>5. /\ q1 \in Record /\ q1.pc = "consume" /\ q1.member.ts = q1.stamp
        /\ q1.todo # <<>> /\ q1.stamp <= clock /\ clock - q1.stamp <= MaxLag
    BY <1>t, <2>1, <2>4 DEF Record, Sound
  <2> HIDE DEF q1
  <2>6. q2 \in Record /\ q2.pc = "consume" /\ q2.member = q1.member
        /\ q2.todo = q1.todo /\ q2.stamp = q1.stamp
    BY <2>2, <2>5 DEF Record
  <2> HIDE DEF q2
  <2>7. Sound(q2, clock)
    BY <2>5, <2>6 DEF Sound
  <2>8. /\ bucket' \in [Keys -> SUBSET Members] /\ admitted' \in [Keys -> SUBSET Members]
        /\ Finite'
    BY <1>8, InsertType DEF LoseReply
  <2>9. paidCount' \in [Agents -> Nat] /\ faults' \in 0..MaxFaults
    BY <1>8 DEF LoseReply, Fault, Typed, TypeOK
  <2> QED
    BY <1>8, <2>3, <2>6, <2>7, <2>8, <2>9, OneMoves DEF LoseReply
<1>9. ASSUME NEW r \in Requests, Degrade(r) PROVE Typed'
  <2> DEFINE q == [h[r] EXCEPT !.degraded = TRUE]
  <2>1. h' = [h EXCEPT ![r] = GoOn(q)]
    BY <1>9, <1>t DEF Degrade
  <2>2. q \in Record
    BY <1>t DEF Record
  <2> HIDE DEF q
  <2> QED
    BY <1>9, <1>t, <2>1, <2>2, GoOnType, OneGoes DEF Degrade
<1>10. ASSUME NEW k \in Keys, NEW now \in (clock - MaxLag)..clock, Query(k, now)
       PROVE  Typed'
  BY <1>10 DEF Query, Kept, Typed, TypeOK, Finite
<1>11. ASSUME NEW k \in Keys, KeyExpire(k) PROVE Typed'
  BY <1>11 DEF KeyExpire, Typed, TypeOK, Finite
<1>12. ASSUME Tick PROVE Typed'
  <2>1. clock' = clock + 1 /\ clock' \in 0..MaxTime
        /\ UNCHANGED <<store, bucket, paidCount, h, admitted, faults>>
    BY <1>12, <1>t DEF Tick
  <2>2. ASSUME NEW r \in Requests PROVE Sound(h[r], clock')
    <3>1. h[r].pc \in {"lookup", "consume"} => clock + 1 - h[r].stamp <= MaxLag
      BY <1>12 DEF Tick
    <3>2. h[r].stamp \in 0..MaxTime
      BY <1>t DEF Record
    <3> QED
      BY <1>t, <2>1, <3>1, <3>2 DEF Sound
  <2>3. TypeOK'
    BY <2>1, <2>2 DEF Typed, TypeOK, Sound
  <2> QED
    BY <2>1, <2>2, <2>3 DEF Typed, Finite
<1>13. ASSUME Connection PROVE Typed'
  BY <1>13 DEF Connection, Fault, Typed, TypeOK, Finite
<1>14. ASSUME UNCHANGED vars PROVE Typed'
  BY <1>14 DEF vars, Typed, TypeOK, Finite
<1> QED
  BY <1>1, <1>2, <1>3, <1>4, <1>5, <1>6, <1>7, <1>8, <1>9, <1>10, <1>11, <1>12,
     <1>13, <1>14 DEF Next, Step

LEMMA TypeInit == Init => Typed
<1> SUFFICES ASSUME Init PROVE Typed
  OBVIOUS
<1>1. Finite
  BY FS_EmptySet DEF Init, Finite
<1>2. h \in [Requests -> Record] /\ \A r \in Requests : Sound(h[r], clock)
  BY IdleType DEF Init
<1>3. TypeOK
  BY <1>2 DEF Init, TypeOK, Sound, Record
<1> QED
  BY <1>1, <1>2, <1>3 DEF Typed

\* Every reachable state is well typed, and no call reaches the store with a
\* timestamp older than MaxLag.
THEOREM TypeCorrect == Spec => []TypeOK
<1>1. Typed => TypeOK
  BY DEF Typed
<1> QED
  BY <1>1, TypeInit, TypeStep, PTL DEF Spec

-----------------------------------------------------------------------------
(* The sliding window.  The bound alone is not inductive: it must also be  *)
(* known that no prune, by whatever timestamp, has taken an entry that is  *)
(* still in some window that can be asked for, and that the limit a call   *)
(* was given is no larger than the bucket's limit now.                     *)

KeptInv ==
    \A k \in Keys :
        /\ bucket[k] \subseteq admitted[k]
        /\ \A m \in admitted[k] : m.ts > clock - Window => m \in bucket[k]

Fits(plan) == \A i \in 1..Len(plan) : plan[i].max <= Limit(plan[i].key)

PlanInv == \A r \in Requests : h[r].pc = "consume" => Fits(h[r].todo)

LEMMA LimitType == Typed => \A k \in Keys : Limit(k) \in Nat
<1> SUFFICES ASSUME Typed, NEW k \in Keys PROVE Limit(k) \in Nat
  OBVIOUS
<1>1. CASE k = <<"global", Everybody>>
  BY <1>1 DEF Limit
<1>2. CASE \E ip \in Ips : k = <<"ip", ip>>
  BY <1>2 DEF Limit
<1>3. CASE \E a \in Agents : k = <<"pubkey", a>>
  BY <1>3 DEF Limit
<1>4. CASE \E a \in Agents : k = <<"paid", a>>
  <2>1. PICK a \in Agents : k = <<"paid", a>>
    BY <1>4
  <2>2. Multiplier(paidCount[a]) \in {1, 2, 5, 10}
    BY MultiplierType DEF Typed, TypeOK
  <2>3. Limit(k) = PaidBase * Multiplier(paidCount[a])
    BY <2>1 DEF Limit
  <2> QED
    BY <2>2, <2>3
<1> QED
  BY <1>1, <1>2, <1>3, <1>4 DEF Keys

\* Payments are only added, so limits only grow.
LEMMA LimitsGrow ==
    Typed /\ [Next]_vars => \A k \in Keys : Limit(k)' \in Nat /\ Limit(k) <= Limit(k)'
<1> SUFFICES ASSUME Typed, [Next]_vars, NEW k \in Keys
             PROVE  Limit(k)' \in Nat /\ Limit(k) <= Limit(k)'
  OBVIOUS
<1>t. paidCount \in [Agents -> Nat] /\ Limit(k) \in Nat
  BY LimitType DEF Typed, TypeOK
<1>1. CASE UNCHANGED paidCount
  BY <1>1, <1>t DEF Limit
<1>2. ASSUME NEW r \in Requests, NEW a \in Agents, PassPaid(r, a)
      PROVE  Limit(k)' \in Nat /\ Limit(k) <= Limit(k)'
  <2>1. paidCount' = [paidCount EXCEPT ![a] = @ + 1]
    BY <1>2 DEF PassPaid
  <2>2. CASE k = <<"paid", a>>
    <3> DEFINE low == Multiplier(paidCount[a])
               high == Multiplier(paidCount[a] + 1)
    <3>1. Limit(k) = PaidBase * low /\ Limit(k)' = PaidBase * high
      BY <1>t, <2>1, <2>2 DEF Limit
    <3>2. low \in {1, 2, 5, 10} /\ high \in {1, 2, 5, 10} /\ low <= high
      BY <1>t, MultiplierType, MultiplierGrows
    <3> HIDE DEF low, high
    <3> QED
      BY <3>1, <3>2
  <2>3. CASE k[1] # "paid"
    <3>1. k[1] \in {"global", "ip", "pubkey"}
      BY <2>3 DEF Keys
    <3>2. Limit(k)' = Limit(k)
      BY <3>1 DEF Limit
    <3> QED
      BY <1>t, <3>2
  <2>4. CASE \E b \in Agents : b # a /\ k = <<"paid", b>>
    <3>1. Limit(k)' = Limit(k)
      BY <1>t, <2>1, <2>4 DEF Limit
    <3> QED
      BY <1>t, <3>1
  <2> QED
    BY <2>2, <2>3, <2>4 DEF Keys
<1>3. UNCHANGED paidCount \/ \E r \in Requests, a \in Agents : PassPaid(r, a)
  BY DEF Next, Step, Arrive, PassUnpaid, Challenge, Lookup, Admit, Refuse, LoseReply,
         Degrade, Leave, Query, KeyExpire, Tick, Connection, vars
<1> QED
  BY <1>1, <1>2, <1>3

LEMMA EntryType ==
    ASSUME NEW plan \in Plans, NEW i \in 1..Len(plan)
    PROVE  plan[i].key \in Keys /\ plan[i].max \in Nat
<1> DEFINE B == [key : Keys, max : Nat]
<1>1. plan \in Seq(B)
  BY DEF Plans
<1> HIDE DEF B
<1>2. plan[i] \in B
  BY <1>1
<1> QED
  BY <1>2 DEF B

LEMMA FitsStill ==
    ASSUME Typed, [Next]_vars, NEW plan \in Plans, Fits(plan)
    PROVE  Fits(plan)'
<1> SUFFICES ASSUME NEW i \in 1..Len(plan) PROVE plan[i].max <= Limit(plan[i].key)'
  BY DEF Fits
<1>1. plan[i].key \in Keys /\ plan[i].max \in Nat
  BY EntryType
<1>2. plan[i].max <= Limit(plan[i].key)
  BY DEF Fits
<1>3. Limit(plan[i].key)' \in Nat /\ Limit(plan[i].key) <= Limit(plan[i].key)'
  BY <1>1, LimitsGrow
<1>4. Limit(plan[i].key) \in Nat
  BY <1>1, LimitType
<1> QED
  BY <1>1, <1>2, <1>3, <1>4

LEMMA FitsTail ==
    ASSUME NEW plan \in Plans, plan # <<>>, Fits(plan)
    PROVE  Fits(Tail(plan)) /\ Head(plan).max <= Limit(Head(plan).key)
<1> DEFINE B == [key : Keys, max : Nat]
<1>1. plan \in Seq(B)
  BY DEF Plans
<1> HIDE DEF B
<1>2. /\ Len(Tail(plan)) = Len(plan) - 1 /\ Len(plan) \in Nat \ {0}
      /\ Head(plan) = plan[1]
      /\ \A i \in 1..Len(Tail(plan)) : Tail(plan)[i] = plan[i + 1]
  BY <1>1
<1>3. Head(plan).max <= Limit(Head(plan).key)
  BY <1>2 DEF Fits
<1>4. ASSUME NEW i \in 1..Len(Tail(plan))
      PROVE  Tail(plan)[i].max <= Limit(Tail(plan)[i].key)
  <2>1. i + 1 \in 1..Len(plan)
    BY <1>2
  <2> QED
    BY <1>2, <2>1 DEF Fits
<1> QED
  BY <1>3, <1>4 DEF Fits

\* The buckets of the edge pass have constant limits.
LEMMA EdgeFits == \A ip \in Ips : Fits(EdgePlan(ip))
<1> SUFFICES ASSUME NEW ip \in Ips PROVE Fits(EdgePlan(ip))
  OBVIOUS
<1>1. Limit(<<"global", Everybody>>) = GlobalMax /\ Limit(<<"ip", ip>>) = IpMax
  BY DEF Limit
<1>2. EdgePlan(ip) = <<[key |-> <<"global", Everybody>>, max |-> GlobalMax],
                       [key |-> <<"ip", ip>>, max |-> IpMax]>>
  BY DEF EdgePlan, Bucket
<1>3. /\ Len(EdgePlan(ip)) = 2
      /\ EdgePlan(ip)[1].key = <<"global", Everybody>> /\ EdgePlan(ip)[1].max = GlobalMax
      /\ EdgePlan(ip)[2].key = <<"ip", ip>> /\ EdgePlan(ip)[2].max = IpMax
  BY <1>2
<1>4. \A i \in 1..Len(EdgePlan(ip)) : i = 1 \/ i = 2
  BY <1>3
<1>5. GlobalMax <= GlobalMax /\ IpMax <= IpMax
  OBVIOUS
<1> QED
  BY <1>1, <1>3, <1>4, <1>5 DEF Fits

\* The limit for paid requests is the payer's own, or the smallest.
LEMMA AuthFits ==
    ASSUME Typed, NEW a \in Agents, NEW c \in {1, 2, 5, 10},
           c = 1 \/ c = Multiplier(paidCount[a])
    PROVE  Fits(AuthPlan(a, c))
<1>1. Multiplier(paidCount[a]) \in {1, 2, 5, 10}
  BY MultiplierType DEF Typed, TypeOK
<1>2. /\ Limit(<<"pubkey", a>>) = PubkeyMax
      /\ Limit(<<"paid", a>>) = PaidBase * Multiplier(paidCount[a])
  BY DEF Limit
<1>3. PaidBase * c <= Limit(<<"paid", a>>)
  BY <1>1, <1>2
<1>4. AuthPlan(a, c) = <<[key |-> <<"pubkey", a>>, max |-> PubkeyMax],
                         [key |-> <<"paid", a>>, max |-> PaidBase * c]>>
  BY DEF AuthPlan, Bucket
<1>5. /\ Len(AuthPlan(a, c)) = 2
      /\ AuthPlan(a, c)[1].key = <<"pubkey", a>> /\ AuthPlan(a, c)[1].max = PubkeyMax
      /\ AuthPlan(a, c)[2].key = <<"paid", a>> /\ AuthPlan(a, c)[2].max = PaidBase * c
  BY <1>4
<1>6. \A i \in 1..Len(AuthPlan(a, c)) : i = 1 \/ i = 2
  BY <1>5
<1>7. PubkeyMax <= PubkeyMax
  OBVIOUS
<1> QED
  BY <1>2, <1>3, <1>5, <1>6, <1>7 DEF Fits

\* A request that consumes has the plan of its pass, or what is left of it.
LEMMA PlanOrigin ==
    ASSUME Typed, PlanInv, [Next]_vars, NEW s \in Requests, h'[s].pc = "consume"
    PROVE  h'[s].todo \in Plans /\ Fits(h'[s].todo)
<1>t. /\ h \in [Requests -> Record] /\ h[s] \in Record /\ Sound(h[s], clock)
      /\ paidCount \in [Agents -> Nat]
  BY DEF Typed, TypeOK, Record
<1>s. ASSUME h[s].pc = "consume", h'[s].todo = h[s].todo
      PROVE  h'[s].todo \in Plans /\ Fits(h'[s].todo)
  BY <1>t, <1>s DEF PlanInv, Record
<1>0. ASSUME h'[s] = h[s] PROVE h'[s].todo \in Plans /\ Fits(h'[s].todo)
  BY <1>0, <1>s
<1>g. \A q : GoOn(q).pc # "consume"
  BY DEF GoOn
<1>1. ASSUME NEW r \in Requests, NEW ip \in Ips, Arrive(r, ip)
      PROVE  h'[s].todo \in Plans /\ Fits(h'[s].todo)
  <2>1. CASE s = r
    <3>1. h'[s] = Enter([Idle EXCEPT !.ip = ip], "consume", EdgePlan(ip))
      BY <1>1, <1>t, <2>1 DEF Arrive
    <3>2. store # "down"
      BY <3>1, <1>g DEF Enter
    <3>3. h'[s].todo = EdgePlan(ip)
      BY <3>1, <3>2 DEF Enter, Idle
    <3> QED
      BY <3>3, EdgePlanType, EdgeFits
  <2> QED
    BY <1>0, <1>1, <1>t, <2>1 DEF Arrive
<1>2. ASSUME NEW r \in Requests, PassUnpaid(r)
      PROVE  h'[s].todo \in Plans /\ Fits(h'[s].todo)
  <2>1. s # r
    BY <1>2, <1>g, <1>t DEF PassUnpaid
  <2> QED
    BY <1>0, <1>2, <1>t, <2>1 DEF PassUnpaid
<1>3. ASSUME NEW r \in Requests, NEW a \in Agents, PassPaid(r, a)
      PROVE  h'[s].todo \in Plans /\ Fits(h'[s].todo)
  <2>1. \A q : Enter(q, "lookup", <<>>).pc # "consume"
    BY <1>g DEF Enter
  <2>2. s # r
    BY <1>3, <1>t, <2>1 DEF PassPaid
  <2> QED
    BY <1>0, <1>3, <1>t, <2>2 DEF PassPaid
<1>4. ASSUME NEW r \in Requests, Challenge(r) \/ Leave(r)
      PROVE  h'[s].todo \in Plans /\ Fits(h'[s].todo)
  BY <1>0, <1>4, <1>t DEF Challenge, Leave, Idle
<1>5. ASSUME NEW r \in Requests, Lookup(r)
      PROVE  h'[s].todo \in Plans /\ Fits(h'[s].todo)
  <2>1. CASE s = r
    <3> DEFINE m == IF store = "up" THEN Multiplier(paidCount[h[r].agent]) ELSE 1
    <3>1. h[r].agent \in Agents
      BY <1>5, <1>t, <2>1 DEF Lookup, Sound
    <3>2. m \in {1, 2, 5, 10} /\ (m = 1 \/ m = Multiplier(paidCount[h[r].agent]))
      BY <1>t, <3>1, MultiplierType
    <3>3. h'[s].todo = AuthPlan(h[r].agent, m)
      BY <1>5, <1>t, <2>1 DEF Lookup, Record
    <3> HIDE DEF m
    <3> QED
      BY <3>1, <3>2, <3>3, AuthPlanType, AuthFits
  <2> QED
    BY <1>0, <1>5, <1>t, <2>1 DEF Lookup
<1>6. ASSUME NEW r \in Requests, Admit(r)
      PROVE  h'[s].todo \in Plans /\ Fits(h'[s].todo)
  <2>1. CASE s = r
    <3> DEFINE q == [h[r] EXCEPT !.todo = Tail(@), !.member = NoMember,
                                 !.counted = @ \cup {Head(h[r].todo).key}]
    <3>1. h'[s] = IF q.todo = <<>> THEN GoOn(q) ELSE q
      BY <1>6, <1>t, <2>1 DEF Admit
    <3>2. q.todo = Tail(h[r].todo)
      BY <1>t, <2>1 DEF Record
    <3> HIDE DEF q
    <3>3. h'[s] = q
      BY <1>g, <3>1
    <3>4. h[r].pc = "consume" /\ h[r].todo # <<>> /\ h[r].todo \in Plans /\ Fits(h[r].todo)
      BY <1>6, <1>t, <2>1 DEF Admit, Sound, Record, PlanInv
    <3> QED
      BY <3>2, <3>3, <3>4, HeadType, FitsTail
  <2> QED
    BY <1>0, <1>6, <1>t, <2>1 DEF Admit
<1>7. ASSUME NEW r \in Requests, Refuse(r)
      PROVE  h'[s].todo \in Plans /\ Fits(h'[s].todo)
  BY <1>0, <1>7, <1>t DEF Refuse, Record
<1>8. ASSUME NEW r \in Requests, LoseReply(r)
      PROVE  h'[s].todo \in Plans /\ Fits(h'[s].todo)
  <2>1. CASE s = r
    <3>1. h[s].pc = "consume" /\ h'[s].todo = h[s].todo
      BY <1>8, <1>t, <2>1 DEF LoseReply, Record
    <3> QED
      BY <3>1, <1>s
  <2> QED
    BY <1>0, <1>8, <1>t, <2>1 DEF LoseReply
<1>9. ASSUME NEW r \in Requests, Degrade(r)
      PROVE  h'[s].todo \in Plans /\ Fits(h'[s].todo)
  <2>1. s # r
    BY <1>9, <1>g, <1>t DEF Degrade
  <2> QED
    BY <1>0, <1>9, <1>t, <2>1 DEF Degrade
<1>10. ASSUME UNCHANGED h PROVE h'[s].todo \in Plans /\ Fits(h'[s].todo)
  BY <1>0, <1>10
<1> QED
  BY <1>1, <1>2, <1>3, <1>4, <1>5, <1>6, <1>7, <1>8, <1>9, <1>10
  DEF Next, Step, Query, KeyExpire, Tick, Connection, vars

LEMMA PlanStep == Typed /\ PlanInv /\ [Next]_vars => PlanInv'
<1> SUFFICES ASSUME Typed, PlanInv, [Next]_vars, NEW s \in Requests, (h[s].pc = "consume")'
             PROVE  Fits(h[s].todo)'
  BY DEF PlanInv
<1>1. PICK plan \in Plans : plan = h'[s].todo /\ Fits(plan)
  BY PlanOrigin
<1>2. Fits(plan)'
  BY <1>1, FitsStill
<1> QED
  BY <1>1, <1>2 DEF Fits

Seen(k, t) == {m \in admitted[k] : t - (Window - MaxLag) < m.ts /\ m.ts <= t}

\* Adding an entry where there is room keeps the bound.
LEMMA InsertKeeps ==
    ASSUME Typed, KeptInv, PlanInv, WindowBound, NEW r \in Requests,
           h[r].pc = "consume", ~Full(r), Insert(r), UNCHANGED <<clock, paidCount>>
    PROVE  KeptInv' /\ WindowBound'
<1> DEFINE k == Head(h[r].todo).key
           max == Head(h[r].todo).max
           s == h[r].stamp
           e == Member(r, k)
           K == Kept(bucket[k], s)
<1>1. h[r] \in Record /\ Sound(h[r], clock) /\ clock \in 0..MaxTime
  BY DEF Typed, TypeOK, Record
<1>2. h[r].todo \in Plans /\ h[r].todo # <<>>
  BY <1>1 DEF Record, Sound
<1>3. k \in Keys /\ max \in Nat
  BY <1>2, HeadType
<1>4. e \in Members /\ e.ts = s
  BY <1>3, MemberType
<1>5. s \in 0..MaxTime /\ s <= clock /\ clock - s <= MaxLag
  BY <1>1 DEF Record, Sound
<1>6. max <= Limit(k) /\ Limit(k) \in Nat
  BY <1>2, <1>3, FitsTail, LimitType DEF PlanInv
<1>7. /\ bucket' = [bucket EXCEPT ![k] = K \cup {e}]
      /\ admitted' = [admitted EXCEPT ![k] = @ \cup {e}]
  BY DEF Insert
<1>8. ~(Cardinality(K) >= max)
  BY DEF Full
<1>9. /\ K = {m \in bucket[k] : m.ts > s - Window}
      /\ bucket \in [Keys -> SUBSET Members] /\ admitted \in [Keys -> SUBSET Members]
      /\ IsFiniteSet(admitted[k])
      /\ bucket[k] \subseteq admitted[k]
      /\ \A m \in admitted[k] : m.ts > clock - Window => m \in bucket[k]
      /\ \A m \in Members : m.ts \in 0..MaxTime
  BY <1>3 DEF Kept, Typed, TypeOK, Finite, KeptInv, Members
<1>10. bucket'[k] = K \cup {e} /\ admitted'[k] = admitted[k] \cup {e}
  BY <1>3, <1>7, <1>9
<1>11. \A j \in Keys \ {k} : bucket'[j] = bucket[j] /\ admitted'[j] = admitted[j]
  BY <1>7, <1>9
<1> HIDE DEF k, max, s, e, K
<1>12. KeptInv'
  <2>1. bucket'[k] \subseteq admitted'[k]
    BY <1>9, <1>10
  <2>2. ASSUME NEW m \in admitted'[k], m.ts > clock - Window PROVE m \in bucket'[k]
    <3>1. CASE m = e
      BY <1>10, <3>1
    <3>2. CASE m \in admitted[k]
      <4>1. m \in bucket[k] /\ m.ts \in 0..MaxTime
        BY <1>3, <1>9, <2>2, <3>2
      <4>2. m.ts > s - Window
        BY <1>1, <1>5, <2>2, <4>1
      <4> QED
        BY <1>9, <1>10, <4>1, <4>2
    <3> QED
      BY <1>10, <3>1, <3>2
  <2> QED
    BY <1>3, <1>11, <2>1, <2>2 DEF KeptInv
<1>13. WindowBound'
  <2> SUFFICES ASSUME NEW j \in Keys, NEW t \in 0..MaxTime
               PROVE  Cardinality(Seen(j, t)') <= Limit(j)'
    BY DEF WindowBound, Seen
  <2>0. Limit(j)' = Limit(j)
    BY DEF Limit
  <2>1. Cardinality(Seen(j, t)) <= Limit(j)
    BY DEF WindowBound, Seen
  <2>2. CASE j # k
    <3>1. Seen(j, t)' = Seen(j, t)
      BY <1>11, <2>2 DEF Seen
    <3> QED
      BY <2>0, <2>1, <3>1
  <2>3. CASE j = k /\ ~(t - (Window - MaxLag) < s /\ s <= t)
    <3>1. Seen(j, t)' = Seen(j, t)
      BY <1>4, <1>10, <2>3 DEF Seen
    <3> QED
      BY <2>0, <2>1, <3>1
  <2>4. CASE j = k /\ t - (Window - MaxLag) < s /\ s <= t
    <3>1. Seen(j, t)' \subseteq K \cup {e}
      <4> SUFFICES ASSUME NEW m \in Seen(j, t)', m # e PROVE m \in K
        OBVIOUS
      <4>1. m \in admitted[k] /\ t - (Window - MaxLag) < m.ts
        BY <1>10, <2>4 DEF Seen
      <4>2. m.ts \in 0..MaxTime
        BY <1>3, <1>9, <4>1
      <4>3. m.ts > clock - Window /\ m.ts > s - Window
        BY <1>1, <1>5, <2>4, <4>1, <4>2
      <4> QED
        BY <1>9, <4>1, <4>3
    <3>2. IsFiniteSet(K)
      BY <1>9, FS_Subset
    <3>3. /\ IsFiniteSet(K \cup {e})
          /\ Cardinality(K \cup {e}) = IF e \in K THEN Cardinality(K) ELSE Cardinality(K) + 1
      BY <3>2, FS_AddElement
    <3>4. /\ Cardinality(Seen(j, t)') \in Nat /\ Cardinality(K) \in Nat
          /\ Cardinality(Seen(j, t)') <= Cardinality(K \cup {e})
      BY <3>1, <3>2, <3>3, FS_Subset, FS_CardinalityType
    <3>5. Cardinality(K) < max
      BY <1>3, <1>8, <3>4
    <3>6. Cardinality(K \cup {e}) <= max
      BY <1>3, <3>3, <3>4, <3>5
    <3> QED
      BY <1>3, <1>6, <2>0, <2>4, <3>3, <3>4, <3>5, <3>6
  <2> QED
    BY <2>2, <2>3, <2>4
<1> QED
  BY <1>12, <1>13

\* Whoever prunes does it by a time that has come: no entry of a window that
\* can still be asked for is lost.
LEMMA PruneKeeps ==
    ASSUME Typed, KeptInv, NEW k \in Keys, NEW now \in Int, now <= clock,
           bucket' = [bucket EXCEPT ![k] = Kept(@, now)], UNCHANGED <<clock, admitted>>
    PROVE  KeptInv'
<1>1. bucket \in [Keys -> SUBSET Members] /\ admitted \in [Keys -> SUBSET Members]
      /\ clock \in 0..MaxTime
  BY DEF Typed, TypeOK
<1>2. \A j \in Keys : bucket'[j] \subseteq bucket[j]
  BY <1>1 DEF Kept
<1>3. ASSUME NEW j \in Keys, NEW m \in admitted[j], m.ts > clock - Window
      PROVE  m \in bucket'[j]
  <2>1. m \in bucket[j] /\ m.ts \in 0..MaxTime
    BY <1>1, <1>3 DEF KeptInv, Members
  <2>2. m.ts > now - Window
    BY <1>1, <1>3, <2>1
  <2> QED
    BY <1>1, <2>1, <2>2 DEF Kept
<1> QED
  BY <1>2, <1>3 DEF KeptInv

\* No entry is added: the bound stays, for limits only grow.
LEMMA BoundStays ==
    ASSUME Typed, WindowBound, [Next]_vars, UNCHANGED admitted
    PROVE  WindowBound'
<1> SUFFICES ASSUME NEW k \in Keys, NEW t \in 0..MaxTime
             PROVE  Cardinality(Seen(k, t)') <= Limit(k)'
  BY DEF WindowBound, Seen
<1>1. Seen(k, t)' = Seen(k, t)
  BY DEF Seen
<1>2. Cardinality(Seen(k, t)) <= Limit(k)
  BY DEF WindowBound, Seen
<1>3. Limit(k) \in Nat /\ Limit(k)' \in Nat /\ Limit(k) <= Limit(k)'
  BY LimitType, LimitsGrow
<1>4. IsFiniteSet(Seen(k, t))
  BY FS_Subset DEF Seen, Typed, Finite
<1>5. Cardinality(Seen(k, t)) \in Nat
  BY <1>4, FS_CardinalityType
<1> QED
  BY <1>1, <1>2, <1>3, <1>5

SlidingInv == KeptInv /\ PlanInv /\ WindowBound

LEMMA SlidingStep == Typed /\ SlidingInv /\ [Next]_vars => SlidingInv'
<1> SUFFICES ASSUME Typed, SlidingInv, [Next]_vars PROVE KeptInv' /\ WindowBound'
  BY PlanStep DEF SlidingInv
<1>i. KeptInv /\ PlanInv /\ WindowBound
  BY DEF SlidingInv
<1>t. /\ h \in [Requests -> Record] /\ \A r \in Requests : Sound(h[r], clock)
      /\ clock \in 0..MaxTime
  BY DEF Typed, TypeOK, Record
<1>0. ASSUME UNCHANGED <<clock, bucket, admitted>> PROVE KeptInv' /\ WindowBound'
  BY <1>i, <1>0, BoundStays DEF KeptInv
<1>1. ASSUME NEW r \in Requests, Admit(r) \/ LoseReply(r) PROVE KeptInv' /\ WindowBound'
  <2>1. /\ h[r].pc = "consume" /\ ~Full(r) /\ Insert(r) /\ UNCHANGED <<clock, paidCount>>
    BY <1>1 DEF Admit, LoseReply
  <2> QED
    BY <1>i, <2>1, InsertKeeps
<1>2. ASSUME NEW r \in Requests, Refuse(r) PROVE KeptInv' /\ WindowBound'
  <2> DEFINE k == Head(h[r].todo).key
             now == h[r].stamp
  <2>1. h[r].pc = "consume" /\ h[r] \in Record /\ Sound(h[r], clock)
    BY <1>2, <1>t DEF Refuse
  <2>2. h[r].todo \in Plans /\ h[r].todo # <<>>
    BY <2>1 DEF Record, Sound
  <2>3. k \in Keys
    BY <2>2, HeadType
  <2>4. now \in Int /\ now <= clock
    BY <2>1 DEF Record, Sound
  <2>5. bucket' = [bucket EXCEPT ![k] = Kept(@, now)] /\ UNCHANGED <<clock, admitted>>
    BY <1>2 DEF Refuse
  <2> HIDE DEF k, now
  <2> QED
    BY <1>i, <2>3, <2>4, <2>5, PruneKeeps, BoundStays
<1>3. ASSUME NEW k \in Keys, NEW now \in (clock - MaxLag)..clock, Query(k, now)
      PROVE  KeptInv' /\ WindowBound'
  <2>1. now \in Int /\ now <= clock
    BY <1>t
  <2>2. bucket' = [bucket EXCEPT ![k] = Kept(@, now)] /\ UNCHANGED <<clock, admitted>>
    BY <1>3 DEF Query
  <2> QED
    BY <1>i, <2>1, <2>2, PruneKeeps, BoundStays
<1>4. ASSUME NEW k \in Keys, KeyExpire(k) PROVE KeptInv' /\ WindowBound'
  <2>1. /\ \A m \in bucket[k] : m.ts + Window <= clock
        /\ bucket' = [bucket EXCEPT ![k] = {}] /\ UNCHANGED <<clock, admitted>>
    BY <1>4 DEF KeyExpire
  <2>2. /\ bucket \in [Keys -> SUBSET Members] /\ admitted \in [Keys -> SUBSET Members]
    BY DEF Typed, TypeOK
  <2>3. ASSUME NEW j \in Keys, NEW m \in admitted[j], m.ts > clock - Window
        PROVE  m \in bucket'[j]
    <3>1. m \in bucket[j] /\ m.ts \in 0..MaxTime
      BY <1>i, <2>2, <2>3 DEF KeptInv, Members
    <3>2. ~(m.ts + Window <= clock)
      BY <1>t, <2>3, <3>1
    <3> QED
      BY <2>1, <2>2, <3>1, <3>2
  <2>4. KeptInv'
    BY <1>i, <2>1, <2>2, <2>3 DEF KeptInv
  <2> QED
    BY <1>i, <2>1, <2>4, BoundStays
<1>5. ASSUME Tick PROVE KeptInv' /\ WindowBound'
  <2>1. clock' = clock + 1 /\ UNCHANGED <<bucket, admitted>>
    BY <1>5 DEF Tick
  <2>2. ASSUME NEW j \in Keys, NEW m \in admitted[j], m.ts > clock' - Window
        PROVE  m \in bucket[j]
    <3>1. m.ts \in 0..MaxTime
      BY DEF Typed, TypeOK, Members
    <3>2. m.ts > clock - Window
      BY <1>t, <2>1, <2>2, <3>1
    <3> QED
      BY <1>i, <3>2 DEF KeptInv
  <2>3. KeptInv'
    BY <1>i, <2>1, <2>2 DEF KeptInv
  <2> QED
    BY <1>i, <2>1, <2>3, BoundStays
<1>6. ASSUME NEW r \in Requests,
             \/ \E ip \in Ips : Arrive(r, ip)
             \/ PassUnpaid(r)
             \/ \E a \in Agents : PassPaid(r, a)
             \/ Challenge(r) \/ Lookup(r) \/ Degrade(r) \/ Leave(r)
      PROVE  KeptInv' /\ WindowBound'
  BY <1>0, <1>6 DEF Arrive, PassUnpaid, PassPaid, Challenge, Lookup, Degrade, Leave
<1>7. ASSUME Connection \/ UNCHANGED vars PROVE KeptInv' /\ WindowBound'
  BY <1>0, <1>7 DEF Connection, vars
<1> QED
  BY <1>1, <1>2, <1>3, <1>4, <1>5, <1>6, <1>7 DEF Next, Step

LEMMA SlidingInit == Init => SlidingInv
<1> SUFFICES ASSUME Init PROVE SlidingInv
  OBVIOUS
<1>1. KeptInv /\ PlanInv
  BY DEF Init, KeptInv, PlanInv, Idle
<1>2. ASSUME NEW k \in Keys, NEW t \in 0..MaxTime PROVE Cardinality(Seen(k, t)) <= Limit(k)
  <2>1. Seen(k, t) = {}
    BY DEF Init, Seen
  <2>2. Limit(k) \in Nat
    BY TypeInit, LimitType
  <2> QED
    BY <2>1, <2>2, FS_EmptySet
<1> QED
  BY <1>1, <1>2 DEF SlidingInv, WindowBound, Seen

\* No stretch of time shorter than the window by the greatest lag of a call
\* holds more admissions to a bucket than its limit.
THEOREM WindowBoundHolds == Spec => []WindowBound
<1>1. SlidingInv => WindowBound
  BY DEF SlidingInv
<1> QED
  BY <1>1, TypeInit, TypeStep, SlidingInit, SlidingStep, PTL DEF Spec

\* Whoever is refused met a full limit of admissions in the window of its own
\* timestamp.
LEMMA RefusalStep ==
    Typed /\ SlidingInv /\ [Next]_vars =>
      [\A r \in Requests :
         h[r].pc = "consume" /\ h'[r].pc = "blocked" =>
            LET b == Head(h[r].todo) IN
            Cardinality({m \in admitted[b.key] : m.ts > h[r].stamp - Window}) >= b.max]_vars
<1> SUFFICES ASSUME Typed, KeptInv, [Next]_vars, NEW r \in Requests,
                    h[r].pc = "consume", h'[r].pc = "blocked"
             PROVE  Cardinality({m \in admitted[Head(h[r].todo).key] :
                                   m.ts > h[r].stamp - Window}) >= Head(h[r].todo).max
  BY DEF SlidingInv
<1>t. h \in [Requests -> Record] /\ h[r] \in Record /\ Sound(h[r], clock)
  BY DEF Typed, TypeOK, Record
<1>g. \A q : GoOn(q).pc # "blocked"
  BY DEF GoOn
<1>1. Refuse(r)
  <2>1. ASSUME NEW s \in Requests, Admit(s) PROVE FALSE
    BY <1>t, <1>g, <2>1 DEF Admit, Record
  <2>2. ASSUME NEW s \in Requests, LoseReply(s) PROVE FALSE
    BY <1>t, <2>2 DEF LoseReply, Record
  <2>3. ASSUME NEW s \in Requests, Degrade(s) PROVE FALSE
    BY <1>t, <1>g, <2>3 DEF Degrade
  <2>4. ASSUME NEW s \in Requests, NEW ip \in Ips, Arrive(s, ip) PROVE FALSE
    BY <1>t, <2>4 DEF Arrive
  <2>5. ASSUME NEW s \in Requests, NEW a \in Agents, PassPaid(s, a) PROVE FALSE
    BY <1>t, <2>5 DEF PassPaid
  <2>6. ASSUME NEW s \in Requests,
               PassUnpaid(s) \/ Challenge(s) \/ Lookup(s) \/ Leave(s)
        PROVE  FALSE
    BY <1>t, <2>6 DEF PassUnpaid, Challenge, Lookup, Leave
  <2>7. ASSUME NEW s \in Requests, s # r, Refuse(s) PROVE FALSE
    BY <1>t, <2>7 DEF Refuse
  <2>8. ASSUME UNCHANGED h PROVE FALSE
    BY <2>8
  <2> QED
    BY <2>1, <2>2, <2>3, <2>4, <2>5, <2>6, <2>7, <2>8
    DEF Next, Step, Query, KeyExpire, Tick, Connection, vars
<1> DEFINE k == Head(h[r].todo).key
           max == Head(h[r].todo).max
           K == Kept(bucket[k], h[r].stamp)
           A == {m \in admitted[k] : m.ts > h[r].stamp - Window}
<1>2. h[r].todo \in Plans /\ h[r].todo # <<>>
  BY <1>t DEF Record, Sound
<1>3. k \in Keys /\ max \in Nat
  BY <1>2, HeadType
<1>4. Cardinality(K) >= max
  BY <1>1 DEF Refuse, Full
<1>5. K \subseteq A
  BY <1>3 DEF Kept, KeptInv
<1>6. IsFiniteSet(A)
  BY <1>3, FS_Subset DEF Typed, Finite
<1> HIDE DEF k, max, K, A
<1>7. Cardinality(K) <= Cardinality(A) /\ Cardinality(K) \in Nat /\ Cardinality(A) \in Nat
  BY <1>5, <1>6, FS_Subset, FS_CardinalityType
<1>8. Cardinality(A) >= max
  BY <1>3, <1>4, <1>7
<1> QED
  BY <1>8 DEF A, k, max

\* A request is refused only where its bucket's limit was admitted in the window
\* that ends with its own timestamp.
THEOREM RefusalDeservedHolds == Spec => RefusalDeserved
<1> QED
  BY TypeInit, TypeStep, SlidingInit, SlidingStep, RefusalStep, PTL DEF Spec, RefusalDeserved

-----------------------------------------------------------------------------
(* Nobody slips through.  What is left of a plan accounts for the buckets  *)
(* a request has still to be counted in; that holds across both passes,    *)
(* faults and repeated calls, until the request is marked as degraded.     *)

Left(plan) == {plan[i].key : i \in 1..Len(plan)}

EdgeKeys(q) == {<<"global", Everybody>>, <<"ip", q.ip>>}

Accounted(q) ==
    /\ q.pass = "edge" => q.agent = NoOne
    /\ q.pc = "shield" => q.agent = NoOne
    /\ ~q.degraded =>
         /\ q.pc = "consume" => Met(q) \subseteq q.counted \cup Left(q.todo)
         /\ q.pc = "lookup" => EdgeKeys(q) \subseteq q.counted
         /\ q.pc \in {"shield", "served"} => Met(q) \subseteq q.counted

AccountInv == \A r \in Requests : Accounted(h[r])

LEMMA LeftOfTail ==
    ASSUME NEW plan \in Plans, plan # <<>>
    PROVE  Left(plan) = {Head(plan).key} \cup Left(Tail(plan))
<1> DEFINE B == [key : Keys, max : Nat]
<1>1. plan \in Seq(B)
  BY DEF Plans
<1> HIDE DEF B
<1>2. /\ Len(Tail(plan)) = Len(plan) - 1 /\ Len(plan) \in Nat \ {0}
      /\ Head(plan) = plan[1]
      /\ \A i \in 1..Len(Tail(plan)) : Tail(plan)[i] = plan[i + 1]
  BY <1>1
<1>3. ASSUME NEW i \in 1..Len(plan)
      PROVE  plan[i].key \in {Head(plan).key} \cup Left(Tail(plan))
  <2>1. CASE i = 1
    BY <1>2, <2>1
  <2>2. CASE i # 1
    <3>1. i - 1 \in 1..Len(Tail(plan)) /\ Tail(plan)[i - 1] = plan[i]
      BY <1>2, <2>2
    <3> QED
      BY <3>1 DEF Left
  <2> QED
    BY <2>1, <2>2
<1>4. Head(plan).key \in Left(plan)
  BY <1>2 DEF Left
<1>5. ASSUME NEW i \in 1..Len(Tail(plan)) PROVE Tail(plan)[i].key \in Left(plan)
  <2>1. i + 1 \in 1..Len(plan) /\ Tail(plan)[i] = plan[i + 1]
    BY <1>2
  <2> QED
    BY <2>1 DEF Left
<1> QED
  BY <1>3, <1>4, <1>5 DEF Left

LEMMA LeftOfPair ==
    \A k1, k2, max1, max2 :
        Left(<<[key |-> k1, max |-> max1], [key |-> k2, max |-> max2]>>) = {k1, k2}
<1> SUFFICES ASSUME NEW k1, NEW k2, NEW max1, NEW max2
             PROVE  Left(<<[key |-> k1, max |-> max1], [key |-> k2, max |-> max2]>>) = {k1, k2}
  OBVIOUS
<1> DEFINE plan == <<[key |-> k1, max |-> max1], [key |-> k2, max |-> max2]>>
<1>1. Len(plan) = 2 /\ plan[1].key = k1 /\ plan[2].key = k2
  OBVIOUS
<1> HIDE DEF plan
<1>2. 1..Len(plan) = {1, 2}
  BY <1>1
<1>3. Left(plan) = {k1, k2}
  BY <1>1, <1>2 DEF Left
<1> QED
  BY <1>3 DEF plan

LEMMA LeftOfNone == Left(<<>>) = {}
BY DEF Left

\* Through the pass: the plan is used up, or the request degraded.
LEMMA GoOnAccounted ==
    ASSUME NEW q \in Record, q.pass = "edge" => q.agent = NoOne,
           ~q.degraded => Met(q) \subseteq q.counted
    PROVE  Accounted(GoOn(q))
<1>1. /\ GoOn(q).pc = IF q.pass = "edge" THEN "shield" ELSE "served"
      /\ GoOn(q).pass = q.pass /\ GoOn(q).agent = q.agent /\ GoOn(q).ip = q.ip
      /\ GoOn(q).counted = q.counted /\ GoOn(q).degraded = q.degraded
  <2> DEFINE q1 == [q EXCEPT !.pc = IF q.pass = "edge" THEN "shield" ELSE "served"]
             q2 == [q1 EXCEPT !.todo = <<>>]
  <2>1. GoOn(q) = [q2 EXCEPT !.member = NoMember]
    BY DEF GoOn
  <2>2. /\ q1.pc = (IF q.pass = "edge" THEN "shield" ELSE "served")
        /\ q1.pass = q.pass /\ q1.agent = q.agent /\ q1.ip = q.ip
        /\ q1.counted = q.counted /\ q1.degraded = q.degraded
        /\ DOMAIN q1 = DOMAIN q
    BY DEF Record
  <2> HIDE DEF q1
  <2>3. /\ q2.pc = q1.pc /\ q2.pass = q1.pass /\ q2.agent = q1.agent /\ q2.ip = q1.ip
        /\ q2.counted = q1.counted /\ q2.degraded = q1.degraded
        /\ DOMAIN q2 = DOMAIN q1
    BY <2>2 DEF Record
  <2> HIDE DEF q2
  <2> QED
    BY <2>1, <2>2, <2>3 DEF Record
<1>2. Met(GoOn(q)) = Met(q)
  BY <1>1 DEF Met
<1> QED
  BY <1>1, <1>2 DEF Accounted

LEMMA AccountStep == Typed /\ AccountInv /\ [Next]_vars => AccountInv'
<1> SUFFICES ASSUME Typed, AccountInv, [Next]_vars PROVE AccountInv'
  OBVIOUS
<1>t. h \in [Requests -> Record] /\ \A s \in Requests : Sound(h[s], clock)
  BY DEF Typed, TypeOK, Record
<1>a. \A s \in Requests : Accounted(h[s])
  BY DEF AccountInv
<1>m. ASSUME NEW r \in Requests, NEW q, h' = [h EXCEPT ![r] = q], Accounted(q)
      PROVE  AccountInv'
  BY <1>t, <1>a, <1>m DEF AccountInv
<1>1. ASSUME NEW r \in Requests, NEW ip \in Ips, Arrive(r, ip) PROVE AccountInv'
  <2> DEFINE q == [Idle EXCEPT !.ip = ip]
  <2>1. h' = [h EXCEPT ![r] = Enter(q, "consume", EdgePlan(ip))]
    BY <1>1 DEF Arrive
  <2>2. q \in Record /\ q.pass = "edge" /\ q.agent = NoOne /\ q.ip = ip
    BY IdleType DEF Idle, Record
  <2> HIDE DEF q
  <2>3. CASE store = "down"
    <3> DEFINE d == [q EXCEPT !.degraded = TRUE]
    <3>1. d \in Record /\ d.pass = "edge" /\ d.agent = NoOne /\ d.degraded
      BY <2>2 DEF Record
    <3>2. Enter(q, "consume", EdgePlan(ip)) = GoOn(d)
      BY <2>3 DEF Enter
    <3> HIDE DEF d
    <3> QED
      BY <1>m, <2>1, <3>1, <3>2, GoOnAccounted
  <2>4. CASE store # "down"
    <3> DEFINE q1 == [q EXCEPT !.pc = "consume"]
               q2 == [q1 EXCEPT !.stamp = clock]
               q3 == [q2 EXCEPT !.todo = EdgePlan(ip)]
    <3>1. Enter(q, "consume", EdgePlan(ip)) = q3
      BY <2>4 DEF Enter
    <3>2. q1.pass = "edge" /\ q1.agent = NoOne /\ q1.ip = ip /\ q1.pc = "consume"
          /\ q1 \in Record
      BY <2>2 DEF Record
    <3> HIDE DEF q1
    <3>3. q2.pass = "edge" /\ q2.agent = NoOne /\ q2.ip = ip /\ q2.pc = "consume"
          /\ q2 \in Record
      BY <3>2 DEF Record, Typed, TypeOK
    <3> HIDE DEF q2
    <3>4. /\ q3.pass = "edge" /\ q3.agent = NoOne /\ q3.ip = ip /\ q3.pc = "consume"
          /\ q3.todo = EdgePlan(ip)
      BY <3>3 DEF Record
    <3> HIDE DEF q3
    <3>5. Left(EdgePlan(ip)) = {<<"global", Everybody>>, <<"ip", ip>>}
      BY LeftOfPair DEF EdgePlan, Bucket
    <3>6. Accounted(q3)
      BY <3>4, <3>5 DEF Accounted, Met
    <3> QED
      BY <1>m, <2>1, <3>1, <3>6
  <2> QED
    BY <2>3, <2>4
<1>2. ASSUME NEW r \in Requests, PassUnpaid(r) PROVE AccountInv'
  <2> DEFINE q1 == [h[r] EXCEPT !.pass = "auth"]
             q2 == [q1 EXCEPT !.degraded = h[r].degraded \/ store = "down"]
  <2>1. h' = [h EXCEPT ![r] = GoOn(q2)]
    BY <1>2, <1>t DEF PassUnpaid
  <2>2. h[r].pc = "shield" /\ Accounted(h[r]) /\ h[r] \in Record
    BY <1>2, <1>a, <1>t DEF PassUnpaid
  <2>3. /\ q1 \in Record /\ q1.pass = "auth" /\ q1.agent = h[r].agent /\ q1.ip = h[r].ip
        /\ q1.counted = h[r].counted
    BY <2>2 DEF Record
  <2> HIDE DEF q1
  <2>4. /\ q2 \in Record /\ q2.pass = "auth" /\ q2.agent = h[r].agent /\ q2.ip = h[r].ip
        /\ q2.counted = h[r].counted /\ (h[r].degraded => q2.degraded)
    BY <2>2, <2>3 DEF Record
  <2> HIDE DEF q2
  <2>5. Met(q2) = Met(h[r])
    BY <2>4 DEF Met
  <2>6. Accounted(GoOn(q2))
    BY <2>2, <2>4, <2>5, GoOnAccounted DEF Accounted, Record
  <2> QED
    BY <1>m, <2>1, <2>6
<1>3. ASSUME NEW r \in Requests, NEW a \in Agents, PassPaid(r, a) PROVE AccountInv'
  <2> DEFINE q1 == [h[r] EXCEPT !.pass = "auth"]
             q2 == [q1 EXCEPT !.agent = a]
  <2>1. h' = [h EXCEPT ![r] = Enter(q2, "lookup", <<>>)]
    BY <1>3, <1>t DEF PassPaid
  <2>2. h[r].pc = "shield" /\ Accounted(h[r]) /\ h[r] \in Record
    BY <1>3, <1>a, <1>t DEF PassPaid
  <2>3. /\ q1 \in Record /\ q1.pass = "auth" /\ q1.ip = h[r].ip
        /\ q1.counted = h[r].counted /\ q1.degraded = h[r].degraded
    BY <2>2 DEF Record
  <2> HIDE DEF q1
  <2>4. /\ q2 \in Record /\ q2.pass = "auth" /\ q2.ip = h[r].ip
        /\ q2.counted = h[r].counted /\ q2.degraded = h[r].degraded
    BY <2>3 DEF Record
  <2> HIDE DEF q2
  <2>5. CASE store = "down"
    <3> DEFINE d == [q2 EXCEPT !.degraded = TRUE]
    <3>1. d \in Record /\ d.pass = "auth" /\ d.degraded
      BY <2>4 DEF Record
    <3>2. Enter(q2, "lookup", <<>>) = GoOn(d)
      BY <2>5 DEF Enter
    <3> HIDE DEF d
    <3> QED
      BY <1>m, <2>1, <3>1, <3>2, GoOnAccounted
  <2>6. CASE store # "down"
    <3> DEFINE p1 == [q2 EXCEPT !.pc = "lookup"]
               p2 == [p1 EXCEPT !.stamp = clock]
               p3 == [p2 EXCEPT !.todo = <<>>]
    <3>1. Enter(q2, "lookup", <<>>) = p3
      BY <2>6 DEF Enter
    <3>2. /\ p1.pass = "auth" /\ p1.ip = h[r].ip /\ p1.pc = "lookup" /\ p1 \in Record
          /\ p1.counted = h[r].counted /\ p1.degraded = h[r].degraded
      BY <2>4 DEF Record
    <3> HIDE DEF p1
    <3>3. /\ p2.pass = "auth" /\ p2.ip = h[r].ip /\ p2.pc = "lookup" /\ p2 \in Record
          /\ p2.counted = h[r].counted /\ p2.degraded = h[r].degraded
      BY <3>2 DEF Record, Typed, TypeOK
    <3> HIDE DEF p2
    <3>4. /\ p3.pass = "auth" /\ p3.ip = h[r].ip /\ p3.pc = "lookup"
          /\ p3.counted = h[r].counted /\ p3.degraded = h[r].degraded
      BY <3>3 DEF Record
    <3> HIDE DEF p3
    <3>5. Accounted(p3)
      BY <2>2, <3>4 DEF Accounted, EdgeKeys, Met
    <3> QED
      BY <1>m, <2>1, <3>1, <3>5
  <2> QED
    BY <2>5, <2>6
<1>4. ASSUME NEW r \in Requests, Challenge(r) \/ Leave(r) PROVE AccountInv'
  <2>1. h' = [h EXCEPT ![r] = Idle]
    BY <1>4 DEF Challenge, Leave
  <2>2. Accounted(Idle)
    BY DEF Accounted, Idle
  <2> QED
    BY <1>m, <2>1, <2>2
<1>5. ASSUME NEW r \in Requests, Lookup(r) PROVE AccountInv'
  <2> DEFINE m == IF store = "up" THEN Multiplier(paidCount[h[r].agent]) ELSE 1
             plan == AuthPlan(h[r].agent, m)
             q1 == [h[r] EXCEPT !.pc = "consume"]
             q2 == [q1 EXCEPT !.todo = plan]
  <2>1. h' = [h EXCEPT ![r] = q2]
    BY <1>5, <1>t DEF Lookup
  <2>2. /\ h[r].pc = "lookup" /\ h[r].agent \in Agents /\ h[r] \in Record
        /\ Accounted(h[r])
    BY <1>5, <1>a, <1>t DEF Lookup, Sound
  <2>3. Left(plan) = {<<"pubkey", h[r].agent>>, <<"paid", h[r].agent>>}
    BY LeftOfPair DEF AuthPlan, Bucket
  <2> HIDE DEF plan
  <2>4. /\ q1.pass = h[r].pass /\ q1.agent = h[r].agent /\ q1.ip = h[r].ip
        /\ q1.counted = h[r].counted /\ q1.degraded = h[r].degraded
        /\ q1.pc = "consume" /\ q1 \in Record
    BY <2>2 DEF Record
  <2> HIDE DEF q1
  <2>5. /\ q2.pass = h[r].pass /\ q2.agent = h[r].agent /\ q2.ip = h[r].ip
        /\ q2.counted = h[r].counted /\ q2.degraded = h[r].degraded
        /\ q2.pc = "consume" /\ q2.todo = plan
    BY <2>4 DEF Record
  <2> HIDE DEF q2
  <2>6. Met(q2) = EdgeKeys(h[r]) \cup Left(plan)
    BY <2>2, <2>3, <2>5 DEF Met, EdgeKeys
  <2>7. Accounted(q2)
    BY <2>2, <2>5, <2>6 DEF Accounted
  <2> QED
    BY <1>m, <2>1, <2>7
<1>6. ASSUME NEW r \in Requests, Admit(r) PROVE AccountInv'
  <2> DEFINE k == Head(h[r].todo).key
             q1 == [h[r] EXCEPT !.todo = Tail(@)]
             q2 == [q1 EXCEPT !.member = NoMember]
             q3 == [q2 EXCEPT !.counted = @ \cup {k}]
             q4 == IF q3.todo = <<>> THEN GoOn(q3) ELSE q3
  <2>1. /\ h[r].pc = "consume" /\ h[r].todo # <<>> /\ h[r].todo \in Plans
        /\ h[r] \in Record /\ Accounted(h[r])
    BY <1>6, <1>a, <1>t DEF Admit, Sound, Record
  <2>2. k \in Keys /\ Tail(h[r].todo) \in Plans
    BY <2>1, HeadType
  <2>3. Left(h[r].todo) = {k} \cup Left(Tail(h[r].todo))
    BY <2>1, LeftOfTail
  <2>4. h' = [h EXCEPT ![r] = q4]
    BY <1>6, <1>t DEF Admit
  <2>5. /\ q1 \in Record /\ q1.pc = "consume" /\ q1.todo = Tail(h[r].todo)
        /\ q1.pass = h[r].pass /\ q1.agent = h[r].agent /\ q1.ip = h[r].ip
        /\ q1.counted = h[r].counted /\ q1.degraded = h[r].degraded
    BY <2>1, <2>2 DEF Record
  <2> HIDE DEF q1, k
  <2>6. /\ q2 \in Record /\ q2.pc = "consume" /\ q2.todo = Tail(h[r].todo)
        /\ q2.pass = h[r].pass /\ q2.agent = h[r].agent /\ q2.ip = h[r].ip
        /\ q2.counted = h[r].counted /\ q2.degraded = h[r].degraded
    BY <2>5 DEF Record
  <2> HIDE DEF q2
  <2>7. /\ q3 \in Record /\ q3.pc = "consume" /\ q3.todo = Tail(h[r].todo)
        /\ q3.pass = h[r].pass /\ q3.agent = h[r].agent /\ q3.ip = h[r].ip
        /\ q3.counted = h[r].counted \cup {k} /\ q3.degraded = h[r].degraded
    BY <2>2, <2>6 DEF Record
  <2> HIDE DEF q3
  <2>8. Met(q3) = Met(h[r])
    BY <2>7 DEF Met
  <2>9. ~q3.degraded => Met(q3) \subseteq q3.counted \cup Left(q3.todo)
    BY <2>1, <2>3, <2>7, <2>8 DEF Accounted
  <2>10. q3.pass = "edge" => q3.agent = NoOne
    BY <2>1, <2>7 DEF Accounted
  <2>11. CASE q3.todo = <<>>
    <3>1. Left(q3.todo) = {}
      BY <2>11, LeftOfNone
    <3> QED
      BY <1>m, <2>4, <2>7, <2>9, <2>10, <2>11, <3>1, GoOnAccounted
  <2>12. CASE q3.todo # <<>>
    <3>1. Accounted(q3)
      BY <2>7, <2>9, <2>10 DEF Accounted
    <3> QED
      BY <1>m, <2>4, <2>12, <3>1
  <2> QED
    BY <2>11, <2>12
<1>7. ASSUME NEW r \in Requests, Refuse(r) PROVE AccountInv'
  <2> DEFINE q == [h[r] EXCEPT !.pc = "blocked"]
  <2>1. h' = [h EXCEPT ![r] = q]
    BY <1>7 DEF Refuse
  <2>2. q.pc = "blocked" /\ q.pass = h[r].pass /\ q.agent = h[r].agent
    BY <1>t DEF Record
  <2> HIDE DEF q
  <2>3. Accounted(q)
    BY <1>a, <2>2 DEF Accounted
  <2> QED
    BY <1>m, <2>1, <2>3
<1>8. ASSUME NEW r \in Requests, LoseReply(r) PROVE AccountInv'
  <2> DEFINE k == Head(h[r].todo).key
             e == Member(r, k)
             q1 == [h[r] EXCEPT !.member = e]
             q2 == [q1 EXCEPT !.counted = @ \cup {k}]
  <2>1. h' = [h EXCEPT ![r] = q2]
    BY <1>8, <1>t DEF LoseReply
  <2>2. h[r].pc = "consume" /\ h[r] \in Record /\ Accounted(h[r])
    BY <1>8, <1>a, <1>t DEF LoseReply
  <2> HIDE DEF k, e
  <2>3. /\ q1.pc = "consume" /\ q1.todo = h[r].todo /\ DOMAIN q1 = DOMAIN h[r]
        /\ q1.pass = h[r].pass /\ q1.agent = h[r].agent /\ q1.ip = h[r].ip
        /\ q1.counted = h[r].counted /\ q1.degraded = h[r].degraded
    BY <2>2 DEF Record
  <2> HIDE DEF q1
  <2>4. /\ q2.pc = "consume" /\ q2.todo = h[r].todo
        /\ q2.pass = h[r].pass /\ q2.agent = h[r].agent /\ q2.ip = h[r].ip
        /\ q2.counted = h[r].counted \cup {k} /\ q2.degraded = h[r].degraded
    BY <2>2, <2>3 DEF Record
  <2> HIDE DEF q2
  <2>5. Met(q2) = Met(h[r])
    BY <2>4 DEF Met
  <2>6. Accounted(q2)
    BY <2>2, <2>4, <2>5 DEF Accounted
  <2> QED
    BY <1>m, <2>1, <2>6
<1>9. ASSUME NEW r \in Requests, Degrade(r) PROVE AccountInv'
  <2> DEFINE q == [h[r] EXCEPT !.degraded = TRUE]
  <2>1. h' = [h EXCEPT ![r] = GoOn(q)]
    BY <1>9, <1>t DEF Degrade
  <2>2. q \in Record /\ q.degraded /\ q.pass = h[r].pass /\ q.agent = h[r].agent
    BY <1>t DEF Record
  <2> HIDE DEF q
  <2>3. Accounted(GoOn(q))
    BY <1>a, <2>2, GoOnAccounted DEF Accounted
  <2> QED
    BY <1>m, <2>1, <2>3
<1>10. ASSUME UNCHANGED h PROVE AccountInv'
  BY <1>a, <1>10 DEF AccountInv
<1> QED
  BY <1>1, <1>2, <1>3, <1>4, <1>5, <1>6, <1>7, <1>8, <1>9, <1>10
  DEF Next, Step, Query, KeyExpire, Tick, Connection, vars

\* A request that leaves the limiter without the degraded mark was counted in
\* every bucket it met.
THEOREM NobodySlipsThroughHolds == Spec => []NobodySlipsThrough
<1>1. Init => AccountInv
  BY DEF Init, AccountInv, Accounted, Idle
<1>2. AccountInv => NobodySlipsThrough
  BY DEF AccountInv, Accounted, NobodySlipsThrough
<1> QED
  BY <1>1, <1>2, TypeInit, TypeStep, AccountStep, PTL DEF Spec
=============================================================================
