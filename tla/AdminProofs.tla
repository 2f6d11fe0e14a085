---------------------------- MODULE AdminProofs ----------------------------
(***************************************************************************)
(* Proofs about module Admin, for any number of requests, keys and faults, *)
(* any windows, limits and configurable range: the audit log is true, the  *)
(* guards open again, and they admit no more bans than they should.        *)
(***************************************************************************)
EXTENDS Admin, FiniteSetTheorems, SequenceTheorems, TLAPS

USE AdminAssumption

-----------------------------------------------------------------------------
(* Limits.  The counters count above every limit before they saturate.     *)

Limits == GuardRange \cup {GlobalMax}

LEMMA LargestIs ==
    ASSUME NEW S \in SUBSET Nat, NEW x \in S, \A y \in S : y <= x
    PROVE  Max(S) \in S /\ \A y \in S : y <= Max(S)
<1>1. x >= x /\ \A y \in S : x >= y
  OBVIOUS
<1>2. Max(S) = CHOOSE z \in S : \A y \in S : z >= y
  BY DEF Max
<1>3. Max(S) \in S /\ \A y \in S : Max(S) >= y
  BY <1>1, <1>2
<1>4. Max(S) \in Nat
  BY <1>3
<1> QED
  BY <1>3, <1>4

LEMMA LimitsAre ==
    /\ Max(GuardRange) \in Nat /\ Max(GuardRange) >= 1
    /\ \A n \in GuardRange : n <= Max(GuardRange)
    /\ Cap \in Nat /\ Cap >= 2 /\ Max(GuardRange) < Cap /\ GlobalMax < Cap
<1>1. PICK top \in GuardRange : \A n \in GuardRange : n <= top
  OBVIOUS
<1>2. /\ Max(GuardRange) \in GuardRange
      /\ \A n \in GuardRange : n <= Max(GuardRange)
  BY <1>1, LargestIs
<1>3. PICK t \in Limits : \A n \in Limits : n <= t
  <2>1. CASE GlobalMax <= top
    BY <1>1, <2>1 DEF Limits
  <2>2. CASE ~ (GlobalMax <= top)
    <3>1. GlobalMax \in Limits /\ top \in Nat
      BY DEF Limits
    <3>2. \A n \in Limits : n <= GlobalMax
      BY <1>1, <2>2 DEF Limits
    <3> QED
      BY <3>1, <3>2
  <2> QED
    BY <2>1, <2>2
<1>4. Max(Limits) \in Limits /\ \A n \in Limits : n <= Max(Limits)
  <2>1. Limits \in SUBSET Nat
    BY DEF Limits
  <2> QED
    BY <1>3, <2>1, LargestIs
<1>5. Cap = Max(Limits) + 1
  BY DEF Cap, Limits
<1>6. /\ Max(Limits) \in Nat /\ GlobalMax <= Max(Limits)
      /\ Max(GuardRange) <= Max(Limits)
  BY <1>2, <1>4 DEF Limits
<1>7. Max(GuardRange) \in Nat /\ Max(GuardRange) >= 1
  <2>1. \A n \in GuardRange : n \in Nat /\ n >= 1
    <3>1. GuardRange \subseteq Nat \ {0}
      OBVIOUS
    <3> QED
      BY <3>1
  <2> QED
    BY <1>2, <2>1
<1> QED
  BY <1>2, <1>5, <1>6, <1>7

-----------------------------------------------------------------------------
(* The requests that wait for a reply.  Each one is in line once.          *)

Pcs == {"idle", "guard", "guardExpiry", "global", "globalExpiry",
        "written", "cleared", "removed", "audit"}

Locals == [pc : Pcs, order : AllOrders, key : AdminKeys \cup {Everybody}, ok : BOOLEAN,
           max : Nat, own : 0..Cap, all : 0..Cap, late : BOOLEAN]

\* A request is sent, or sent on to q.
Joins(r, q) ==
    /\ h[r].pc = "idle"
    /\ h' = [h EXCEPT ![r] = q]
    /\ line' = Append(line, r)

Goes(r, q) ==
    /\ h' = [h EXCEPT ![r] = q]
    /\ line' = Append(Tail(line), r)

Lined(hh, ll) ==
    /\ ll \in Seq(Handlers)
    /\ \A i, k \in 1..Len(ll) : ll[i] = ll[k] => i = k
    /\ \A j \in Handlers : hh[j].pc # "idle" <=> \E i \in 1..Len(ll) : ll[i] = j

\* A request joins the line at its end.
LEMMA LinedSend ==
    ASSUME h \in [Handlers -> Locals], Lined(h, line), NEW j \in Handlers, NEW q \in Locals,
           q.pc # "idle", Joins(j, q)
    PROVE  /\ Lined(h', line')
           /\ Len(line') = Len(line) + 1
           /\ line'[Len(line) + 1] = j /\ h'[j] = q
           /\ \A i \in 1..Len(line) : line'[i] = line[i] /\ line[i] # j /\ h'[line[i]] = h[line[i]]
<1>1. line \in Seq(Handlers) /\ Len(line) \in Nat /\ line' = Append(line, j)
  BY DEF Lined, Joins
<1>2. /\ line' \in Seq(Handlers) /\ Len(line') = Len(line) + 1
      /\ line'[Len(line) + 1] = j
      /\ \A i \in 1..Len(line) : line'[i] = line[i]
  BY <1>1, AppendProperties
<1>3. \A i \in 1..Len(line) : line[i] # j /\ line[i] \in Handlers
  BY <1>1 DEF Lined, Joins
<1>4. h' = [h EXCEPT ![j] = q] /\ h'[j] = q
  BY DEF Joins
<1>5. \A i \in 1..Len(line) : h'[line[i]] = h[line[i]]
  BY <1>3, <1>4
<1>6. \A i, k \in 1..Len(line') : line'[i] = line'[k] => i = k
  BY <1>1, <1>2, <1>3 DEF Lined
<1>7. ASSUME NEW m \in Handlers PROVE h'[m].pc # "idle" <=> \E i \in 1..Len(line') : line'[i] = m
  <2>1. CASE m = j
    BY <1>1, <1>2, <1>4, <2>1
  <2>2. CASE m # j
    <3>1. h'[m] = h[m]
      BY <1>4, <2>2
    <3>2. ASSUME NEW i \in 1..Len(line'), line'[i] = m PROVE \E k \in 1..Len(line) : line[k] = m
      <4>1. i \in 1..Len(line)
        BY <1>1, <1>2, <2>2, <3>2
      <4> QED
        BY <1>2, <3>2, <4>1
    <3>3. ASSUME NEW i \in 1..Len(line), line[i] = m PROVE \E k \in 1..Len(line') : line'[k] = m
      <4>1. i \in 1..Len(line') /\ line'[i] = m
        BY <1>1, <1>2, <3>3
      <4> QED
        BY <4>1
    <3> QED
      BY <3>1, <3>2, <3>3 DEF Lined
  <2> QED
    BY <2>1, <2>2
<1> QED
  BY <1>2, <1>3, <1>4, <1>5, <1>6, <1>7 DEF Lined

\* The request whose reply is handled leaves the head of the line, ...
LEMMA LinedHead ==
    ASSUME Lined(h, line), line # <<>>
    PROVE  /\ Head(line) \in Handlers /\ Head(line) = line[1] /\ 1 \in 1..Len(line)
           /\ h[Head(line)].pc # "idle"
           /\ Tail(line) \in Seq(Handlers) /\ Len(line) \in Nat /\ Len(Tail(line)) = Len(line) - 1
           /\ \A i \in 1..(Len(line) - 1) :
                /\ Tail(line)[i] = line[i + 1] /\ i + 1 \in 1..Len(line)
                /\ line[i + 1] # Head(line) /\ line[i + 1] \in Handlers
<1>1. line \in Seq(Handlers) /\ Len(line) \in Nat
  BY DEF Lined
<1>2. /\ Head(line) \in Handlers /\ Tail(line) \in Seq(Handlers) /\ Len(Tail(line)) = Len(line) - 1
      /\ \A i \in 1..Len(Tail(line)) : Tail(line)[i] = line[i + 1]
  BY <1>1, HeadTailProperties
<1>3. Head(line) = line[1] /\ Len(line) > 0
  BY <1>1
<1>4. 1 \in 1..Len(line)
  BY <1>1, <1>3
<1>5. h[Head(line)].pc # "idle"
  BY <1>2, <1>3, <1>4 DEF Lined
<1>6. \A i \in 1..(Len(line) - 1) : i + 1 \in 1..Len(line) /\ line[i + 1] # line[1]
  BY <1>1, <1>4 DEF Lined
<1> QED
  BY <1>1, <1>2, <1>3, <1>4, <1>5, <1>6

\* ... and goes to its end, if it waits for another one.
LEMMA LinedAwait ==
    ASSUME h \in [Handlers -> Locals], Lined(h, line), line # <<>>, NEW q \in Locals,
           q.pc # "idle", Goes(Head(line), q)
    PROVE  /\ Lined(h', line')
           /\ Len(line') = Len(line)
           /\ line'[Len(line)] = Head(line) /\ h'[Head(line)] = q
           /\ \A i \in 1..(Len(line) - 1) :
                line'[i] = line[i + 1] /\ h'[line[i + 1]] = h[line[i + 1]]
<1> DEFINE n == Len(line)
           j == Head(line)
<1>0. /\ j \in Handlers /\ j = line[1] /\ 1 \in 1..n /\ n \in Nat /\ h[j].pc # "idle"
      /\ Tail(line) \in Seq(Handlers) /\ Len(Tail(line)) = n - 1
      /\ \A i \in 1..(n - 1) : /\ Tail(line)[i] = line[i + 1] /\ i + 1 \in 1..n
                               /\ line[i + 1] # j /\ line[i + 1] \in Handlers
  BY LinedHead
<1>1. line' = Append(Tail(line), j) /\ h' = [h EXCEPT ![j] = q]
  BY DEF Goes
<1> HIDE DEF j
<1>2. /\ line' \in Seq(Handlers) /\ Len(line') = (n - 1) + 1
      /\ line'[(n - 1) + 1] = j
      /\ \A i \in 1..(n - 1) : line'[i] = Tail(line)[i]
  BY <1>0, <1>1, AppendProperties
<1>3. n >= 1 /\ (n - 1) + 1 = n
  BY <1>0
<1>4. h'[j] = q /\ \A i \in 1..(n - 1) : line'[i] = line[i + 1] /\ h'[line[i + 1]] = h[line[i + 1]]
  BY <1>0, <1>1, <1>2
<1>5. \A i, k \in 1..n : line[i] = line[k] => i = k
  BY DEF Lined
<1> HIDE DEF n
<1>6. ASSUME NEW i \in 1..n, NEW k \in 1..n, line'[i] = line'[k] PROVE i = k
  <2>1. CASE i = n /\ k = n
    BY <2>1
  <2>2. CASE i # n /\ k # n
    <3>1. i \in 1..(n - 1) /\ k \in 1..(n - 1)
      BY <1>0, <2>2
    <3>2. line[i + 1] = line[k + 1] /\ i + 1 \in 1..n /\ k + 1 \in 1..n
      BY <1>0, <1>4, <1>6, <3>1
    <3> QED
      BY <1>0, <1>5, <3>2
  <2>3. CASE i # n /\ k = n
    <3>1. i \in 1..(n - 1)
      BY <1>0, <2>3
    <3> QED
      BY <1>0, <1>2, <1>3, <1>4, <1>6, <2>3, <3>1
  <2>4. CASE i = n /\ k # n
    <3>1. k \in 1..(n - 1)
      BY <1>0, <2>4
    <3> QED
      BY <1>0, <1>2, <1>3, <1>4, <1>6, <2>4, <3>1
  <2> QED
    BY <2>1, <2>2, <2>3, <2>4
<1>7. ASSUME NEW m \in Handlers PROVE h'[m].pc # "idle" <=> \E i \in 1..n : line'[i] = m
  <2>1. CASE m = j
    <3>1. n \in 1..n /\ line'[n] = j
      BY <1>0, <1>2, <1>3
    <3> QED
      BY <1>4, <2>1, <3>1
  <2>2. CASE m # j
    <3>1. h'[m] = h[m]
      BY <1>1, <2>2
    <3>2. h[m].pc # "idle" <=> \E i \in 1..n : line[i] = m
      BY DEF Lined, n
    <3>3. ASSUME NEW i \in 1..n, line[i] = m PROVE \E k \in 1..n : line'[k] = m
      <4>1. i - 1 \in 1..(n - 1)
        BY <1>0, <2>2, <3>3
      <4>2. line'[i - 1] = line[(i - 1) + 1] /\ (i - 1) + 1 = i /\ i - 1 \in 1..n
        BY <1>0, <1>4, <4>1
      <4> QED
        BY <3>3, <4>2
    <3>4. ASSUME NEW i \in 1..n, line'[i] = m PROVE \E k \in 1..n : line[k] = m
      <4>1. i \in 1..(n - 1)
        BY <1>0, <1>2, <1>3, <2>2, <3>4
      <4> QED
        BY <1>0, <1>4, <3>4, <4>1
    <3> QED
      BY <3>1, <3>2, <3>3, <3>4
  <2> QED
    BY <2>1, <2>2
<1>8. Len(line') = n
  BY <1>2, <1>3
<1> QED
  BY <1>2, <1>3, <1>4, <1>6, <1>7, <1>8 DEF Lined, n, j

\* ... or leaves it.
LEMMA LinedAnswer ==
    ASSUME h \in [Handlers -> Locals], Lined(h, line), line # <<>>, Respond(Head(line))
    PROVE  /\ Lined(h', line')
           /\ Len(line') = Len(line) - 1
           /\ h'[Head(line)] = Idle
           /\ \A i \in 1..(Len(line) - 1) :
                line'[i] = line[i + 1] /\ h'[line[i + 1]] = h[line[i + 1]]
<1> DEFINE n == Len(line)
           j == Head(line)
<1>0. /\ j \in Handlers /\ j = line[1] /\ 1 \in 1..n /\ n \in Nat
      /\ Tail(line) \in Seq(Handlers) /\ Len(Tail(line)) = n - 1
      /\ \A i \in 1..(n - 1) : /\ Tail(line)[i] = line[i + 1] /\ i + 1 \in 1..n
                               /\ line[i + 1] # j /\ line[i + 1] \in Handlers
  BY LinedHead
<1>1. line' = Tail(line) /\ h' = [h EXCEPT ![j] = Idle]
  BY DEF Respond
<1> HIDE DEF j
<1>2. \A i \in 1..(n - 1) : line'[i] = line[i + 1] /\ h'[line[i + 1]] = h[line[i + 1]]
  BY <1>0, <1>1
<1>3. \A i, k \in 1..n : line[i] = line[k] => i = k
  BY DEF Lined
<1> HIDE DEF n
<1>4. h'[j] = Idle
  BY <1>0, <1>1
<1>5. ASSUME NEW i \in 1..(n - 1), NEW k \in 1..(n - 1), line'[i] = line'[k] PROVE i = k
  <2>1. line[i + 1] = line[k + 1] /\ i + 1 \in 1..n /\ k + 1 \in 1..n
    BY <1>0, <1>2, <1>5
  <2> QED
    BY <1>0, <1>3, <2>1
<1>6. ASSUME NEW m \in Handlers PROVE h'[m].pc # "idle" <=> \E i \in 1..(n - 1) : line'[i] = m
  <2>1. CASE m = j
    BY <1>0, <1>2, <1>4, <2>1 DEF Idle
  <2>2. CASE m # j
    <3>1. h'[m] = h[m]
      BY <1>1, <2>2
    <3>2. h[m].pc # "idle" <=> \E i \in 1..n : line[i] = m
      BY DEF Lined, n
    <3>3. ASSUME NEW i \in 1..n, line[i] = m PROVE \E k \in 1..(n - 1) : line'[k] = m
      <4>1. i - 1 \in 1..(n - 1)
        BY <1>0, <2>2, <3>3
      <4>2. line'[i - 1] = line[(i - 1) + 1] /\ (i - 1) + 1 = i
        BY <1>0, <1>2, <4>1
      <4> QED
        BY <3>3, <4>1, <4>2
    <3>4. ASSUME NEW i \in 1..(n - 1), line'[i] = m PROVE \E k \in 1..n : line[k] = m
      BY <1>0, <1>2, <3>4
    <3> QED
      BY <3>1, <3>2, <3>3, <3>4
  <2> QED
    BY <2>1, <2>2
<1>7. line' \in Seq(Handlers) /\ Len(line') = n - 1
  BY <1>0, <1>1
<1> QED
  BY <1>2, <1>4, <1>5, <1>6, <1>7 DEF Lined, n, j

\* Then a request waits for one reply, or none.
LEMMA LinedOnce ==
    ASSUME Lined(h, line), NEW j \in Handlers
    PROVE  Cardinality({i \in 1..Len(line) : line[i] = j}) = IF h[j].pc = "idle" THEN 0 ELSE 1
<1> DEFINE P == {i \in 1..Len(line) : line[i] = j}
<1>2. CASE h[j].pc = "idle"
  <2>1. P = {}
    BY <1>2 DEF Lined
  <2> QED
    BY <1>2, <2>1, FS_EmptySet
<1>3. CASE h[j].pc # "idle"
  <2>1. PICK i \in 1..Len(line) : line[i] = j
    BY <1>3 DEF Lined
  <2>2. P = {i}
    BY <2>1 DEF Lined
  <2> QED
    BY <1>3, <2>2, FS_Singleton
<1> QED
  BY <1>2, <1>3

-----------------------------------------------------------------------------
(* Types.  Local variables change one field at a time: what an update is.  *)

Guarding == {"guard", "guardExpiry", "global", "globalExpiry"}

Proper(q) ==
    /\ q \in Locals
    /\ q.pc \in Guarding => q.key \in AdminKeys /\ q.order \in BanOrders /\ q.max \in GuardRange

JobsOK == h \in [Handlers -> Locals] /\ (\A r \in Handlers : Proper(h[r])) /\ Lined(h, line)

Counters == [count : 0..Cap, ttl : {Forever} \cup (1..GlobalWindow)]

StoreOK ==
    /\ counter \in [Scopes -> Counters]
    /\ permanent \in BOOLEAN
    /\ config \in GuardRange
    /\ recent \subseteq Bans /\ IsFiniteSet(recent)
    /\ booked \in BOOLEAN
    /\ up \in BOOLEAN /\ faults \in 0..MaxFaults /\ crashed \in BOOLEAN

LEMMA IdleProper == Proper(Idle) /\ Idle.pc = "idle" /\ Idle.late = FALSE
BY LimitsAre DEF Proper, Idle, Locals, Pcs, AllOrders, Guarding

\* A request goes on with its local variables, except where it is.
Onward(l, pc, a, b) == [[l EXCEPT !.pc = pc] EXCEPT !.ok = a, !.late = b]

Counting(l, n, a, b) == [[l EXCEPT !.pc = "global", !.all = n] EXCEPT !.ok = a, !.late = b]

LEMMA OnwardProper ==
    ASSUME NEW l \in Locals, NEW pc \in Pcs, NEW a \in BOOLEAN, NEW b \in BOOLEAN
    PROVE  /\ Onward(l, pc, a, b) \in Locals
           /\ Onward(l, pc, a, b).pc = pc /\ Onward(l, pc, a, b).ok = a
           /\ Onward(l, pc, a, b).late = b /\ Onward(l, pc, a, b).order = l.order
           /\ Onward(l, pc, a, b).key = l.key /\ Onward(l, pc, a, b).max = l.max
           /\ Onward(l, pc, a, b).own = l.own /\ Onward(l, pc, a, b).all = l.all
BY DEF Locals, Onward

LEMMA CountingProper ==
    ASSUME NEW l \in Locals, NEW n \in 0..Cap, NEW a \in BOOLEAN, NEW b \in BOOLEAN
    PROVE  /\ Counting(l, n, a, b) \in Locals
           /\ Counting(l, n, a, b).pc = "global" /\ Counting(l, n, a, b).ok = a
           /\ Counting(l, n, a, b).late = b /\ Counting(l, n, a, b).order = l.order
           /\ Counting(l, n, a, b).key = l.key /\ Counting(l, n, a, b).max = l.max
           /\ Counting(l, n, a, b).own = l.own /\ Counting(l, n, a, b).all = n
BY DEF Locals, Pcs, Counting

LEMMA AuditEntry ==
    ASSUME NEW a \in BOOLEAN, NEW b \in BOOLEAN
    PROVE  LET q == Onward(Idle, "audit", a, b)
           IN Proper(q) /\ q.pc = "audit" /\ q.late = b
<1> DEFINE q == Onward(Idle, "audit", a, b)
<1>1. Idle \in Locals /\ "audit" \in Pcs
  BY IdleProper DEF Proper, Pcs
<1>2. q \in Locals /\ q.pc = "audit" /\ q.late = b
  BY <1>1, OnwardProper
<1> HIDE DEF q
<1>3. Proper(q)
  BY <1>2 DEF Proper, Guarding
<1> QED
  BY <1>2, <1>3 DEF q

LEMMA JobsJoin ==
    ASSUME JobsOK, NEW r \in Handlers, NEW q, Proper(q), q.pc # "idle", Joins(r, q)
    PROVE  JobsOK'
<1>1. Lined(h', line')
  BY LinedSend DEF JobsOK, Proper
<1>2. h' = [h EXCEPT ![r] = q]
  BY DEF Joins
<1>3. h' \in [Handlers -> Locals] /\ \A m \in Handlers : Proper(h'[m])
  BY <1>2 DEF JobsOK, Proper
<1> QED
  BY <1>1, <1>3 DEF JobsOK, Proper

LEMMA JobsGo ==
    ASSUME JobsOK, line # <<>>, NEW q, Proper(q), q.pc # "idle", Goes(Head(line), q)
    PROVE  JobsOK'
<1>1. Lined(h', line')
  BY LinedAwait DEF JobsOK, Proper
<1>2. h' = [h EXCEPT ![Head(line)] = q] /\ Head(line) \in Handlers
  BY LinedHead DEF Goes, JobsOK
<1>3. h' \in [Handlers -> Locals] /\ \A m \in Handlers : Proper(h'[m])
  BY <1>2 DEF JobsOK, Proper
<1> QED
  BY <1>1, <1>3 DEF JobsOK, Proper

LEMMA JobsRespond ==
    ASSUME JobsOK, line # <<>>, Respond(Head(line))
    PROVE  JobsOK'
<1>1. Lined(h', line')
  BY LinedAnswer DEF JobsOK
<1>2. h' = [h EXCEPT ![Head(line)] = Idle] /\ Head(line) \in Handlers
  BY LinedHead DEF Respond, JobsOK
<1>3. h' \in [Handlers -> Locals] /\ \A m \in Handlers : Proper(h'[m])
  BY <1>2, IdleProper DEF JobsOK, Proper
<1> QED
  BY <1>1, <1>3 DEF JobsOK, Proper

\* The process ends: nobody is in line.
LEMMA JobsEnd ==
    ASSUME h' = [r \in Handlers |-> Idle], line' = <<>>
    PROVE  JobsOK'
<1>1. h' \in [Handlers -> Locals] /\ \A m \in Handlers : Proper(h'[m]) /\ h'[m].pc = "idle"
  BY IdleProper DEF Proper
<1>2. line' \in Seq(Handlers) /\ Len(line') = 0
  OBVIOUS
<1>3. Lined(h', line')
  BY <1>1, <1>2 DEF Lined
<1> QED
  BY <1>1, <1>3 DEF JobsOK, Proper

\* A tick only marks the requests in progress.
LEMMA JobsTick ==
    ASSUME JobsOK, Tick
    PROVE  /\ JobsOK'
           /\ \A r \in Handlers :
                IF h[r].pc = "idle" THEN h'[r] = h[r]
                ELSE /\ h'[r].late
                     /\ \A f \in {"pc", "order", "key", "ok", "max", "own", "all"} :
                          h'[r][f] = h[r][f]
<1>1. h' = [r \in Handlers |-> IF h[r].pc = "idle" THEN h[r]
                               ELSE [h[r] EXCEPT !.late = TRUE]]
  BY DEF Tick
<1>2. ASSUME NEW l \in Locals
      PROVE  LET q == [l EXCEPT !.late = TRUE]
             IN /\ q \in Locals /\ q.late /\ (Proper(l) => Proper(q))
                /\ \A f \in {"pc", "order", "key", "ok", "max", "own", "all"} : q[f] = l[f]
  BY DEF Locals, Proper
<1>3. ASSUME NEW r \in Handlers
      PROVE  /\ Proper(h'[r])
             /\ IF h[r].pc = "idle" THEN h'[r] = h[r]
                ELSE /\ h'[r].late
                     /\ \A f \in {"pc", "order", "key", "ok", "max", "own", "all"} :
                          h'[r][f] = h[r][f]
  <2>1. Proper(h[r]) /\ h[r] \in Locals
    BY DEF JobsOK
  <2>2. CASE h[r].pc = "idle"
    BY <1>1, <2>1, <2>2
  <2>3. CASE h[r].pc # "idle"
    <3>1. h'[r] = [h[r] EXCEPT !.late = TRUE]
      BY <1>1, <2>3
    <3> QED
      BY <1>2, <2>1, <2>3, <3>1
  <2> QED
    BY <2>2, <2>3
<1>4. h' \in [Handlers -> Locals]
  BY <1>1, <1>3 DEF Proper
<1>5. line' = line
  BY DEF Tick
<1>6. \A r \in Handlers : h'[r].pc = h[r].pc
  BY <1>3
<1>7. Lined(h', line')
  BY <1>5, <1>6 DEF JobsOK, Lined
<1> QED
  BY <1>3, <1>4, <1>7 DEF JobsOK

-----------------------------------------------------------------------------
(* What the handling of a reply does.  Request r goes on as q, ends, or     *)
(* takes the process with it.                                               *)

Everyone == <<"global", Everybody>>

\* The request that created counter s, and is to give it its expiry.
Opens(s, q) ==
    q.ok /\ IF s[1] = "guard" THEN q.pc = "guard" /\ q.key = s[2] /\ q.own = 1
            ELSE q.pc = "global" /\ q.all = 1

SameOrder(r, q) ==
    /\ q.order = h[r].order /\ q.key = h[r].key /\ q.max = h[r].max
    /\ q.own = h[r].own

Denied(r, q) ==
    /\ h[r].pc \in Guarding /\ q.pc = "audit"
    /\ \A s \in Scopes : ~Opens(s, h[r])
    /\ UNCHANGED <<counter, permanent, recent, booked>>

GaveExpiry(r, q) ==
    \E s \in Scopes :
        /\ Opens(s, h[r]) /\ counter' = Expiring(s)
        /\ q.pc = IF s[1] = "guard" THEN "guardExpiry" ELSE "globalExpiry"
        /\ SameOrder(r, q) /\ q.all = h[r].all
        /\ UNCHANGED <<permanent, recent, booked>>

CountedAll(r, q) ==
    /\ h[r].pc = "guardExpiry" \/ (h[r].pc = "guard" /\ h[r].ok /\ h[r].own # 1)
    /\ counter' = Counted(Everyone)
    /\ q.pc = "global" /\ q.ok = up /\ q.all = CountOf(Everyone)
    /\ SameOrder(r, q)
    /\ UNCHANGED <<permanent, recent, booked>>

Wrote(r, q) ==
    /\ h[r].pc = "globalExpiry" \/ (h[r].pc = "global" /\ h[r].ok /\ h[r].all # 1)
    /\ Passed(r)
    /\ q.pc = "written" /\ q.order = h[r].order
    /\ recent' = recent \cup {NextBan(h[r].key)}
    /\ permanent' = (permanent \/ (up /\ h[r].order = "permanent"))
    /\ UNCHANGED <<counter, booked>>

Booked(r, q) ==
    /\ h[r].pc \in {"written", "removed"} /\ q.pc = "audit"
    /\ (h[r].pc = "written" /\ h[r].order = "permanent") => AuditBan(TRUE)
    /\ (h[r].pc = "written" /\ h[r].order # "permanent") => booked' = booked
    /\ h[r].pc = "removed" => AuditBan(FALSE)
    /\ UNCHANGED <<counter, permanent, recent>>

Cleared(r, q) ==
    /\ h[r].pc = "cleared" /\ q.pc = "removed"
    /\ permanent' = IF up THEN FALSE ELSE permanent
    /\ UNCHANGED <<counter, recent, booked>>

GoesOn(r, q) ==
    /\ Goes(r, q) /\ Proper(q) /\ q.pc # "idle" /\ q.late = h[r].late
    /\ UNCHANGED <<config, faultVars>>
    /\ \/ Denied(r, q) \/ GaveExpiry(r, q) \/ CountedAll(r, q)
       \/ Wrote(r, q) \/ Booked(r, q) \/ Cleared(r, q)

Ends(r) == h[r].pc = "audit" /\ Answer(r)

LEMMA Denies ==
    ASSUME JobsOK, StoreOK, NEW r \in Handlers, h[r].pc \in Guarding, Deny(r),
           \A s \in Scopes : ~Opens(s, h[r])
    PROVE  \E q : GoesOn(r, q)
<1> DEFINE q == Onward(Idle, "audit", up, h[r].late)
<1>1. up \in BOOLEAN /\ h[r].late \in BOOLEAN
  BY DEF StoreOK, JobsOK, Locals
<1>2. Proper(q) /\ q.pc = "audit" /\ q.late = h[r].late
  BY <1>1, AuditEntry
<1>3. Goes(r, q) /\ UNCHANGED <<counter, permanent, recent, booked, config, faultVars>>
  BY DEF Deny, Await, Goes, Onward, storeVars
<1> HIDE DEF q
<1>4. GoesOn(r, q)
  BY <1>2, <1>3 DEF GoesOn, Denied
<1> QED
  BY <1>4

LEMMA GivesExpiry ==
    ASSUME JobsOK, StoreOK, NEW r \in Handlers, NEW s \in Scopes, Opens(s, h[r]),
           NEW pc, pc = IF s[1] = "guard" THEN "guardExpiry" ELSE "globalExpiry",
           SetExpiry(r, s, pc)
    PROVE  \E q : GoesOn(r, q)
<1> DEFINE q == Onward(h[r], pc, up, h[r].late)
<1>1. up \in BOOLEAN /\ h[r].late \in BOOLEAN /\ h[r] \in Locals /\ Proper(h[r])
  BY DEF StoreOK, JobsOK, Locals
<1>2. pc \in Pcs /\ pc \in Guarding /\ h[r].pc \in Guarding
  BY DEF Pcs, Guarding, Opens
<1>3. /\ q \in Locals /\ q.pc = pc /\ q.late = h[r].late /\ q.all = h[r].all
      /\ SameOrder(r, q)
  BY <1>1, <1>2, OnwardProper DEF SameOrder
<1>4. Goes(r, q) /\ counter' = Expiring(s) /\ UNCHANGED <<permanent, recent, booked, config, faultVars>>
  BY DEF SetExpiry, Await, Goes, Onward
<1> HIDE DEF q
<1>5. Proper(q) /\ q.pc # "idle"
  BY <1>1, <1>2, <1>3 DEF Proper, SameOrder, Guarding
<1>6. GaveExpiry(r, q)
  BY <1>3, <1>4 DEF GaveExpiry
<1>7. GoesOn(r, q)
  BY <1>3, <1>4, <1>5, <1>6 DEF GoesOn
<1> QED
  BY <1>7

LEMMA CountType ==
    ASSUME StoreOK, NEW s \in Scopes
    PROVE  /\ CountOf(s) \in 0..Cap /\ CountOf(s) >= 1
           /\ counter[s].count \in 0..Cap
           /\ CountOf(s) = 1 <=> counter[s].count = 0
           /\ counter[s].count < Cap => CountOf(s) = counter[s].count + 1
           /\ counter[s].count >= Cap => CountOf(s) = Cap
<1>1. counter[s].count \in 0..Cap
  BY DEF StoreOK, Counters
<1> QED
  BY <1>1, LimitsAre DEF CountOf

LEMMA EveryoneIsAScope == Everyone \in Scopes
BY DEF Everyone, Scopes

LEMMA CountsAll ==
    ASSUME JobsOK, StoreOK, NEW r \in Handlers, CountAll(r),
           h[r].pc = "guardExpiry" \/ (h[r].pc = "guard" /\ h[r].ok /\ h[r].own # 1)
    PROVE  \E q : GoesOn(r, q)
<1> DEFINE n == CountOf(Everyone)
           q == Counting(h[r], n, up, h[r].late)
<1>1. up \in BOOLEAN /\ h[r].late \in BOOLEAN /\ h[r] \in Locals /\ Proper(h[r])
  BY DEF StoreOK, JobsOK, Locals
<1>2. n \in 0..Cap
  BY EveryoneIsAScope, CountType
<1>4. Goes(r, q) /\ counter' = Counted(Everyone)
      /\ UNCHANGED <<permanent, recent, booked, config, faultVars>>
  BY DEF CountAll, Await, Goes, Counting, Everyone
<1>n. n = CountOf(Everyone)
  OBVIOUS
<1> HIDE DEF n
<1>3. /\ q \in Locals /\ q.pc = "global" /\ q.ok = up /\ q.late = h[r].late /\ q.all = n
      /\ SameOrder(r, q)
  BY <1>1, <1>2, CountingProper DEF SameOrder
<1> HIDE DEF q
<1>5. Proper(q) /\ q.pc # "idle"
  BY <1>1, <1>3 DEF Proper, SameOrder, Guarding
<1>6. CountedAll(r, q)
  BY <1>3, <1>4, <1>n DEF CountedAll
<1>7. GoesOn(r, q)
  BY <1>3, <1>4, <1>5, <1>6 DEF GoesOn
<1> QED
  BY <1>7

LEMMA WrittenProper ==
    ASSUME NEW l \in Locals
    PROVE  LET w == [l EXCEPT !.pc = "written", !.max = 0, !.own = 0, !.all = 0]
               p == [l EXCEPT !.pc = "written", !.ok = FALSE, !.max = 0, !.own = 0, !.all = 0]
           IN /\ w \in Locals /\ w.pc = "written" /\ w.order = l.order /\ w.late = l.late
              /\ p \in Locals /\ p.pc = "written" /\ p.order = l.order /\ p.late = l.late
<1>1. 0 \in Nat /\ 0 \in 0..Cap /\ "written" \in Pcs
  BY LimitsAre DEF Pcs
<1> QED
  BY <1>1 DEF Locals

LEMMA Decides ==
    ASSUME JobsOK, StoreOK, NEW r \in Handlers, Decide(r),
           h[r].pc = "globalExpiry" \/ (h[r].pc = "global" /\ h[r].ok /\ h[r].all # 1)
    PROVE  \E q : GoesOn(r, q)
<1>1. up \in BOOLEAN /\ h[r].late \in BOOLEAN /\ h[r] \in Locals
  BY DEF StoreOK, JobsOK, Locals
<1>2. CASE ~Passed(r) \/ h[r].order = "malformed"
  <2>1. Deny(r) /\ h[r].pc \in Guarding /\ \A s \in Scopes : ~Opens(s, h[r])
    BY <1>2 DEF Decide, Guarding, Opens
  <2> QED
    BY <2>1, Denies
<1>3. CASE ~(~Passed(r) \/ h[r].order = "malformed")
  <2> DEFINE w == [h[r] EXCEPT !.pc = "written", !.max = 0, !.own = 0, !.all = 0]
             p == [h[r] EXCEPT !.pc = "written", !.ok = FALSE, !.max = 0, !.own = 0, !.all = 0]
             t == [w EXCEPT !.ok = up, !.late = h[r].late]
  <2>1. /\ w \in Locals /\ w.pc = "written" /\ w.order = h[r].order /\ w.late = h[r].late
        /\ p \in Locals /\ p.pc = "written" /\ p.order = h[r].order /\ p.late = h[r].late
    BY <1>1, WrittenProper
  <2>2. /\ t \in Locals /\ t.pc = "written" /\ t.order = h[r].order /\ t.late = h[r].late
    <3> HIDE DEF w
    <3> QED
      BY <1>1, <2>1 DEF Locals
  <2>3. \/ h' = [h EXCEPT ![r] = p] /\ line' = Append(Tail(line), r)
        \/ h' = [h EXCEPT ![r] = t] /\ line' = Append(Tail(line), r)
    BY <1>3 DEF Decide, Await
  <2>4. /\ recent' = recent \cup {NextBan(h[r].key)}
        /\ permanent' = (permanent \/ (up /\ h[r].order = "permanent"))
        /\ UNCHANGED <<counter, booked, config, faultVars>>
        /\ Passed(r)
    BY <1>3 DEF Decide
  <2> HIDE DEF w, p, t
  <2>5. PICK q \in Locals : /\ Goes(r, q) /\ q.pc = "written" /\ q.order = h[r].order
                            /\ q.late = h[r].late
    BY <2>1, <2>2, <2>3 DEF Goes
  <2>6. Proper(q) /\ q.pc # "idle"
    BY <2>5 DEF Proper, Guarding
  <2>7. Wrote(r, q)
    BY <2>4, <2>5 DEF Wrote
  <2>8. GoesOn(r, q)
    BY <2>4, <2>5, <2>6, <2>7 DEF GoesOn
  <2> QED
    BY <2>8
<1> QED
  BY <1>2, <1>3

\* A write that failed ends the process; otherwise the handler goes on.
LEMMA Writes ==
    ASSUME JobsOK, StoreOK, NEW r \in Handlers,
           WrittenReply(r) \/ ClearedReply(r) \/ RemovedReply(r)
    PROVE  Die \/ \E q : GoesOn(r, q)
<1>1. up \in BOOLEAN /\ h[r].late \in BOOLEAN /\ h[r] \in Locals
  BY DEF StoreOK, JobsOK, Locals
<1>2. CASE ~h[r].ok
  BY <1>2 DEF WrittenReply, ClearedReply, RemovedReply
<1>3. CASE h[r].ok /\ (WrittenReply(r) \/ RemovedReply(r))
  <2> DEFINE q == Onward(Idle, "audit", up, h[r].late)
  <2>1. Proper(q) /\ q.pc = "audit" /\ q.late = h[r].late
    BY <1>1, AuditEntry
  <2>2. Goes(r, q) /\ UNCHANGED <<counter, permanent, recent, config, faultVars>>
    BY <1>3 DEF WrittenReply, RemovedReply, Await, Goes, Onward, storeVars
  <2>3. /\ h[r].pc \in {"written", "removed"}
        /\ (h[r].pc = "written" /\ h[r].order = "permanent") => AuditBan(TRUE)
        /\ (h[r].pc = "written" /\ h[r].order # "permanent") => booked' = booked
        /\ h[r].pc = "removed" => AuditBan(FALSE)
    BY <1>3 DEF WrittenReply, RemovedReply
  <2> HIDE DEF q
  <2>4. GoesOn(r, q)
    BY <2>1, <2>2, <2>3 DEF GoesOn, Booked
  <2> QED
    BY <2>4
<1>4. CASE h[r].ok /\ ClearedReply(r)
  <2> DEFINE q == Onward(h[r], "removed", up, h[r].late)
  <2>1. q \in Locals /\ q.pc = "removed" /\ q.late = h[r].late
    <3>1. "removed" \in Pcs
      BY DEF Pcs
    <3> QED
      BY <1>1, <3>1, OnwardProper
  <2>2. /\ Goes(r, q) /\ UNCHANGED <<counter, recent, booked, config, faultVars>>
        /\ permanent' = IF up THEN FALSE ELSE permanent
        /\ h[r].pc = "cleared"
    BY <1>4 DEF ClearedReply, Await, Goes, Onward
  <2> HIDE DEF q
  <2>3. GoesOn(r, q)
    BY <2>1, <2>2 DEF GoesOn, Cleared, Proper, Guarding
  <2> QED
    BY <2>3
<1> QED
  BY <1>2, <1>3, <1>4

LEMMA Moves ==
    ASSUME JobsOK, StoreOK, Continue
    PROVE  /\ line # <<>> /\ Head(line) \in Handlers
           /\ Die \/ Ends(Head(line)) \/ \E q : GoesOn(Head(line), q)
<1> DEFINE r == Head(line)
<1>1. line # <<>> /\ r \in Handlers
  BY LinedHead DEF Continue, JobsOK
<1>2. Proper(h[r]) /\ h[r] \in Locals
  BY <1>1 DEF JobsOK
<1>r. r = Head(line)
  OBVIOUS
<1> SUFFICES Die \/ Ends(r) \/ \E q : GoesOn(r, q)
  BY <1>1
<1> HIDE DEF r
<1>3. CASE GuardReply(r)
  <2>1. h[r].pc = "guard" /\ h[r].key \in AdminKeys /\ h[r].pc \in Guarding
    BY <1>2, <1>3 DEF GuardReply, Proper, Guarding
  <2>2. CASE ~h[r].ok
    BY <1>1, <1>3, <2>1, <2>2, Denies DEF GuardReply, Opens
  <2>3. CASE h[r].ok /\ h[r].own = 1
    <3> DEFINE s == <<"guard", h[r].key>>
    <3>1. s \in Scopes /\ s[1] = "guard" /\ s[2] = h[r].key
      BY <2>1 DEF Scopes
    <3>2. SetExpiry(r, s, "guardExpiry")
      BY <1>3, <2>3 DEF GuardReply, FirstCall
    <3> HIDE DEF s
    <3>3. Opens(s, h[r])
      BY <2>1, <2>3, <3>1 DEF Opens
    <3> QED
      BY <1>1, <3>1, <3>2, <3>3, GivesExpiry
  <2>4. CASE h[r].ok /\ h[r].own # 1
    <3>1. CountAll(r)
      BY <1>3, <2>4 DEF GuardReply, FirstCall
    <3> QED
      BY <1>1, <2>1, <2>4, <3>1, CountsAll
  <2> QED
    BY <2>2, <2>3, <2>4
<1>4. CASE GuardExpiryReply(r)
  <2>1. h[r].pc = "guardExpiry" /\ h[r].pc \in Guarding
    BY <1>4 DEF GuardExpiryReply, Guarding
  <2>2. CountAll(r) \/ Deny(r)
    BY <1>4 DEF GuardExpiryReply
  <2> QED
    BY <1>1, <2>1, <2>2, CountsAll, Denies DEF Opens
<1>5. CASE GlobalReply(r)
  <2>1. h[r].pc = "global" /\ h[r].pc \in Guarding
    BY <1>5 DEF GlobalReply, Guarding
  <2>2. CASE ~h[r].ok
    BY <1>1, <1>5, <2>1, <2>2, Denies DEF GlobalReply, Opens
  <2>3. CASE h[r].ok /\ h[r].all = 1
    <3>1. Everyone \in Scopes /\ Everyone[1] = "global" /\ Everyone[1] # "guard"
      BY EveryoneIsAScope DEF Everyone
    <3>2. SetExpiry(r, Everyone, "globalExpiry")
      BY <1>5, <2>3 DEF GlobalReply, FirstCall, Everyone
    <3>3. Opens(Everyone, h[r])
      BY <2>1, <2>3, <3>1 DEF Opens
    <3> QED
      BY <1>1, <3>1, <3>2, <3>3, GivesExpiry
  <2>4. CASE h[r].ok /\ h[r].all # 1
    <3>1. Decide(r)
      BY <1>5, <2>4 DEF GlobalReply, FirstCall
    <3> QED
      BY <1>1, <2>1, <2>4, <3>1, Decides
  <2> QED
    BY <2>2, <2>3, <2>4
<1>6. CASE GlobalExpiryReply(r)
  <2>1. h[r].pc = "globalExpiry" /\ h[r].pc \in Guarding
    BY <1>6 DEF GlobalExpiryReply, Guarding
  <2>2. Decide(r) \/ Deny(r)
    BY <1>6 DEF GlobalExpiryReply
  <2>3. \A s \in Scopes : ~Opens(s, h[r])
    BY <2>1 DEF Opens
  <2> QED
    BY <1>1, <2>1, <2>2, <2>3, Decides, Denies
<1>7. CASE WrittenReply(r) \/ ClearedReply(r) \/ RemovedReply(r)
  BY <1>1, <1>7, Writes
<1>8. CASE AuditReply(r)
  BY <1>8 DEF AuditReply, Ends
<1>9. \/ GuardReply(r) \/ GuardExpiryReply(r) \/ GlobalReply(r) \/ GlobalExpiryReply(r)
      \/ WrittenReply(r) \/ ClearedReply(r) \/ RemovedReply(r) \/ AuditReply(r)
  BY <1>r DEF Continue
<1> QED
  BY <1>1, <1>3, <1>4, <1>5, <1>6, <1>7, <1>8, <1>9, <1>r

\* What the arrival of a request does: POST /ban counts, the others do not.
LEMMA Starts ==
    ASSUME JobsOK, StoreOK, NEW r \in Handlers, NEW k \in AdminKeys, NEW o \in Orders,
           Arrive(r, k, o)
    PROVE  \E q : /\ Joins(r, q) /\ Proper(q) /\ ~q.late
                  /\ UNCHANGED <<permanent, recent, booked, faultVars>>
                  /\ \/ /\ q.pc = "guard" /\ q.key = k /\ q.ok = up
                        /\ q.own = CountOf(<<"guard", k>>)
                        /\ counter' = Counted(<<"guard", k>>) /\ config' = config
                     \/ /\ q.pc \in {"cleared", "audit"} /\ counter' = counter
                        /\ config' \in GuardRange
<1>0. up \in BOOLEAN /\ config \in GuardRange /\ config \in Nat
  BY DEF StoreOK
<1>1. Idle \in Locals /\ Idle.late = FALSE
  BY IdleProper DEF Proper
<1>2. CASE OrderBan(r, k, o)
  <2> DEFINE s == <<"guard", k>>
             n == CountOf(s)
             p == [Idle EXCEPT !.pc = "guard", !.order = o, !.key = k, !.max = config, !.own = n]
             q == [p EXCEPT !.ok = up]
  <2>1. s \in Scopes
    BY DEF Scopes
  <2>2. n \in 0..Cap
    <3> HIDE DEF s
    <3> QED
      BY <2>1, CountType
  <2>3. o \in BanOrders /\ counter' = Counted(s) /\ config' = config
        /\ UNCHANGED <<permanent, recent, booked, faultVars>> /\ Joins(r, q)
    BY <1>2 DEF OrderBan, Enter, Joins
  <2>n. n = CountOf(<<"guard", k>>)
    OBVIOUS
  <2> HIDE DEF s, n
  <2>4. /\ p \in Locals /\ p.pc = "guard" /\ p.order = o /\ p.key = k /\ p.max = config
        /\ p.own = n /\ p.late = FALSE
    BY <1>0, <1>1, <2>2, <2>3 DEF Locals, Pcs, AllOrders, BanOrders
  <2> HIDE DEF p
  <2>5. /\ q \in Locals /\ q.pc = "guard" /\ q.order = o /\ q.key = k /\ q.max = config
        /\ q.own = n /\ q.late = FALSE /\ q.ok = up
    BY <1>0, <2>4 DEF Locals
  <2> HIDE DEF q
  <2>6. Proper(q)
    BY <1>0, <2>3, <2>5 DEF Proper
  <2> QED
    BY <2>3, <2>5, <2>6, <2>n DEF s
<1>3. CASE OrderUnban(r) \/ OrderConfig(r) \/ OrderRead(r)
  <2> DEFINE p(pc) == [Idle EXCEPT !.pc = pc]
             u == [Idle EXCEPT !.pc = "cleared", !.order = "unban"]
  <2>1. /\ p("audit") \in Locals /\ p("audit").pc = "audit" /\ p("audit").late = FALSE
        /\ u \in Locals /\ u.pc = "cleared" /\ u.late = FALSE
    BY <1>1 DEF Locals, Pcs, AllOrders
  <2>2. PICK w \in {p("audit"), u} : Joins(r, [w EXCEPT !.ok = up])
    BY <1>3 DEF OrderUnban, OrderConfig, OrderRead, Enter, Joins
  <2>3. /\ UNCHANGED <<permanent, recent, booked, faultVars>>
        /\ counter' = counter
    BY <1>3 DEF OrderUnban, OrderConfig, OrderRead, Enter
  <2>4. config' \in GuardRange
    BY <1>0, <1>3 DEF OrderUnban, OrderConfig, OrderRead, ApplyUpdate
  <2>5. w \in Locals /\ w.pc \in {"cleared", "audit"} /\ w.late = FALSE
    BY <2>1
  <2> DEFINE q == [w EXCEPT !.ok = up]
  <2>6. q \in Locals /\ q.pc \in {"cleared", "audit"} /\ q.late = FALSE
    BY <1>0, <2>5 DEF Locals
  <2> HIDE DEF q
  <2>7. Proper(q)
    BY <2>6 DEF Proper, Guarding
  <2>8. Joins(r, q)
    BY <2>2 DEF q
  <2> QED
    BY <2>3, <2>4, <2>6, <2>7, <2>8
<1> QED
  BY <1>2, <1>3 DEF Arrive

-----------------------------------------------------------------------------
(* Types, at every step.                                                   *)

LEMMA WindowType ==
    ASSUME NEW s \in Scopes
    PROVE  /\ WindowOf(s) \in Nat /\ WindowOf(s) \in 1..GlobalWindow /\ WindowOf(s) # Forever
           /\ WindowOf(s) >= 1
BY DEF WindowOf

LEMMA CounterChanges ==
    ASSUME StoreOK, NEW s \in Scopes
    PROVE  /\ Counted(s) \in [Scopes -> Counters] /\ Expiring(s) \in [Scopes -> Counters]
           /\ \A t \in Scopes : t # s => Counted(s)[t] = counter[t] /\ Expiring(s)[t] = counter[t]
           /\ Counted(s)[s].ttl = counter[s].ttl /\ Expiring(s)[s].count = counter[s].count
           /\ up => Counted(s)[s].count = CountOf(s) /\ Expiring(s)[s].ttl = WindowOf(s)
           /\ ~up => Counted(s) = counter /\ Expiring(s) = counter
<1> DEFINE n == CountOf(s)
           w == WindowOf(s)
<1>1. counter \in [Scopes -> Counters] /\ n \in 0..Cap /\ w \in 1..GlobalWindow
  BY CountType, WindowType DEF StoreOK
<1>2. /\ Counted(s) = IF up THEN [counter EXCEPT ![s].count = n] ELSE counter
      /\ Expiring(s) = IF up THEN [counter EXCEPT ![s].ttl = w] ELSE counter
  BY DEF Counted, Expiring
<1>n. n = CountOf(s) /\ w = WindowOf(s)
  OBVIOUS
<1> HIDE DEF n, w
<1> USE DEF Counters
<1>3. CASE up
  <2>1. /\ Counted(s) = [counter EXCEPT ![s].count = n]
        /\ Expiring(s) = [counter EXCEPT ![s].ttl = w]
    BY <1>2, <1>3
  <2> QED
    BY <1>1, <1>3, <1>n, <2>1
<1>4. CASE ~up
  BY <1>1, <1>2, <1>4
<1> QED
  BY <1>3, <1>4

\* A tick: counters without expiry stay, the others expire or come closer to it.
Ticked(c) == IF c.ttl = Forever THEN c
             ELSE IF c.ttl = 1 THEN Absent ELSE [c EXCEPT !.ttl = @ - 1]

LEMMA TickedType ==
    ASSUME NEW c \in Counters
    PROVE  /\ Ticked(c) \in Counters
           /\ c.ttl = Forever => Ticked(c) = c
           /\ c.ttl = 1 => Ticked(c) = Absent
           /\ (c.ttl # Forever /\ c.ttl # 1) =>
                c.ttl - 1 \in 1..GlobalWindow /\ Ticked(c).ttl = c.ttl - 1 /\ Ticked(c).count = c.count
<1>1. Absent \in Counters
  BY LimitsAre DEF Absent, Counters
<1>2. c.ttl = Forever => c.ttl # 1
  OBVIOUS
<1>3. CASE c.ttl = Forever \/ c.ttl = 1
  BY <1>1, <1>2, <1>3 DEF Ticked
<1>4. CASE c.ttl # Forever /\ c.ttl # 1
  <2> DEFINE t == c.ttl - 1
  <2>1. t \in 1..GlobalWindow
    BY <1>4 DEF Counters
  <2>2. Ticked(c) = [c EXCEPT !.ttl = t]
    BY <1>4 DEF Ticked
  <2> HIDE DEF t
  <2>3. Ticked(c) \in Counters /\ Ticked(c).ttl = t /\ Ticked(c).count = c.count
    BY <2>1, <2>2 DEF Counters
  <2> QED
    BY <1>4, <2>1, <2>3 DEF t
<1> QED
  BY <1>3, <1>4

LEMMA TickIs ==
    ASSUME StoreOK, Tick
    PROVE  /\ \A s \in Scopes : counter'[s] = Ticked(counter[s])
           /\ counter' \in [Scopes -> Counters]
<1>1. counter' = [s \in Scopes |->
         CASE counter[s].ttl = Forever -> counter[s]
           [] counter[s].ttl = 1 -> Absent
           [] OTHER -> [counter[s] EXCEPT !.ttl = @ - 1]]
  BY DEF Tick
<1>2. ASSUME NEW s \in Scopes PROVE counter'[s] = Ticked(counter[s]) /\ Ticked(counter[s]) \in Counters
  <2>0. counter[s] \in Counters
    BY DEF StoreOK
  <2>1. counter'[s] = CASE counter[s].ttl = Forever -> counter[s]
           [] counter[s].ttl = 1 -> Absent
           [] OTHER -> [counter[s] EXCEPT !.ttl = @ - 1]
    BY <1>1
  <2>2. CASE counter[s].ttl = Forever
    <3>1. counter[s].ttl # 1
      BY <2>2
    <3> QED
      BY <2>0, <2>1, <2>2, <3>1, TickedType DEF Ticked
  <2>3. CASE counter[s].ttl = 1
    <3>1. counter[s].ttl # Forever
      BY <2>3
    <3> QED
      BY <2>0, <2>1, <2>3, <3>1, TickedType DEF Ticked
  <2>4. CASE counter[s].ttl # Forever /\ counter[s].ttl # 1
    BY <2>0, <2>1, <2>4, TickedType DEF Ticked
  <2> QED
    BY <2>2, <2>3, <2>4
<1> QED
  BY <1>1, <1>2

LEMMA TypedInit == Init => JobsOK /\ StoreOK
<1> SUFFICES ASSUME Init PROVE JobsOK /\ StoreOK
  OBVIOUS
<1>1. h \in [Handlers -> Locals] /\ \A r \in Handlers : Proper(h[r]) /\ h[r].pc = "idle"
  BY IdleProper DEF Init, Proper
<1>2. line \in Seq(Handlers) /\ Len(line) = 0
  BY DEF Init
<1>3. Lined(h, line)
  BY <1>1, <1>2 DEF Lined
<1>4. Absent \in Counters
  BY LimitsAre DEF Absent, Counters
<1>5. counter \in [Scopes -> Counters] /\ recent \subseteq Bans /\ IsFiniteSet(recent)
  BY <1>4, FS_EmptySet DEF Init
<1>6. /\ permanent \in BOOLEAN /\ config \in GuardRange /\ booked \in BOOLEAN
      /\ up \in BOOLEAN /\ crashed \in BOOLEAN
  BY DEF Init
<1>7. faults \in 0..MaxFaults
  BY DEF Init
<1> QED
  BY <1>1, <1>3, <1>5, <1>6, <1>7 DEF JobsOK, StoreOK

LEMMA ImageOf ==
    ASSUME NEW S, IsFiniteSet(S), NEW T, NEW f \in [S -> T], \A t \in T : \E x \in S : f[x] = t
    PROVE  IsFiniteSet(T) /\ Cardinality(T) <= Cardinality(S)
<1>1. f \in Surjection(S, T)
  BY DEF Surjection
<1> QED
  BY <1>1, FS_Surjection

\* A ban that passes is numbered, and ages.
Aged(S) == {[b EXCEPT !.age = @ + 1] : b \in {c \in S : c.age + 1 < GlobalWindow}}

LEMMA AgedType ==
    ASSUME NEW S \in SUBSET Bans
    PROVE  \A b \in S : b.age + 1 < GlobalWindow =>
             LET a == [b EXCEPT !.age = @ + 1]
             IN a \in Bans /\ a.key = b.key /\ a.age = b.age + 1
<1> SUFFICES ASSUME NEW b \in S, b.age + 1 < GlobalWindow
             PROVE  LET a == [b EXCEPT !.age = @ + 1]
                    IN a \in Bans /\ a.key = b.key /\ a.age = b.age + 1
  OBVIOUS
<1> DEFINE t == b.age + 1
<1>1. b \in Bans /\ b.age \in 0..(GlobalWindow - 1)
  BY DEF Bans
<1>2. t \in 0..(GlobalWindow - 1)
  BY <1>1
<1> HIDE DEF t
<1>3. [b EXCEPT !.age = t] \in Bans /\ [b EXCEPT !.age = t].key = b.key /\ [b EXCEPT !.age = t].age = t
  BY <1>1, <1>2 DEF Bans
<1> QED
  BY <1>3 DEF t

LEMMA RecentType ==
    ASSUME StoreOK
    PROVE  /\ \A k \in AdminKeys :
                /\ NextBan(k) \in Bans /\ NextBan(k).key = k /\ NextBan(k).age = 0
                /\ recent \cup {NextBan(k)} \subseteq Bans /\ IsFiniteSet(recent \cup {NextBan(k)})
           /\ Tick => recent' = Aged(recent) /\ recent' \subseteq Bans /\ IsFiniteSet(recent')
<1>1. recent \subseteq Bans /\ IsFiniteSet(recent)
  BY DEF StoreOK
<1>2. ASSUME NEW k \in AdminKeys
      PROVE  /\ NextBan(k) \in Bans /\ NextBan(k).key = k /\ NextBan(k).age = 0
             /\ recent \cup {NextBan(k)} \subseteq Bans /\ IsFiniteSet(recent \cup {NextBan(k)})
  <2> DEFINE S == {b \in recent : b.key = k /\ b.age = 0}
  <2>1. IsFiniteSet(S)
    BY <1>1, FS_Subset
  <2>2. Cardinality(S) \in Nat
    BY <2>1, FS_CardinalityType
  <2>3. NextBan(k) = [key |-> k, age |-> 0, nr |-> Cardinality(S)]
    BY DEF NextBan
  <2> HIDE DEF S
  <2>4. NextBan(k) \in Bans /\ NextBan(k).key = k /\ NextBan(k).age = 0
    BY <2>2, <2>3 DEF Bans
  <2>5. IsFiniteSet(recent \cup {NextBan(k)})
    BY <1>1, FS_AddElement
  <2> QED
    BY <1>1, <2>4, <2>5
<1>3. ASSUME Tick PROVE recent' = Aged(recent) /\ recent' \subseteq Bans /\ IsFiniteSet(recent')
  <2>1. recent' = Aged(recent)
    BY <1>3 DEF Tick, Aged
  <2>2. Aged(recent) \subseteq Bans
    BY <1>1, AgedType DEF Aged
  <2> DEFINE S == {c \in recent : c.age + 1 < GlobalWindow}
             f == [b \in S |-> [b EXCEPT !.age = @ + 1]]
  <2>3. IsFiniteSet(S)
    BY <1>1, FS_Subset
  <2>4. f \in [S -> Aged(recent)] /\ \A t \in Aged(recent) : \E b \in S : f[b] = t
    BY DEF Aged
  <2> HIDE DEF S, f
  <2>5. IsFiniteSet(Aged(recent))
    BY <2>3, <2>4, ImageOf
  <2> QED
    BY <2>1, <2>2, <2>5
<1> QED
  BY <1>2, <1>3

LEMMA StoreGoes ==
    ASSUME JobsOK, StoreOK, NEW r \in Handlers, NEW q, GoesOn(r, q)
    PROVE  StoreOK'
<1>1. UNCHANGED <<config, up, faults, crashed>>
  BY DEF GoesOn, faultVars
<1>2. /\ counter \in [Scopes -> Counters] /\ recent \subseteq Bans /\ IsFiniteSet(recent)
      /\ permanent \in BOOLEAN /\ booked \in BOOLEAN /\ up \in BOOLEAN
  BY DEF StoreOK
<1>3. CASE Denied(r, q) \/ Booked(r, q) \/ Cleared(r, q)
  <2>1. UNCHANGED <<counter, recent>> /\ permanent' \in BOOLEAN /\ booked' \in BOOLEAN
    BY <1>2, <1>3 DEF Denied, Booked, Cleared, AuditBan
  <2> QED
    BY <1>1, <2>1 DEF StoreOK
<1>4. CASE GaveExpiry(r, q) \/ CountedAll(r, q)
  <2>1. counter' \in [Scopes -> Counters] /\ UNCHANGED <<permanent, recent, booked>>
    BY <1>4, CounterChanges, EveryoneIsAScope DEF GaveExpiry, CountedAll
  <2> QED
    BY <1>1, <2>1 DEF StoreOK
<1>5. CASE Wrote(r, q)
  <2>1. h[r].key \in AdminKeys
    BY <1>5 DEF Wrote, JobsOK, Proper, Guarding
  <2>2. recent' \subseteq Bans /\ IsFiniteSet(recent')
    BY <1>5, <2>1, RecentType DEF Wrote
  <2>3. permanent' \in BOOLEAN /\ UNCHANGED <<counter, booked>>
    BY <1>2, <1>5 DEF Wrote
  <2> QED
    BY <1>1, <2>2, <2>3 DEF StoreOK
<1> QED
  BY <1>3, <1>4, <1>5 DEF GoesOn

LEMMA TypedStep == JobsOK /\ StoreOK /\ [Next]_vars => JobsOK' /\ StoreOK'
<1> SUFFICES ASSUME JobsOK, StoreOK, [Next]_vars PROVE JobsOK' /\ StoreOK'
  OBVIOUS
<1>1. ASSUME NEW r \in Handlers, NEW k \in AdminKeys, NEW o \in Orders, Arrive(r, k, o)
      PROVE  JobsOK' /\ StoreOK'
  <2>1. PICK q : /\ Joins(r, q) /\ Proper(q) /\ q.pc # "idle"
                 /\ UNCHANGED <<permanent, recent, booked, faultVars>>
                 /\ counter' = Counted(<<"guard", k>>) \/ counter' = counter
                 /\ config' \in GuardRange
    BY <1>1, Starts DEF StoreOK
  <2>2. <<"guard", k>> \in Scopes
    BY DEF Scopes
  <2>3. counter' \in [Scopes -> Counters]
    BY <2>1, <2>2, CounterChanges DEF StoreOK
  <2>4. JobsOK'
    BY <2>1, JobsJoin
  <2> QED
    BY <2>1, <2>3, <2>4 DEF StoreOK, faultVars
<1>2. CASE Continue
  <2>1. CASE Die
    <3>1. JobsOK'
      BY <2>1, JobsEnd DEF Die
    <3> QED
      BY <2>1, <3>1 DEF Die, StoreOK, storeVars
  <2>2. CASE Ends(Head(line))
    <3>1. JobsOK'
      BY <1>2, <2>2, Moves, JobsRespond DEF Ends, Answer
    <3> QED
      BY <2>2, <3>1 DEF Ends, Answer, StoreOK, storeVars, faultVars
  <2>3. ASSUME NEW q, GoesOn(Head(line), q) PROVE JobsOK' /\ StoreOK'
    <3>1. JobsOK'
      BY <1>2, <2>3, Moves, JobsGo DEF GoesOn
    <3>2. StoreOK'
      BY <1>2, <2>3, Moves, StoreGoes
    <3> QED
      BY <3>1, <3>2
  <2> QED
    BY <1>2, <2>1, <2>2, <2>3, Moves
<1>3. CASE Tick
  <2>1. JobsOK'
    BY <1>3, JobsTick
  <2>2. counter' \in [Scopes -> Counters] /\ recent' \subseteq Bans /\ IsFiniteSet(recent')
    BY <1>3, TickIs, RecentType
  <2>3. UNCHANGED <<permanent, config, booked, up, faults, crashed>>
    BY <1>3 DEF Tick, faultVars
  <2> QED
    BY <2>1, <2>2, <2>3 DEF StoreOK
<1>4. CASE Break \/ Recover
  <2>1. UNCHANGED <<h, line, counter, permanent, config, recent, booked, crashed>>
    BY <1>4 DEF Break, Recover, storeVars
  <2>2. up' \in BOOLEAN /\ faults' \in 0..MaxFaults
    <3>1. up' \in BOOLEAN
      BY <1>4 DEF Break, Recover
    <3>2. faults' \in 0..MaxFaults
      BY <1>4 DEF Break, Recover, StoreOK
    <3> QED
      BY <3>1, <3>2
  <2> QED
    BY <2>1, <2>2 DEF JobsOK, StoreOK
<1>5. CASE Crash
  <2>1. JobsOK'
    BY <1>5, JobsEnd DEF Crash
  <2>2. faults' \in 0..MaxFaults
    BY <1>5 DEF Crash, StoreOK
  <2> QED
    BY <1>5, <2>1, <2>2 DEF Crash, StoreOK, storeVars
<1>6. CASE UNCHANGED vars
  BY <1>6 DEF vars, storeVars, faultVars, JobsOK, StoreOK
<1> QED
  BY <1>1, <1>2, <1>3, <1>4, <1>5, <1>6 DEF Next

LEMMA Typing == Spec => [](JobsOK /\ StoreOK)
BY TypedInit, TypedStep, PTL DEF Spec

\* Local variables and counters keep their types, and a request waits for one
\* reply or none: the replies of the connection find their handlers.
THEOREM TypeCorrect == Spec => []TypeOK
<1>1. JobsOK /\ StoreOK => TypeOK
  <2> SUFFICES ASSUME JobsOK, StoreOK PROVE TypeOK
    OBVIOUS
  <2>1. \A r \in Handlers :
          Cardinality({i \in 1..Len(line) : line[i] = r}) = IF h[r].pc = "idle" THEN 0 ELSE 1
    BY LinedOnce DEF JobsOK
  <2>2. line \in Seq(Handlers)
    BY DEF JobsOK, Lined
  <2>3. h \in [Handlers -> Locals]
    BY DEF JobsOK
  <2> QED
    BY <2>1, <2>2, <2>3 DEF TypeOK, StoreOK, Counters, Locals, Pcs
<1> QED
  BY <1>1, Typing, PTL

-----------------------------------------------------------------------------
(* The guards open again.  A counter that nobody gave an expiry is waiting  *)
(* for the one request that created it.                                    *)

UpInv == ~up => faults > 0

Pending(s) ==
    /\ counter[s].count = 0 => counter[s].ttl = Forever
    /\ \A r \in Handlers : Opens(s, h[r]) =>
         /\ counter[s].count > 0 /\ counter[s].ttl = Forever
         /\ \A t \in Handlers : Opens(s, h[t]) => t = r
    /\ (counter[s].count > 0 /\ counter[s].ttl = Forever) =>
         (crashed \/ faults > 0 \/ \E r \in Handlers : Opens(s, h[r]))

FirstInv == UpInv /\ \A s \in Scopes : Pending(s)

LEMMA PendingInit == Init => FirstInv
<1> SUFFICES ASSUME Init PROVE FirstInv
  OBVIOUS
<1>1. UpInv
  BY DEF Init, UpInv
<1>2. ASSUME NEW s \in Scopes PROVE Pending(s)
  <2>1. counter[s].count = 0 /\ counter[s].ttl = Forever
    BY DEF Init, Absent
  <2>2. \A r \in Handlers : ~Opens(s, h[r])
    BY DEF Init, Opens, Idle
  <2> QED
    BY <2>1, <2>2 DEF Pending
<1> QED
  BY <1>1, <1>2 DEF FirstInv

\* A request moves that neither created the counter nor creates it now.
LEMMA PendingKept ==
    ASSUME JobsOK, NEW s \in Scopes, Pending(s), NEW r \in Handlers, NEW q,
           ~Opens(s, h[r]), ~Opens(s, q), h' = [h EXCEPT ![r] = q],
           counter'[s] = counter[s], UNCHANGED <<faults, crashed>>
    PROVE  Pending(s)'
<1>1. \A t \in Handlers : h'[t] = IF t = r THEN q ELSE h[t]
  BY DEF JobsOK
<1>2. \A t \in Handlers : Opens(s, h'[t]) <=> Opens(s, h[t])
  BY <1>1
<1> QED
  BY <1>2 DEF Pending

\* A request counts: it created the counter if it was the first.
LEMMA PendingCounted ==
    ASSUME JobsOK, StoreOK, NEW s \in Scopes, FirstInv, NEW r \in Handlers, NEW q,
           ~Opens(s, h[r]), Opens(s, q) <=> (up /\ CountOf(s) = 1),
           h' = [h EXCEPT ![r] = q], counter'[s] = Counted(s)[s],
           UNCHANGED <<faults, crashed>>
    PROVE  Pending(s)'
<1>0. Pending(s) /\ counter[s].count \in Nat
  BY CountType DEF FirstInv
<1>1. h'[r] = q /\ \A t \in Handlers : t # r => h'[t] = h[t]
  BY DEF JobsOK
<1>2. CASE ~up
  <2>1. counter'[s] = counter[s]
    BY <1>2, CounterChanges
  <2> QED
    BY <1>0, <1>2, <2>1, PendingKept
<1>3. CASE up /\ CountOf(s) # 1
  <2>1. counter'[s].ttl = counter[s].ttl /\ counter'[s].count >= 1 /\ counter'[s].count \in Nat
    BY <1>3, CounterChanges, CountType
  <2>2. counter[s].count > 0
    BY <1>0, <1>3, CountType
  <2>3. \A t \in Handlers : Opens(s, h'[t]) <=> Opens(s, h[t])
    BY <1>1, <1>3
  <2>4. counter'[s].count > 0 /\ counter'[s].count # 0
    BY <2>1
  <2> QED
    BY <1>0, <2>1, <2>2, <2>3, <2>4 DEF Pending
<1>4. CASE up /\ CountOf(s) = 1
  <2>1. counter'[s].ttl = counter[s].ttl /\ counter'[s].count = 1
    BY <1>4, CounterChanges
  <2>2. counter[s].count = 0 /\ ~(counter[s].count > 0)
    BY <1>0, <1>4, CountType
  <2>3. counter[s].ttl = Forever /\ \A t \in Handlers : ~Opens(s, h[t])
    BY <1>0, <2>2 DEF Pending
  <2>4. \A t \in Handlers : Opens(s, h'[t]) <=> t = r
    BY <1>1, <1>4, <2>3
  <2>5. counter'[s].count > 0 /\ counter'[s].count # 0
    BY <2>1
  <2> QED
    BY <2>1, <2>3, <2>4, <2>5 DEF Pending
<1> QED
  BY <1>2, <1>3, <1>4

\* The counter is given its expiry by the one that created it, if it can.
LEMMA PendingExpiring ==
    ASSUME JobsOK, StoreOK, NEW s \in Scopes, FirstInv, NEW r \in Handlers, NEW q,
           Opens(s, h[r]), ~Opens(s, q), h' = [h EXCEPT ![r] = q],
           counter'[s] = Expiring(s)[s], UNCHANGED <<faults, crashed>>
    PROVE  Pending(s)'
<1>0. Pending(s)
  BY DEF FirstInv
<1>1. h'[r] = q /\ \A t \in Handlers : t # r => h'[t] = h[t]
  BY DEF JobsOK
<1>2. counter[s].count > 0 /\ counter[s].count # 0 /\ \A t \in Handlers : Opens(s, h[t]) => t = r
  BY <1>0, CountType DEF Pending
<1>3. \A t \in Handlers : ~Opens(s, h'[t])
  BY <1>1, <1>2
<1>4. counter'[s].count = counter[s].count
  BY CounterChanges
<1>5. CASE up
  <2>1. counter'[s].ttl # Forever
    BY <1>5, CounterChanges, WindowType
  <2> QED
    BY <1>2, <1>3, <1>4, <2>1 DEF Pending
<1>6. CASE ~up
  <2>1. faults' > 0
    BY <1>6 DEF FirstInv, UpInv
  <2> QED
    BY <1>2, <1>3, <1>4, <2>1 DEF Pending
<1> QED
  BY <1>5, <1>6

LEMMA OpensOne ==
    ASSUME NEW s \in Scopes, NEW t \in Scopes, NEW q, Opens(s, q), Opens(t, q)
    PROVE  s = t
BY DEF Opens, Scopes

LEMMA PendingGoes ==
    ASSUME JobsOK, StoreOK, FirstInv, NEW r \in Handlers, NEW q, GoesOn(r, q),
           NEW s \in Scopes
    PROVE  Pending(s)'
<1>0. h' = [h EXCEPT ![r] = q] /\ UNCHANGED <<faults, crashed>> /\ Pending(s)
  BY DEF GoesOn, Goes, faultVars, FirstInv
<1>1. CASE Denied(r, q) \/ Wrote(r, q) \/ Booked(r, q) \/ Cleared(r, q)
  <2>1. ~Opens(s, h[r])
    BY <1>1 DEF Denied, Wrote, Booked, Cleared, Opens
  <2>2. ~Opens(s, q) /\ counter'[s] = counter[s]
    BY <1>1 DEF Denied, Wrote, Booked, Cleared, Opens
  <2> QED
    BY <1>0, <2>1, <2>2, PendingKept
<1>2. CASE GaveExpiry(r, q)
  <2>1. PICK t \in Scopes : /\ Opens(t, h[r]) /\ counter' = Expiring(t)
                            /\ q.pc \in {"guardExpiry", "globalExpiry"}
    BY <1>2 DEF GaveExpiry
  <2>2. ~Opens(s, q)
    BY <2>1 DEF Opens
  <2>3. CASE s = t
    BY <1>0, <2>1, <2>2, <2>3, PendingExpiring
  <2>4. CASE s # t
    <3>1. ~Opens(s, h[r])
      BY <2>1, <2>4, OpensOne
    <3>2. counter'[s] = counter[s]
      BY <2>1, <2>4, CounterChanges
    <3> QED
      BY <1>0, <2>2, <3>1, <3>2, PendingKept
  <2> QED
    BY <2>3, <2>4
<1>3. CASE CountedAll(r, q)
  <2>1. ~Opens(s, h[r])
    BY <1>3 DEF CountedAll, Opens
  <2>2. CASE s = Everyone
    <3>1. Opens(s, q) <=> (up /\ CountOf(s) = 1)
      BY <1>3, <2>2 DEF CountedAll, Opens, Everyone
    <3>2. counter'[s] = Counted(s)[s]
      BY <1>3, <2>2 DEF CountedAll
    <3> QED
      BY <1>0, <2>1, <3>1, <3>2, PendingCounted
  <2>3. CASE s # Everyone
    <3>1. counter'[s] = counter[s]
      BY <1>3, <2>3, CounterChanges, EveryoneIsAScope DEF CountedAll
    <3>2. s[1] = "guard"
      BY <2>3 DEF Scopes, Everyone
    <3>3. ~Opens(s, q)
      BY <1>3, <3>2 DEF CountedAll, Opens
    <3> QED
      BY <1>0, <2>1, <3>1, <3>3, PendingKept
  <2> QED
    BY <2>2, <2>3
<1> QED
  BY <1>1, <1>2, <1>3 DEF GoesOn

LEMMA PendingArrive ==
    ASSUME JobsOK, StoreOK, FirstInv, NEW r \in Handlers, NEW k \in AdminKeys, NEW o \in Orders,
           Arrive(r, k, o), NEW s \in Scopes
    PROVE  Pending(s)'
<1>1. PICK q : /\ Joins(r, q) /\ Proper(q) /\ ~q.late
               /\ UNCHANGED <<permanent, recent, booked, faultVars>>
               /\ \/ /\ q.pc = "guard" /\ q.key = k /\ q.ok = up
                     /\ q.own = CountOf(<<"guard", k>>)
                     /\ counter' = Counted(<<"guard", k>>) /\ config' = config
                  \/ /\ q.pc \in {"cleared", "audit"} /\ counter' = counter
                     /\ config' \in GuardRange
  BY Starts
<1>2. /\ h' = [h EXCEPT ![r] = q] /\ UNCHANGED <<faults, crashed>> /\ Pending(s)
      /\ ~Opens(s, h[r])
  BY <1>1 DEF Joins, faultVars, FirstInv, Opens
<1>3. <<"guard", k>> \in Scopes
  BY DEF Scopes
<1>4. CASE s = <<"guard", k>> /\ q.pc = "guard"
  <2>1. Opens(s, q) <=> (up /\ CountOf(s) = 1)
    BY <1>1, <1>4 DEF Opens
  <2>2. counter'[s] = Counted(s)[s]
    BY <1>1, <1>4
  <2> QED
    BY <1>2, <2>1, <2>2, PendingCounted
<1>5. CASE ~(s = <<"guard", k>> /\ q.pc = "guard")
  <2>1. ~Opens(s, q)
    BY <1>1, <1>5 DEF Opens, Scopes
  <2>2. counter'[s] = counter[s]
    BY <1>1, <1>3, <1>5, CounterChanges
  <2> QED
    BY <1>2, <2>1, <2>2, PendingKept
<1> QED
  BY <1>4, <1>5

LEMMA PendingTick ==
    ASSUME JobsOK, StoreOK, FirstInv, Tick, NEW s \in Scopes
    PROVE  Pending(s)'
<1>1. /\ counter[s] \in Counters /\ counter'[s] = Ticked(counter[s])
      /\ Pending(s) /\ UNCHANGED <<faults, crashed>>
  BY TickIs DEF StoreOK, FirstInv, Tick, faultVars
<1>2. \A r \in Handlers : Opens(s, h'[r]) <=> Opens(s, h[r])
  <2> SUFFICES ASSUME NEW r \in Handlers PROVE Opens(s, h'[r]) <=> Opens(s, h[r])
    OBVIOUS
  <2>1. /\ h'[r].pc = h[r].pc /\ h'[r].ok = h[r].ok /\ h'[r].key = h[r].key
        /\ h'[r].own = h[r].own /\ h'[r].all = h[r].all
    BY JobsTick
  <2> QED
    BY <2>1 DEF Opens
<1>3. CASE counter[s].ttl = Forever
  <2>1. counter'[s] = counter[s]
    BY <1>1, <1>3, TickedType
  <2> QED
    BY <1>1, <1>2, <2>1 DEF Pending
<1>4. CASE counter[s].ttl = 1
  <2>1. counter'[s].count = 0 /\ counter'[s].ttl = Forever
    BY <1>1, <1>4, TickedType DEF Absent
  <2>2. counter[s].ttl # Forever
    BY <1>4
  <2>3. \A r \in Handlers : ~Opens(s, h'[r])
    BY <1>1, <1>2, <2>2 DEF Pending
  <2>4. ~(counter'[s].count > 0)
    BY <2>1
  <2> QED
    BY <2>1, <2>3, <2>4 DEF Pending
<1>5. CASE counter[s].ttl # Forever /\ counter[s].ttl # 1
  <2>1. /\ counter'[s].count = counter[s].count /\ counter'[s].ttl = counter[s].ttl - 1
        /\ counter[s].ttl - 1 \in 1..GlobalWindow
    BY <1>1, <1>5, TickedType
  <2>2. counter'[s].ttl # Forever
    BY <2>1
  <2>3. \A r \in Handlers : ~Opens(s, h'[r])
    BY <1>1, <1>2, <1>5 DEF Pending
  <2>4. counter[s].count # 0
    BY <1>1, <1>5 DEF Pending
  <2> QED
    BY <2>1, <2>2, <2>3, <2>4 DEF Pending
<1> QED
  BY <1>3, <1>4, <1>5

LEMMA FirstStep == JobsOK /\ StoreOK /\ FirstInv /\ [Next]_vars => FirstInv'
<1> SUFFICES ASSUME JobsOK, StoreOK, FirstInv, [Next]_vars PROVE FirstInv'
  OBVIOUS
<1>u. UpInv'
  <2>1. UNCHANGED <<up, faults>> \/ Break \/ Recover \/ Crash
    <3>1. ASSUME NEW r \in Handlers, NEW k \in AdminKeys, NEW o \in Orders, Arrive(r, k, o)
          PROVE  UNCHANGED <<up, faults>>
      BY <3>1, Starts DEF faultVars
    <3>2. CASE Continue
      BY <3>2, Moves DEF Die, Ends, Answer, GoesOn, faultVars
    <3>3. CASE Tick \/ UNCHANGED vars
      BY <3>3 DEF Tick, vars, faultVars
    <3> QED
      BY <3>1, <3>2, <3>3 DEF Next
  <2>2. faults \in Nat
    BY DEF StoreOK
  <2>3. CASE UNCHANGED <<up, faults>>
    BY <2>3 DEF FirstInv, UpInv
  <2>4. CASE Break \/ Crash
    <3>1. faults' = faults + 1
      BY <2>4 DEF Break, Crash
    <3>2. faults' > 0
      BY <2>2, <3>1
    <3> QED
      BY <3>2 DEF UpInv
  <2>5. CASE Recover
    BY <2>5 DEF Recover, UpInv
  <2> QED
    BY <2>1, <2>3, <2>4, <2>5
<1> SUFFICES ASSUME NEW s \in Scopes PROVE Pending(s)'
  BY <1>u DEF FirstInv
<1>0. Pending(s)
  BY DEF FirstInv
<1>1. ASSUME NEW r \in Handlers, NEW k \in AdminKeys, NEW o \in Orders, Arrive(r, k, o)
      PROVE  Pending(s)'
  BY <1>1, PendingArrive
<1>2. CASE h' = [r \in Handlers |-> Idle] /\ counter' = counter /\ crashed'
  <2>1. \A r \in Handlers : ~Opens(s, h'[r])
    BY <1>2 DEF Opens, Idle
  <2> QED
    BY <1>0, <1>2, <2>1 DEF Pending
<1>3. CASE Continue
  <2>1. CASE Die
    BY <1>2, <2>1 DEF Die, storeVars
  <2>2. CASE Ends(Head(line))
    <3>1. /\ h' = [h EXCEPT ![Head(line)] = Idle] /\ counter' = counter
          /\ UNCHANGED <<faults, crashed>> /\ h[Head(line)].pc = "audit"
      BY <2>2 DEF Ends, Answer, Respond, storeVars, faultVars
    <3>2. ~Opens(s, h[Head(line)]) /\ ~Opens(s, Idle)
      BY <3>1, IdleProper DEF Opens
    <3> QED
      BY <1>0, <1>3, <3>1, <3>2, Moves, PendingKept
  <2>3. ASSUME NEW q, GoesOn(Head(line), q) PROVE Pending(s)'
    BY <1>3, <2>3, Moves, PendingGoes
  <2> QED
    BY <1>3, <2>1, <2>2, <2>3, Moves
<1>4. CASE Tick
  BY <1>4, PendingTick
<1>5. CASE Break
  <2>1. UNCHANGED <<h, counter>> /\ faults' = faults + 1 /\ faults \in Nat
    BY <1>5 DEF Break, storeVars, StoreOK
  <2>2. faults' > 0
    BY <2>1
  <2> QED
    BY <1>0, <2>1, <2>2 DEF Pending
<1>6. CASE Recover
  BY <1>0, <1>6 DEF Recover, storeVars, Pending
<1>7. CASE Crash
  BY <1>2, <1>7 DEF Crash, storeVars
<1>8. CASE UNCHANGED vars
  BY <1>0, <1>8 DEF vars, storeVars, faultVars, Pending
<1> QED
  BY <1>1, <1>3, <1>4, <1>5, <1>6, <1>7, <1>8 DEF Next

\* Once a counter has an expiry, nothing puts it off.
NoLater(s) ==
    counter[s].ttl # Forever /\ counter'[s].ttl # Forever => counter'[s].ttl <= counter[s].ttl

LEMMA NothingPutsItOff ==
    ASSUME JobsOK, StoreOK, FirstInv, [Next]_vars, NEW s \in Scopes
    PROVE  NoLater(s)
<1> SUFFICES ASSUME counter[s].ttl # Forever, counter'[s].ttl # Forever
             PROVE  counter'[s].ttl <= counter[s].ttl
  BY DEF NoLater
<1>0. counter[s].ttl \in 1..GlobalWindow /\ counter[s] \in Counters
  BY DEF StoreOK, Counters
<1>1. CASE counter'[s].ttl = counter[s].ttl
  BY <1>0, <1>1
<1>2. ASSUME NEW r \in Handlers, NEW k \in AdminKeys, NEW o \in Orders, Arrive(r, k, o)
      PROVE  counter'[s].ttl = counter[s].ttl
  <2>1. counter' = Counted(<<"guard", k>>) \/ counter' = counter
    BY <1>2, Starts
  <2>2. <<"guard", k>> \in Scopes
    BY DEF Scopes
  <2> QED
    BY <2>1, <2>2, CounterChanges
<1>3. ASSUME Continue PROVE counter'[s].ttl = counter[s].ttl
  <2>1. CASE counter' = counter
    BY <2>1
  <2>2. ASSUME NEW r \in Handlers, NEW q, CountedAll(r, q) PROVE counter'[s].ttl = counter[s].ttl
    BY <2>2, EveryoneIsAScope, CounterChanges DEF CountedAll
  <2>3. ASSUME NEW r \in Handlers, NEW q, GaveExpiry(r, q) PROVE counter'[s].ttl = counter[s].ttl
    <3>1. PICK t \in Scopes : Opens(t, h[r]) /\ counter' = Expiring(t)
      BY <2>3 DEF GaveExpiry
    <3>2. counter[t].ttl = Forever
      BY <3>1 DEF FirstInv, Pending
    <3>3. s # t
      BY <3>2
    <3> QED
      BY <3>1, <3>3, CounterChanges
  <2>4. \/ counter' = counter
        \/ \E r \in Handlers : \E q : CountedAll(r, q) \/ GaveExpiry(r, q)
    BY <1>3, Moves DEF Die, Ends, Answer, GoesOn, Denied, Wrote, Booked, Cleared, storeVars
  <2> QED
    BY <2>1, <2>2, <2>3, <2>4
<1>4. ASSUME Tick PROVE counter'[s].ttl <= counter[s].ttl
  <2>1. counter'[s] = Ticked(counter[s])
    BY <1>4, TickIs
  <2>2. CASE counter[s].ttl = 1
    BY <1>0, <2>1, <2>2, TickedType DEF Absent
  <2>3. CASE counter[s].ttl # 1
    <3>1. counter'[s].ttl = counter[s].ttl - 1
      BY <1>0, <2>1, <2>3, TickedType
    <3> QED
      BY <1>0, <3>1
  <2> QED
    BY <2>2, <2>3
<1>5. CASE Break \/ Recover \/ Crash \/ UNCHANGED vars
  <2>1. counter' = counter
    BY <1>5 DEF Break, Recover, Crash, vars, storeVars
  <2> QED
    BY <1>1, <2>1
<1> QED
  BY <1>1, <1>2, <1>3, <1>4, <1>5 DEF Next

\* A guard that is shut opens again: only a fault between INCR and EXPIRE
\* leaves a counter without expiry (incrMassBanCounter, store.js), and once it
\* has one no attempt renews it.
THEOREM GuardReopensHolds == Spec => GuardReopens
<1> DEFINE Reopens == \A s \in Scopes : Orphan(s) => crashed \/ faults > 0
           Sooner == \A s \in Scopes :
              counter[s].ttl # Forever /\ counter'[s].ttl # Forever =>
                 counter'[s].ttl <= counter[s].ttl
<1>1. FirstInv => Reopens
  <2> SUFFICES ASSUME FirstInv, NEW s \in Scopes, Orphan(s) PROVE crashed \/ faults > 0
    OBVIOUS
  <2>1. Pending(s)
    BY DEF FirstInv
  <2>2. CASE s[1] = "guard"
    <3>1. \A r \in Handlers : ~Opens(s, h[r])
      BY <2>2 DEF Orphan, Opens
    <3> QED
      BY <2>1, <3>1 DEF Orphan, Pending
  <2>3. CASE s[1] # "guard"
    <3>1. \A r \in Handlers : ~Opens(s, h[r])
      BY <2>3 DEF Orphan, Opens
    <3> QED
      BY <2>1, <3>1 DEF Orphan, Pending
  <2> QED
    BY <2>2, <2>3
<1>2. JobsOK /\ StoreOK /\ FirstInv /\ [Next]_vars => [Sooner]_vars
  BY NothingPutsItOff DEF NoLater
<1>3. Spec => []FirstInv
  BY PendingInit, FirstStep, Typing, PTL DEF Spec
<1>4. Spec => []Reopens
  BY <1>1, <1>3, PTL
<1>5. Spec => [][Sooner]_vars
  BY <1>2, <1>3, Typing, PTL DEF Spec
<1> QED
  BY <1>4, <1>5 DEF GuardReopens

-----------------------------------------------------------------------------
(* The audit log.  The last request in line between its write on the ban    *)
(* and its entry decides what is in the store; if there is none, the entry  *)
(* is written.  W are the positions in line of such requests, B of those    *)
(* that wrote a ban.                                                       *)

Writer(q) == q.pc = "removed" \/ (q.pc = "written" /\ q.order = "permanent")

Writers == {i \in 1..Len(line) : Writer(h[line[i]])}
Banners == {i \in 1..Len(line) : Writer(h[line[i]]) /\ h[line[i]].pc = "written"}

LastWord(W, B, ban, entry) ==
    /\ W = {} => (entry <=> ban)
    /\ \A i \in W : (\A j \in W : j <= i) => (ban <=> i \in B)

AuditInv == UpInv /\ (crashed \/ faults > 0 \/ LastWord(Writers, Banners, permanent, booked))

MovedUp(P, Q) == \A i \in Nat \ {0} : i \in Q <=> i + 1 \in P

LEMMA MovesUp ==
    ASSUME NEW n \in Nat, NEW P \in SUBSET (1..n), NEW Q \in SUBSET (1..n), n \notin Q,
           \A i \in 1..(n - 1) : i \in Q <=> i + 1 \in P
    PROVE  MovedUp(P, Q)
<1>1. ASSUME NEW i \in Nat \ {0} PROVE i \in Q <=> i + 1 \in P
  <2>1. CASE i \in 1..(n - 1)
    BY <2>1
  <2>2. CASE i \notin 1..(n - 1)
    <3>1. i + 1 \notin 1..n
      BY <2>2
    <3>2. i \notin Q
      BY <2>2
    <3> QED
      BY <3>1, <3>2
  <2> QED
    BY <2>1, <2>2
<1> QED
  BY <1>1 DEF MovedUp

\* The line moves up by one; the head had nothing to enter, or enters it.
LEMMA WordShifts ==
    ASSUME NEW W, W \subseteq Nat \ {0}, NEW B, NEW W2, W2 \subseteq Nat \ {0}, NEW B2,
           MovedUp(W, W2), MovedUp(B, B2),
           NEW ban, NEW entry, NEW entry2, LastWord(W, B, ban, entry),
           1 \notin W => (entry2 <=> entry), 1 \in W => (entry2 <=> 1 \in B)
    PROVE  LastWord(W2, B2, ban, entry2)
<1>0. \A i \in Nat \ {0} : (i \in W2 <=> i + 1 \in W) /\ (i \in B2 <=> i + 1 \in B)
  BY DEF MovedUp
<1>1. ASSUME W2 = {} PROVE entry2 <=> ban
  <2>1. \A i \in W : i = 1
    <3> SUFFICES ASSUME NEW i \in W, i # 1 PROVE FALSE
      OBVIOUS
    <3>1. i - 1 \in Nat \ {0} /\ (i - 1) + 1 = i
      OBVIOUS
    <3>2. i - 1 \in W2
      BY <1>0, <3>1
    <3> QED
      BY <1>1, <3>2
  <2>2. CASE 1 \in W
    <3>1. \A j \in W : j <= 1
      BY <2>1
    <3>2. ban <=> 1 \in B
      BY <2>2, <3>1, Zenon DEF LastWord
    <3> QED
      BY <2>2, <3>2
  <2>3. CASE 1 \notin W
    <3>1. W = {}
      BY <2>1, <2>3
    <3>2. entry <=> ban
      BY <3>1, Zenon DEF LastWord
    <3> QED
      BY <2>3, <3>2
  <2> QED
    BY <2>2, <2>3
<1>2. ASSUME NEW i \in W2, \A j \in W2 : j <= i PROVE ban <=> i \in B2
  <2>1. i \in Nat \ {0} /\ i + 1 \in W
    BY <1>0
  <2>2. ASSUME NEW j \in W PROVE j <= i + 1
    <3>1. CASE j = 1
      BY <2>1, <3>1
    <3>2. CASE j # 1
      <4>1. j - 1 \in Nat \ {0} /\ (j - 1) + 1 = j
        BY <3>2
      <4>2. j - 1 \in W2
        BY <1>0, <4>1
      <4>3. j - 1 <= i
        BY <1>2, <4>2
      <4> QED
        BY <2>1, <4>1, <4>3
    <3> QED
      BY <3>1, <3>2
  <2>3. ban <=> i + 1 \in B
    BY <2>1, <2>2, Zenon DEF LastWord
  <2>4. i \in B2 <=> i + 1 \in B
    BY <1>0, <2>1
  <2> QED
    BY <2>3, <2>4
<1> QED
  BY <1>1, <1>2, Zenon DEF LastWord

\* The last in line has just written.
LEMMA WordIsLast ==
    ASSUME NEW n \in Nat, NEW W \in SUBSET (1..n), NEW B \in SUBSET (1..n), n \in W,
           NEW ban, NEW entry, ban <=> n \in B
    PROVE  LastWord(W, B, ban, entry)
<1>1. ASSUME NEW i \in W, \A j \in W : j <= i PROVE i = n
  <2>1. n <= i /\ i <= n /\ i \in Nat
    BY <1>1
  <2> QED
    BY <2>1
<1>2. \A i \in W : (\A j \in W : j <= i) => (ban <=> i \in B)
  BY <1>1
<1>3. W # {}
  OBVIOUS
<1> QED
  BY <1>2, <1>3, Zenon DEF LastWord

LEMMA Positions ==
    ASSUME JobsOK
    PROVE  /\ Len(line) \in Nat /\ line \in Seq(Handlers)
           /\ Writers \in SUBSET (1..Len(line)) /\ Banners \in SUBSET (1..Len(line))
BY DEF JobsOK, Lined, Writers, Banners

\* A request joins the line, and has nothing to enter.
LEMMA WordJoins ==
    ASSUME JobsOK, NEW r \in Handlers, NEW q, Proper(q), q.pc # "idle", ~Writer(q), Joins(r, q)
    PROVE  Writers' = Writers /\ Banners' = Banners
<1>1. /\ Len(line') = Len(line) + 1 /\ Len(line) \in Nat
      /\ line'[Len(line) + 1] = r /\ h'[r] = q
      /\ \A i \in 1..Len(line) : line'[i] = line[i] /\ h'[line[i]] = h[line[i]]
  BY LinedSend, Positions DEF JobsOK, Proper
<1>2. \A i \in 1..Len(line) : i \in 1..Len(line') /\ h'[line'[i]] = h[line[i]]
  BY <1>1
<1>3. \A i \in 1..Len(line') : i \in 1..Len(line) \/ h'[line'[i]] = q
  BY <1>1
<1>4. Writers' = {i \in 1..Len(line') : Writer(h'[line'[i]])}
  BY DEF Writers, Writer
<1>5. Banners' = {i \in 1..Len(line') : Writer(h'[line'[i]]) /\ h'[line'[i]].pc = "written"}
  BY DEF Banners, Writer
<1> QED
  BY <1>2, <1>3, <1>4, <1>5 DEF Writers, Banners

\* The head of the line goes on as q, to its end: everyone moves up.
LEMMA WordGoes ==
    ASSUME JobsOK, line # <<>>, NEW q, Proper(q), q.pc # "idle", Goes(Head(line), q)
    PROVE  /\ Len(line') = Len(line) /\ Len(line) \in Nat /\ Len(line) >= 1
           /\ Writers' \in SUBSET (1..Len(line)) /\ Banners' \in SUBSET (1..Len(line))
           /\ 1 \in Writers <=> Writer(h[Head(line)])
           /\ 1 \in Banners <=> Writer(h[Head(line)]) /\ h[Head(line)].pc = "written"
           /\ \A i \in 1..(Len(line) - 1) : /\ i \in Writers' <=> i + 1 \in Writers
                                            /\ i \in Banners' <=> i + 1 \in Banners
           /\ Len(line) \in Writers' <=> Writer(q)
           /\ Len(line) \in Banners' <=> Writer(q) /\ q.pc = "written"
<1> DEFINE n == Len(line)
<1>1. /\ Len(line') = n /\ line'[n] = Head(line) /\ h'[Head(line)] = q
      /\ \A i \in 1..(n - 1) : line'[i] = line[i + 1] /\ h'[line[i + 1]] = h[line[i + 1]]
  BY LinedAwait DEF JobsOK, Proper
<1>2. n \in Nat /\ 1 \in 1..n /\ Head(line) = line[1]
  BY LinedHead DEF JobsOK
<1>3. Writers' = {i \in 1..Len(line') : Writer(h'[line'[i]])}
  BY DEF Writers, Writer
<1>4. Banners' = {i \in 1..Len(line') : Writer(h'[line'[i]]) /\ h'[line'[i]].pc = "written"}
  BY DEF Banners, Writer
<1>5. /\ Writers = {i \in 1..n : Writer(h[line[i]])}
      /\ Banners = {i \in 1..n : Writer(h[line[i]]) /\ h[line[i]].pc = "written"}
  BY DEF Writers, Banners
<1> HIDE DEF n
<1>6. n \in 1..n /\ n >= 1 /\ h'[line'[n]] = q
  BY <1>1, <1>2
<1>7. \A i \in 1..(n - 1) : i \in 1..n /\ i + 1 \in 1..n /\ h'[line'[i]] = h[line[i + 1]]
  BY <1>1, <1>2
<1>8. \A i \in 1..(n - 1) : (i \in Writers' <=> i + 1 \in Writers) /\ (i \in Banners' <=> i + 1 \in Banners)
  BY <1>1, <1>3, <1>4, <1>5, <1>7
<1>9. /\ n \in Writers' <=> Writer(q)
      /\ n \in Banners' <=> Writer(q) /\ q.pc = "written"
  BY <1>1, <1>3, <1>4, <1>6
<1>10. /\ 1 \in Writers <=> Writer(h[Head(line)])
       /\ 1 \in Banners <=> Writer(h[Head(line)]) /\ h[Head(line)].pc = "written"
  BY <1>2, <1>5
<1>11. Writers' \in SUBSET (1..n) /\ Banners' \in SUBSET (1..n)
  BY <1>1, <1>3, <1>4
<1> QED
  BY <1>1, <1>2, <1>6, <1>8, <1>9, <1>10, <1>11 DEF n

\* The head of the line answers, and leaves it.
LEMMA WordAnswers ==
    ASSUME JobsOK, line # <<>>, Respond(Head(line)), ~Writer(h[Head(line)]),
           LastWord(Writers, Banners, permanent, booked)
    PROVE  LastWord(Writers', Banners', permanent, booked)
<1> DEFINE n == Len(line)
<1>1. /\ Len(line') = n - 1
      /\ \A i \in 1..(n - 1) : line'[i] = line[i + 1] /\ h'[line[i + 1]] = h[line[i + 1]]
  BY LinedAnswer DEF JobsOK
<1>2. n \in Nat /\ 1 \in 1..n /\ Head(line) = line[1]
  BY LinedHead DEF JobsOK
<1>3. Writers' = {i \in 1..Len(line') : Writer(h'[line'[i]])}
  BY DEF Writers, Writer
<1>4. Banners' = {i \in 1..Len(line') : Writer(h'[line'[i]]) /\ h'[line'[i]].pc = "written"}
  BY DEF Banners, Writer
<1>5. /\ Writers = {i \in 1..n : Writer(h[line[i]])}
      /\ Banners = {i \in 1..n : Writer(h[line[i]]) /\ h[line[i]].pc = "written"}
  BY DEF Writers, Banners
<1> HIDE DEF n
<1>6. \A i \in Nat \ {0} : i + 1 \in 1..n <=> i \in 1..(n - 1)
  BY <1>2
<1>7. \A i \in Nat \ {0} : (i \in Writers' <=> i + 1 \in Writers) /\ (i \in Banners' <=> i + 1 \in Banners)
  BY <1>1, <1>3, <1>4, <1>5, <1>6
<1>8. 1 \notin Writers
  BY <1>2, <1>5
<1>9. Writers' \subseteq Nat \ {0} /\ Writers \subseteq Nat \ {0}
  BY <1>1, <1>2, <1>3, <1>5
<1>10. MovedUp(Writers, Writers') /\ MovedUp(Banners, Banners')
  BY <1>7 DEF MovedUp
<1> QED
  BY <1>8, <1>9, <1>10, WordShifts

LEMMA AuditInit == Init => AuditInv
<1> SUFFICES ASSUME Init PROVE AuditInv
  OBVIOUS
<1>1. Writers = {} /\ UpInv /\ (booked <=> permanent)
  BY DEF Init, Writers, UpInv
<1> QED
  BY <1>1 DEF AuditInv, LastWord

\* The reply to the head of the line: a ban or its removal is the last word
\* until it is entered, an entry concerns the oldest of them.
LEMMA AuditGoes ==
    ASSUME JobsOK, line # <<>>, NEW q, GoesOn(Head(line), q), up,
           LastWord(Writers, Banners, permanent, booked)
    PROVE  LastWord(Writers', Banners', permanent', booked')
<1> DEFINE n == Len(line)
           r == Head(line)
<1>1. /\ n \in Nat /\ n >= 1
      /\ Writers' \in SUBSET (1..n) /\ Banners' \in SUBSET (1..n)
      /\ 1 \in Writers <=> Writer(h[r])
      /\ 1 \in Banners <=> Writer(h[r]) /\ h[r].pc = "written"
      /\ \A i \in 1..(n - 1) : /\ i \in Writers' <=> i + 1 \in Writers
                               /\ i \in Banners' <=> i + 1 \in Banners
      /\ n \in Writers' <=> Writer(q)
      /\ n \in Banners' <=> Writer(q) /\ q.pc = "written"
  BY WordGoes DEF GoesOn
<1>2. Writers \in SUBSET (1..n) /\ Banners \in SUBSET (1..n)
  BY Positions
<1>3. /\ Denied(r, q) \/ GaveExpiry(r, q) \/ CountedAll(r, q)
         \/ Wrote(r, q) \/ Booked(r, q) \/ Cleared(r, q)
  BY DEF GoesOn
<1> HIDE DEF n, r
<1>m. ASSUME ~Writer(q) PROVE MovedUp(Writers, Writers') /\ MovedUp(Banners, Banners')
  <2>1. n \notin Writers' /\ n \notin Banners'
    BY <1>1, <1>m
  <2>2. \A i \in 1..(n - 1) : i \in Writers' <=> i + 1 \in Writers
    BY <1>1
  <2>3. \A i \in 1..(n - 1) : i \in Banners' <=> i + 1 \in Banners
    BY <1>1
  <2>4. MovedUp(Writers, Writers')
    BY <1>1, <1>2, <2>1, <2>2, MovesUp
  <2>5. MovedUp(Banners, Banners')
    BY <1>1, <1>2, <2>1, <2>3, MovesUp
  <2> QED
    BY <2>4, <2>5
<1>n. Writers' \subseteq Nat \ {0} /\ Writers \subseteq Nat \ {0}
  BY <1>1, <1>2
<1>5. CASE Denied(r, q) \/ GaveExpiry(r, q) \/ CountedAll(r, q)
  <2>1. ~Writer(q) /\ ~Writer(h[r]) /\ UNCHANGED <<permanent, booked>>
    BY <1>5 DEF Denied, GaveExpiry, CountedAll, Writer, Guarding, Opens
  <2> QED
    <3>1. 1 \notin Writers
      BY <1>1, <2>1
    <3>2. LastWord(Writers', Banners', permanent, booked)
      BY <1>m, <1>n, <2>1, <3>1, WordShifts
    <3> QED
      BY <2>1, <3>2
<1>6. CASE Wrote(r, q)
  <2>1. ~Writer(h[r]) /\ booked' = booked /\ q.pc = "written" /\ q.order = h[r].order
    BY <1>6 DEF Wrote, Writer
  <2>2. CASE h[r].order = "permanent"
    <3>1. Writer(q) /\ permanent'
      BY <1>6, <2>1, <2>2 DEF Wrote, Writer
    <3>2. n \in Writers' /\ n \in Banners'
      BY <1>1, <2>1, <3>1
    <3>3. permanent' <=> n \in Banners'
      BY <3>1, <3>2
    <3> QED
      BY <1>1, <3>2, <3>3, WordIsLast
  <2>3. CASE h[r].order # "permanent"
    <3>1. ~Writer(q) /\ (permanent' <=> permanent)
      BY <1>6, <2>1, <2>3 DEF Wrote, Writer
    <3>2. LastWord(Writers', Banners', permanent, booked)
      <4>1. 1 \notin Writers
        BY <1>1, <2>1
      <4> QED
        BY <1>m, <1>n, <3>1, <4>1, WordShifts
    <3> QED
      BY <2>1, <3>1, <3>2 DEF LastWord
  <2> QED
    BY <2>2, <2>3
<1>7. CASE Booked(r, q)
  <2>1. ~Writer(q) /\ permanent' = permanent
    BY <1>7 DEF Booked, Writer
  <2>2. 1 \notin Writers => (booked' <=> booked)
    BY <1>1, <1>7 DEF Booked, Writer
  <2>3. 1 \in Writers => (booked' <=> 1 \in Banners)
    BY <1>1, <1>7 DEF Booked, Writer, AuditBan
  <2>4. LastWord(Writers', Banners', permanent, booked')
    BY <1>m, <1>n, <2>1, <2>2, <2>3, WordShifts
  <2> QED
    BY <2>1, <2>4
<1>8. CASE Cleared(r, q)
  <2>1. q.pc = "removed" /\ ~permanent'
    BY <1>8 DEF Cleared
  <2>2. n \in Writers' /\ n \notin Banners'
    BY <1>1, <2>1 DEF Writer
  <2>3. permanent' <=> n \in Banners'
    BY <2>1, <2>2
  <2> QED
    BY <1>1, <2>2, <2>3, WordIsLast
<1> QED
  BY <1>3, <1>5, <1>6, <1>7, <1>8

\* Writers and Banners depend on where the requests are and their orders.
LEMMA WordKept ==
    ASSUME JobsOK, line' = line,
           \A r \in Handlers : h'[r].pc = h[r].pc /\ h'[r].order = h[r].order
    PROVE  Writers' = Writers /\ Banners' = Banners
<1>1. \A i \in 1..Len(line) : line[i] \in Handlers
  BY Positions
<1>2. \A i \in 1..Len(line) : /\ Writer(h'[line'[i]]) <=> Writer(h[line[i]])
                              /\ h'[line'[i]].pc = h[line[i]].pc
  BY <1>1 DEF Writer
<1>3. Writers' = {i \in 1..Len(line') : Writer(h'[line'[i]])}
  BY DEF Writers, Writer
<1>4. Banners' = {i \in 1..Len(line') : Writer(h'[line'[i]]) /\ h'[line'[i]].pc = "written"}
  BY DEF Banners, Writer
<1> QED
  BY <1>2, <1>3, <1>4 DEF Writers, Banners

LEMMA AuditStep == JobsOK /\ StoreOK /\ FirstInv /\ FirstInv' /\ AuditInv /\ [Next]_vars => AuditInv'
<1> SUFFICES ASSUME JobsOK, StoreOK, FirstInv, FirstInv', AuditInv, [Next]_vars PROVE AuditInv'
  OBVIOUS
<1>u. UpInv'
  BY DEF FirstInv
<1>0. faults \in Nat
  BY DEF StoreOK
<1> SUFFICES ASSUME ~crashed', ~(faults' > 0)
             PROVE  LastWord(Writers', Banners', permanent', booked')
  BY <1>u DEF AuditInv
<1>1. ASSUME ~crashed, ~(faults > 0)
      PROVE  LastWord(Writers, Banners, permanent, booked) /\ up
  BY <1>1 DEF AuditInv, UpInv
<1>2. ASSUME NEW r \in Handlers, NEW k \in AdminKeys, NEW o \in Orders, Arrive(r, k, o)
      PROVE  LastWord(Writers', Banners', permanent', booked')
  <2>1. PICK q : /\ Joins(r, q) /\ Proper(q) /\ q.pc \in {"guard", "cleared", "audit"}
                 /\ UNCHANGED <<permanent, booked, faultVars>>
    BY <1>2, Starts
  <2>2. Writers' = Writers /\ Banners' = Banners
    BY <2>1, WordJoins DEF Writer
  <2> QED
    BY <1>1, <2>1, <2>2 DEF faultVars
<1>3. CASE Continue
  <2>1. CASE Die
    BY <2>1 DEF Die
  <2>2. CASE Ends(Head(line))
    <3>1. /\ line # <<>> /\ Respond(Head(line)) /\ ~Writer(h[Head(line)])
          /\ UNCHANGED <<permanent, booked, faults, crashed>>
      BY <1>3, <2>2, Moves DEF Ends, Answer, Writer, storeVars, faultVars
    <3> QED
      BY <1>1, <3>1, WordAnswers
  <2>3. ASSUME NEW q, GoesOn(Head(line), q)
        PROVE  LastWord(Writers', Banners', permanent', booked')
    <3>1. line # <<>> /\ UNCHANGED <<faults, crashed>>
      BY <1>3, <2>3, Moves DEF GoesOn, faultVars
    <3> QED
      BY <1>1, <2>3, <3>1, AuditGoes
  <2> QED
    BY <1>3, <2>1, <2>2, <2>3, Moves
<1>4. CASE Tick
  <2>1. line' = line /\ \A r \in Handlers : h'[r].pc = h[r].pc /\ h'[r].order = h[r].order
    BY <1>4, JobsTick DEF Tick
  <2>2. UNCHANGED <<permanent, booked, faults, crashed>>
    BY <1>4 DEF Tick, faultVars
  <2> QED
    BY <1>1, <2>1, <2>2, WordKept
<1>5. CASE Break \/ Crash
  <2>1. faults' = faults + 1
    BY <1>5 DEF Break, Crash
  <2>2. faults' > 0
    BY <1>0, <2>1
  <2> QED
    BY <2>2
<1>6. CASE Recover \/ UNCHANGED vars
  <2>1. UNCHANGED <<h, line, permanent, booked, faults, crashed>>
    BY <1>6 DEF Recover, vars, storeVars, faultVars
  <2>2. Writers' = Writers /\ Banners' = Banners
    BY <2>1, WordKept
  <2> QED
    BY <1>1, <2>1, <2>2
<1> QED
  BY <1>2, <1>3, <1>4, <1>5, <1>6 DEF Next

\* The audit log does not lie about permanent bans (POST /ban and /unban of
\* index.js): its last word is what the store holds, unless a request is
\* between its write and its entry, or there was a fault.
THEOREM AuditIsTrueHolds == Spec => []AuditIsTrue
<1>1. JobsOK /\ AuditInv => AuditIsTrue
  <2> SUFFICES ASSUME JobsOK, AuditInv, booked # permanent,
                      \A r \in Handlers : h[r].pc \notin {"written", "removed"}
               PROVE  crashed \/ faults > 0
    BY DEF AuditIsTrue
  <2>1. Writers = {}
    <3>1. \A i \in 1..Len(line) : line[i] \in Handlers
      BY Positions
    <3> QED
      BY <3>1 DEF Writers, Writer
  <2> SUFFICES ASSUME LastWord(Writers, Banners, permanent, booked) PROVE FALSE
    BY DEF AuditInv
  <2>2. booked <=> permanent
    BY <2>1, Zenon DEF LastWord
  <2> QED
    BY <2>2
<1>2. Spec => []FirstInv
  BY PendingInit, FirstStep, Typing, PTL DEF Spec
<1> QED
  BY <1>1, <1>2, AuditInit, AuditStep, Typing, PTL DEF Spec

-----------------------------------------------------------------------------
(* The budget of bans.  What counter s admitted are bans that passed and    *)
(* requests W that will pass unless the other counter refuses them.  Old    *)
(* are those admitted before the counter last expired: its limit bounds     *)
(* them, and its count the others.  Of the old ones the requests O are late *)
(* (L), so they are gone before the new window's second tick, and the bans  *)
(* leave the stretch of time that is looked at before the counter expires.  *)

Sees(s) == IF s[1] = "global" THEN AdminKeys ELSE {s[2]}
Limit(s) == IF s[1] = "global" THEN GlobalMax ELSE Max(GuardRange)
Within(s, B) == {b \in B : b.key \in Sees(s) /\ b.age < WindowOf(s) - 1}

Share(s, c, W, L, B, old, O) ==
    /\ old \subseteq B /\ O \subseteq W /\ O \subseteq L
    /\ Cardinality(Within(s, old)) + Cardinality(O) <= Limit(s)
    /\ Cardinality(Within(s, B \ old)) + Cardinality(W \ O) <= Limit(s)
    /\ Cardinality(Within(s, B \ old)) + Cardinality(W \ O) <= c.count
    /\ c.ttl # Forever => /\ \A b \in Within(s, old) : b.age >= WindowOf(s) - c.ttl
                          /\ O # {} => c.ttl = WindowOf(s)

Balanced(s, c, W, L, B) == \E old, O : Share(s, c, W, L, B, old, O)

LEMMA LimitType == ASSUME NEW s \in Scopes PROVE Limit(s) \in Nat /\ Limit(s) < Cap
BY LimitsAre DEF Limit

LEMMA WithinType ==
    ASSUME NEW s, NEW B, IsFiniteSet(B)
    PROVE  /\ IsFiniteSet(Within(s, B)) /\ Cardinality(Within(s, B)) \in Nat
           /\ \A A \in SUBSET B : /\ IsFiniteSet(A) /\ Within(s, A) \subseteq Within(s, B)
                                  /\ Cardinality(Within(s, A)) \in Nat
                                  /\ Cardinality(Within(s, A)) <= Cardinality(Within(s, B))
<1>1. Within(s, B) \in SUBSET B
  BY DEF Within
<1>2. IsFiniteSet(Within(s, B)) /\ Cardinality(Within(s, B)) \in Nat
  BY <1>1, FS_Subset, FS_CardinalityType
<1>3. ASSUME NEW A \in SUBSET B
      PROVE  /\ IsFiniteSet(A) /\ Within(s, A) \subseteq Within(s, B)
             /\ Cardinality(Within(s, A)) \in Nat
             /\ Cardinality(Within(s, A)) <= Cardinality(Within(s, B))
  <2>1. IsFiniteSet(A)
    BY FS_Subset
  <2>2. Within(s, A) \in SUBSET Within(s, B)
    BY DEF Within
  <2>3. IsFiniteSet(Within(s, A)) /\ Cardinality(Within(s, A)) <= Cardinality(Within(s, B))
    BY <1>2, <2>2, FS_Subset
  <2> QED
    BY <2>1, <2>2, <2>3, FS_CardinalityType
<1> QED
  BY <1>2, <1>3

LEMMA HandlersFinite ==
    ASSUME NEW W, W \subseteq Handlers
    PROVE  /\ IsFiniteSet(W) /\ Cardinality(W) \in Nat
           /\ \A V \in SUBSET W : /\ IsFiniteSet(V) /\ Cardinality(V) \in Nat
                                  /\ Cardinality(V) <= Cardinality(W)
<1>1. IsFiniteSet(W) /\ Cardinality(W) \in Nat
  BY FS_Subset, FS_CardinalityType
<1> QED
  BY <1>1, FS_Subset, FS_CardinalityType

\* The limit bounds what the counter admitted, twice.
LEMMA BalancedBounds ==
    ASSUME NEW s \in Scopes, NEW c, NEW W, NEW L, NEW B, IsFiniteSet(B), W \subseteq Handlers,
           Balanced(s, c, W, L, B)
    PROVE  Cardinality(Within(s, B)) <= 2 * Limit(s)
<1>1. PICK old, O : Share(s, c, W, L, B, old, O)
  BY DEF Balanced
<1>2. old \in SUBSET B /\ B \ old \in SUBSET B /\ O \in SUBSET W /\ W \ O \in SUBSET W
  BY <1>1 DEF Share
<1> DEFINE X == Within(s, old)
           Y == Within(s, B \ old)
<1>3. IsFiniteSet(X) /\ IsFiniteSet(Y) /\ Cardinality(X) \in Nat /\ Cardinality(Y) \in Nat
  <2>1. IsFiniteSet(old) /\ IsFiniteSet(B \ old)
    BY <1>2, FS_Subset
  <2> QED
    BY <2>1, WithinType
<1>4. Cardinality(O) \in Nat /\ Cardinality(W \ O) \in Nat
  BY <1>2, HandlersFinite
<1>5. Cardinality(X) + Cardinality(O) <= Limit(s) /\ Cardinality(Y) + Cardinality(W \ O) <= Limit(s)
  BY <1>1 DEF Share
<1>6. Within(s, B) = X \cup Y /\ X \cap Y = {}
  BY <1>2 DEF Within
<1> HIDE DEF X, Y
<1>7. Cardinality(Within(s, B)) = Cardinality(X) + Cardinality(Y) - Cardinality(X \cap Y)
  BY <1>3, <1>6, FS_Union
<1>8. Cardinality(X \cap Y) = 0
  BY <1>6, FS_EmptySet
<1> QED
  BY <1>3, <1>4, <1>5, <1>7, <1>8, LimitType

\* Requests leave, or r joins and is counted; the counter is given its expiry.
LEMMA BalancedJoins ==
    ASSUME NEW s \in Scopes, NEW c \in Counters, NEW d \in Counters,
           NEW W, NEW L, NEW B, IsFiniteSet(B), B \subseteq Bans, W \subseteq Handlers,
           Balanced(s, c, W, L, B),
           NEW V, NEW M, NEW r, V \subseteq W \cup {r}, V \cap W \cap L \subseteq M,
           d.count >= c.count, d.ttl = c.ttl \/ d.ttl = WindowOf(s),
           r \in V \ W => d.count = c.count + 1 /\ d.count <= Limit(s)
    PROVE  Balanced(s, d, V, M, B)
<1>1. PICK old, O : Share(s, c, W, L, B, old, O)
  BY DEF Balanced
<1> DEFINE P == O \cap V
           N == W \ O
           Q == V \ P
           x == Cardinality(Within(s, old))
           y == Cardinality(Within(s, B \ old))
<1>2. /\ old \in SUBSET B /\ B \ old \in SUBSET B /\ O \in SUBSET W /\ P \in SUBSET O
      /\ O \subseteq Handlers /\ N \subseteq Handlers /\ P \subseteq M /\ P \subseteq V
  BY <1>1 DEF Share
<1>3. x \in Nat /\ y \in Nat
  BY <1>2, WithinType
<1>4. /\ x + Cardinality(O) <= Limit(s)
      /\ y + Cardinality(N) <= Limit(s) /\ y + Cardinality(N) <= c.count
  BY <1>1 DEF Share
<1>5. Q \in SUBSET (N \cup {r}) /\ (r \notin V \ W => Q \in SUBSET N)
  BY <1>2
<1>6. \A b \in Within(s, old) : b.age \in Nat
  BY <1>2 DEF Within, Bans
<1>7. d.ttl # Forever => /\ \A b \in Within(s, old) : b.age >= WindowOf(s) - d.ttl
                         /\ P # {} => d.ttl = WindowOf(s)
  <2>1. CASE d.ttl = c.ttl
    BY <1>1, <1>2, <2>1 DEF Share
  <2>2. CASE d.ttl = WindowOf(s)
    <3>1. WindowOf(s) - d.ttl = 0
      BY <2>2, WindowType
    <3> QED
      BY <1>6, <2>2, <3>1
  <2> QED
    BY <2>1, <2>2
<1> HIDE DEF P, N, Q, x, y
<1>8. /\ Cardinality(O) \in Nat /\ Cardinality(P) \in Nat /\ Cardinality(P) <= Cardinality(O)
      /\ IsFiniteSet(N) /\ Cardinality(N) \in Nat
  BY <1>2, HandlersFinite
<1>9. x + Cardinality(P) <= Limit(s)
  BY <1>3, <1>4, <1>8, LimitType
<1>10. c.count \in Nat /\ d.count \in Nat
  BY LimitsAre DEF Counters
<1>11. y + Cardinality(Q) <= Limit(s) /\ y + Cardinality(Q) <= d.count
  <2>1. CASE r \in V \ W
    <3>1. /\ IsFiniteSet(N \cup {r}) /\ Cardinality(N \cup {r}) \in Nat
          /\ Cardinality(N \cup {r}) <= Cardinality(N) + 1
      <4>1. /\ IsFiniteSet(N \cup {r})
            /\ Cardinality(N \cup {r}) = IF r \in N THEN Cardinality(N) ELSE Cardinality(N) + 1
        BY <1>8, FS_AddElement
      <4> QED
        BY <1>8, <4>1
    <3>2. Cardinality(Q) \in Nat /\ Cardinality(Q) <= Cardinality(N \cup {r})
      BY <1>5, <3>1, FS_Subset, FS_CardinalityType
    <3>3. Cardinality(Q) <= Cardinality(N) + 1
      BY <1>8, <3>1, <3>2
    <3>4. y + Cardinality(Q) <= d.count
      BY <1>3, <1>4, <1>8, <1>10, <2>1, <3>2, <3>3
    <3> QED
      BY <1>3, <1>10, <2>1, <3>2, <3>4, LimitType
  <2>2. CASE r \notin V \ W
    <3>1. Cardinality(Q) \in Nat /\ Cardinality(Q) <= Cardinality(N)
      BY <1>5, <1>8, <2>2, FS_Subset, FS_CardinalityType
    <3> QED
      BY <1>3, <1>4, <1>8, <1>10, <3>1, LimitType
  <2> QED
    BY <2>1, <2>2
<1>12. Share(s, d, V, M, B, old, P)
  BY <1>2, <1>7, <1>9, <1>11 DEF Share, x, y, Q
<1> QED
  BY <1>12 DEF Balanced

\* A request passes, and its ban takes its place among what was admitted.
LEMMA WithinAdds ==
    ASSUME NEW s, NEW A, IsFiniteSet(A), NEW b, NEW D, D \subseteq A \cup {b}
    PROVE  /\ Cardinality(Within(s, D)) \in Nat
           /\ Cardinality(Within(s, D)) <= Cardinality(Within(s, A)) + 1
           /\ b.key \notin Sees(s) => Cardinality(Within(s, D)) <= Cardinality(Within(s, A))
<1> DEFINE X == Within(s, A)
<1>1. IsFiniteSet(X) /\ Cardinality(X) \in Nat
  BY WithinType
<1>2. Within(s, D) \in SUBSET (X \cup {b}) /\ (b.key \notin Sees(s) => Within(s, D) \in SUBSET X)
  BY DEF Within
<1> HIDE DEF X
<1>3. /\ IsFiniteSet(X \cup {b})
      /\ Cardinality(X \cup {b}) = IF b \in X THEN Cardinality(X) ELSE Cardinality(X) + 1
  BY <1>1, FS_AddElement
<1>4. Cardinality(X \cup {b}) <= Cardinality(X) + 1 /\ Cardinality(X \cup {b}) \in Nat
  BY <1>1, <1>3
<1>5. Cardinality(Within(s, D)) \in Nat /\ Cardinality(Within(s, D)) <= Cardinality(X \cup {b})
  BY <1>2, <1>3, FS_Subset, FS_CardinalityType
<1>6. b.key \notin Sees(s) => Cardinality(Within(s, D)) <= Cardinality(X)
  BY <1>1, <1>2, FS_Subset
<1>7. Cardinality(Within(s, D)) <= Cardinality(X) + 1
  BY <1>1, <1>4, <1>5
<1> QED
  BY <1>5, <1>6, <1>7 DEF X

LEMMA OneLess ==
    ASSUME NEW S, S \subseteq Handlers, NEW r \in S, NEW T, T \subseteq S, r \notin T
    PROVE  Cardinality(T) + 1 <= Cardinality(S)
<1>1. IsFiniteSet(S) /\ Cardinality(S) \in Nat
  BY HandlersFinite
<1>2. IsFiniteSet(S \ {r}) /\ Cardinality(S \ {r}) = Cardinality(S) - 1
  BY <1>1, FS_RemoveElement
<1>3. T \in SUBSET (S \ {r})
  OBVIOUS
<1>4. Cardinality(T) \in Nat /\ Cardinality(T) <= Cardinality(S \ {r})
  BY <1>2, <1>3, FS_Subset, FS_CardinalityType
<1> QED
  BY <1>1, <1>2, <1>4

LEMMA BalancedPasses ==
    ASSUME NEW s \in Scopes, NEW c \in Counters,
           NEW W, NEW L, NEW B, IsFiniteSet(B), B \subseteq Bans, W \subseteq Handlers,
           Balanced(s, c, W, L, B),
           NEW V, NEW M, V \subseteq W, V \cap L \subseteq M,
           NEW b \in Bans, b.age = 0, NEW r, r \notin V, b.key \in Sees(s) => r \in W
    PROVE  Balanced(s, c, V, M, B \cup {b})
<1>1. PICK old, O : Share(s, c, W, L, B, old, O)
  BY DEF Balanced
<1> DEFINE P == O \cap V
           N == W \ O
           Q == V \ P
           x == Cardinality(Within(s, old))
           y == Cardinality(Within(s, B \ old))
<1>2. /\ old \in SUBSET B /\ B \ old \in SUBSET B /\ O \in SUBSET W /\ P \subseteq O
      /\ O \subseteq Handlers /\ N \subseteq Handlers /\ P \subseteq M /\ P \subseteq V
      /\ Q \subseteq N /\ r \notin P /\ r \notin Q
  BY <1>1 DEF Share
<1>3. x \in Nat /\ y \in Nat /\ IsFiniteSet(old) /\ IsFiniteSet(B \ old)
  BY <1>2, WithinType
<1>4. /\ x + Cardinality(O) <= Limit(s)
      /\ y + Cardinality(N) <= Limit(s) /\ y + Cardinality(N) <= c.count
  BY <1>1 DEF Share
<1>5. c.ttl # Forever => /\ \A a \in Within(s, old) : a.age >= WindowOf(s) - c.ttl
                         /\ O # {} => c.ttl = WindowOf(s)
  BY <1>1 DEF Share
<1>6. b.key \in Sees(s) => r \in O \/ r \in N
  OBVIOUS
<1> HIDE DEF P, N
<1>7. /\ Cardinality(O) \in Nat /\ Cardinality(P) \in Nat /\ Cardinality(P) <= Cardinality(O)
      /\ Cardinality(N) \in Nat /\ Cardinality(Q) \in Nat /\ Cardinality(Q) <= Cardinality(N)
  <2> HIDE DEF Q
  <2> QED
    BY <1>2, HandlersFinite
<1>8. c.count \in Nat /\ Limit(s) \in Nat
  BY LimitsAre, LimitType DEF Counters
<1>9. CASE b.key \in Sees(s) /\ r \in O
  <2> DEFINE u == Cardinality(Within(s, old \cup {b}))
             v == Cardinality(Within(s, (B \cup {b}) \ (old \cup {b})))
  <2>1. u \in Nat /\ u <= x + 1
    BY <1>3, WithinAdds
  <2>2. (B \cup {b}) \ (old \cup {b}) \in SUBSET (B \ old)
    OBVIOUS
  <2>3. v \in Nat /\ v <= y
    BY <1>3, <2>2, WithinType
  <2> HIDE DEF Q
  <2>4. Cardinality(P) + 1 <= Cardinality(O)
    BY <1>2, <1>9, OneLess
  <2>5. \A a \in Within(s, old \cup {b}) : a \in Within(s, old) \/ a.age = 0
    BY DEF Within
  <2>6. c.ttl # Forever => /\ \A a \in Within(s, old \cup {b}) : a.age >= WindowOf(s) - c.ttl
                           /\ P # {} => c.ttl = WindowOf(s)
    <3> SUFFICES ASSUME c.ttl # Forever
                 PROVE  /\ \A a \in Within(s, old \cup {b}) : a.age >= WindowOf(s) - c.ttl
                        /\ P # {} => c.ttl = WindowOf(s)
      OBVIOUS
    <3>1. c.ttl = WindowOf(s)
      BY <1>5, <1>9
    <3>2. WindowOf(s) - c.ttl = 0
      BY <3>1, WindowType
    <3>3. ASSUME NEW a \in Within(s, old \cup {b}) PROVE a.age >= WindowOf(s) - c.ttl
      <4>1. CASE a \in Within(s, old)
        BY <1>5, <4>1
      <4>2. CASE a.age = 0
        BY <3>2, <4>2
      <4> QED
        BY <2>5, <4>1, <4>2
    <3> QED
      BY <3>1, <3>3
  <2> HIDE DEF x, y, u, v
  <2>7. u + Cardinality(P) <= Limit(s) /\ v + Cardinality(Q) <= Limit(s) /\ v + Cardinality(Q) <= c.count
    BY <1>3, <1>4, <1>7, <1>8, <2>1, <2>3, <2>4
  <2>8. Share(s, c, V, M, B \cup {b}, old \cup {b}, P)
    BY <1>2, <2>6, <2>7 DEF Share, u, v, Q
  <2> QED
    BY <2>8 DEF Balanced
<1>10. CASE ~(b.key \in Sees(s) /\ r \in O)
  <2> DEFINE v == Cardinality(Within(s, (B \cup {b}) \ old))
  <2>1. (B \cup {b}) \ old \subseteq (B \ old) \cup {b}
    OBVIOUS
  <2>2. v \in Nat /\ v <= y + 1 /\ (b.key \notin Sees(s) => v <= y)
    BY <1>3, <2>1, WithinAdds
  <2> HIDE DEF Q
  <2>3. b.key \in Sees(s) => Cardinality(Q) + 1 <= Cardinality(N)
    BY <1>2, <1>6, <1>10, OneLess
  <2>4. c.ttl # Forever => /\ \A a \in Within(s, old) : a.age >= WindowOf(s) - c.ttl
                           /\ P # {} => c.ttl = WindowOf(s)
    BY <1>2, <1>5
  <2> HIDE DEF x, y, v
  <2>5. v + Cardinality(Q) <= y + Cardinality(N)
    BY <1>3, <1>7, <2>2, <2>3
  <2>6. x + Cardinality(P) <= Limit(s) /\ v + Cardinality(Q) <= Limit(s) /\ v + Cardinality(Q) <= c.count
    BY <1>3, <1>4, <1>7, <1>8, <2>2, <2>5
  <2>7. Share(s, c, V, M, B \cup {b}, old, P)
    BY <1>2, <2>4, <2>6 DEF Share, x, v, Q
  <2> QED
    BY <2>7 DEF Balanced
<1> QED
  BY <1>9, <1>10

\* A tick.  No request is late before it, all are after it.
LEMMA AgedFrom ==
    ASSUME NEW s, NEW A, A \subseteq Bans, NEW t \in Within(s, Aged(A)), WindowOf(s) \in Int
    PROVE  \E a \in Within(s, A) : /\ t = [a EXCEPT !.age = @ + 1] /\ t.age = a.age + 1
                                   /\ a.age \in Nat /\ a.age + 1 < GlobalWindow
<1>1. t \in Aged(A) /\ t.key \in Sees(s) /\ t.age < WindowOf(s) - 1
  BY DEF Within
<1>2. PICK a \in A : a.age + 1 < GlobalWindow /\ t = [a EXCEPT !.age = @ + 1]
  BY <1>1 DEF Aged
<1>3. t.key = a.key /\ t.age = a.age + 1
  BY <1>2, AgedType
<1>4. a.age \in Nat
  BY DEF Bans
<1>5. a.age < WindowOf(s) - 1
  BY <1>1, <1>3, <1>4
<1>6. a \in Within(s, A)
  BY <1>1, <1>3, <1>5 DEF Within
<1> QED
  BY <1>2, <1>3, <1>4, <1>6

LEMMA WithinAged ==
    ASSUME NEW s, NEW A, A \subseteq Bans, IsFiniteSet(A), WindowOf(s) \in Int
    PROVE  Cardinality(Within(s, Aged(A))) <= Cardinality(Within(s, A))
<1> DEFINE S == {a \in Within(s, A) : a.age + 1 < GlobalWindow /\ a.age + 1 < WindowOf(s) - 1}
           T == Within(s, Aged(A))
           f == [a \in S |-> [a EXCEPT !.age = @ + 1]]
<1>1. ASSUME NEW a \in A, a.age + 1 < GlobalWindow
      PROVE  /\ [a EXCEPT !.age = @ + 1].key = a.key /\ [a EXCEPT !.age = @ + 1].age = a.age + 1
             /\ [a EXCEPT !.age = @ + 1] \in Aged(A) /\ a.age \in Nat
  <2>1. a.age \in Nat
    BY DEF Bans
  <2>2. [a EXCEPT !.age = @ + 1].key = a.key /\ [a EXCEPT !.age = @ + 1].age = a.age + 1
    BY <1>1, AgedType
  <2>3. [a EXCEPT !.age = @ + 1] \in Aged(A)
    BY <1>1 DEF Aged
  <2> QED
    BY <2>1, <2>2, <2>3
<1>2. f \in [S -> T]
  <2>1. ASSUME NEW a \in S PROVE [a EXCEPT !.age = @ + 1] \in T
    <3>1. a \in A /\ a.key \in Sees(s) /\ a.age + 1 < GlobalWindow /\ a.age + 1 < WindowOf(s) - 1
      BY DEF Within
    <3> QED
      BY <1>1, <3>1 DEF Within
  <2> QED
    BY <2>1
<1>3. ASSUME NEW t \in T PROVE \E a \in S : f[a] = t
  <2>1. PICK a \in Within(s, A) : /\ t = [a EXCEPT !.age = @ + 1] /\ t.age = a.age + 1
                                  /\ a.age \in Nat /\ a.age + 1 < GlobalWindow
    BY AgedFrom
  <2>2. a \in S
    BY <2>1 DEF Within
  <2> QED
    BY <2>1, <2>2
<1>4. IsFiniteSet(Within(s, A)) /\ S \in SUBSET Within(s, A)
  BY WithinType
<1>5. IsFiniteSet(S) /\ Cardinality(S) <= Cardinality(Within(s, A))
  BY <1>4, FS_Subset
<1> HIDE DEF S, T, f
<1>6. IsFiniteSet(T) /\ Cardinality(T) <= Cardinality(S)
  BY <1>2, <1>3, <1>5, ImageOf
<1>7. Cardinality(T) \in Nat /\ Cardinality(S) \in Nat /\ Cardinality(Within(s, A)) \in Nat
  BY <1>4, <1>5, <1>6, FS_CardinalityType
<1> QED
  BY <1>5, <1>6, <1>7 DEF T

LEMMA AgedFinite ==
    ASSUME NEW A, A \subseteq Bans, IsFiniteSet(A)
    PROVE  Aged(A) \subseteq Bans /\ IsFiniteSet(Aged(A))
<1> DEFINE S == {c \in A : c.age + 1 < GlobalWindow}
           f == [b \in S |-> [b EXCEPT !.age = @ + 1]]
<1>1. Aged(A) \subseteq Bans
  BY AgedType DEF Aged
<1>2. IsFiniteSet(S)
  BY FS_Subset
<1>3. f \in [S -> Aged(A)] /\ \A t \in Aged(A) : \E b \in S : f[b] = t
  BY DEF Aged
<1> HIDE DEF S, f
<1>4. IsFiniteSet(Aged(A))
  BY <1>2, <1>3, ImageOf
<1> QED
  BY <1>1, <1>4

LEMMA BalancedTicks ==
    ASSUME NEW s \in Scopes, NEW c \in Counters,
           NEW W, NEW L, NEW B, IsFiniteSet(B), B \subseteq Bans, W \subseteq Handlers,
           Balanced(s, c, W, L, B), W \cap L = {}, NEW M, W \subseteq M
    PROVE  Balanced(s, Ticked(c), W, M, Aged(B))
<1>1. PICK old, O : Share(s, c, W, L, B, old, O)
  BY DEF Balanced
<1> DEFINE x == Cardinality(Within(s, old))
           y == Cardinality(Within(s, B \ old))
           w == Cardinality(W)
<1>2. /\ old \in SUBSET B /\ B \ old \in SUBSET B /\ O = {} /\ W \ O = W
      /\ old \subseteq Bans /\ B \ old \subseteq Bans
  BY <1>1 DEF Share
<1>3. x \in Nat /\ y \in Nat /\ IsFiniteSet(old) /\ IsFiniteSet(B \ old) /\ w \in Nat
  BY <1>2, WithinType, HandlersFinite
<1>4. /\ x <= Limit(s) /\ y + w <= Limit(s) /\ y + w <= c.count
  <2>1. x + Cardinality(O) <= Limit(s) /\ y + w <= Limit(s) /\ y + w <= c.count
    BY <1>1, <1>2 DEF Share
  <2>2. Cardinality(O) = 0
    BY <1>2, FS_EmptySet
  <2> QED
    BY <1>3, <2>1, <2>2
<1>5. c.ttl # Forever => \A a \in Within(s, old) : a.age >= WindowOf(s) - c.ttl
  BY <1>1 DEF Share
<1>6. /\ IsFiniteSet(Aged(old)) /\ IsFiniteSet(Aged(B \ old)) /\ IsFiniteSet(Aged(B))
      /\ Aged(old) \subseteq Aged(B) /\ Aged(B) \ Aged(old) \subseteq Aged(B \ old)
  <2>1. IsFiniteSet(Aged(old)) /\ IsFiniteSet(Aged(B \ old)) /\ IsFiniteSet(Aged(B))
    BY <1>2, <1>3, AgedFinite
  <2>2. Aged(old) \subseteq Aged(B) /\ Aged(B) \ Aged(old) \subseteq Aged(B \ old)
    BY <1>2 DEF Aged
  <2> QED
    BY <2>1, <2>2
<1> DEFINE u == Cardinality(Within(s, Aged(old)))
           v == Cardinality(Within(s, Aged(B \ old)))
<1>7. u \in Nat /\ u <= x /\ v \in Nat /\ v <= y
  <2>1. WindowOf(s) \in Int
    BY WindowType
  <2>2. u \in Nat /\ v \in Nat
    BY <1>6, WithinType
  <2>3. u <= x
    BY <1>2, <1>3, <2>1, WithinAged
  <2>4. v <= y
    BY <1>2, <1>3, <2>1, WithinAged
  <2> QED
    BY <2>2, <2>3, <2>4
<1>8. c.count \in Nat /\ Limit(s) \in Nat
  BY LimitsAre, LimitType DEF Counters
<1>9. /\ WindowOf(s) \in Int /\ c.ttl \in {Forever} \cup (1..GlobalWindow)
  BY WindowType DEF Counters
<1>10. CASE c.ttl = 1
  <2>1. Ticked(c) = Absent
    BY <1>10, TickedType
  <2>2. Within(s, Aged(B)) \subseteq Within(s, Aged(B \ old))
    <3> SUFFICES ASSUME NEW t \in Within(s, Aged(B)) PROVE t \in Aged(B \ old)
      BY DEF Within
    <3>1. PICK a \in Within(s, B) : /\ t = [a EXCEPT !.age = @ + 1] /\ t.age = a.age + 1
                                    /\ a.age \in Nat /\ a.age + 1 < GlobalWindow
      BY <1>9, AgedFrom
    <3>2. a \notin old
      <4> SUFFICES ASSUME a \in old PROVE FALSE
        OBVIOUS
      <4>1. a \in Within(s, old) /\ a.age < WindowOf(s) - 1
        BY DEF Within
      <4>2. a.age >= WindowOf(s) - 1
        BY <1>5, <1>10, <4>1
      <4> QED
        BY <1>9, <3>1, <4>1, <4>2
    <3>3. a \in B \ old
      BY <3>2 DEF Within
    <3> QED
      BY <3>1, <3>3 DEF Aged
  <2>3. Cardinality(Within(s, Aged(B))) \in Nat /\ Cardinality(Within(s, Aged(B))) <= v
    <3> DEFINE Y == Within(s, Aged(B \ old))
               Z == Within(s, Aged(B))
    <3>1. IsFiniteSet(Y) /\ Z \in SUBSET Y
      BY <1>6, <2>2, WithinType
    <3> HIDE DEF Y, Z
    <3>2. Cardinality(Z) \in Nat /\ Cardinality(Z) <= Cardinality(Y)
      BY <3>1, FS_Subset, FS_CardinalityType
    <3> QED
      BY <3>2 DEF Y, Z
  <2>4. Cardinality(Within(s, Aged(B) \ Aged(B))) = 0 /\ Cardinality(W \ W) = 0
    <3>1. Within(s, Aged(B) \ Aged(B)) = {} /\ W \ W = {}
      BY DEF Within
    <3> QED
      BY <3>1, FS_EmptySet
  <2>5. Cardinality(Within(s, Aged(B))) + w <= Limit(s)
    <3> HIDE DEF y, w, v
    <3> QED
      BY <1>3, <1>4, <1>7, <1>8, <2>3
  <2>6. Share(s, Absent, W, M, Aged(B), Aged(B), W)
    BY <1>8, <2>4, <2>5 DEF Share, Absent
  <2> QED
    BY <2>1, <2>6 DEF Balanced
<1>11. CASE c.ttl # 1
  <2>1. Ticked(c).count = c.count
    BY <1>11, TickedType
  <2>2. Ticked(c).ttl # Forever => \A t \in Within(s, Aged(old)) : t.age >= WindowOf(s) - Ticked(c).ttl
    <3> SUFFICES ASSUME Ticked(c).ttl # Forever, NEW t \in Within(s, Aged(old))
                 PROVE  t.age >= WindowOf(s) - Ticked(c).ttl
      OBVIOUS
    <3>1. c.ttl # Forever /\ Ticked(c).ttl = c.ttl - 1 /\ c.ttl \in Nat
      BY <1>9, <1>11, TickedType
    <3>2. PICK a \in Within(s, old) : t.age = a.age + 1 /\ a.age \in Nat
      BY <1>2, <1>9, AgedFrom
    <3>3. a.age >= WindowOf(s) - c.ttl
      BY <1>5, <3>1, <3>2
    <3> QED
      BY <1>9, <3>1, <3>2, <3>3
  <2> DEFINE z == Cardinality(Within(s, Aged(B) \ Aged(old)))
  <2>3. z \in Nat /\ z <= v
    BY <1>6, WithinType
  <2>4. Cardinality({}) = 0 /\ W \ {} = W
    BY FS_EmptySet
  <2>5. u + 0 <= Limit(s) /\ z + w <= Limit(s) /\ z + w <= c.count
    <3> HIDE DEF x, y, w, u, v, z
    <3> QED
      BY <1>3, <1>4, <1>7, <1>8, <2>3
  <2>6. Share(s, Ticked(c), W, M, Aged(B), Aged(old), {})
    BY <1>6, <2>1, <2>2, <2>4, <2>5 DEF Share
  <2> QED
    BY <2>6 DEF Balanced
<1> QED
  BY <1>10, <1>11

\* A request that counter s admitted: the other one may still refuse it.
Waits(s, q) ==
    IF s[1] = "guard"
    THEN /\ q.own <= Limit(s) /\ q.key = s[2]
         /\ (q.pc = "guard" /\ q.ok) \/ q.pc \in {"guardExpiry", "global", "globalExpiry"}
    ELSE /\ q.all <= Limit(s)
         /\ (q.pc = "global" /\ q.ok) \/ q.pc = "globalExpiry"

Waiting(s, hh) == {r \in Handlers : Waits(s, hh[r])}
Late(hh) == {r \in Handlers : hh[r].late}

BudgetInv == \A s \in Scopes : Balanced(s, counter[s], Waiting(s, h), Late(h), recent)

BudgetKept(s) == Balanced(s, counter'[s], Waiting(s, h'), Late(h'), recent')

LEMMA ScopeIs ==
    ASSUME NEW s \in Scopes
    PROVE  /\ s[1] = "guard" => s[2] \in AdminKeys /\ s = <<"guard", s[2]>> /\ s # Everyone
           /\ s[1] # "guard" => s = Everyone
           /\ Everyone[1] # "guard" /\ s[1] = "guard" <=> s[1] # "global"
BY DEF Scopes, Everyone

\* Request r is at q now, and the counter counted it if it joined.
LEMMA BudgetMoves ==
    ASSUME StoreOK, BudgetInv, NEW s \in Scopes, NEW r \in Handlers, NEW q,
           h \in [Handlers -> Locals], h' = [h EXCEPT ![r] = q], recent' = recent,
           counter'[s] \in Counters, counter'[s].count >= counter[s].count,
           counter'[s].ttl = counter[s].ttl \/ counter'[s].ttl = WindowOf(s),
           Waits(s, h[r]) => (q.late <=> h[r].late),
           Waits(s, q) /\ ~Waits(s, h[r]) =>
             counter'[s].count = counter[s].count + 1 /\ counter'[s].count <= Limit(s)
    PROVE  BudgetKept(s)
<1> DEFINE W == Waiting(s, h)
           V == Waiting(s, h')
           L == Late(h)
           M == Late(h')
<1>1. h'[r] = q /\ \A m \in Handlers : m # r => h'[m] = h[m]
  OBVIOUS
<1>2. /\ W \subseteq Handlers /\ V \subseteq W \cup {r} /\ V \cap W \cap L \subseteq M
      /\ r \in V \ W => Waits(s, q) /\ ~Waits(s, h[r])
  BY <1>1 DEF Waiting, Late
<1>3. counter[s] \in Counters /\ recent \subseteq Bans /\ IsFiniteSet(recent)
  BY DEF StoreOK
<1>4. Balanced(s, counter[s], W, L, recent)
  BY DEF BudgetInv
<1> HIDE DEF W, V, L, M
<1> DEFINE c == counter[s]
           d == counter'[s]
<1>5. /\ c \in Counters /\ d \in Counters /\ d.count >= c.count
      /\ d.ttl = c.ttl \/ d.ttl = WindowOf(s)
      /\ r \in V \ W => d.count = c.count + 1 /\ d.count <= Limit(s)
  BY <1>2, <1>3
<1>6. Balanced(s, c, W, L, recent)
  BY <1>4
<1>7. d = counter'[s] /\ c = counter[s]
  OBVIOUS
<1> HIDE DEF c, d
<1>8. Balanced(s, d, V, M, recent)
  BY <1>2, <1>3, <1>5, <1>6, BalancedJoins
<1> QED
  BY <1>7, <1>8 DEF BudgetKept, V, M

LEMMA BudgetForgets ==
    ASSUME StoreOK, BudgetInv, NEW s \in Scopes, UNCHANGED <<counter, recent>>,
           \A r \in Handlers : ~Waits(s, h'[r])
    PROVE  BudgetKept(s)
<1> DEFINE W == Waiting(s, h)
           V == Waiting(s, h')
           L == Late(h)
           M == Late(h')
           c == counter[s]
<1>1. W \subseteq Handlers /\ V = {}
  BY DEF Waiting
<1>2. c \in Counters /\ recent \subseteq Bans /\ IsFiniteSet(recent)
  BY DEF StoreOK
<1>3. Balanced(s, c, W, L, recent)
  BY DEF BudgetInv
<1>4. c.count \in Nat
  BY <1>2, LimitsAre DEF Counters
<1>5. counter'[s] = c /\ recent' = recent
  OBVIOUS
<1> HIDE DEF W, V, L, M, c
<1>6. /\ V \subseteq W \cup {0} /\ V \cap W \cap L \subseteq M /\ 0 \notin V \ W
      /\ c.count >= c.count
  BY <1>1, <1>4
<1>7. Balanced(s, c, V, M, recent)
  BY <1>1, <1>2, <1>3, <1>6, BalancedJoins
<1> QED
  BY <1>5, <1>7 DEF BudgetKept, V, M

LEMMA BudgetArrives ==
    ASSUME JobsOK, StoreOK, BudgetInv, NEW s \in Scopes,
           NEW r \in Handlers, NEW k \in AdminKeys, NEW o \in Orders, Arrive(r, k, o)
    PROVE  BudgetKept(s)
<1>1. PICK q : /\ Joins(r, q) /\ recent' = recent
               /\ \/ /\ q.pc = "guard" /\ q.key = k /\ q.ok = up
                     /\ q.own = CountOf(<<"guard", k>>)
                     /\ counter' = Counted(<<"guard", k>>)
                  \/ q.pc \in {"cleared", "audit"} /\ counter' = counter
  BY Starts
<1>2. h' = [h EXCEPT ![r] = q] /\ ~Waits(s, h[r]) /\ h \in [Handlers -> Locals]
  BY <1>1 DEF Joins, Waits, JobsOK
<1>3. counter[s] \in Counters /\ counter[s].count \in Nat
  BY LimitsAre DEF StoreOK, Counters
<1>4. CASE counter'[s] = counter[s] /\ ~Waits(s, q)
  <2>1. counter'[s] \in Counters /\ counter'[s].count >= counter[s].count
    BY <1>3, <1>4
  <2> QED
    BY <1>1, <1>2, <1>4, <2>1, BudgetMoves
<1>5. CASE /\ s = <<"guard", k>> /\ q.ok = up /\ q.own = CountOf(s) /\ counter' = Counted(s)
  <2>1. /\ counter'[s] \in Counters /\ counter'[s].ttl = counter[s].ttl
        /\ up => counter'[s].count = CountOf(s)
        /\ ~up => counter'[s] = counter[s]
    BY <1>5, CounterChanges
  <2>2. counter'[s].count >= counter[s].count
    <3>1. CASE up
      BY <1>3, <2>1, <3>1, CountType, LimitsAre
    <3>2. CASE ~up
      BY <1>3, <2>1, <3>2
    <3> QED
      BY <3>1, <3>2
  <2>3. ASSUME Waits(s, q)
        PROVE  counter'[s].count = counter[s].count + 1 /\ counter'[s].count <= Limit(s)
    <3>1. s[1] = "guard"
      BY <1>5
    <3>2. q.own <= Limit(s) /\ q.ok
      BY <1>1, <2>3, <3>1 DEF Waits
    <3>3. CountOf(s) <= Limit(s) /\ counter'[s].count = CountOf(s)
      BY <1>5, <2>1, <3>2
    <3> QED
      BY <3>3, CountType, LimitType, LimitsAre
  <2> QED
    BY <1>1, <1>2, <2>1, <2>2, <2>3, BudgetMoves
<1>6. CASE q.pc \in {"cleared", "audit"} /\ counter' = counter
  BY <1>4, <1>6 DEF Waits
<1>7. CASE /\ q.pc = "guard" /\ q.key = k /\ q.ok = up /\ q.own = CountOf(<<"guard", k>>)
           /\ counter' = Counted(<<"guard", k>>)
  <2>1. CASE s = <<"guard", k>>
    BY <1>5, <1>7, <2>1
  <2>2. CASE s # <<"guard", k>>
    <3>1. <<"guard", k>> \in Scopes
      BY DEF Scopes
    <3>2. counter'[s] = counter[s]
      BY <1>7, <2>2, <3>1, CounterChanges
    <3>3. ~Waits(s, q)
      BY <1>7, <2>2, ScopeIs DEF Waits
    <3> QED
      BY <1>4, <3>2, <3>3
  <2> QED
    BY <2>1, <2>2
<1> QED
  BY <1>1, <1>6, <1>7

\* The request at the head of the line goes on without being counted, ...
LEMMA BudgetQuiet ==
    ASSUME JobsOK, StoreOK, BudgetInv, NEW s \in Scopes, NEW r \in Handlers, NEW q,
           h' = [h EXCEPT ![r] = q], UNCHANGED <<counter, recent>>,
           ~Waits(s, q)
    PROVE  BudgetKept(s)
<1>1. counter[s] \in Counters /\ counter[s].count \in Nat /\ h \in [Handlers -> Locals]
  BY LimitsAre DEF StoreOK, Counters, JobsOK
<1> DEFINE c == counter[s]
           W == Waiting(s, h)
           V == Waiting(s, h')
           L == Late(h)
           M == Late(h')
<1>2. V \subseteq W /\ V \cap W \cap L \subseteq M /\ W \subseteq Handlers
  BY <1>1 DEF Waiting, Late
<1>3. recent \subseteq Bans /\ IsFiniteSet(recent)
  BY DEF StoreOK
<1>4. Balanced(s, c, W, L, recent)
  BY DEF BudgetInv
<1>5. counter'[s] = c /\ recent' = recent /\ c \in Counters /\ c.count >= c.count
  BY <1>1
<1> HIDE DEF c, W, V, L, M
<1>6. V \subseteq W \cup {r} /\ r \notin V \ W
  BY <1>2
<1>7. Balanced(s, c, V, M, recent)
  BY <1>2, <1>3, <1>4, <1>5, <1>6, BalancedJoins
<1> QED
  BY <1>5, <1>7 DEF BudgetKept, V, M

\* ... gives a counter its expiry, ...
LEMMA BudgetExpiry ==
    ASSUME JobsOK, StoreOK, BudgetInv, NEW s \in Scopes, NEW r \in Handlers, NEW q,
           Goes(r, q), q.late = h[r].late, GaveExpiry(r, q)
    PROVE  BudgetKept(s)
<1>1. PICK t \in Scopes : /\ Opens(t, h[r]) /\ counter' = Expiring(t)
                          /\ q.pc = IF t[1] = "guard" THEN "guardExpiry" ELSE "globalExpiry"
                          /\ SameOrder(r, q) /\ q.all = h[r].all
                          /\ recent' = recent
  BY DEF GaveExpiry
<1>2. h' = [h EXCEPT ![r] = q] /\ h \in [Handlers -> Locals]
  BY DEF Goes, JobsOK
<1>3. counter[s] \in Counters /\ counter[s].count \in Nat
  BY LimitsAre DEF StoreOK, Counters
<1>4. /\ counter'[s] \in Counters /\ counter'[s].count = counter[s].count
      /\ counter'[s].ttl = counter[s].ttl \/ counter'[s].ttl = WindowOf(s)
  <2>1. CASE s = t
    <3>1. /\ Expiring(s) \in [Scopes -> Counters] /\ Expiring(s)[s].count = counter[s].count
          /\ up => Expiring(s)[s].ttl = WindowOf(s)
          /\ ~up => Expiring(s) = counter
      BY CounterChanges
    <3> QED
      BY <1>1, <2>1, <3>1
  <2>2. CASE s # t
    BY <1>1, <1>3, <2>2, CounterChanges
  <2> QED
    BY <2>1, <2>2
<1>5. Waits(s, q) => Waits(s, h[r])
  <2> SUFFICES ASSUME Waits(s, q) PROVE Waits(s, h[r])
    OBVIOUS
  <2>1. CASE s[1] = "guard"
    BY <1>1, <2>1 DEF Waits, Opens, SameOrder
  <2>2. CASE s[1] # "guard"
    BY <1>1, <2>2 DEF Waits, Opens, SameOrder
  <2> QED
    BY <2>1, <2>2
<1>6. counter'[s].count >= counter[s].count
  BY <1>3, <1>4
<1> QED
  BY <1>1, <1>2, <1>4, <1>5, <1>6, BudgetMoves

\* ... is counted by the global counter, ...
LEMMA BudgetCounts ==
    ASSUME JobsOK, StoreOK, BudgetInv, NEW s \in Scopes, NEW r \in Handlers, NEW q,
           Goes(r, q), q.late = h[r].late, CountedAll(r, q)
    PROVE  BudgetKept(s)
<1>1. /\ h' = [h EXCEPT ![r] = q] /\ h \in [Handlers -> Locals] /\ recent' = recent
      /\ q.pc = "global" /\ q.ok = up /\ q.all = CountOf(Everyone) /\ SameOrder(r, q)
      /\ counter' = Counted(Everyone)
      /\ h[r].pc = "guardExpiry" \/ (h[r].pc = "guard" /\ h[r].ok)
  BY DEF Goes, JobsOK, CountedAll
<1>2. counter[s] \in Counters /\ counter[s].count \in Nat
  BY LimitsAre DEF StoreOK, Counters
<1>3. CASE s[1] = "guard"
  <2>1. counter'[s] = counter[s]
    BY <1>1, <1>3, ScopeIs, EveryoneIsAScope, CounterChanges
  <2>2. Waits(s, q) => Waits(s, h[r])
    BY <1>1, <1>3 DEF Waits, SameOrder
  <2>3. counter'[s] \in Counters /\ counter'[s].count >= counter[s].count
    BY <1>2, <2>1
  <2> QED
    BY <1>1, <2>1, <2>2, <2>3, BudgetMoves
<1>4. CASE s[1] # "guard"
  <2>0. s = Everyone
    BY <1>4, ScopeIs
  <2>1. /\ counter'[s] \in Counters /\ counter'[s].ttl = counter[s].ttl
        /\ up => counter'[s].count = CountOf(s)
        /\ ~up => counter'[s] = counter[s]
    BY <1>1, <2>0, CounterChanges
  <2>2. counter'[s].count >= counter[s].count
    <3>1. CASE up
      BY <1>2, <2>1, <3>1, CountType, LimitsAre
    <3>2. CASE ~up
      BY <1>2, <2>1, <3>2
    <3> QED
      BY <3>1, <3>2
  <2>3. ASSUME Waits(s, q)
        PROVE  counter'[s].count = counter[s].count + 1 /\ counter'[s].count <= Limit(s)
    <3>1. q.all <= Limit(s) /\ q.ok
      BY <1>1, <1>4, <2>3 DEF Waits
    <3>2. CountOf(s) <= Limit(s) /\ counter'[s].count = CountOf(s)
      BY <1>1, <2>0, <2>1, <3>1
    <3> QED
      BY <3>2, CountType, LimitType, LimitsAre
  <2> QED
    BY <1>1, <2>1, <2>2, <2>3, BudgetMoves
<1> QED
  BY <1>3, <1>4

\* ... or passes both guards.
LEMMA BudgetPasses ==
    ASSUME JobsOK, StoreOK, BudgetInv, NEW s \in Scopes, NEW r \in Handlers, NEW q,
           Goes(r, q), Wrote(r, q)
    PROVE  BudgetKept(s)
<1>1. /\ h' = [h EXCEPT ![r] = q] /\ h \in [Handlers -> Locals] /\ q.pc = "written"
      /\ counter' = counter /\ recent' = recent \cup {NextBan(h[r].key)}
      /\ h[r].pc = "globalExpiry" \/ (h[r].pc = "global" /\ h[r].ok)
      /\ h[r].own <= h[r].max /\ h[r].all <= GlobalMax
  BY DEF Goes, JobsOK, Wrote, Passed
<1>2. Proper(h[r]) /\ h[r].key \in AdminKeys /\ h[r].max \in GuardRange
  BY <1>1 DEF JobsOK, Proper, Guarding
<1>3. h[r].own <= Max(GuardRange)
  <2>1. h[r].own \in 0..Cap
    BY <1>1 DEF Locals
  <2>2. h[r].max \in Nat /\ h[r].max <= Max(GuardRange)
    BY <1>2, LimitsAre
  <2> QED
    BY <1>1, <2>1, <2>2, LimitsAre
<1> DEFINE b == NextBan(h[r].key)
           c == counter[s]
           W == Waiting(s, h)
           V == Waiting(s, h')
           L == Late(h)
           M == Late(h')
<1>4. b \in Bans /\ b.age = 0 /\ b.key = h[r].key
  BY <1>2, RecentType
<1>5. b.key \in Sees(s) => r \in W
  <2> SUFFICES ASSUME h[r].key \in Sees(s) PROVE Waits(s, h[r])
    BY <1>4 DEF Waiting
  <2>1. CASE s[1] = "guard"
    <3>1. h[r].key = s[2] /\ Limit(s) = Max(GuardRange)
      BY <2>1 DEF Sees, Limit
    <3> QED
      BY <1>1, <1>3, <2>1, <3>1 DEF Waits
  <2>2. CASE s[1] # "guard"
    <3>1. Limit(s) = GlobalMax
      BY <2>2, ScopeIs DEF Limit
    <3> QED
      BY <1>1, <2>2, <3>1 DEF Waits
  <2> QED
    BY <2>1, <2>2
<1>6. W \subseteq Handlers /\ V \subseteq W /\ V \cap L \subseteq M /\ r \notin V
  <2>1. ~Waits(s, h'[r])
    BY <1>1 DEF Waits
  <2>2. \A m \in Handlers : m # r => h'[m] = h[m]
    BY <1>1
  <2> QED
    BY <2>1, <2>2 DEF Waiting, Late
<1>7. c \in Counters /\ recent \subseteq Bans /\ IsFiniteSet(recent)
  BY DEF StoreOK
<1>8. Balanced(s, c, W, L, recent)
  BY DEF BudgetInv
<1>9. counter'[s] = c /\ recent' = recent \cup {b}
  BY <1>1
<1> HIDE DEF b, c, W, V, L, M
<1>10. Balanced(s, c, V, M, recent \cup {b})
  BY <1>4, <1>5, <1>6, <1>7, <1>8, BalancedPasses
<1> QED
  BY <1>9, <1>10 DEF BudgetKept, V, M

LEMMA BudgetTicks ==
    ASSUME JobsOK, StoreOK, BudgetInv, NEW s \in Scopes, Tick
    PROVE  BudgetKept(s)
<1>1. \A r \in Handlers : ~h[r].late
  BY DEF Tick
<1>2. ASSUME NEW r \in Handlers
      PROVE  Waits(s, h'[r]) <=> Waits(s, h[r])
  <2>1. CASE h[r].pc = "idle"
    BY <2>1, JobsTick
  <2>2. CASE h[r].pc # "idle"
    <3>1. \A f \in {"pc", "order", "key", "ok", "max", "own", "all"} : h'[r][f] = h[r][f]
      BY <2>2, JobsTick
    <3>2. /\ h'[r].pc = h[r].pc /\ h'[r].key = h[r].key /\ h'[r].ok = h[r].ok
          /\ h'[r].own = h[r].own /\ h'[r].all = h[r].all
      BY <3>1
    <3> QED
      BY <3>2 DEF Waits
  <2> QED
    BY <2>1, <2>2
<1>3. ASSUME NEW r \in Handlers, Waits(s, h[r]) PROVE h'[r].late
  <2>1. h[r].pc # "idle"
    BY <1>3 DEF Waits
  <2> QED
    BY <2>1, JobsTick
<1> DEFINE c == counter[s]
           W == Waiting(s, h)
           L == Late(h)
           M == Late(h')
<1>4. W \subseteq Handlers /\ W \cap L = {} /\ W \subseteq M
  BY <1>1, <1>3 DEF Waiting, Late
<1>5. Waiting(s, h') = W
  BY <1>2 DEF Waiting
<1>6. c \in Counters /\ recent \subseteq Bans /\ IsFiniteSet(recent)
  BY DEF StoreOK
<1>7. Balanced(s, c, W, L, recent)
  BY DEF BudgetInv
<1>8. counter'[s] = Ticked(c) /\ recent' = Aged(recent)
  BY TickIs, RecentType
<1> HIDE DEF c, W, L, M
<1>9. Balanced(s, Ticked(c), W, M, Aged(recent))
  BY <1>4, <1>6, <1>7, BalancedTicks
<1> QED
  BY <1>5, <1>8, <1>9 DEF BudgetKept, M

LEMMA BudgetInit == Init => BudgetInv
<1> SUFFICES ASSUME Init, NEW s \in Scopes
             PROVE  Balanced(s, counter[s], Waiting(s, h), Late(h), recent)
  BY DEF BudgetInv
<1>1. recent = {} /\ Waiting(s, h) = {} /\ counter[s] = Absent
  BY DEF Init, Waiting, Waits, Idle
<1>2. Within(s, {}) = {} /\ {} \ {} = {}
  BY DEF Within
<1>3. Cardinality({}) = 0 /\ Limit(s) \in Nat
  BY FS_EmptySet, LimitType
<1>4. Share(s, Absent, {}, Late(h), {}, {}, {})
  BY <1>2, <1>3 DEF Share, Absent
<1> QED
  BY <1>1, <1>4 DEF Balanced

LEMMA BudgetStep == JobsOK /\ StoreOK /\ BudgetInv /\ [Next]_vars => BudgetInv'
<1> SUFFICES ASSUME JobsOK, StoreOK, BudgetInv, [Next]_vars PROVE BudgetInv'
  OBVIOUS
<1> SUFFICES ASSUME NEW s \in Scopes PROVE BudgetKept(s)
  BY DEF BudgetInv, BudgetKept
<1>1. ASSUME NEW r \in Handlers, NEW k \in AdminKeys, NEW o \in Orders, Arrive(r, k, o)
      PROVE  BudgetKept(s)
  BY <1>1, BudgetArrives
<1>2. CASE Continue
  <2>1. CASE Die
    <3>1. UNCHANGED <<counter, recent>> /\ \A r \in Handlers : ~Waits(s, h'[r])
      BY <2>1 DEF Die, Waits, Idle, storeVars
    <3> QED
      BY <3>1, BudgetForgets
  <2>2. CASE Ends(Head(line))
    <3>1. Head(line) \in Handlers
      BY <1>2, Moves
    <3>2. h' = [h EXCEPT ![Head(line)] = Idle] /\ UNCHANGED <<counter, recent>> /\ ~Waits(s, Idle)
      BY <2>2 DEF Ends, Answer, Respond, storeVars, Waits, Idle
    <3> QED
      BY <3>1, <3>2, BudgetQuiet
  <2>3. ASSUME NEW q, GoesOn(Head(line), q) PROVE BudgetKept(s)
    <3> DEFINE r == Head(line)
    <3>1. r \in Handlers /\ Goes(r, q) /\ q.late = h[r].late
      BY <1>2, <2>3, Moves DEF GoesOn
    <3>2. \/ Denied(r, q) \/ GaveExpiry(r, q) \/ CountedAll(r, q)
          \/ Wrote(r, q) \/ Booked(r, q) \/ Cleared(r, q)
      BY <2>3 DEF GoesOn
    <3> HIDE DEF r
    <3>3. CASE Denied(r, q) \/ Booked(r, q) \/ Cleared(r, q)
      <4>1. h' = [h EXCEPT ![r] = q] /\ UNCHANGED <<counter, recent>> /\ ~Waits(s, q)
        BY <3>1, <3>3 DEF Goes, Denied, Booked, Cleared, Waits
      <4> QED
        BY <3>1, <4>1, BudgetQuiet
    <3>4. CASE GaveExpiry(r, q)
      BY <3>1, <3>4, BudgetExpiry
    <3>5. CASE CountedAll(r, q)
      BY <3>1, <3>5, BudgetCounts
    <3>6. CASE Wrote(r, q)
      BY <3>1, <3>6, BudgetPasses
    <3> QED
      BY <3>2, <3>3, <3>4, <3>5, <3>6
  <2> QED
    BY <1>2, <2>1, <2>2, <2>3, Moves
<1>3. CASE Tick
  BY <1>3, BudgetTicks
<1>4. CASE Crash
  <2>1. UNCHANGED <<counter, recent>> /\ \A r \in Handlers : ~Waits(s, h'[r])
    BY <1>4 DEF Crash, Waits, Idle, storeVars
  <2> QED
    BY <2>1, BudgetForgets
<1>5. CASE Break \/ Recover \/ UNCHANGED vars
  <2>1. UNCHANGED <<h, counter, recent>>
    BY <1>5 DEF Break, Recover, vars, storeVars
  <2>2. Waiting(s, h') = Waiting(s, h) /\ Late(h') = Late(h)
    BY <2>1 DEF Waiting, Late
  <2> QED
    BY <2>1, <2>2 DEF BudgetKept, BudgetInv
<1> QED
  BY <1>1, <1>2, <1>3, <1>4, <1>5 DEF Next

\* No stretch of time shorter than a guard's window sees more bans than two
\* counters admit, whatever is retried, reconfigured, lost or restarted
\* (incrMassBanCounter and the mass-ban guard of POST /ban).
THEOREM BanBudgetHolds == Spec => []BanBudget
<1>1. StoreOK /\ BudgetInv => BanBudget
  <2> SUFFICES ASSUME StoreOK, BudgetInv PROVE BanBudget
    OBVIOUS
  <2>1. ASSUME NEW s \in Scopes PROVE Cardinality(Within(s, recent)) <= 2 * Limit(s)
    <3>1. Balanced(s, counter[s], Waiting(s, h), Late(h), recent)
      BY DEF BudgetInv
    <3>2. IsFiniteSet(recent) /\ Waiting(s, h) \subseteq Handlers
      BY DEF StoreOK, Waiting
    <3> QED
      BY <3>1, <3>2, BalancedBounds
  <2>2. ASSUME NEW k \in AdminKeys PROVE PassedIn({k}, KeyWindow - 1) <= 2 * Max(GuardRange)
    <3> DEFINE s == <<"guard", k>>
    <3>1. s \in Scopes /\ s[1] = "guard" /\ s[1] # "global" /\ s[2] = k
      BY DEF Scopes
    <3> HIDE DEF s
    <3>2. Limit(s) = Max(GuardRange) /\ Sees(s) = {k} /\ WindowOf(s) = KeyWindow
      BY <3>1 DEF Limit, Sees, WindowOf
    <3>3. PassedIn({k}, KeyWindow - 1) = Cardinality(Within(s, recent))
      BY <3>2 DEF PassedIn, Within
    <3> QED
      BY <2>1, <3>1, <3>2, <3>3
  <2>3. PassedIn(AdminKeys, GlobalWindow - 1) <= 2 * GlobalMax
    <3>1. Limit(Everyone) = GlobalMax /\ Sees(Everyone) = AdminKeys /\ WindowOf(Everyone) = GlobalWindow
      BY DEF Limit, Sees, WindowOf, Everyone
    <3>2. PassedIn(AdminKeys, GlobalWindow - 1) = Cardinality(Within(Everyone, recent))
      BY <3>1 DEF PassedIn, Within
    <3> QED
      BY <2>1, <3>1, <3>2, EveryoneIsAScope
  <2> QED
    BY <2>2, <2>3 DEF BanBudget
<1> QED
  BY <1>1, BudgetInit, BudgetStep, Typing, PTL DEF Spec
=============================================================================
