-------------------------- MODULE ReputationProofs --------------------------
(***************************************************************************)
(* Proofs about module Reputation, for any number of requests and agents,  *)
(* any amounts, log size, thresholds and bounds: the statistics agree, the *)
(* published volume is not overstated, the logs are newest first, and the  *)
(* fraud signals are raised where they should be and only there.           *)
(***************************************************************************)
EXTENDS Reputation, FiniteSetTheorems, SequenceTheorems, TLAPS

USE ReputationAssumption

-----------------------------------------------------------------------------
(* The requests that wait for a reply.  Each one is in line once.          *)

Pcs == {"idle", "recorded", "indexed", "logged", "attested", "trimmed",
        "volume", "adding", "saved"}

Locals == [pc : Pcs, agent : Agents \cup {NoAgent}, amount : Nat, count : Nat,
           stamp : 0..MaxTime, left : SUBSET Agents, sum : Nat]

Lined(hh, ll) ==
    /\ ll \in Seq(Jobs)
    /\ \A i, k \in 1..Len(ll) : ll[i] = ll[k] => i = k
    /\ \A j \in Jobs : hh[j].pc # "idle" <=> \E i \in 1..Len(ll) : ll[i] = j

\* A request joins the line at its end.
LEMMA LinedSend ==
    ASSUME h \in [Jobs -> Locals], Lined(h, line), NEW j \in Jobs, NEW q \in Locals,
           q.pc # "idle", Send(j, q)
    PROVE  /\ Lined(h', line')
           /\ Len(line') = Len(line) + 1
           /\ line'[Len(line) + 1] = j /\ h'[j] = q
           /\ \A i \in 1..Len(line) : line'[i] = line[i] /\ line[i] # j /\ h'[line[i]] = h[line[i]]
<1>1. line \in Seq(Jobs) /\ Len(line) \in Nat /\ line' = Append(line, j)
  BY DEF Lined, Send
<1>2. /\ line' \in Seq(Jobs) /\ Len(line') = Len(line) + 1
      /\ line'[Len(line) + 1] = j
      /\ \A i \in 1..Len(line) : line'[i] = line[i]
  BY <1>1, AppendProperties
<1>3. \A i \in 1..Len(line) : line[i] # j /\ line[i] \in Jobs
  BY <1>1 DEF Lined, Send
<1>4. h' = [h EXCEPT ![j] = q] /\ h'[j] = q
  BY DEF Send
<1>5. \A i \in 1..Len(line) : h'[line[i]] = h[line[i]]
  BY <1>3, <1>4
<1>6. \A i, k \in 1..Len(line') : line'[i] = line'[k] => i = k
  BY <1>1, <1>2, <1>3 DEF Lined
<1>7. ASSUME NEW m \in Jobs PROVE h'[m].pc # "idle" <=> \E i \in 1..Len(line') : line'[i] = m
  <2>1. CASE m = j
    BY <1>1, <1>2, <1>4, <2>1
  <2>2. CASE m # j
    <3>1. h'[m] = h[m]
      BY <1>4, <2>2
    <3>2. ASSUME NEW i \in 1..Len(line'), line'[i] = m PROVE \E k \in 1..Len(line) : line[k] = m
      <4>1. i \in 1..Len(line)
        BY <1>1, <1>2, <2>2, <3>2
      <4> QED
        BY <1>2, <3>2, <4>1
    <3>3. ASSUME NEW i \in 1..Len(line), line[i] = m PROVE \E k \in 1..Len(line') : line'[k] = m
      <4>1. i \in 1..Len(line') /\ line'[i] = m
        BY <1>1, <1>2, <3>3
      <4> QED
        BY <4>1
    <3> QED
      BY <3>1, <3>2, <3>3 DEF Lined
  <2> QED
    BY <2>1, <2>2
<1> QED
  BY <1>2, <1>3, <1>4, <1>5, <1>6, <1>7 DEF Lined

\* The request whose reply is handled leaves the head of the line, ...
LEMMA LinedHead ==
    ASSUME Lined(h, line), line # <<>>
    PROVE  /\ Head(line) \in Jobs /\ Head(line) = line[1] /\ 1 \in 1..Len(line)
           /\ h[Head(line)].pc # "idle"
           /\ Tail(line) \in Seq(Jobs) /\ Len(line) \in Nat /\ Len(Tail(line)) = Len(line) - 1
           /\ \A i \in 1..(Len(line) - 1) :
                /\ Tail(line)[i] = line[i + 1] /\ i + 1 \in 1..Len(line)
                /\ line[i + 1] # Head(line) /\ line[i + 1] \in Jobs
<1>1. line \in Seq(Jobs) /\ Len(line) \in Nat
  BY DEF Lined
<1>2. /\ Head(line) \in Jobs /\ Tail(line) \in Seq(Jobs) /\ Len(Tail(line)) = Len(line) - 1
      /\ \A i \in 1..Len(Tail(line)) : Tail(line)[i] = line[i + 1]
  BY <1>1, HeadTailProperties
<1>3. Head(line) = line[1] /\ Len(line) > 0
  BY <1>1
<1>4. 1 \in 1..Len(line)
  BY <1>1, <1>3
<1>5. h[Head(line)].pc # "idle"
  BY <1>2, <1>3, <1>4 DEF Lined
<1>6. \A i \in 1..(Len(line) - 1) : i + 1 \in 1..Len(line) /\ line[i + 1] # line[1]
  BY <1>1, <1>4 DEF Lined
<1> QED
  BY <1>1, <1>2, <1>3, <1>4, <1>5, <1>6

\* ... and goes to its end, if it waits for another one.
LEMMA LinedAwait ==
    ASSUME h \in [Jobs -> Locals], Lined(h, line), line # <<>>, NEW q \in Locals,
           q.pc # "idle", Await(Head(line), q)
    PROVE  /\ Lined(h', line')
           /\ Len(line') = Len(line)
           /\ line'[Len(line)] = Head(line) /\ h'[Head(line)] = q
           /\ \A i \in 1..(Len(line) - 1) :
                line'[i] = line[i + 1] /\ h'[line[i + 1]] = h[line[i + 1]]
<1> DEFINE n == Len(line)
           j == Head(line)
<1>0. /\ j \in Jobs /\ j = line[1] /\ 1 \in 1..n /\ n \in Nat /\ h[j].pc # "idle"
      /\ Tail(line) \in Seq(Jobs) /\ Len(Tail(line)) = n - 1
      /\ \A i \in 1..(n - 1) : /\ Tail(line)[i] = line[i + 1] /\ i + 1 \in 1..n
                               /\ line[i + 1] # j /\ line[i + 1] \in Jobs
  BY LinedHead
<1>1. line' = Append(Tail(line), j) /\ h' = [h EXCEPT ![j] = q]
  BY DEF Await
<1> HIDE DEF j
<1>2. /\ line' \in Seq(Jobs) /\ Len(line') = (n - 1) + 1
      /\ line'[(n - 1) + 1] = j
      /\ \A i \in 1..(n - 1) : line'[i] = Tail(line)[i]
  BY <1>0, <1>1, AppendProperties
<1>3. n >= 1 /\ (n - 1) + 1 = n
  BY <1>0
<1>4. h'[j] = q /\ \A i \in 1..(n - 1) : line'[i] = line[i + 1] /\ h'[line[i + 1]] = h[line[i + 1]]
  BY <1>0, <1>1, <1>2
<1>5. \A i, k \in 1..n : line[i] = line[k] => i = k
  BY DEF Lined
<1> HIDE DEF n
<1>6. ASSUME NEW i \in 1..n, NEW k \in 1..n, line'[i] = line'[k] PROVE i = k
  <2>1. CASE i = n /\ k = n
    BY <2>1
  <2>2. CASE i # n /\ k # n
    <3>1. i \in 1..(n - 1) /\ k \in 1..(n - 1)
      BY <1>0, <2>2
    <3>2. line[i + 1] = line[k + 1] /\ i + 1 \in 1..n /\ k + 1 \in 1..n
      BY <1>0, <1>4, <1>6, <3>1
    <3> QED
      BY <1>0, <1>5, <3>2
  <2>3. CASE i # n /\ k = n
    <3>1. i \in 1..(n - 1)
      BY <1>0, <2>3
    <3> QED
      BY <1>0, <1>2, <1>3, <1>4, <1>6, <2>3, <3>1
  <2>4. CASE i = n /\ k # n
    <3>1. k \in 1..(n - 1)
      BY <1>0, <2>4
    <3> QED
      BY <1>0, <1>2, <1>3, <1>4, <1>6, <2>4, <3>1
  <2> QED
    BY <2>1, <2>2, <2>3, <2>4
<1>7. ASSUME NEW m \in Jobs PROVE h'[m].pc # "idle" <=> \E i \in 1..n : line'[i] = m
  <2>1. CASE m = j
    <3>1. n \in 1..n /\ line'[n] = j
      BY <1>0, <1>2, <1>3
    <3> QED
      BY <1>4, <2>1, <3>1
  <2>2. CASE m # j
    <3>1. h'[m] = h[m]
      BY <1>1, <2>2
    <3>2. h[m].pc # "idle" <=> \E i \in 1..n : line[i] = m
      BY DEF Lined, n
    <3>3. ASSUME NEW i \in 1..n, line[i] = m PROVE \E k \in 1..n : line'[k] = m
      <4>1. i - 1 \in 1..(n - 1)
        BY <1>0, <2>2, <3>3
      <4>2. line'[i - 1] = line[(i - 1) + 1] /\ (i - 1) + 1 = i /\ i - 1 \in 1..n
        BY <1>0, <1>4, <4>1
      <4> QED
        BY <3>3, <4>2
    <3>4. ASSUME NEW i \in 1..n, line'[i] = m PROVE \E k \in 1..n : line[k] = m
      <4>1. i \in 1..(n - 1)
        BY <1>0, <1>2, <1>3, <2>2, <3>4
      <4> QED
        BY <1>0, <1>4, <3>4, <4>1
    <3> QED
      BY <3>1, <3>2, <3>3, <3>4
  <2> QED
    BY <2>1, <2>2
<1>8. Len(line') = n
  BY <1>2, <1>3
<1> QED
  BY <1>2, <1>3, <1>4, <1>6, <1>7, <1>8 DEF Lined, n, j

\* ... or leaves it.
LEMMA LinedAnswer ==
    ASSUME h \in [Jobs -> Locals], Lined(h, line), line # <<>>, Answer(Head(line))
    PROVE  /\ Lined(h', line')
           /\ Len(line') = Len(line) - 1
           /\ h'[Head(line)] = Idle
           /\ \A i \in 1..(Len(line) - 1) :
                line'[i] = line[i + 1] /\ h'[line[i + 1]] = h[line[i + 1]]
<1> DEFINE n == Len(line)
           j == Head(line)
<1>0. /\ j \in Jobs /\ j = line[1] /\ 1 \in 1..n /\ n \in Nat
      /\ Tail(line) \in Seq(Jobs) /\ Len(Tail(line)) = n - 1
      /\ \A i \in 1..(n - 1) : /\ Tail(line)[i] = line[i + 1] /\ i + 1 \in 1..n
                               /\ line[i + 1] # j /\ line[i + 1] \in Jobs
  BY LinedHead
<1>1. line' = Tail(line) /\ h' = [h EXCEPT ![j] = Idle]
  BY DEF Answer
<1> HIDE DEF j
<1>2. \A i \in 1..(n - 1) : line'[i] = line[i + 1] /\ h'[line[i + 1]] = h[line[i + 1]]
  BY <1>0, <1>1
<1>3. \A i, k \in 1..n : line[i] = line[k] => i = k
  BY DEF Lined
<1> HIDE DEF n
<1>4. h'[j] = Idle
  BY <1>0, <1>1
<1>5. ASSUME NEW i \in 1..(n - 1), NEW k \in 1..(n - 1), line'[i] = line'[k] PROVE i = k
  <2>1. line[i + 1] = line[k + 1] /\ i + 1 \in 1..n /\ k + 1 \in 1..n
    BY <1>0, <1>2, <1>5
  <2> QED
    BY <1>0, <1>3, <2>1
<1>6. ASSUME NEW m \in Jobs PROVE h'[m].pc # "idle" <=> \E i \in 1..(n - 1) : line'[i] = m
  <2>1. CASE m = j
    BY <1>0, <1>2, <1>4, <2>1 DEF Idle
  <2>2. CASE m # j
    <3>1. h'[m] = h[m]
      BY <1>1, <2>2
    <3>2. h[m].pc # "idle" <=> \E i \in 1..n : line[i] = m
      BY DEF Lined, n
    <3>3. ASSUME NEW i \in 1..n, line[i] = m PROVE \E k \in 1..(n - 1) : line'[k] = m
      <4>1. i - 1 \in 1..(n - 1)
        BY <1>0, <2>2, <3>3
      <4>2. line'[i - 1] = line[(i - 1) + 1] /\ (i - 1) + 1 = i
        BY <1>0, <1>2, <4>1
      <4> QED
        BY <3>3, <4>1, <4>2
    <3>4. ASSUME NEW i \in 1..(n - 1), line'[i] = m PROVE \E k \in 1..n : line[k] = m
      BY <1>0, <1>2, <3>4
    <3> QED
      BY <3>1, <3>2, <3>3, <3>4
  <2> QED
    BY <2>1, <2>2
<1>7. line' \in Seq(Jobs) /\ Len(line') = n - 1
  BY <1>0, <1>1
<1> QED
  BY <1>2, <1>4, <1>5, <1>6, <1>7 DEF Lined, n, j

\* Then a request waits for one reply, or none.
LEMMA LinedOnce ==
    ASSUME Lined(h, line), NEW j \in Jobs
    PROVE  Cardinality({i \in DOMAIN line : line[i] = j}) = IF h[j].pc = "idle" THEN 0 ELSE 1
<1> DEFINE P == {i \in DOMAIN line : line[i] = j}
<1>1. DOMAIN line = 1..Len(line)
  BY DEF Lined
<1>2. CASE h[j].pc = "idle"
  <2>1. P = {}
    BY <1>1, <1>2 DEF Lined
  <2> QED
    BY <1>2, <2>1, FS_EmptySet
<1>3. CASE h[j].pc # "idle"
  <2>1. PICK i \in 1..Len(line) : line[i] = j
    BY <1>3 DEF Lined
  <2>2. P = {i}
    BY <1>1, <2>1 DEF Lined
  <2> QED
    BY <1>3, <2>2, FS_Singleton
<1> QED
  BY <1>2, <1>3

-----------------------------------------------------------------------------
(* Types.                                                                  *)

Paying == {"recorded", "indexed", "logged", "attested"}

Proper(q) == q \in Locals /\ (q.pc \in Paying => q.agent \in Agents /\ q.amount \in Amounts)

JobsOK == h \in [Jobs -> Locals] /\ (\A j \in Jobs : Proper(h[j])) /\ Lined(h, line)

Records == [count : Nat, total : Nat, first : 0..MaxTime, last : 0..MaxTime]

StoreOK ==
    /\ clock \in 0..MaxTime
    /\ rep \in [Agents -> Records]
    /\ index \in [Agents -> Nat]
    /\ payments \in Seq(Entries) /\ Len(payments) <= LogMax
    /\ logged \in Nat /\ missed \in Nat /\ volume \in Nat
    /\ attest \in [Agents -> Seq(Entries)]
    /\ torn \subseteq Agents
    /\ crashes \in 0..MaxCrashes

LEMMA IdleProper == Proper(Idle) /\ Idle.pc = "idle"
BY DEF Proper, Idle, Locals, Pcs, Paying

LEMMA JobsSend ==
    ASSUME JobsOK, NEW j \in Jobs, NEW q, Proper(q), q.pc # "idle", Send(j, q)
    PROVE  JobsOK'
<1>1. Lined(h', line')
  BY LinedSend DEF JobsOK, Proper
<1>2. h' = [h EXCEPT ![j] = q]
  BY DEF Send
<1>3. h' \in [Jobs -> Locals] /\ \A m \in Jobs : Proper(h'[m])
  BY <1>2 DEF JobsOK, Proper
<1> QED
  BY <1>1, <1>3 DEF JobsOK, Proper

LEMMA JobsAwait ==
    ASSUME JobsOK, line # <<>>, NEW q, Proper(q), q.pc # "idle", Await(Head(line), q)
    PROVE  JobsOK'
<1>1. Lined(h', line')
  BY LinedAwait DEF JobsOK, Proper
<1>2. h' = [h EXCEPT ![Head(line)] = q] /\ Head(line) \in Jobs
  BY LinedHead DEF Await, JobsOK
<1>3. h' \in [Jobs -> Locals] /\ \A m \in Jobs : Proper(h'[m])
  BY <1>2 DEF JobsOK, Proper
<1> QED
  BY <1>1, <1>3 DEF JobsOK, Proper

LEMMA JobsAnswer ==
    ASSUME JobsOK, line # <<>>, Answer(Head(line))
    PROVE  JobsOK'
<1>1. Lined(h', line')
  BY LinedAnswer DEF JobsOK
<1>2. h' = [h EXCEPT ![Head(line)] = Idle] /\ Head(line) \in Jobs
  BY LinedHead DEF Answer, JobsOK
<1>3. h' \in [Jobs -> Locals] /\ \A m \in Jobs : Proper(h'[m])
  BY <1>2, IdleProper DEF JobsOK, Proper
<1> QED
  BY <1>1, <1>3 DEF JobsOK, Proper

\* LPUSH puts an entry in front, LTRIM keeps those in front.
LEMMA PushedProperties ==
    ASSUME NEW log \in Seq(Entries), NEW e \in Entries
    PROVE  /\ Pushed(log, e) \in Seq(Entries)
           /\ Len(Pushed(log, e)) = Len(log) + 1
           /\ Pushed(log, e)[1] = e
           /\ \A i \in 2..(Len(log) + 1) : Pushed(log, e)[i] = log[i - 1] /\ i - 1 \in 1..Len(log)
<1>1. <<e>> \in Seq(Entries) /\ Len(<<e>>) = 1 /\ <<e>>[1] = e /\ Len(log) \in Nat
  OBVIOUS
<1>2. /\ <<e>> \o log \in Seq(Entries) /\ Len(<<e>> \o log) = 1 + Len(log)
      /\ \A i \in 1..(1 + Len(log)) : (<<e>> \o log)[i] = IF i <= 1 THEN <<e>>[i] ELSE log[i - 1]
  BY <1>1, ConcatProperties
<1> HIDE ReputationAssumption
<1> QED
  BY <1>1, <1>2 DEF Pushed

LEMMA TrimmedProperties ==
    ASSUME NEW log \in Seq(Entries)
    PROVE  /\ Trimmed(log) \in Seq(Entries)
           /\ Len(Trimmed(log)) = IF Len(log) > LogMax THEN LogMax ELSE Len(log)
           /\ \A i \in 1..Len(Trimmed(log)) : Trimmed(log)[i] = log[i] /\ i \in 1..Len(log)
<1>1. Len(log) \in Nat /\ LogMax \in Nat
  OBVIOUS
<1>2. CASE Len(log) > LogMax
  <2>1. \A i \in 1..LogMax : i \in 1..Len(log) /\ log[i] \in Entries
    BY <1>1, <1>2
  <2>2. /\ SubSeq(log, 1, LogMax) \in Seq(Entries)
        /\ Len(SubSeq(log, 1, LogMax)) = IF 1 <= LogMax THEN LogMax - 1 + 1 ELSE 0
        /\ \A i \in 1..(LogMax - 1 + 1) : SubSeq(log, 1, LogMax)[i] = log[1 + i - 1]
    BY <1>1, <2>1, SubSeqProperties
  <2>3. Trimmed(log) = SubSeq(log, 1, LogMax)
    BY <1>2 DEF Trimmed
  <2>4. Len(SubSeq(log, 1, LogMax)) = LogMax
    BY <1>1, <2>2
  <2>5. \A i \in 1..LogMax : SubSeq(log, 1, LogMax)[i] = log[i]
    BY <1>1, <2>2
  <2> QED
    BY <1>2, <2>1, <2>2, <2>3, <2>4, <2>5
<1>3. CASE ~(Len(log) > LogMax)
  BY <1>1, <1>3 DEF Trimmed
<1> QED
  BY <1>2, <1>3

LEMMA TypedInit == Init => JobsOK /\ StoreOK
<1> SUFFICES ASSUME Init PROVE JobsOK /\ StoreOK
  OBVIOUS
<1>1. h \in [Jobs -> Locals] /\ \A j \in Jobs : Proper(h[j]) /\ h[j].pc = "idle"
  BY IdleProper DEF Init, Proper
<1>2. Lined(h, line)
  <2>1. line = <<>> /\ Len(line) = 0
    BY DEF Init
  <2> QED
    BY <1>1, <2>1 DEF Lined
<1>3. rep \in [Agents -> Records]
  BY DEF Init, NoRecord, Records
<1>4. /\ index \in [Agents -> Nat] /\ payments \in Seq(Entries) /\ Len(payments) <= LogMax
      /\ attest \in [Agents -> Seq(Entries)]
  BY DEF Init
<1>5. clock \in 0..MaxTime /\ crashes \in 0..MaxCrashes
  BY DEF Init
<1>6. logged \in Nat /\ missed \in Nat /\ volume \in Nat /\ torn \subseteq Agents
  BY DEF Init
<1> QED
  BY <1>1, <1>2, <1>3, <1>4, <1>5, <1>6 DEF JobsOK, StoreOK

\* What a step of the payment of an agent sends.
LEMMA RecordType ==
    ASSUME JobsOK, StoreOK, NEW j \in Jobs, NEW a \in Agents, NEW amount \in Amounts,
           RecordPayment(j, a, amount)
    PROVE  JobsOK' /\ StoreOK'
<1> DEFINE q == [Idle EXCEPT !.pc = "recorded", !.agent = a, !.amount = amount,
                             !.count = rep[a].count + 1]
<1>1. rep[a] \in Records /\ clock \in 0..MaxTime
  BY DEF StoreOK
<1>2. amount \in Nat
  OBVIOUS
<1>3. Proper(q) /\ q.pc # "idle"
  <2> DEFINE n == rep[a].count + 1
             p == [Idle EXCEPT !.pc = "recorded", !.agent = a, !.amount = amount, !.count = n]
  <2>1. n \in Nat
    BY <1>1 DEF Records
  <2> HIDE DEF n
  <2>2. p \in Locals /\ p.pc = "recorded" /\ p.agent = a /\ p.amount = amount
    BY <1>2, <2>1, IdleProper DEF Proper, Locals, Pcs
  <2> QED
    BY <2>2 DEF Proper, n
<1>4. Send(j, q)
  BY DEF RecordPayment
<1> HIDE DEF q
<1>5. JobsOK'
  BY <1>3, <1>4, JobsSend
<1>6. rep' \in [Agents -> Records]
  <2>1. [count |-> rep[a].count + 1, total |-> rep[a].total + amount,
         first |-> IF rep[a].count = 0 THEN clock ELSE rep[a].first, last |-> clock] \in Records
    BY <1>1, <1>2 DEF Records
  <2> QED
    BY <2>1 DEF RecordPayment, StoreOK
<1> QED
  BY <1>5, <1>6 DEF RecordPayment, StoreOK

\* What the handling of the next reply leaves.
LEMMA ContinueType ==
    ASSUME JobsOK, StoreOK, Continue
    PROVE  JobsOK' /\ StoreOK'
<1> DEFINE j == Head(line)
<1>1. line # <<>> /\ j \in Jobs
  BY LinedHead DEF Continue, JobsOK
<1>2. Proper(h[j]) /\ h[j] \in Locals
  BY <1>1 DEF JobsOK
<1>3. clock \in 0..MaxTime
  BY DEF StoreOK
<1>j. j = Head(line)
  OBVIOUS
<1> HIDE DEF j
<1>4. CASE RecordedReply(j)
  <2> DEFINE q == [h[j] EXCEPT !.pc = "indexed"]
  <2>1. Proper(q) /\ q.pc # "idle"
    BY <1>2, <1>4 DEF RecordedReply, Proper, Locals, Pcs, Paying
  <2>2. Await(Head(line), q)
    BY <1>4, <1>j DEF RecordedReply
  <2> HIDE DEF q
  <2>3. JobsOK'
    BY <1>1, <2>1, <2>2, JobsAwait
  <2>4. h[j].agent \in Agents /\ h[j].count \in Nat
    BY <1>2, <1>4 DEF RecordedReply, Proper, Locals, Paying
  <2> QED
    BY <1>4, <2>3, <2>4 DEF RecordedReply, StoreOK, Indexed
<1>5. CASE IndexedReply(j)
  <2> DEFINE q == [h[j] EXCEPT !.pc = "logged", !.stamp = clock]
             e == [ts |-> clock, amount |-> h[j].amount]
  <2>1. Proper(q) /\ q.pc # "idle"
    BY <1>2, <1>3, <1>5 DEF IndexedReply, Proper, Locals, Pcs, Paying
  <2>2. Await(Head(line), q)
    BY <1>5, <1>j DEF IndexedReply
  <2> HIDE DEF q
  <2>3. JobsOK'
    BY <1>1, <2>1, <2>2, JobsAwait
  <2>4. e \in Entries
    BY <1>2, <1>3, <1>5 DEF IndexedReply, Proper, Paying, Entries
  <2>5. payments' = Trimmed(Pushed(payments, e))
    BY <1>5 DEF IndexedReply
  <2> HIDE DEF e
  <2>6. payments' \in Seq(Entries) /\ Len(payments') <= LogMax
    <3>1. Pushed(payments, e) \in Seq(Entries)
      BY <2>4, PushedProperties DEF StoreOK
    <3>2. Len(Pushed(payments, e)) \in Nat
      BY <3>1
    <3> QED
      BY <2>5, <3>1, <3>2, TrimmedProperties
  <2>7. logged' \in Nat
    <3>1. logged' = logged + 1 /\ logged \in Nat
      BY <1>5 DEF IndexedReply, StoreOK
    <3> QED
      BY <3>1
  <2> QED
    BY <1>5, <2>3, <2>6, <2>7 DEF IndexedReply, StoreOK
<1>6. CASE LoggedReply(j)
  <2> DEFINE q == [h[j] EXCEPT !.pc = "attested"]
             e == [ts |-> h[j].stamp, amount |-> h[j].amount]
             a == h[j].agent
  <2>1. Proper(q) /\ q.pc # "idle"
    BY <1>2, <1>6 DEF LoggedReply, Proper, Locals, Pcs, Paying
  <2>2. Await(Head(line), q)
    BY <1>6, <1>j DEF LoggedReply
  <2> HIDE DEF q
  <2>3. JobsOK'
    BY <1>1, <2>1, <2>2, JobsAwait
  <2>4. e \in Entries /\ a \in Agents
    BY <1>2, <1>6 DEF LoggedReply, Proper, Paying, Entries, Locals
  <2>5. attest' = [attest EXCEPT ![a] = Pushed(attest[a], e)] /\ attest \in [Agents -> Seq(Entries)]
    BY <1>6 DEF LoggedReply, StoreOK
  <2> HIDE DEF e, a
  <2>6. attest' \in [Agents -> Seq(Entries)]
    <3>1. attest[a] \in Seq(Entries)
      BY <2>4, <2>5
    <3>2. Pushed(attest[a], e) \in Seq(Entries)
      BY <2>4, <3>1, PushedProperties
    <3> QED
      BY <2>5, <3>2
  <2> QED
    BY <1>6, <2>3, <2>6 DEF LoggedReply, StoreOK
<1>7. CASE AttestedReply(j)
  <2> DEFINE q == [h[j] EXCEPT !.pc = "trimmed"]
             a == h[j].agent
  <2>1. Proper(q) /\ q.pc # "idle"
    BY <1>2, <1>7 DEF AttestedReply, Proper, Locals, Pcs, Paying
  <2>2. Await(Head(line), q)
    BY <1>7, <1>j DEF AttestedReply
  <2> HIDE DEF q
  <2>3. JobsOK'
    BY <1>1, <2>1, <2>2, JobsAwait
  <2>4. a \in Agents
    BY <1>2, <1>7 DEF AttestedReply, Proper, Paying
  <2>5. attest' = [attest EXCEPT ![a] = Trimmed(attest[a])] /\ attest \in [Agents -> Seq(Entries)]
    BY <1>7 DEF AttestedReply, StoreOK
  <2> HIDE DEF a
  <2>6. attest' \in [Agents -> Seq(Entries)]
    <3>1. attest[a] \in Seq(Entries)
      BY <2>4, <2>5
    <3>2. Trimmed(attest[a]) \in Seq(Entries)
      BY <3>1, TrimmedProperties
    <3> QED
      BY <2>5, <3>2
  <2> QED
    BY <1>7, <2>3, <2>6 DEF AttestedReply, StoreOK
<1>8. CASE TrimmedReply(j) \/ SavedReply(j)
  <2>1. Answer(Head(line)) /\ UNCHANGED <<clock, storeVars, torn, missed, crashes>>
    BY <1>8, <1>j DEF TrimmedReply, SavedReply
  <2> QED
    BY <1>1, <2>1, JobsAnswer DEF StoreOK, storeVars
<1>9. CASE VolumeReply(j)
  <2> DEFINE q == [h[j] EXCEPT !.pc = "adding", !.left = {a \in Agents : index[a] > 0}]
  <2>1. Proper(q) /\ q.pc # "idle"
    BY <1>2, <1>9 DEF VolumeReply, Proper, Locals, Pcs, Paying
  <2>2. Answer(Head(line)) \/ Await(Head(line), q)
    BY <1>9, <1>j DEF VolumeReply
  <2> HIDE DEF q
  <2>3. JobsOK'
    BY <1>1, <2>1, <2>2, JobsAwait, JobsAnswer
  <2> QED
    BY <1>9, <2>3 DEF VolumeReply, StoreOK, storeVars
<1>10. CASE AddNext(j)
  <2>1. PICK a \in h[j].left : Await(j, [h[j] EXCEPT !.left = @ \ {a}, !.sum = @ + rep[a].total])
    BY <1>10 DEF AddNext
  <2> DEFINE q == [h[j] EXCEPT !.left = h[j].left \ {a}, !.sum = h[j].sum + rep[a].total]
  <2>2. a \in Agents /\ rep[a].total \in Nat
    BY <1>2, <2>1 DEF Locals, StoreOK, Records
  <2>3. Proper(q) /\ q.pc # "idle"
    <3>1. h[j].sum + rep[a].total \in Nat
      BY <1>2, <2>2 DEF Locals
    <3>2. q \in Locals /\ q.pc = "adding"
      <4> DEFINE t == h[j].sum + rep[a].total
      <4>1. t \in Nat /\ h[j] \in Locals /\ h[j].pc = "adding"
        BY <1>2, <1>10, <3>1 DEF AddNext
      <4> HIDE DEF t
      <4>2. [h[j] EXCEPT !.left = h[j].left \ {a}, !.sum = t] \in Locals
        BY <4>1 DEF Locals
      <4>3. [h[j] EXCEPT !.left = h[j].left \ {a}, !.sum = t].pc = "adding"
        BY <4>1 DEF Locals
      <4> QED
        BY <4>2, <4>3 DEF t
    <3> HIDE DEF q
    <3> QED
      BY <3>2 DEF Proper, Paying
  <2>4. Await(Head(line), q)
    BY <2>1, <1>j
  <2> HIDE DEF q
  <2>5. JobsOK'
    BY <1>1, <2>3, <2>4, JobsAwait
  <2> QED
    BY <1>10, <2>5 DEF AddNext, StoreOK, storeVars
<1>11. CASE SaveVolume(j)
  <2> DEFINE q == [h[j] EXCEPT !.pc = "saved"]
  <2>1. Proper(q) /\ q.pc # "idle"
    BY <1>2, <1>11 DEF SaveVolume, Proper, Locals, Pcs, Paying
  <2>2. Answer(Head(line)) \/ Await(Head(line), q)
    BY <1>11, <1>j DEF SaveVolume
  <2> HIDE DEF q
  <2>3. JobsOK'
    BY <1>1, <2>1, <2>2, JobsAwait, JobsAnswer
  <2>4. volume' \in Nat
    BY <1>2, <1>11 DEF SaveVolume, Saved, Locals, StoreOK
  <2> QED
    BY <1>11, <2>3, <2>4 DEF SaveVolume, StoreOK
<1> QED
  BY <1>4, <1>5, <1>6, <1>7, <1>8, <1>9, <1>10, <1>11, <1>j DEF Continue

LEMMA TypedStep == JobsOK /\ StoreOK /\ [Next]_vars => JobsOK' /\ StoreOK'
<1> SUFFICES ASSUME JobsOK, StoreOK, [Next]_vars PROVE JobsOK' /\ StoreOK'
  OBVIOUS
<1>1. ASSUME NEW j \in Jobs, NEW a \in Agents, NEW amount \in Amounts, RecordPayment(j, a, amount)
      PROVE  JobsOK' /\ StoreOK'
  BY <1>1, RecordType
<1>2. ASSUME NEW j \in Jobs, AskVolume(j) PROVE JobsOK' /\ StoreOK'
  <2> DEFINE q == [Idle EXCEPT !.pc = "volume", !.sum = volume]
  <2>1. Proper(q) /\ q.pc # "idle"
    <3>1. volume \in Nat
      BY DEF StoreOK
    <3>2. q \in Locals /\ q.pc = "volume"
      BY <3>1, IdleProper DEF Proper, Locals, Pcs
    <3> HIDE DEF q
    <3> QED
      BY <3>2 DEF Proper, Paying
  <2>2. Send(j, q) /\ UNCHANGED <<clock, storeVars, torn, missed, crashes>>
    BY <1>2 DEF AskVolume
  <2> HIDE DEF q
  <2> QED
    BY <2>1, <2>2, JobsSend DEF StoreOK, storeVars
<1>3. CASE Continue
  BY <1>3, ContinueType
<1>4. CASE Tick
  <2>1. clock' \in 0..MaxTime
    BY <1>4 DEF Tick, StoreOK
  <2> QED
    BY <1>4, <2>1 DEF Tick, JobsOK, StoreOK, storeVars
<1>5. CASE Crash
  <2>1. line' = <<>> /\ h' = [j \in Jobs |-> Idle]
    BY <1>5 DEF Crash
  <2>2. \A j \in Jobs : Proper(h'[j]) /\ h'[j].pc = "idle"
    BY <2>1, IdleProper
  <2>3. h' \in [Jobs -> Locals]
    BY <2>1, IdleProper DEF Proper
  <2>4. Lined(h', line')
    <3>1. line' \in Seq(Jobs) /\ Len(line') = 0
      BY <2>1
    <3> QED
      BY <2>2, <3>1 DEF Lined
  <2>5. crashes' \in 0..MaxCrashes
    BY <1>5 DEF Crash, StoreOK
  <2>6. missed' \in Nat
    <3>1. IsFiniteSet({j \in Jobs : h[j].pc \in {"recorded", "indexed"}})
      BY FS_Subset
    <3> QED
      BY <1>5, <3>1, FS_CardinalityType DEF Crash, StoreOK
  <2>7. torn' \subseteq Agents
    BY <1>5 DEF Crash, StoreOK, JobsOK, Proper, Paying
  <2> QED
    BY <1>5, <2>2, <2>3, <2>4, <2>5, <2>6, <2>7 DEF Crash, JobsOK, StoreOK, storeVars
<1>6. CASE UNCHANGED vars
  BY <1>6 DEF vars, JobsOK, StoreOK, storeVars
<1> QED
  BY <1>1, <1>2, <1>3, <1>4, <1>5, <1>6 DEF Next

LEMMA Typing == Spec => [](JobsOK /\ StoreOK)
BY TypedInit, TypedStep, PTL DEF Spec

\* What the handling of a reply does to the request that waited for it, and
\* what it leaves alone.
LEMMA Moves ==
    ASSUME JobsOK, StoreOK, Continue
    PROVE  /\ line # <<>> /\ Head(line) \in Jobs
           /\ UNCHANGED <<clock, rep, missed, crashes>>
           /\ \/ /\ Answer(Head(line))
                 /\ h[Head(line)].pc \in {"trimmed", "volume", "adding", "saved"}
              \/ \E q \in Locals :
                   /\ Await(Head(line), q)
                   /\ q.pc \notin {"idle", "recorded"}
                   /\ q.agent = h[Head(line)].agent /\ q.count = h[Head(line)].count
                   /\ q.pc = "logged" => q.stamp = clock /\ h[Head(line)].pc = "indexed"
                   /\ q.pc = "indexed" => h[Head(line)].pc = "recorded"
<1> DEFINE j == Head(line)
<1>1. line # <<>> /\ j \in Jobs
  BY LinedHead DEF Continue, JobsOK
<1>2. h[j] \in Locals
  BY <1>1 DEF JobsOK
<1>3. clock \in 0..MaxTime /\ rep \in [Agents -> Records]
  BY DEF StoreOK
<1>j. j = Head(line)
  OBVIOUS
<1> HIDE DEF j
<1>4. CASE RecordedReply(j)
  <2> DEFINE q == [h[j] EXCEPT !.pc = "indexed"]
  <2>1. q \in Locals /\ q.pc = "indexed" /\ q.agent = h[j].agent /\ q.count = h[j].count
    BY <1>2 DEF Locals, Pcs
  <2>2. Await(j, q) /\ UNCHANGED <<clock, rep, missed, crashes>> /\ h[j].pc = "recorded"
    BY <1>4 DEF RecordedReply
  <2> QED
    BY <1>1, <1>j, <2>1, <2>2
<1>5. CASE IndexedReply(j)
  <2> DEFINE q == [h[j] EXCEPT !.pc = "logged", !.stamp = clock]
  <2>1. q \in Locals /\ q.pc = "logged" /\ q.agent = h[j].agent /\ q.count = h[j].count /\ q.stamp = clock
    BY <1>2, <1>3 DEF Locals, Pcs
  <2>2. Await(j, q) /\ UNCHANGED <<clock, rep, missed, crashes>> /\ h[j].pc = "indexed"
    BY <1>5 DEF IndexedReply
  <2> QED
    BY <1>1, <1>j, <2>1, <2>2
<1>6. CASE LoggedReply(j)
  <2> DEFINE q == [h[j] EXCEPT !.pc = "attested"]
  <2>1. q \in Locals /\ q.pc = "attested" /\ q.agent = h[j].agent /\ q.count = h[j].count
    BY <1>2 DEF Locals, Pcs
  <2>2. Await(j, q) /\ UNCHANGED <<clock, rep, missed, crashes>>
    BY <1>6 DEF LoggedReply
  <2> QED
    BY <1>1, <1>j, <2>1, <2>2
<1>7. CASE AttestedReply(j)
  <2> DEFINE q == [h[j] EXCEPT !.pc = "trimmed"]
  <2>1. q \in Locals /\ q.pc = "trimmed" /\ q.agent = h[j].agent /\ q.count = h[j].count
    BY <1>2 DEF Locals, Pcs
  <2>2. Await(j, q) /\ UNCHANGED <<clock, rep, missed, crashes>>
    BY <1>7 DEF AttestedReply
  <2> QED
    BY <1>1, <1>j, <2>1, <2>2
<1>8. CASE TrimmedReply(j) \/ SavedReply(j)
  BY <1>1, <1>8, <1>j DEF TrimmedReply, SavedReply, storeVars
<1>9. CASE VolumeReply(j)
  <2> DEFINE q == [h[j] EXCEPT !.pc = "adding", !.left = {a \in Agents : index[a] > 0}]
  <2>1. q \in Locals /\ q.pc = "adding" /\ q.agent = h[j].agent /\ q.count = h[j].count
    BY <1>2 DEF Locals, Pcs
  <2>2. h[j].pc = "volume" /\ UNCHANGED <<clock, rep, missed, crashes>>
    BY <1>9 DEF VolumeReply, storeVars
  <2>3. Answer(j) \/ Await(j, q)
    BY <1>9 DEF VolumeReply
  <2> HIDE DEF q
  <2> QED
    BY <1>1, <1>j, <2>1, <2>2, <2>3
<1>10. CASE AddNext(j)
  <2>1. PICK a \in h[j].left : Await(j, [h[j] EXCEPT !.left = @ \ {a}, !.sum = @ + rep[a].total])
    BY <1>10 DEF AddNext
  <2> DEFINE t == h[j].sum + rep[a].total
             q == [h[j] EXCEPT !.left = h[j].left \ {a}, !.sum = t]
  <2>2. t \in Nat /\ h[j].pc = "adding"
    BY <1>2, <1>3, <1>10, <2>1 DEF Locals, Records, AddNext
  <2>3. Await(j, q) /\ UNCHANGED <<clock, rep, missed, crashes>>
    BY <1>10, <2>1 DEF AddNext, storeVars
  <2> HIDE DEF t
  <2>4. q \in Locals /\ q.pc = "adding" /\ q.agent = h[j].agent /\ q.count = h[j].count
    BY <1>2, <2>2 DEF Locals, Pcs
  <2> HIDE DEF q
  <2> QED
    BY <1>1, <1>j, <2>3, <2>4
<1>11. CASE SaveVolume(j)
  <2> DEFINE q == [h[j] EXCEPT !.pc = "saved"]
  <2>1. q \in Locals /\ q.pc = "saved" /\ q.agent = h[j].agent /\ q.count = h[j].count
    BY <1>2 DEF Locals, Pcs
  <2>2. h[j].pc = "adding" /\ UNCHANGED <<clock, rep, missed, crashes>>
    BY <1>11 DEF SaveVolume
  <2>3. Answer(j) \/ Await(j, q)
    BY <1>11 DEF SaveVolume
  <2> HIDE DEF q
  <2> QED
    BY <1>1, <1>j, <2>1, <2>2, <2>3
<1> QED
  BY <1>4, <1>5, <1>6, <1>7, <1>8, <1>9, <1>10, <1>11, <1>j DEF Continue

\* Which requests a step can move: the one that starts, or the one whose reply
\* is handled.
LEMMA Starts ==
    ASSUME JobsOK, StoreOK, NEW j \in Jobs
    PROVE  /\ \A a \in Agents, amount \in Amounts : RecordPayment(j, a, amount) =>
                \E q \in Locals : /\ q.pc = "recorded" /\ q.agent = a /\ q.count = rep[a].count + 1
                                  /\ q.left = {} /\ q.sum = 0 /\ Send(j, q)
           /\ AskVolume(j) => \E q \in Locals : q.pc = "volume" /\ q.sum = volume /\ q.count = 0 /\ Send(j, q)
<1>1. ASSUME NEW a \in Agents, NEW amount \in Amounts, RecordPayment(j, a, amount)
      PROVE  \E q \in Locals : /\ q.pc = "recorded" /\ q.agent = a /\ q.count = rep[a].count + 1
                               /\ q.left = {} /\ q.sum = 0 /\ Send(j, q)
  <2> DEFINE n == rep[a].count + 1
             q == [Idle EXCEPT !.pc = "recorded", !.agent = a, !.amount = amount, !.count = n]
  <2>1. n \in Nat /\ amount \in Nat
    BY DEF StoreOK, Records
  <2>2. Send(j, q)
    BY <1>1 DEF RecordPayment
  <2>n. n = rep[a].count + 1
    OBVIOUS
  <2> HIDE DEF n
  <2>3. q \in Locals
    BY <2>1, IdleProper DEF Proper, Locals, Pcs
  <2>4. q.pc = "recorded" /\ q.agent = a /\ q.count = n /\ q.left = {} /\ q.sum = 0
    <3>1. Idle \in Locals /\ Idle.left = {} /\ Idle.sum = 0
      BY IdleProper DEF Proper, Idle
    <3> QED
      BY <3>1 DEF Locals
  <2> HIDE DEF q
  <2> QED
    BY <2>2, <2>3, <2>4, <2>n
<1>2. ASSUME AskVolume(j)
      PROVE  \E q \in Locals : q.pc = "volume" /\ q.sum = volume /\ q.count = 0 /\ Send(j, q)
  <2> DEFINE q == [Idle EXCEPT !.pc = "volume", !.sum = volume]
  <2>1. volume \in Nat
    BY DEF StoreOK
  <2>2. Idle \in Locals /\ Idle.count = 0
    BY IdleProper DEF Proper, Idle
  <2>3. q \in Locals /\ q.pc = "volume" /\ q.sum = volume /\ q.count = 0
    BY <2>1, <2>2 DEF Locals, Pcs
  <2>4. Send(j, q)
    BY <1>2 DEF AskVolume
  <2> HIDE DEF q
  <2> QED
    BY <2>3, <2>4
<1> QED
  BY <1>1, <1>2

-----------------------------------------------------------------------------
(* Nobody has more attestations, written or on their way, than payments.   *)

Pending(a) == {j \in Jobs : h[j].pc \in {"recorded", "indexed", "logged"} /\ h[j].agent = a}

CountInv == \A a \in Agents : Len(attest[a]) + Cardinality(Pending(a)) <= rep[a].count

\* One request moves at a time: what it leaves a set by, the set loses.
LEMMA Fewer ==
    ASSUME NEW S \in SUBSET Jobs, NEW T \in SUBSET Jobs
    PROVE  /\ IsFiniteSet(S) /\ Cardinality(S) \in Nat
           /\ S \subseteq T => Cardinality(S) <= Cardinality(T)
           /\ \A j \in S : T = S \ {j} => Cardinality(T) = Cardinality(S) - 1
           /\ \A j \in Jobs \ S : T = S \cup {j} => Cardinality(T) = Cardinality(S) + 1
<1>1. IsFiniteSet(S) /\ IsFiniteSet(T)
  BY FS_Subset
<1>2. Cardinality(S) \in Nat
  BY <1>1, FS_CardinalityType
<1>3. S \subseteq T => Cardinality(S) <= Cardinality(T)
  BY <1>1, FS_Subset
<1>4. \A j \in S : Cardinality(S \ {j}) = Cardinality(S) - 1
  BY <1>1, FS_RemoveElement
<1>5. \A j \in Jobs \ S : Cardinality(S \cup {j}) = Cardinality(S) + 1
  BY <1>1, FS_AddElement
<1> QED
  BY <1>1, <1>2, <1>3, <1>4, <1>5

LEMMA CountInit == Init => CountInv
<1> SUFFICES ASSUME Init, NEW a \in Agents PROVE Len(attest[a]) + Cardinality(Pending(a)) <= rep[a].count
  BY DEF CountInv
<1>1. Pending(a) = {}
  BY DEF Init, Pending, Idle
<1>2. Len(attest[a]) = 0 /\ rep[a].count = 0
  BY DEF Init, NoRecord
<1> QED
  BY <1>1, <1>2, FS_EmptySet

LEMMA CountContinue ==
    ASSUME JobsOK, StoreOK, CountInv, Continue
    PROVE  CountInv'
<1> DEFINE j == Head(line)
<1>1. /\ j \in Jobs /\ rep' = rep
      /\ \/ Answer(j) /\ h[j].pc \in {"trimmed", "volume", "adding", "saved"}
         \/ \E q \in Locals :
              /\ Await(j, q)
              /\ q.pc \notin {"idle", "recorded"}
              /\ q.agent = h[j].agent /\ q.count = h[j].count
              /\ q.pc = "logged" => q.stamp = clock /\ h[j].pc = "indexed"
              /\ q.pc = "indexed" => h[j].pc = "recorded"
  BY Moves
<1>j. j = Head(line)
  OBVIOUS
<1> HIDE DEF j
<1>2. h \in [Jobs -> Locals] /\ attest \in [Agents -> Seq(Entries)] /\ rep \in [Agents -> Records]
  BY DEF JobsOK, StoreOK
<1> SUFFICES ASSUME NEW a \in Agents
             PROVE  Len(attest'[a]) + Cardinality(Pending(a)') <= rep'[a].count
  BY DEF CountInv
<1>3. Pending(a) \in SUBSET Jobs /\ Pending(a)' \in SUBSET Jobs
  BY DEF Pending
<1>4. Len(attest[a]) + Cardinality(Pending(a)) <= rep[a].count /\ attest[a] \in Seq(Entries)
  BY <1>2 DEF CountInv
<1>5. Cardinality(Pending(a)) \in Nat /\ Cardinality(Pending(a)') \in Nat /\ rep[a].count \in Nat
  BY <1>2, <1>3, Fewer DEF Records
<1>6. CASE LoggedReply(j)
  <2>1. h' = [h EXCEPT ![j].pc = "attested"] /\ h[j].pc = "logged"
    BY <1>6 DEF LoggedReply, Await
  <2>2. CASE h[j].agent = a
    <3>1. Pending(a)' = Pending(a) \ {j} /\ j \in Pending(a)
      BY <1>1, <1>2, <2>1, <2>2 DEF Pending, Locals
    <3>2. Cardinality(Pending(a)') = Cardinality(Pending(a)) - 1
      BY <1>3, <3>1, Fewer
    <3>3. Len(attest'[a]) = Len(attest[a]) + 1
      <4> DEFINE e == [ts |-> h[j].stamp, amount |-> h[j].amount]
      <4>1. e \in Entries
        BY <1>1, <2>1 DEF JobsOK, Proper, Paying, Locals, Entries
      <4>2. attest'[a] = Pushed(attest[a], e)
        BY <1>2, <1>6, <2>2 DEF LoggedReply
      <4> HIDE DEF e
      <4> QED
        BY <1>4, <4>1, <4>2, PushedProperties
    <3> QED
      BY <1>1, <1>4, <1>5, <3>2, <3>3
  <2>3. CASE h[j].agent # a
    <3>1. Pending(a)' = Pending(a)
      BY <1>1, <1>2, <2>1, <2>3 DEF Pending, Locals
    <3>2. attest'[a] = attest[a]
      BY <1>2, <1>6, <2>3 DEF LoggedReply
    <3> QED
      BY <1>1, <1>4, <3>1, <3>2
  <2> QED
    BY <2>2, <2>3
<1>7. CASE ~ LoggedReply(j)
  <2>1. Len(attest'[a]) <= Len(attest[a]) /\ Len(attest'[a]) \in Nat
    <3>1. CASE attest' = attest
      BY <1>4, <3>1
    <3>2. CASE AttestedReply(j)
      <4>1. attest'[a] = attest[a] \/ attest'[a] = Trimmed(attest[a])
        BY <1>2, <3>2 DEF AttestedReply
      <4>2. Len(Trimmed(attest[a])) = IF Len(attest[a]) > LogMax THEN LogMax ELSE Len(attest[a])
        BY <1>4, TrimmedProperties
      <4> QED
        BY <1>4, <4>1, <4>2
    <3>3. attest' = attest \/ AttestedReply(j)
      BY <1>7, <1>j DEF Continue, RecordedReply, IndexedReply, LoggedReply, TrimmedReply,
                        VolumeReply, AddNext, SaveVolume, SavedReply, storeVars
    <3> QED
      BY <3>1, <3>2, <3>3
  <2>2. Pending(a)' \subseteq Pending(a)
    <3>1. CASE Answer(j)
      BY <1>1, <1>2, <3>1 DEF Answer, Idle, Pending
    <3>2. ASSUME NEW q \in Locals, Await(j, q), q.agent = h[j].agent,
                 q.pc \in {"recorded", "indexed", "logged"} =>
                   h[j].pc \in {"recorded", "indexed", "logged"}
          PROVE  Pending(a)' \subseteq Pending(a)
      BY <1>1, <1>2, <3>2 DEF Await, Pending
    <3> QED
      BY <1>1, <3>1, <3>2
  <2>3. Cardinality(Pending(a)') <= Cardinality(Pending(a))
    BY <1>3, <2>2, Fewer
  <2> DEFINE l == Len(attest[a])
             c == Cardinality(Pending(a))
             m == Len(attest'[a])
             d == Cardinality(Pending(a)')
             n == rep[a].count
  <2>4. l \in Nat /\ c \in Nat /\ m \in Nat /\ d \in Nat /\ n \in Nat
    BY <1>4, <1>5, <2>1
  <2>5. m <= l /\ d <= c /\ l + c <= n /\ rep'[a].count = n
    BY <1>1, <1>4, <2>1, <2>3
  <2> HIDE DEF l, c, m, d, n
  <2>6. m + d <= n
    BY <2>4, <2>5
  <2> QED
    BY <2>5, <2>6 DEF m, d
<1> QED
  BY <1>6, <1>7

LEMMA CountStep ==
    ASSUME JobsOK, StoreOK, CountInv, [Next]_vars
    PROVE  CountInv'
<1>0. h \in [Jobs -> Locals] /\ attest \in [Agents -> Seq(Entries)] /\ rep \in [Agents -> Records]
  BY DEF JobsOK, StoreOK
<1>1. ASSUME NEW a \in Agents PROVE /\ Pending(a) \in SUBSET Jobs /\ Pending(a)' \in SUBSET Jobs
                                    /\ Len(attest[a]) \in Nat /\ rep[a].count \in Nat
                                    /\ Len(attest[a]) + Cardinality(Pending(a)) <= rep[a].count
  BY <1>0, <1>1 DEF Pending, Records, CountInv
<1>2. ASSUME NEW j \in Jobs, NEW a \in Agents, NEW amount \in Amounts, RecordPayment(j, a, amount)
      PROVE  CountInv'
  <2>1. PICK q \in Locals : q.pc = "recorded" /\ q.agent = a /\ Send(j, q)
    BY <1>2, Starts
  <2>2. h' = [h EXCEPT ![j] = q] /\ h[j].pc = "idle"
    BY <2>1 DEF Send
  <2>3. attest' = attest /\ rep'[a].count = rep[a].count + 1 /\ \A b \in Agents \ {a} : rep'[b] = rep[b]
    BY <1>0, <1>2 DEF RecordPayment
  <2>4. ASSUME NEW b \in Agents, b # a PROVE Pending(b)' = Pending(b)
    BY <1>0, <2>1, <2>2, <2>4 DEF Pending
  <2>5. Pending(a)' = Pending(a) \cup {j} /\ j \notin Pending(a)
    BY <1>0, <2>1, <2>2 DEF Pending
  <2>6. Cardinality(Pending(a)') = Cardinality(Pending(a)) + 1 /\ Cardinality(Pending(a)) \in Nat
    BY <1>1, <2>5, Fewer
  <2> SUFFICES ASSUME NEW b \in Agents
               PROVE  Len(attest'[b]) + Cardinality(Pending(b)') <= rep'[b].count
    BY DEF CountInv
  <2>7. CASE b = a
    <3> DEFINE l == Len(attest[a])
               c == Cardinality(Pending(a))
               n == rep[a].count
    <3>1. l \in Nat /\ n \in Nat /\ c \in Nat /\ l + c <= n
      BY <1>1, <2>6
    <3>2. Len(attest'[a]) = l /\ Cardinality(Pending(a)') = c + 1 /\ rep'[a].count = n + 1
      BY <2>3, <2>6
    <3> HIDE DEF l, c, n
    <3>3. l + (c + 1) <= n + 1
      BY <3>1
    <3> QED
      BY <2>7, <3>2, <3>3
  <2>8. CASE b # a
    BY <1>1, <2>3, <2>4, <2>8
  <2> QED
    BY <2>7, <2>8
<1>3. ASSUME NEW j \in Jobs, AskVolume(j) PROVE CountInv'
  <2>1. PICK q \in Locals : q.pc = "volume" /\ Send(j, q)
    BY <1>3, Starts
  <2>2. h' = [h EXCEPT ![j] = q] /\ h[j].pc = "idle"
    BY <2>1 DEF Send
  <2>3. \A b \in Agents : Pending(b)' = Pending(b)
    BY <1>0, <2>1, <2>2 DEF Pending
  <2> QED
    BY <1>3, <2>3 DEF CountInv, AskVolume, storeVars
<1>4. CASE Continue
  BY <1>4, CountContinue
<1>5. CASE Tick
  BY <1>5 DEF Tick, CountInv, Pending, storeVars
<1>6. CASE Crash
  <2> SUFFICES ASSUME NEW a \in Agents
               PROVE  Len(attest'[a]) + Cardinality(Pending(a)') <= rep'[a].count
    BY DEF CountInv
  <2>1. Pending(a)' = {}
    BY <1>6 DEF Crash, Pending, Idle
  <2>2. Cardinality(Pending(a)') = 0 /\ Cardinality(Pending(a)) \in Nat
    BY <1>1, <2>1, FS_EmptySet, Fewer
  <2> QED
    BY <1>1, <1>6, <2>2 DEF Crash, storeVars
<1>7. CASE UNCHANGED vars
  BY <1>7 DEF vars, CountInv, Pending, storeVars
<1> QED
  BY <1>2, <1>3, <1>4, <1>5, <1>6, <1>7 DEF Next

LEMMA Counting == Spec => [](JobsOK /\ StoreOK /\ CountInv)
BY TypedInit, TypedStep, CountInit, CountStep, PTL DEF Spec

\* The records are not behind the logs, so a flag rests on as many payments.
LEMMA EarnedBy == JobsOK /\ StoreOK /\ CountInv => FlagsAreEarned
<1> SUFFICES ASSUME JobsOK, StoreOK, CountInv, NEW a \in Agents,
                    FraudFlags(Attestations(a), rep[a], clock) # {}
             PROVE  rep[a].count >= Many
  BY DEF FlagsAreEarned
<1> DEFINE log == Attestations(a)
<1>1. attest[a] \in Seq(Entries) /\ rep[a].count \in Nat
  BY DEF StoreOK, Records
<1>2. Len(log) <= Len(attest[a]) /\ log \in Seq(Entries)
  BY <1>1, TrimmedProperties DEF Attestations
<1>3. Len(attest[a]) <= rep[a].count
  <2>1. Pending(a) \in SUBSET Jobs
    BY DEF Pending
  <2>2. Cardinality(Pending(a)) \in Nat
    BY <2>1, Fewer
  <2> QED
    BY <1>1, <2>2 DEF CountInv
<1>4. Many <= Len(log)
  <2> HIDE DEF log
  <2>1. CASE DormantRevival(log, rep[a], clock)
    BY <1>2, <2>1 DEF DormantRevival
  <2>2. CASE WashPaymentSuspect(log, clock)
    <3> DEFINE n == Len(log)
    <3>0. n \in Nat
      BY <1>2
    <3>1. Recent(log, clock) \subseteq 1..n
      BY <1>2 DEF Recent
    <3>n. n = Len(log)
      OBVIOUS
    <3> HIDE DEF n
    <3>3. IsFiniteSet(1..n) /\ Cardinality(1..n) = n
      <4>1. 1 \in Int /\ n \in Int
        BY <3>0
      <4>2. IsFiniteSet(1..n) /\ Cardinality(1..n) = IF 1 > n THEN 0 ELSE n - 1 + 1
        BY <4>1, FS_Interval
      <4> QED
        BY <3>0, <4>2
    <3>2. Cardinality(Recent(log, clock)) <= n
      <4>1. Cardinality(Recent(log, clock)) <= Cardinality(1..n)
        BY <3>1, <3>3, FS_Subset
      <4> QED
        BY <3>3, <4>1
    <3>4. Cardinality(Recent(log, clock)) \in Nat
      BY <3>1, <3>3, FS_Subset, FS_CardinalityType
    <3> QED
      BY <2>2, <3>0, <3>2, <3>4, <3>n DEF WashPaymentSuspect
  <2> QED
    BY <2>1, <2>2 DEF FraudFlags, log
<1> HIDE DEF log
<1> QED
  BY <1>1, <1>2, <1>3, <1>4

\* An agent is flagged for payments of its own, Many at least: whatever the
\* interleaving, the crashes and the trims, its logs hold no more entries than
\* its record counts payments.
THEOREM FlagsAreEarnedHolds == Spec => []FlagsAreEarned
BY Counting, EarnedBy, PTL

-----------------------------------------------------------------------------
(* The logs are newest first: a payment takes its time when its request     *)
(* sends the LPUSH, and the store takes the commands in the order sent.     *)

Falling(log) == \A i, k \in 1..Len(log) : i <= k => log[i].ts >= log[k].ts

Between(log, low, high) == \A i \in 1..Len(log) : low <= log[i].ts /\ log[i].ts <= high

\* The requests that are to send an attestation took their times in the order
\* in which they will send it.
Ordered ==
    \A i, k \in 1..Len(line) :
        i <= k /\ h[line[i]].pc = "logged" /\ h[line[k]].pc = "logged"
            => h[line[i]].stamp <= h[line[k]].stamp

Timely ==
    \A j \in Jobs : h[j].pc = "logged" =>
        /\ Between(attest[h[j].agent], rep[h[j].agent].first, h[j].stamp)
        /\ rep[h[j].agent].first <= h[j].stamp /\ h[j].stamp <= clock

TimeInv ==
    /\ Falling(payments) /\ Between(payments, 0, clock)
    /\ \A a \in Agents : /\ Falling(attest[a]) /\ rep[a].first <= clock
                         /\ Between(attest[a], rep[a].first, clock)
    /\ Timely
    /\ Ordered

LEMMA StampType ==
    /\ \A e \in Entries : e.ts \in Nat
    /\ \A log \in Seq(Entries) : \A i \in 1..Len(log) : log[i] \in Entries /\ log[i].ts \in Nat
<1>1. \A e \in Entries : e.ts \in Nat
  BY DEF Entries
<1>2. \A log \in Seq(Entries) : \A i \in 1..Len(log) : log[i] \in Entries
  OBVIOUS
<1> QED
  BY <1>1, <1>2

LEMMA PushedFalls ==
    ASSUME NEW log \in Seq(Entries), NEW e \in Entries, NEW low \in Nat,
           Falling(log), Between(log, low, e.ts)
    PROVE  Falling(Pushed(log, e))
<1> DEFINE p == Pushed(log, e)
           n == Len(log)
<1>0. n \in Nat
  OBVIOUS
<1>1. /\ n \in Nat /\ Len(p) = n + 1 /\ p[1] = e
      /\ \A i \in 2..(n + 1) : p[i] = log[i - 1] /\ i - 1 \in 1..n
  BY <1>0, PushedProperties
<1>2. e.ts \in Nat /\ \A i \in 1..n : log[i].ts \in Nat
  BY StampType
<1>3. \A i, k \in 1..n : i <= k => log[i].ts >= log[k].ts
  BY DEF Falling
<1>4. \A i \in 1..n : log[i].ts <= e.ts
  BY DEF Between
<1> HIDE DEF p, n
<1>5. ASSUME NEW i \in 1..(n + 1), NEW k \in 1..(n + 1), i <= k PROVE p[i].ts >= p[k].ts
  <2>1. CASE i = 1 /\ k = 1
    BY <1>1, <1>2, <2>1
  <2>2. CASE i = 1 /\ k # 1
    <3>1. k \in 2..(n + 1)
      BY <1>1, <2>2
    <3> QED
      BY <1>1, <1>2, <1>4, <2>2, <3>1
  <2>3. CASE i # 1
    <3>1. i \in 2..(n + 1) /\ k \in 2..(n + 1)
      BY <1>1, <1>5, <2>3
    <3>2. i - 1 <= k - 1
      BY <1>1, <1>5
    <3> QED
      BY <1>1, <1>3, <3>1, <3>2
  <2> QED
    BY <2>1, <2>2, <2>3
<1> QED
  BY <1>1, <1>5 DEF Falling, p

LEMMA PushedBetween ==
    ASSUME NEW log \in Seq(Entries), NEW e \in Entries, NEW low \in Nat, NEW high \in Nat,
           Between(log, low, high), low <= e.ts, e.ts <= high
    PROVE  Between(Pushed(log, e), low, high)
<1> DEFINE p == Pushed(log, e)
           n == Len(log)
<1>0. n \in Nat
  OBVIOUS
<1>1. /\ n \in Nat /\ Len(p) = n + 1 /\ p[1] = e
      /\ \A i \in 2..(n + 1) : p[i] = log[i - 1] /\ i - 1 \in 1..n
  BY <1>0, PushedProperties
<1>2. \A i \in 1..n : low <= log[i].ts /\ log[i].ts <= high
  BY DEF Between
<1> HIDE DEF p, n
<1>3. ASSUME NEW i \in 1..(n + 1) PROVE low <= p[i].ts /\ p[i].ts <= high
  <2>1. CASE i = 1
    BY <1>1, <2>1
  <2>2. CASE i # 1
    <3>1. i \in 2..(n + 1)
      BY <1>1, <2>2
    <3> QED
      BY <1>1, <1>2, <3>1
  <2> QED
    BY <2>1, <2>2
<1> QED
  BY <1>1, <1>3 DEF Between, p

LEMMA TrimmedFalls ==
    ASSUME NEW log \in Seq(Entries), Falling(log)
    PROVE  /\ Falling(Trimmed(log))
           /\ \A low, high : Between(log, low, high) => Between(Trimmed(log), low, high)
<1>1. \A i \in 1..Len(Trimmed(log)) : Trimmed(log)[i] = log[i] /\ i \in 1..Len(log)
  BY TrimmedProperties
<1> QED
  BY <1>1 DEF Falling, Between

LEMMA BetweenGrows ==
    ASSUME NEW log \in Seq(Entries), NEW low \in Nat, NEW high \in Nat, Between(log, low, high)
    PROVE  Between(log, low, high + 1)
<1>1. \A i \in 1..Len(log) : log[i].ts \in Nat
  BY StampType
<1> QED
  BY <1>1 DEF Between

\* The requests stay in order.
LEMMA OrderedAwait ==
    ASSUME JobsOK, StoreOK, Timely, Ordered, line # <<>>, NEW q \in Locals,
           q.pc # "idle", q.pc = "logged" => q.stamp = clock, Await(Head(line), q)
    PROVE  Ordered'
<1> DEFINE n == Len(line)
<1>1. /\ Len(line') = n /\ line'[n] = Head(line) /\ h'[Head(line)] = q
      /\ \A i \in 1..(n - 1) : line'[i] = line[i + 1] /\ h'[line[i + 1]] = h[line[i + 1]]
  BY LinedAwait DEF JobsOK
<1>2. n \in Nat /\ \A i \in 1..n : line[i] \in Jobs /\ h[line[i]] \in Locals
  BY DEF JobsOK, Lined
<1>3. \A i, k \in 1..n : i <= k /\ h[line[i]].pc = "logged" /\ h[line[k]].pc = "logged"
                            => h[line[i]].stamp <= h[line[k]].stamp
  BY DEF Ordered
<1>4. \A i \in 1..n : h[line[i]].pc = "logged" => h[line[i]].stamp <= clock
  BY <1>2 DEF Timely
<1>c. clock \in Nat
  BY DEF StoreOK
<1> HIDE DEF n
<1>5. ASSUME NEW i \in 1..n, NEW k \in 1..n, i <= k,
             h'[line'[i]].pc = "logged", h'[line'[k]].pc = "logged"
      PROVE  h'[line'[i]].stamp <= h'[line'[k]].stamp
  <2>1. CASE k = n /\ i = n
    BY <1>1, <1>5, <1>c, <2>1
  <2>2. CASE k = n /\ i # n
    <3>1. i \in 1..(n - 1) /\ i + 1 \in 1..n
      BY <1>2, <2>2
    <3>2. h'[line'[i]] = h[line[i + 1]] /\ h'[line'[k]].stamp = clock
      BY <1>1, <1>5, <2>2, <3>1
    <3> QED
      BY <1>4, <1>5, <3>1, <3>2
  <2>3. CASE k # n
    <3>1. i \in 1..(n - 1) /\ i + 1 \in 1..n /\ k \in 1..(n - 1) /\ k + 1 \in 1..n /\ i + 1 <= k + 1
      BY <1>2, <1>5, <2>3
    <3>2. h'[line'[i]] = h[line[i + 1]] /\ h'[line'[k]] = h[line[k + 1]]
      BY <1>1, <3>1
    <3> QED
      BY <1>3, <1>5, <3>1, <3>2
  <2> QED
    BY <2>1, <2>2, <2>3
<1> QED
  BY <1>1, <1>5 DEF Ordered

LEMMA OrderedAnswer ==
    ASSUME JobsOK, Ordered, line # <<>>, Answer(Head(line))
    PROVE  Ordered'
<1> DEFINE n == Len(line)
<1>1. /\ Len(line') = n - 1
      /\ \A i \in 1..(n - 1) : line'[i] = line[i + 1] /\ h'[line[i + 1]] = h[line[i + 1]]
  BY LinedAnswer DEF JobsOK
<1>2. n \in Nat
  BY DEF JobsOK, Lined
<1>3. \A i, k \in 1..n : i <= k /\ h[line[i]].pc = "logged" /\ h[line[k]].pc = "logged"
                            => h[line[i]].stamp <= h[line[k]].stamp
  BY DEF Ordered
<1> HIDE DEF n
<1>4. ASSUME NEW i \in 1..(n - 1), NEW k \in 1..(n - 1), i <= k,
             h'[line'[i]].pc = "logged", h'[line'[k]].pc = "logged"
      PROVE  h'[line'[i]].stamp <= h'[line'[k]].stamp
  <2>1. i + 1 \in 1..n /\ k + 1 \in 1..n /\ i + 1 <= k + 1
    BY <1>2, <1>4
  <2>2. h'[line'[i]] = h[line[i + 1]] /\ h'[line'[k]] = h[line[k + 1]]
    BY <1>1
  <2> QED
    BY <1>3, <1>4, <2>1, <2>2
<1> QED
  BY <1>1, <1>4 DEF Ordered

LEMMA OrderedSend ==
    ASSUME JobsOK, Ordered, NEW j \in Jobs, NEW q \in Locals,
           q.pc \notin {"idle", "logged"}, Send(j, q)
    PROVE  Ordered'
<1> DEFINE n == Len(line)
<1>1. /\ Len(line') = n + 1 /\ line'[n + 1] = j /\ h'[j] = q
      /\ \A i \in 1..n : line'[i] = line[i] /\ h'[line[i]] = h[line[i]]
  BY LinedSend DEF JobsOK
<1>2. n \in Nat
  BY DEF JobsOK, Lined
<1>3. \A i, k \in 1..n : i <= k /\ h[line[i]].pc = "logged" /\ h[line[k]].pc = "logged"
                            => h[line[i]].stamp <= h[line[k]].stamp
  BY DEF Ordered
<1> HIDE DEF n
<1>4. ASSUME NEW i \in 1..(n + 1), NEW k \in 1..(n + 1), i <= k,
             h'[line'[i]].pc = "logged", h'[line'[k]].pc = "logged"
      PROVE  h'[line'[i]].stamp <= h'[line'[k]].stamp
  <2>1. i # n + 1 /\ k # n + 1
    BY <1>1, <1>4
  <2>2. i \in 1..n /\ k \in 1..n
    BY <1>2, <2>1
  <2>3. h'[line'[i]] = h[line[i]] /\ h'[line'[k]] = h[line[k]]
    BY <1>1, <2>2
  <2> QED
    BY <1>3, <1>4, <2>2, <2>3
<1> QED
  BY <1>1, <1>4 DEF Ordered

\* What the handling of a reply does to a log.
LEMMA LogMoves ==
    ASSUME JobsOK, StoreOK, Continue
    PROVE  /\ \/ payments' = payments
              \/ \E e \in Entries : e.ts = clock /\ payments' = Trimmed(Pushed(payments, e))
           /\ \A a \in Agents :
                \/ attest'[a] = attest[a]
                \/ attest'[a] = Trimmed(attest[a])
                \/ /\ h[Head(line)].pc = "logged" /\ h[Head(line)].agent = a
                   /\ \E e \in Entries : /\ e.ts = h[Head(line)].stamp
                                         /\ attest'[a] = Pushed(attest[a], e)
<1> DEFINE j == Head(line)
<1>1. j \in Jobs
  BY LinedHead DEF Continue, JobsOK
<1>2. h[j] \in Locals /\ Proper(h[j]) /\ attest \in [Agents -> Seq(Entries)] /\ clock \in 0..MaxTime
  BY <1>1 DEF JobsOK, StoreOK
<1>j. j = Head(line)
  OBVIOUS
<1> HIDE DEF j
<1>3. CASE IndexedReply(j)
  <2> DEFINE e == [ts |-> clock, amount |-> h[j].amount]
  <2>1. h[j].amount \in Amounts
    BY <1>2, <1>3 DEF IndexedReply, Proper, Paying
  <2>2. e \in Entries /\ e.ts = clock
    BY <1>2, <2>1 DEF Entries
  <2>3. payments' = Trimmed(Pushed(payments, e)) /\ attest' = attest
    BY <1>3 DEF IndexedReply
  <2> HIDE DEF e
  <2> QED
    BY <2>2, <2>3
<1>4. CASE LoggedReply(j)
  <2> DEFINE e == [ts |-> h[j].stamp, amount |-> h[j].amount]
             b == h[j].agent
  <2>1. h[j].amount \in Amounts /\ h[j].stamp \in 0..MaxTime /\ h[j].pc = "logged"
    BY <1>2, <1>4 DEF LoggedReply, Proper, Paying, Locals
  <2>2. e \in Entries /\ e.ts = h[j].stamp
    BY <2>1 DEF Entries
  <2>3. attest' = [attest EXCEPT ![b] = Pushed(attest[b], e)] /\ payments' = payments
    BY <1>4 DEF LoggedReply
  <2>4. b = h[j].agent
    OBVIOUS
  <2> HIDE DEF e, b
  <2>5. ASSUME NEW a \in Agents
        PROVE  attest'[a] = attest[a] \/ (b = a /\ attest'[a] = Pushed(attest[a], e))
    BY <1>2, <2>3
  <2> QED
    BY <1>j, <2>1, <2>2, <2>3, <2>4, <2>5
<1>5. CASE AttestedReply(j)
  <2>1. attest' = [attest EXCEPT ![h[j].agent] = Trimmed(@)] /\ payments' = payments
    BY <1>5 DEF AttestedReply
  <2> QED
    BY <1>2, <2>1
<1>6. CASE ~ (IndexedReply(j) \/ LoggedReply(j) \/ AttestedReply(j))
  <2>1. attest' = attest /\ payments' = payments
    BY <1>6, <1>j DEF Continue, RecordedReply, TrimmedReply, VolumeReply, AddNext, SaveVolume,
                      SavedReply, storeVars
  <2> QED
    BY <2>1
<1> QED
  BY <1>3, <1>4, <1>5, <1>6

LEMMA TimeInit == Init => TimeInv
<1> SUFFICES ASSUME Init PROVE TimeInv
  OBVIOUS
<1>1. payments = <<>> /\ line = <<>> /\ \A a \in Agents : attest[a] = <<>> /\ rep[a].first = 0
  BY DEF Init, NoRecord
<1>2. clock = 0 /\ \A j \in Jobs : h[j].pc = "idle"
  BY DEF Init, Idle
<1>3. Falling(<<>>) /\ Between(<<>>, 0, 0)
  BY DEF Falling, Between
<1>4. Ordered
  BY <1>1 DEF Ordered
<1> QED
  BY <1>1, <1>2, <1>3, <1>4 DEF TimeInv, Timely

LEMMA TimeContinue ==
    ASSUME JobsOK, StoreOK, TimeInv, Continue
    PROVE  TimeInv'
<1> DEFINE j == Head(line)
<1>1. /\ j \in Jobs /\ rep' = rep /\ clock' = clock /\ line # <<>>
      /\ \/ Answer(j) /\ h[j].pc \in {"trimmed", "volume", "adding", "saved"}
         \/ \E q \in Locals :
              /\ Await(j, q)
              /\ q.pc \notin {"idle", "recorded"}
              /\ q.agent = h[j].agent /\ q.count = h[j].count
              /\ q.pc = "logged" => q.stamp = clock /\ h[j].pc = "indexed"
              /\ q.pc = "indexed" => h[j].pc = "recorded"
  BY Moves
<1>2. /\ payments' = payments
         \/ \E e \in Entries : e.ts = clock /\ payments' = Trimmed(Pushed(payments, e))
      /\ \A a \in Agents :
           \/ attest'[a] = attest[a]
           \/ attest'[a] = Trimmed(attest[a])
           \/ /\ h[j].pc = "logged" /\ h[j].agent = a
              /\ \E e \in Entries : e.ts = h[j].stamp /\ attest'[a] = Pushed(attest[a], e)
  BY LogMoves
<1>3. j = line[1] /\ 1 \in 1..Len(line) /\ h[j].pc # "idle"
  BY <1>1, LinedHead DEF JobsOK
<1>j. j = Head(line)
  OBVIOUS
<1> HIDE DEF j
<1>4. /\ h \in [Jobs -> Locals] /\ clock \in Nat /\ payments \in Seq(Entries)
      /\ \A a \in Agents : attest[a] \in Seq(Entries) /\ rep[a].first \in Nat
      /\ \A m \in Jobs : h[m].stamp \in Nat
      /\ \A m \in Jobs : h[m].pc \in Paying => h[m].agent \in Agents
  BY DEF JobsOK, StoreOK, Records, Locals, Proper
<1>5. Ordered'
  <2>1. CASE Answer(j)
    BY <1>1, <1>j, <2>1, OrderedAnswer DEF TimeInv
  <2>2. ASSUME NEW q \in Locals, Await(j, q), q.pc \notin {"idle", "recorded"},
               q.pc = "logged" => q.stamp = clock
        PROVE  Ordered'
    BY <1>1, <1>j, <2>2, OrderedAwait DEF TimeInv
  <2> QED
    BY <1>1, <2>1, <2>2
<1>6. Falling(payments') /\ Between(payments', 0, clock')
  <2>1. Falling(payments) /\ Between(payments, 0, clock)
    BY DEF TimeInv
  <2>2. CASE payments' = payments
    BY <1>1, <2>1, <2>2
  <2>3. ASSUME NEW e \in Entries, e.ts = clock, payments' = Trimmed(Pushed(payments, e))
        PROVE  Falling(payments') /\ Between(payments', 0, clock')
    <3>1. Falling(Pushed(payments, e))
      BY <1>4, <2>1, <2>3, PushedFalls
    <3>2. Between(Pushed(payments, e), 0, clock)
      BY <1>4, <2>1, <2>3, PushedBetween
    <3>3. Pushed(payments, e) \in Seq(Entries)
      BY <1>4, PushedProperties
    <3> QED
      BY <1>1, <2>3, <3>1, <3>2, <3>3, TrimmedFalls
  <2> QED
    BY <1>2, <2>2, <2>3
<1>7. ASSUME NEW a \in Agents
      PROVE  /\ Falling(attest'[a]) /\ Between(attest'[a], rep[a].first, clock)
             /\ \A m \in Jobs : /\ h[m].pc = "logged" /\ h[m].agent = a
                                => Between(attest'[a], rep[a].first, h[m].stamp)
  <2>1. /\ Falling(attest[a]) /\ Between(attest[a], rep[a].first, clock)
        /\ \A m \in Jobs : /\ h[m].pc = "logged" /\ h[m].agent = a
                           => /\ Between(attest[a], rep[a].first, h[m].stamp)
                              /\ rep[a].first <= h[m].stamp /\ h[m].stamp <= clock
    BY DEF TimeInv, Timely
  <2>2. CASE attest'[a] = attest[a]
    BY <2>1, <2>2
  <2>3. CASE attest'[a] = Trimmed(attest[a])
    BY <1>4, <2>1, <2>3, TrimmedFalls
  <2>4. ASSUME h[j].pc = "logged", h[j].agent = a,
               NEW e \in Entries, e.ts = h[j].stamp, attest'[a] = Pushed(attest[a], e)
        PROVE  /\ Falling(attest'[a]) /\ Between(attest'[a], rep[a].first, clock)
               /\ \A m \in Jobs : /\ h[m].pc = "logged" /\ h[m].agent = a
                                  => Between(attest'[a], rep[a].first, h[m].stamp)
    <3>1. /\ Between(attest[a], rep[a].first, e.ts) /\ rep[a].first <= e.ts /\ e.ts <= clock
      BY <1>1, <2>1, <2>4
    <3>2. Falling(Pushed(attest[a], e))
      BY <1>4, <2>1, <3>1, PushedFalls
    <3>3. Between(Pushed(attest[a], e), rep[a].first, clock)
      BY <1>4, <2>1, <3>1, PushedBetween
    <3>4. ASSUME NEW m \in Jobs, h[m].pc = "logged", h[m].agent = a
          PROVE  Between(Pushed(attest[a], e), rep[a].first, h[m].stamp)
      <4>1. PICK k \in 1..Len(line) : line[k] = m
        BY <3>4 DEF JobsOK, Lined
      <4>2. 1 <= k
        BY <4>1
      <4>3. h[j].stamp <= h[m].stamp
        BY <1>3, <2>4, <3>4, <4>1, <4>2 DEF TimeInv, Ordered
      <4> QED
        BY <1>4, <2>1, <2>4, <3>1, <3>4, <4>3, PushedBetween
    <3> QED
      BY <2>4, <3>2, <3>3, <3>4
  <2> QED
    BY <1>2, <2>2, <2>3, <2>4
<1>8. Timely'
  <2> SUFFICES ASSUME NEW m \in Jobs, h'[m].pc = "logged"
               PROVE  /\ Between(attest'[h'[m].agent], rep[h'[m].agent].first, h'[m].stamp)
                      /\ rep[h'[m].agent].first <= h'[m].stamp /\ h'[m].stamp <= clock
    BY <1>1 DEF Timely
  <2>1. CASE h'[m] = h[m]
    <3>1. h[m].agent \in Agents
      BY <1>4, <2>1 DEF Paying
    <3>2. rep[h[m].agent].first <= h[m].stamp /\ h[m].stamp <= clock
      BY <2>1 DEF TimeInv, Timely
    <3> QED
      BY <1>7, <2>1, <3>1, <3>2
  <2>2. ASSUME m = j, NEW q \in Locals, h'[m] = q, q.agent = h[j].agent,
               q.stamp = clock, h[j].pc = "indexed"
        PROVE  /\ Between(attest'[h'[m].agent], rep[h'[m].agent].first, h'[m].stamp)
               /\ rep[h'[m].agent].first <= h'[m].stamp /\ h'[m].stamp <= clock
    <3>1. h[j].agent \in Agents
      BY <1>1, <1>4, <2>2 DEF Paying
    <3>2. rep[h[j].agent].first <= clock
      BY <3>1 DEF TimeInv
    <3> QED
      BY <1>4, <1>7, <2>2, <3>1, <3>2
  <2>3. CASE Answer(j)
    <3>1. h' = [h EXCEPT ![j] = Idle] /\ Idle.pc = "idle"
      BY <2>3 DEF Answer, Idle
    <3> QED
      BY <1>1, <1>4, <2>1, <3>1
  <2>4. ASSUME NEW q \in Locals, Await(j, q), q.agent = h[j].agent,
               q.pc = "logged" => q.stamp = clock /\ h[j].pc = "indexed"
        PROVE  /\ Between(attest'[h'[m].agent], rep[h'[m].agent].first, h'[m].stamp)
               /\ rep[h'[m].agent].first <= h'[m].stamp /\ h'[m].stamp <= clock
    <3>1. h' = [h EXCEPT ![j] = q]
      BY <2>4 DEF Await
    <3>2. CASE m # j
      BY <1>4, <2>1, <3>1, <3>2
    <3>3. CASE m = j
      <4>1. h'[m] = q
        BY <1>1, <1>4, <3>1, <3>3
      <4> QED
        BY <2>2, <2>4, <3>3, <4>1
    <3> QED
      BY <3>2, <3>3
  <2> QED
    BY <1>1, <2>3, <2>4
<1>9. \A a \in Agents : rep[a].first <= clock
  BY DEF TimeInv
<1> QED
  BY <1>1, <1>5, <1>6, <1>7, <1>8, <1>9 DEF TimeInv

LEMMA TimeStep ==
    ASSUME JobsOK, StoreOK, CountInv, TimeInv, [Next]_vars
    PROVE  TimeInv'
<1>0. /\ h \in [Jobs -> Locals] /\ clock \in Nat /\ payments \in Seq(Entries)
      /\ \A a \in Agents : attest[a] \in Seq(Entries) /\ rep[a].first \in Nat
      /\ \A m \in Jobs : h[m].stamp \in Nat
      /\ \A m \in Jobs : h[m].pc \in Paying => h[m].agent \in Agents
  BY DEF JobsOK, StoreOK, Records, Locals, Proper
<1>1. ASSUME NEW j \in Jobs, NEW a \in Agents, NEW amount \in Amounts, RecordPayment(j, a, amount)
      PROVE  TimeInv'
  <2>1. PICK q \in Locals : q.pc = "recorded" /\ q.agent = a /\ Send(j, q)
    BY <1>1, Starts
  <2>2. h' = [h EXCEPT ![j] = q] /\ h[j].pc = "idle"
    BY <2>1 DEF Send
  <2>3. attest' = attest /\ payments' = payments /\ clock' = clock
    BY <1>1 DEF RecordPayment
  <2>4. Ordered'
    BY <2>1, OrderedSend DEF TimeInv
  <2>5. /\ rep'[a].first = IF rep[a].count = 0 THEN clock ELSE rep[a].first
        /\ \A b \in Agents \ {a} : rep'[b] = rep[b]
    BY <1>1 DEF RecordPayment, StoreOK
  <2>6. ASSUME rep[a].count = 0
        PROVE  Len(attest[a]) = 0 /\ \A m \in Jobs : h[m].pc = "logged" => h[m].agent # a
    <3>1. Len(attest[a]) + Cardinality(Pending(a)) <= 0
      BY <2>6 DEF CountInv
    <3>2. Pending(a) \in SUBSET Jobs /\ Len(attest[a]) \in Nat
      BY <1>0 DEF Pending
    <3>3. Cardinality(Pending(a)) \in Nat /\ IsFiniteSet(Pending(a))
      BY <3>2, Fewer
    <3>4. Len(attest[a]) = 0 /\ Cardinality(Pending(a)) = 0
      BY <3>1, <3>2, <3>3
    <3>5. Pending(a) = {}
      BY <3>3, <3>4, FS_EmptySet
    <3> QED
      BY <3>4, <3>5 DEF Pending
  <2>7. ASSUME NEW b \in Agents
        PROVE  /\ Falling(attest[b]) /\ rep'[b].first <= clock
               /\ Between(attest[b], rep'[b].first, clock)
    <3>1. /\ Falling(attest[b]) /\ rep[b].first <= clock
          /\ Between(attest[b], rep[b].first, clock)
      BY DEF TimeInv
    <3>2. CASE b # a \/ rep[a].count # 0
      BY <2>5, <3>1, <3>2
    <3>3. CASE b = a /\ rep[a].count = 0
      <4>1. Between(attest[a], clock, clock) /\ clock <= clock
        BY <1>0, <2>6, <3>3 DEF Between
      <4> QED
        BY <2>5, <3>1, <3>3, <4>1
    <3> QED
      BY <3>2, <3>3
  <2>8. ASSUME NEW m \in Jobs, h'[m].pc = "logged"
        PROVE  /\ Between(attest[h'[m].agent], rep'[h'[m].agent].first, h'[m].stamp)
               /\ rep'[h'[m].agent].first <= h'[m].stamp /\ h'[m].stamp <= clock
    <3>1. h'[m] = h[m]
      BY <1>0, <2>1, <2>2, <2>8
    <3>2. h[m].pc = "logged" /\ h[m].agent \in Agents
      BY <1>0, <2>8, <3>1 DEF Paying
    <3>3. rep'[h[m].agent].first = rep[h[m].agent].first
      BY <2>5, <2>6, <3>2
    <3> QED
      BY <3>1, <3>2, <3>3 DEF TimeInv, Timely
  <2>9. Timely'
    BY <2>3, <2>8 DEF Timely
  <2> QED
    BY <2>3, <2>4, <2>7, <2>9 DEF TimeInv
<1>2. ASSUME NEW j \in Jobs, AskVolume(j) PROVE TimeInv'
  <2>1. PICK q \in Locals : q.pc = "volume" /\ Send(j, q)
    BY <1>2, Starts
  <2>2. h' = [h EXCEPT ![j] = q] /\ h[j].pc = "idle"
    BY <2>1 DEF Send
  <2>3. attest' = attest /\ payments' = payments /\ clock' = clock /\ rep' = rep
    BY <1>2 DEF AskVolume, storeVars
  <2>4. Ordered'
    BY <2>1, OrderedSend DEF TimeInv
  <2>5. Timely'
    <3>1. \A m \in Jobs : h'[m].pc = "logged" => h'[m] = h[m]
      BY <1>0, <2>1, <2>2
    <3> QED
      BY <2>3, <3>1 DEF Timely, TimeInv
  <2> QED
    BY <2>3, <2>4, <2>5 DEF TimeInv
<1>3. CASE Continue
  BY <1>3, TimeContinue
<1>4. CASE Tick
  <2>1. clock' = clock + 1 /\ UNCHANGED <<rep, payments, attest, h, line>>
    BY <1>4 DEF Tick, storeVars
  <2>2. Falling(payments) /\ Between(payments, 0, clock + 1)
    BY <1>0, BetweenGrows DEF TimeInv
  <2>3. ASSUME NEW a \in Agents
        PROVE  /\ Falling(attest[a]) /\ rep[a].first <= clock + 1
               /\ Between(attest[a], rep[a].first, clock + 1)
    <3>1. /\ Falling(attest[a]) /\ rep[a].first <= clock
          /\ Between(attest[a], rep[a].first, clock)
      BY DEF TimeInv
    <3>2. rep[a].first \in Nat /\ attest[a] \in Seq(Entries)
      BY <1>0
    <3>3. Between(attest[a], rep[a].first, clock + 1)
      BY <1>0, <3>1, <3>2, BetweenGrows
    <3> QED
      BY <1>0, <3>1, <3>2, <3>3
  <2>4. ASSUME NEW m \in Jobs, h[m].pc = "logged"
        PROVE  /\ Between(attest[h[m].agent], rep[h[m].agent].first, h[m].stamp)
               /\ rep[h[m].agent].first <= h[m].stamp /\ h[m].stamp <= clock + 1
    <3>1. /\ Between(attest[h[m].agent], rep[h[m].agent].first, h[m].stamp)
          /\ rep[h[m].agent].first <= h[m].stamp /\ h[m].stamp <= clock
      BY <2>4 DEF TimeInv, Timely
    <3>2. h[m].stamp \in Nat
      BY <1>0
    <3> QED
      BY <1>0, <3>1, <3>2
  <2>5. Timely'
    BY <2>1, <2>4 DEF Timely
  <2>6. Ordered'
    BY <2>1 DEF TimeInv, Ordered
  <2> QED
    BY <2>1, <2>2, <2>3, <2>5, <2>6 DEF TimeInv
<1>5. CASE Crash
  <2>1. UNCHANGED <<clock, rep, payments, attest>> /\ line' = <<>> /\ h' = [j \in Jobs |-> Idle]
    BY <1>5 DEF Crash, storeVars
  <2>2. \A j \in Jobs : h'[j].pc = "idle"
    BY <2>1 DEF Idle
  <2>3. Ordered' /\ Timely'
    BY <2>1, <2>2 DEF Ordered, Timely
  <2> QED
    BY <2>1, <2>3 DEF TimeInv
<1>6. CASE UNCHANGED vars
  BY <1>6 DEF vars, storeVars, TimeInv, Timely, Ordered
<1> QED
  BY <1>1, <1>2, <1>3, <1>4, <1>5, <1>6 DEF Next

LEMMA Timing == Spec => [](JobsOK /\ StoreOK /\ CountInv /\ TimeInv)
BY TypedInit, TypedStep, CountInit, CountStep, TimeInit, TimeStep, PTL DEF Spec

\* A burst after a silence, seen in a log that is newest first, is what the
\* rule looks for: its newest entry is Dormant away from the first payment and
\* from the oldest entry.
LEMMA RevivalSeen == JobsOK /\ StoreOK /\ CountInv /\ TimeInv => RevivalIsFlagged
<1> SUFFICES ASSUME JobsOK, StoreOK, CountInv, TimeInv, NEW a \in Agents,
                    Revived(Attestations(a), clock)
             PROVE  DormantRevival(Attestations(a), rep[a], clock)
  BY DEF RevivalIsFlagged
<1> DEFINE log == Attestations(a)
           n == Len(log)
           now == clock
           first == rep[a].first
<1>1. attest[a] \in Seq(Entries) /\ rep[a].count \in Nat /\ first \in Nat /\ now \in Nat
  BY DEF StoreOK, Records
<1>2. log \in Seq(Entries) /\ n <= Len(attest[a]) /\ n \in Nat /\ Len(attest[a]) \in Nat
  <2>1. /\ Trimmed(attest[a]) \in Seq(Entries)
        /\ Len(Trimmed(attest[a])) = IF Len(attest[a]) > LogMax THEN LogMax ELSE Len(attest[a])
    BY <1>1, TrimmedProperties
  <2>2. log = Trimmed(attest[a]) /\ Len(attest[a]) \in Nat /\ LogMax \in Nat
    BY <1>1 DEF Attestations
  <2> HIDE DEF log
  <2> QED
    BY <2>1, <2>2
<1>3. Falling(log) /\ Between(log, first, now)
  BY <1>1, TrimmedFalls DEF TimeInv, Attestations
<1>4. \A i \in 1..n : log[i].ts \in Nat
  BY <1>2, StampType
<1>5. \A i, k \in 1..n : i <= k => log[i].ts >= log[k].ts
  BY <1>3 DEF Falling
<1>6. \A i \in 1..n : first <= log[i].ts
  BY <1>3 DEF Between
<1>7. PICK i \in Many..(n - 1) : /\ log[i].ts - log[i + 1].ts > Dormant
                                 /\ \A k \in 1..i : log[k].ts > now - Day
  BY DEF Revived
<1>8. Many \in Nat /\ Many >= 1 /\ Dormant \in Nat
  OBVIOUS
<1>9. Len(attest[a]) <= rep[a].count
  <2>1. Pending(a) \in SUBSET Jobs
    BY DEF Pending
  <2>2. Cardinality(Pending(a)) \in Nat
    BY <2>1, Fewer
  <2>3. Len(attest[a]) + Cardinality(Pending(a)) <= rep[a].count
    BY DEF CountInv
  <2> QED
    BY <1>1, <1>2, <2>2, <2>3
<1>n. n = Len(log) /\ now = clock /\ first = rep[a].first
  OBVIOUS
<1> HIDE DEF log, n, now, first
<1>10. i \in Nat /\ 1 \in 1..n /\ i \in 1..n /\ i + 1 \in 1..n /\ n \in 1..n /\ n > Many
  BY <1>2, <1>7, <1>8
<1>11. log[1].ts >= log[i].ts /\ log[i + 1].ts >= log[n].ts
  BY <1>5, <1>10
<1>12. log[1].ts - first >= Dormant /\ log[1].ts - log[n].ts > Dormant
  <2>1. log[1].ts \in Nat /\ log[i].ts \in Nat /\ log[i + 1].ts \in Nat /\ log[n].ts \in Nat
    BY <1>4, <1>10
  <2>2. first <= log[i + 1].ts
    BY <1>6, <1>10
  <2> DEFINE t == log[1].ts
             u == log[i].ts
             v == log[i + 1].ts
             w == log[n].ts
  <2>3. /\ t \in Nat /\ u \in Nat /\ v \in Nat /\ w \in Nat
        /\ t >= u /\ v >= w /\ first <= v /\ u - v > Dormant
    BY <1>7, <1>11, <2>1, <2>2
  <2> HIDE DEF t, u, v, w
  <2>4. t - first >= Dormant /\ t - w > Dormant
    BY <1>1, <1>8, <2>3
  <2> QED
    BY <2>4 DEF t, w
<1>13. Cardinality(Recent(log, now)) >= Many
  <2>1. 1..i \subseteq Recent(log, now)
    <3>1. DOMAIN log = 1..n
      BY <1>2, <1>n
    <3>2. \A k \in 1..i : k \in 1..n
      BY <1>2, <1>10
    <3> QED
      BY <1>7, <3>1, <3>2 DEF Recent
  <2>2. IsFiniteSet(1..i) /\ Cardinality(1..i) = i
    <3>1. 1 \in Int /\ i \in Int
      BY <1>10
    <3>2. IsFiniteSet(1..i) /\ Cardinality(1..i) = IF 1 > i THEN 0 ELSE i - 1 + 1
      BY <3>1, FS_Interval
    <3> QED
      BY <1>10, <3>2
  <2>3. IsFiniteSet(1..n) /\ Recent(log, now) \subseteq 1..n
    <3>1. 1 \in Int /\ n \in Int /\ DOMAIN log = 1..n
      BY <1>2, <1>n
    <3> QED
      BY <3>1, FS_Interval DEF Recent
  <2>4. IsFiniteSet(Recent(log, now))
    BY <2>3, FS_Subset
  <2>5. Cardinality(Recent(log, now)) \in Nat
    BY <2>4, FS_CardinalityType
  <2>6. Cardinality(1..i) <= Cardinality(Recent(log, now))
    BY <2>1, <2>4, FS_Subset
  <2> QED
    BY <1>7, <1>8, <1>10, <2>2, <2>5, <2>6
<1>14. rep[a].count > 0
  BY <1>1, <1>2, <1>8, <1>9, <1>10
<1> QED
  BY <1>10, <1>12, <1>13, <1>14, <1>n DEF DormantRevival, log

\* Whoever is dormant for long and then bursts is flagged, as long as the log
\* reaches back beyond the burst, however concurrent payments wrote the log.
THEOREM RevivalIsFlaggedHolds == Spec => []RevivalIsFlagged
BY Timing, RevivalSeen, PTL

-----------------------------------------------------------------------------
(* Sums over a finite set, as MapThenSumSet defines them: its recursive     *)
(* function is shown to exist and to be unique, then not to depend on the   *)
(* order in which the elements are taken.  A counterexample would be a set  *)
(* of subsets, and among those of a finite set there is a smallest one.     *)

LEMMA Smallest ==
    ASSUME NEW S, IsFiniteSet(S), NEW B, B \subseteq SUBSET S, B # {}
    PROVE  \E T \in B : \A U \in B : U \subseteq T => U = T
<1>1. IsWellFoundedOn(StrictSubsetOrdering(S), SUBSET S)
  BY FS_StrictSubsetOrderingWellFounded, FS_FiniteSubsetsOfFinite
<1>2. PICK T \in B : \A U \in B : ~ (<<U, T>> \in StrictSubsetOrdering(S))
  BY <1>1, WFMin
<1> QED
  BY <1>2 DEF StrictSubsetOrdering

Pick(s) == CHOOSE x \in s : TRUE

Adds(g, f, S) ==
    g = [s \in SUBSET S |-> IF s = {} THEN 0 ELSE f[Pick(s)] + g[s \ {Pick(s)}]]

LEMMA PickIn == \A s : s # {} => Pick(s) \in s
BY DEF Pick

LEMMA AddsAgree ==
    ASSUME NEW S, IsFiniteSet(S), NEW f, NEW g, Adds(g, f, S),
           NEW R, NEW e, NEW k, Adds(k, e, R), S \subseteq R,
           \A x \in S : f[x] = e[x]
    PROVE  \A T \in SUBSET S : g[T] = k[T]
<1> DEFINE B == {T \in SUBSET S : g[T] # k[T]}
<1>1. SUFFICES ASSUME B # {} PROVE FALSE
  OBVIOUS
<1>2. PICK T \in B : \A U \in B : U \subseteq T => U = T
  <2>1. B \subseteq SUBSET S
    OBVIOUS
  <2> HIDE DEF B
  <2> QED
    BY <1>1, <2>1, Smallest
<1>3. /\ g[T] = IF T = {} THEN 0 ELSE f[Pick(T)] + g[T \ {Pick(T)}]
      /\ k[T] = IF T = {} THEN 0 ELSE e[Pick(T)] + k[T \ {Pick(T)}]
  <2>1. T \in SUBSET S /\ T \in SUBSET R
    BY <1>2
  <2> QED
    BY <2>1 DEF Adds
<1>4. CASE T = {}
  BY <1>2, <1>3, <1>4
<1>5. CASE T # {}
  <2>1. Pick(T) \in T
    BY <1>5, PickIn
  <2>2. T \ {Pick(T)} \in SUBSET S /\ T \ {Pick(T)} # T /\ T \ {Pick(T)} \subseteq T
    BY <2>1, <1>2
  <2>3. g[T \ {Pick(T)}] = k[T \ {Pick(T)}]
    BY <2>2, <1>2
  <2>4. f[Pick(T)] = e[Pick(T)]
    BY <2>1, <1>2
  <2> QED
    BY <1>2, <1>3, <1>5, <2>3, <2>4
<1> QED
  BY <1>4, <1>5

LEMMA AddsExists ==
    ASSUME NEW S, IsFiniteSet(S), NEW f
    PROVE  \E g : Adds(g, f, S)
<1> DEFINE B == {T \in SUBSET S : ~ \E g : Adds(g, f, T)}
<1>1. SUFFICES ASSUME B # {} PROVE FALSE
  OBVIOUS
<1>2. PICK T \in B : \A U \in B : U \subseteq T => U = T
  <2>1. B \subseteq SUBSET S
    OBVIOUS
  <2> HIDE DEF B
  <2> QED
    BY <1>1, <2>1, Smallest
<1>3. \A U \in SUBSET T : U # T => \E g : Adds(g, f, U)
  BY <1>2
<1> DEFINE Sub(U) == CHOOSE g : Adds(g, f, U)
           V(U) == Sub(U)[U]
           G == [U \in SUBSET T |-> IF U = T
                   THEN (IF T = {} THEN 0 ELSE f[Pick(T)] + V(T \ {Pick(T)})) ELSE V(U)]
<1>4. \A U \in SUBSET T : U # T => Adds(Sub(U), f, U)
  BY <1>3
<1>5. ASSUME NEW U \in SUBSET T PROVE G[U] = IF U = {} THEN 0 ELSE f[Pick(U)] + G[U \ {Pick(U)}]
  <2>0. CASE U = T /\ T = {}
    BY <2>0
  <2>1. CASE U = T /\ T # {}
    <3>1. Pick(T) \in T
      BY <2>1, PickIn
    <3>2. T \ {Pick(T)} \in SUBSET T /\ T \ {Pick(T)} # T
      BY <3>1
    <3>3. G[T \ {Pick(T)}] = V(T \ {Pick(T)})
      BY <3>2
    <3> HIDE DEF V
    <3> QED
      BY <2>1, <3>3
  <2>2. CASE U # T
    <3> DEFINE W == U \ {Pick(U)}
    <3>1. Adds(Sub(U), f, U) /\ G[U] = Sub(U)[U]
      BY <2>2, <1>4
    <3> HIDE DEF Sub
    <3>2. G[U] = IF U = {} THEN 0 ELSE f[Pick(U)] + Sub(U)[W]
      BY <3>1 DEF Adds
    <3>3. CASE U = {}
      BY <3>2, <3>3
    <3>4. CASE U # {}
      <4>1. Pick(U) \in U
        BY <3>4, PickIn
      <4>2. W \in SUBSET T /\ W # T /\ W \subseteq U /\ W \in SUBSET W
        BY <4>1
      <4>3. Adds(Sub(W), f, W) /\ G[W] = Sub(W)[W]
        BY <4>2, <1>4
      <4>4. IsFiniteSet(W)
        BY <1>2, <4>2, FS_Subset
      <4> HIDE DEF W, G
      <4>5. Sub(W)[W] = Sub(U)[W]
        BY <3>1, <4>2, <4>3, <4>4, AddsAgree
      <4> QED
        BY <3>2, <3>4, <4>3, <4>5 DEF W
    <3> QED
      BY <3>3, <3>4
  <2> QED
    BY <2>0, <2>1, <2>2
<1>6. Adds(G, f, T)
  <2>1. G = [U \in SUBSET T |-> G[U]]
    OBVIOUS
  <2> HIDE DEF G
  <2>2. [U \in SUBSET T |-> G[U]] = [U \in SUBSET T |-> IF U = {} THEN 0 ELSE f[Pick(U)] + G[U \ {Pick(U)}]]
    BY <1>5
  <2> QED
    BY <2>1, <2>2 DEF Adds
<1> QED
  BY <1>2, <1>6

LEMMA AddsRemove ==
    ASSUME NEW S, IsFiniteSet(S), NEW f, \A x \in S : f[x] \in Int, NEW g, Adds(g, f, S)
    PROVE  \A T \in SUBSET S : /\ g[T] \in Int
                               /\ \A x \in T : g[T] = f[x] + g[T \ {x}]
<1>1. ASSUME NEW T \in SUBSET S, T # {}
      PROVE  Pick(T) \in T /\ g[T] = f[Pick(T)] + g[T \ {Pick(T)}]
  BY <1>1, PickIn DEF Adds
<1>2. g[{}] = 0
  BY DEF Adds
<1> DEFINE Fine(T) == g[T] \in Int /\ \A x \in T : g[T] = f[x] + g[T \ {x}]
           B == {T \in SUBSET S : ~ Fine(T)}
<1>3. SUFFICES ASSUME B # {} PROVE FALSE
  OBVIOUS
<1>4. PICK T \in B : \A U \in B : U \subseteq T => U = T
  <2>1. B \subseteq SUBSET S
    OBVIOUS
  <2> HIDE DEF B
  <2> QED
    BY <1>3, <2>1, Smallest
<1> DEFINE p == Pick(T)
<1>5. T \in SUBSET S /\ ~ Fine(T) /\ \A U \in SUBSET T : U # T => Fine(U)
  BY <1>4
<1>6. T # {}
  <2> SUFFICES ASSUME T = {} PROVE Fine(T)
    BY <1>5
  <2> QED
    BY <1>2
<1>7. p \in T /\ g[T] = f[p] + g[T \ {p}]
  BY <1>1, <1>5, <1>6
<1> HIDE DEF p, B
<1>8. \A x \in T : T \ {x} \in SUBSET T /\ T \ {x} # T
  OBVIOUS
<1>9. \A x \in T : g[T \ {x}] \in Int /\ f[x] \in Int
  BY <1>5, <1>8
<1>10. g[T \ {p}] \in Int /\ f[p] \in Int /\ g[T] \in Int
  <2>1. g[T \ {p}] \in Int /\ f[p] \in Int
    BY <1>7, <1>9
  <2> QED
    BY <1>7, <2>1
<1>11. ASSUME NEW x \in T, x # p PROVE g[T] = f[x] + g[T \ {x}]
  <2>1. g[T \ {p}] = f[x] + g[(T \ {p}) \ {x}]
    BY <1>5, <1>7, <1>8, <1>11
  <2>2. g[T \ {x}] = f[p] + g[(T \ {x}) \ {p}]
    BY <1>5, <1>7, <1>8, <1>11
  <2>3. (T \ {x}) \ {p} = (T \ {p}) \ {x}
    OBVIOUS
  <2>4. (T \ {p}) \ {x} \in SUBSET T /\ (T \ {p}) \ {x} # T
    BY <1>7
  <2>5. g[(T \ {p}) \ {x}] \in Int
    BY <1>5, <2>4
  <2>6. g[T \ {x}] = f[p] + g[(T \ {p}) \ {x}] /\ f[x] \in Int
    BY <1>9, <2>2, <2>3
  <2> QED
    BY <1>7, <1>10, <2>1, <2>5, <2>6
<1> QED
  BY <1>5, <1>7, <1>10, <1>11

\* The sum of f over S.
Sum(f, S) == MapThenSumSet(LAMBDA x : f[x], S)

LEMMA SumAdds ==
    ASSUME NEW S, IsFiniteSet(S), NEW f
    PROVE  \E g : Adds(g, f, S) /\ Sum(f, S) = g[S]
<1>1. Sum(f, S) = (CHOOSE g : Adds(g, f, S))[S]
  BY DEF Sum, MapThenSumSet, MapThenFoldSet, Adds, Pick
<1>2. \E g : Adds(g, f, S)
  BY AddsExists
<1>3. Adds(CHOOSE g : Adds(g, f, S), f, S)
  BY <1>2
<1> QED
  BY <1>1, <1>3

(* What sums over finite sets obey.                                        *)
LEMMA SumEmpty == \A f : Sum(f, {}) = 0
<1> TAKE f
<1>1. PICK g : Adds(g, f, {}) /\ Sum(f, {}) = g[{}]
  BY SumAdds, FS_EmptySet
<1> QED
  BY <1>1 DEF Adds

LEMMA SumRemove ==
    ASSUME NEW S, IsFiniteSet(S), NEW f, \A x \in S : f[x] \in Int, NEW x \in S
    PROVE  Sum(f, S) \in Int /\ Sum(f, S) = f[x] + Sum(f, S \ {x})
<1>1. PICK g : Adds(g, f, S) /\ Sum(f, S) = g[S]
  BY SumAdds
<1>2. IsFiniteSet(S \ {x})
  BY FS_RemoveElement
<1>3. PICK k : Adds(k, f, S \ {x}) /\ Sum(f, S \ {x}) = k[S \ {x}]
  BY <1>2, SumAdds
<1>4. k[S \ {x}] = g[S \ {x}]
  BY <1>1, <1>2, <1>3, AddsAgree
<1>5. g[S] \in Int /\ g[S] = f[x] + g[S \ {x}]
  BY <1>1, AddsRemove
<1> QED
  BY <1>1, <1>3, <1>4, <1>5

LEMMA SumSame ==
    ASSUME NEW S, IsFiniteSet(S), NEW f, NEW e, \A x \in S : f[x] = e[x]
    PROVE  Sum(f, S) = Sum(e, S)
<1>1. PICK g : Adds(g, f, S) /\ Sum(f, S) = g[S]
  BY SumAdds
<1>2. PICK k : Adds(k, e, S) /\ Sum(e, S) = k[S]
  BY SumAdds
<1> QED
  BY <1>1, <1>2, AddsAgree

LEMMA SumNat ==
    ASSUME NEW S, IsFiniteSet(S), NEW f, \A x \in S : f[x] \in Nat
    PROVE  Sum(f, S) \in Nat
<1> DEFINE B == {T \in SUBSET S : Sum(f, T) \notin Nat}
<1>1. SUFFICES ASSUME B # {} PROVE FALSE
  OBVIOUS
<1>2. PICK T \in B : \A U \in B : U \subseteq T => U = T
  <2>1. B \subseteq SUBSET S
    OBVIOUS
  <2> HIDE DEF B
  <2> QED
    BY <1>1, <2>1, Smallest
<1>3. T # {}
  <2> SUFFICES ASSUME T = {} PROVE Sum(f, T) \in Nat
    BY <1>2
  <2> QED
    BY SumEmpty
<1>4. PICK x \in T : TRUE
  BY <1>3
<1>5. T \in SUBSET S /\ T \ {x} \in SUBSET S /\ T \ {x} # T /\ T \ {x} \subseteq T
  BY <1>2, <1>4
<1>6. Sum(f, T \ {x}) \in Nat
  BY <1>2, <1>5
<1>7. IsFiniteSet(T)
  BY <1>5, FS_Subset
<1>8. Sum(f, T) = f[x] + Sum(f, T \ {x})
  BY <1>4, <1>5, <1>7, SumRemove
<1> QED
  BY <1>2, <1>4, <1>5, <1>6, <1>8

LEMMA SumLess ==
    ASSUME NEW S, IsFiniteSet(S), NEW f, NEW e,
           \A x \in S : f[x] \in Nat /\ e[x] \in Nat /\ f[x] <= e[x]
    PROVE  Sum(f, S) <= Sum(e, S)
<1> DEFINE B == {T \in SUBSET S : ~ (Sum(f, T) <= Sum(e, T))}
<1>1. SUFFICES ASSUME B # {} PROVE FALSE
  OBVIOUS
<1>2. PICK T \in B : \A U \in B : U \subseteq T => U = T
  <2>1. B \subseteq SUBSET S
    OBVIOUS
  <2> HIDE DEF B
  <2> QED
    BY <1>1, <2>1, Smallest
<1>3. T # {}
  <2> SUFFICES ASSUME T = {} PROVE Sum(f, T) <= Sum(e, T)
    BY <1>2
  <2> QED
    BY SumEmpty
<1>4. PICK x \in T : TRUE
  BY <1>3
<1>5. T \in SUBSET S /\ T \ {x} \in SUBSET S /\ T \ {x} # T /\ T \ {x} \subseteq T
  BY <1>2, <1>4
<1>6. Sum(f, T \ {x}) <= Sum(e, T \ {x})
  BY <1>2, <1>5
<1>7. IsFiniteSet(T) /\ IsFiniteSet(T \ {x})
  BY <1>5, FS_Subset
<1>8. Sum(f, T) = f[x] + Sum(f, T \ {x}) /\ Sum(e, T) = e[x] + Sum(e, T \ {x})
  BY <1>4, <1>5, <1>7, SumRemove
<1>9. Sum(f, T \ {x}) \in Nat /\ Sum(e, T \ {x}) \in Nat
  BY <1>5, <1>7, SumNat
<1>10. f[x] \in Nat /\ e[x] \in Nat /\ f[x] <= e[x]
  BY <1>4, <1>5
<1>11. f[x] + Sum(f, T \ {x}) <= e[x] + Sum(e, T \ {x})
  BY <1>6, <1>9, <1>10
<1> QED
  BY <1>2, <1>8, <1>11

LEMMA SumZero ==
    ASSUME NEW S, IsFiniteSet(S), NEW f, \A x \in S : f[x] = 0
    PROVE  Sum(f, S) = 0
<1> DEFINE B == {T \in SUBSET S : Sum(f, T) # 0}
<1>1. SUFFICES ASSUME B # {} PROVE FALSE
  OBVIOUS
<1>2. PICK T \in B : \A U \in B : U \subseteq T => U = T
  <2>1. B \subseteq SUBSET S
    OBVIOUS
  <2> HIDE DEF B
  <2> QED
    BY <1>1, <2>1, Smallest
<1>3. T # {}
  <2> SUFFICES ASSUME T = {} PROVE Sum(f, T) = 0
    BY <1>2
  <2> QED
    BY SumEmpty
<1>4. PICK x \in T : TRUE
  BY <1>3
<1>5. T \in SUBSET S /\ T \ {x} \in SUBSET S /\ T \ {x} # T /\ T \ {x} \subseteq T
  BY <1>2, <1>4
<1>6. Sum(f, T \ {x}) = 0 /\ f[x] = 0
  BY <1>2, <1>4, <1>5
<1>7. IsFiniteSet(T) /\ \A y \in T : f[y] \in Int
  BY <1>5, FS_Subset
<1>8. Sum(f, T) = f[x] + Sum(f, T \ {x})
  BY <1>4, <1>7, SumRemove
<1> QED
  BY <1>2, <1>6, <1>8

-----------------------------------------------------------------------------
(* The totals.                                                             *)

Times == [a \in Agents |-> rep[a].count]
Paid == [a \in Agents |-> rep[a].total]
Uncounted == {j \in Jobs : h[j].pc \in {"recorded", "indexed"}}

\* Every payment of the records is in the log, on its way there, or was cut off.
TotalInv ==
    /\ Counts = logged + missed + Cardinality(Uncounted)
    /\ Counts <= MaxPayments
    /\ \A a \in Agents : rep[a].count <= MaxPayments /\ index[a] <= MaxPayments
    /\ \A j \in Jobs : h[j].count <= MaxPayments

LEMMA TotalIs == \A f : Total(f) = Sum(f, Agents)
BY DEF Total, Sum

LEMMA CountsAre ==
    ASSUME StoreOK
    PROVE  /\ Counts = Sum(Times, Agents) /\ Counts \in Nat
           /\ Totals = Sum(Paid, Agents) /\ Totals \in Nat
           /\ \A a \in Agents : Times[a] = rep[a].count /\ Times[a] \in Nat
           /\ \A a \in Agents : Paid[a] = rep[a].total /\ Paid[a] \in Nat
           /\ \A a \in Agents : rep[a].count <= Counts
<1>1. /\ \A a \in Agents : Times[a] = rep[a].count /\ Times[a] \in Nat
      /\ \A a \in Agents : Paid[a] = rep[a].total /\ Paid[a] \in Nat
  BY DEF StoreOK, Records, Times, Paid
<1>2. Counts = Sum(Times, Agents) /\ Totals = Sum(Paid, Agents)
  BY TotalIs DEF Counts, Totals, Times, Paid
<1>3. Counts \in Nat /\ Totals \in Nat
  BY <1>1, <1>2, SumNat
<1>4. ASSUME NEW a \in Agents PROVE rep[a].count <= Counts
  <2>1. Counts = Times[a] + Sum(Times, Agents \ {a})
    <3>1. \A b \in Agents : Times[b] \in Int
      BY <1>1
    <3> QED
      BY <1>2, <3>1, SumRemove
  <2>2. Sum(Times, Agents \ {a}) \in Nat
    <3>1. IsFiniteSet(Agents \ {a})
      BY FS_RemoveElement
    <3> QED
      BY <1>1, <3>1, SumNat
  <2>3. Times[a] = rep[a].count /\ Times[a] \in Nat
    BY <1>1
  <2> QED
    BY <2>1, <2>2, <2>3
<1> QED
  BY <1>1, <1>2, <1>3, <1>4

LEMMA CountsAreNext ==
    ASSUME StoreOK'
    PROVE  /\ Counts' = Sum(Times', Agents) /\ Totals' = Sum(Paid', Agents)
           /\ \A a \in Agents : Times'[a] = rep'[a].count /\ Paid'[a] = rep'[a].total
<1>1. Counts' = Sum(Times', Agents) /\ Totals' = Sum(Paid', Agents)
  BY TotalIs DEF Counts, Totals, Times, Paid
<1> QED
  BY <1>1 DEF Times, Paid

\* What a payment adds.
LEMMA PaymentAdds ==
    ASSUME StoreOK, StoreOK', NEW j \in Jobs, NEW a \in Agents, NEW amount \in Amounts,
           RecordPayment(j, a, amount)
    PROVE  /\ Counts' = Counts + 1 /\ Counts' <= MaxPayments
           /\ \A b \in Agents : rep[b].total <= rep'[b].total
<1>1. /\ rep'[a].count = rep[a].count + 1 /\ rep'[a].total = rep[a].total + amount
      /\ \A b \in Agents \ {a} : rep'[b] = rep[b]
  BY DEF RecordPayment, StoreOK
<1>2. rep[a].count \in Nat /\ rep[a].total \in Nat /\ amount \in Nat
  BY DEF StoreOK, Records
<1>3. Counts < MaxPayments /\ Counts \in Nat
  BY CountsAre DEF RecordPayment
<1>4. ASSUME NEW b \in Agents PROVE Times[b] \in Int /\ Times'[b] \in Int
  <2>1. rep[b].count \in Nat /\ rep'[b].count \in Nat
    BY DEF StoreOK, Records
  <2> QED
    BY <2>1, CountsAre, CountsAreNext
<1>5. IsFiniteSet(Agents \ {a})
  BY FS_RemoveElement
<1>6. Sum(Times', Agents \ {a}) = Sum(Times, Agents \ {a})
  <2>1. \A b \in Agents \ {a} : Times'[b] = Times[b]
    BY <1>1, CountsAre, CountsAreNext
  <2> QED
    BY <1>5, <2>1, SumSame
<1>7. Counts = Times[a] + Sum(Times, Agents \ {a})
  BY <1>4, CountsAre, SumRemove
<1>8. Counts' = Times'[a] + Sum(Times', Agents \ {a})
  BY <1>4, CountsAreNext, SumRemove
<1>9. Sum(Times, Agents \ {a}) \in Nat
  BY <1>5, CountsAre, SumNat
<1>10. Times[a] = rep[a].count /\ Times'[a] = rep[a].count + 1
  BY <1>1, CountsAre, CountsAreNext
<1>11. Counts' = Counts + 1
  BY <1>2, <1>6, <1>7, <1>8, <1>9, <1>10
<1>12. \A b \in Agents : rep[b].total <= rep'[b].total
  <2>1. rep[a].total <= rep'[a].total
    BY <1>1, <1>2
  <2>2. ASSUME NEW b \in Agents, b # a PROVE rep[b].total <= rep'[b].total
    <3>1. rep[b].total \in Nat
      BY DEF StoreOK, Records
    <3> QED
      BY <1>1, <2>2, <3>1
  <2> QED
    BY <2>1, <2>2
<1> QED
  BY <1>3, <1>11, <1>12

LEMMA TotalInit == Init => TotalInv
<1> SUFFICES ASSUME Init PROVE TotalInv
  OBVIOUS
<1>1. StoreOK
  BY TypedInit
<1>2. \A a \in Agents : rep[a].count = 0 /\ index[a] = 0
  BY DEF Init, NoRecord
<1>3. Uncounted = {} /\ logged = 0 /\ missed = 0 /\ \A j \in Jobs : h[j].count = 0
  BY DEF Init, Idle, Uncounted
<1>4. Counts = 0
  <2>1. \A a \in Agents : Times[a] = 0
    BY <1>1, <1>2, CountsAre
  <2> QED
    BY <1>1, <2>1, CountsAre, SumZero
<1> QED
  BY <1>2, <1>3, <1>4, FS_EmptySet DEF TotalInv

LEMMA TotalContinue ==
    ASSUME JobsOK, StoreOK, TotalInv, Continue
    PROVE  TotalInv'
<1> DEFINE j == Head(line)
<1>1. /\ j \in Jobs /\ rep' = rep /\ missed' = missed
      /\ \/ Answer(j) /\ h[j].pc \in {"trimmed", "volume", "adding", "saved"}
         \/ \E q \in Locals :
              /\ Await(j, q)
              /\ q.pc \notin {"idle", "recorded"}
              /\ q.agent = h[j].agent /\ q.count = h[j].count
              /\ q.pc = "logged" => q.stamp = clock /\ h[j].pc = "indexed"
              /\ q.pc = "indexed" => h[j].pc = "recorded"
  BY Moves
<1>j. j = Head(line)
  OBVIOUS
<1> HIDE DEF j
<1>2. h \in [Jobs -> Locals] /\ logged \in Nat /\ missed \in Nat /\ index \in [Agents -> Nat]
  BY DEF JobsOK, StoreOK
<1>3. Counts' = Counts /\ Counts \in Nat
  <2>1. Counts' = Counts
    BY <1>1 DEF Counts
  <2> QED
    BY <2>1, CountsAre
<1>4. Uncounted \in SUBSET Jobs /\ Uncounted' \in SUBSET Jobs
  BY DEF Uncounted
<1>5. Counts = logged + missed + Cardinality(Uncounted) /\ Cardinality(Uncounted) \in Nat
  BY <1>4, Fewer DEF TotalInv
<1>6. Counts' = logged' + missed' + Cardinality(Uncounted')
  <2>1. CASE IndexedReply(j)
    <3>1. h' = [h EXCEPT ![j] = [h[j] EXCEPT !.pc = "logged", !.stamp = clock]]
      BY <2>1 DEF IndexedReply, Await
    <3>2. h'[j].pc = "logged" /\ h[j].pc = "indexed" /\ logged' = logged + 1
      <4>1. [h[j] EXCEPT !.pc = "logged", !.stamp = clock].pc = "logged"
        BY <1>1, <1>2 DEF Locals
      <4>2. h[j].pc = "indexed" /\ logged' = logged + 1
        BY <2>1 DEF IndexedReply
      <4> QED
        BY <1>1, <1>2, <3>1, <4>1, <4>2
    <3>3. \A m \in Jobs : m # j => h'[m] = h[m]
      BY <1>1, <1>2, <3>1
    <3>4. Uncounted' = Uncounted \ {j} /\ j \in Uncounted
      BY <1>1, <3>2, <3>3 DEF Uncounted
    <3>5. Cardinality(Uncounted') = Cardinality(Uncounted) - 1
      BY <1>4, <3>4, Fewer
    <3> DEFINE c == Cardinality(Uncounted)
    <3>6. c \in Nat /\ Counts = logged + missed + c /\ Cardinality(Uncounted') = c - 1
      BY <1>5, <3>5
    <3> HIDE DEF c
    <3>7. logged + missed + c = (logged + 1) + missed + (c - 1)
      BY <1>2, <3>6
    <3> QED
      BY <1>1, <1>3, <3>2, <3>6, <3>7
  <2>2. CASE ~ IndexedReply(j)
    <3>1. logged' = logged
      BY <1>j, <2>2 DEF Continue, RecordedReply, LoggedReply, AttestedReply, TrimmedReply,
                        VolumeReply, AddNext, SaveVolume, SavedReply, storeVars
    <3>2. \A m \in Jobs : m # j => h'[m] = h[m]
      BY <1>1, <1>2 DEF Answer, Await
    <3>3. j \in Uncounted' <=> j \in Uncounted
      <4>1. CASE RecordedReply(j)
        <5>1. h' = [h EXCEPT ![j] = [h[j] EXCEPT !.pc = "indexed"]] /\ h[j].pc = "recorded"
          BY <4>1 DEF RecordedReply, Await
        <5>2. h'[j].pc = "indexed"
          BY <1>1, <1>2, <5>1 DEF Locals
        <5> QED
          BY <1>1, <5>1, <5>2 DEF Uncounted
      <4>2. CASE ~ RecordedReply(j)
        <5>1. h[j].pc \notin {"recorded", "indexed"}
          BY <1>j, <2>2, <4>2 DEF Continue, LoggedReply, AttestedReply, TrimmedReply,
                                  VolumeReply, AddNext, SaveVolume, SavedReply
        <5>2. h'[j].pc \notin {"recorded", "indexed"}
          <6>1. CASE Answer(j)
            <7>1. h'[j] = Idle /\ Idle.pc = "idle"
              BY <1>1, <1>2, <6>1 DEF Answer, Idle
            <7> QED
              BY <7>1
          <6>2. ASSUME NEW q \in Locals, Await(j, q), q.pc \notin {"idle", "recorded"},
                       q.pc = "indexed" => h[j].pc = "recorded"
                PROVE  h'[j].pc \notin {"recorded", "indexed"}
            <7>1. h'[j] = q
              BY <1>1, <1>2, <6>2 DEF Await
            <7> QED
              BY <5>1, <6>2, <7>1
          <6> QED
            BY <1>1, <6>1, <6>2
        <5> QED
          BY <5>1, <5>2 DEF Uncounted
      <4> QED
        BY <4>1, <4>2
    <3>4. Uncounted' = Uncounted
      BY <3>2, <3>3 DEF Uncounted
    <3> QED
      BY <1>1, <1>3, <1>5, <3>1, <3>4
  <2> QED
    BY <2>1, <2>2
<1>7. \A a \in Agents : index'[a] <= MaxPayments
  <2>1. index' = index \/ index' = [index EXCEPT ![h[j].agent] = h[j].count]
    BY <1>j DEF Continue, RecordedReply, Indexed, IndexedReply, LoggedReply, AttestedReply,
                TrimmedReply, VolumeReply, AddNext, SaveVolume, SavedReply, storeVars
  <2> QED
    BY <1>1, <1>2, <2>1 DEF TotalInv
<1>8. \A m \in Jobs : h'[m].count <= MaxPayments
  <2>1. CASE Answer(j)
    <3>1. h' = [h EXCEPT ![j] = Idle] /\ Idle.count <= MaxPayments
      BY <2>1 DEF Answer, Idle
    <3> QED
      BY <1>2, <3>1 DEF TotalInv
  <2>2. ASSUME NEW q \in Locals, Await(j, q), q.count = h[j].count
        PROVE  \A m \in Jobs : h'[m].count <= MaxPayments
    <3>1. h' = [h EXCEPT ![j] = q]
      BY <2>2 DEF Await
    <3>2. h[j].count <= MaxPayments
      BY <1>1 DEF TotalInv
    <3> QED
      BY <1>2, <2>2, <3>1, <3>2 DEF TotalInv
  <2> QED
    BY <1>1, <2>1, <2>2
<1> QED
  BY <1>1, <1>3, <1>6, <1>7, <1>8 DEF TotalInv

LEMMA TotalStep ==
    ASSUME JobsOK, StoreOK, StoreOK', TotalInv, [Next]_vars
    PROVE  TotalInv'
<1>0. /\ h \in [Jobs -> Locals] /\ logged \in Nat /\ missed \in Nat /\ Counts \in Nat
      /\ rep \in [Agents -> Records]
  BY CountsAre DEF JobsOK, StoreOK
<1>1. Uncounted \in SUBSET Jobs /\ Uncounted' \in SUBSET Jobs
  BY DEF Uncounted
<1>2. Counts = logged + missed + Cardinality(Uncounted) /\ Cardinality(Uncounted) \in Nat
  BY <1>1, Fewer DEF TotalInv
<1>3. ASSUME NEW j \in Jobs, NEW a \in Agents, NEW amount \in Amounts, RecordPayment(j, a, amount)
      PROVE  TotalInv'
  <2>1. PICK q \in Locals : q.pc = "recorded" /\ q.agent = a /\ q.count = rep[a].count + 1 /\ Send(j, q)
    BY <1>3, Starts
  <2>2. h' = [h EXCEPT ![j] = q] /\ h[j].pc = "idle"
    BY <2>1 DEF Send
  <2>3. index' = index /\ logged' = logged /\ missed' = missed
    BY <1>3 DEF RecordPayment
  <2>4. Uncounted' = Uncounted \cup {j} /\ j \notin Uncounted
    BY <1>0, <2>1, <2>2 DEF Uncounted
  <2>5. Cardinality(Uncounted') = Cardinality(Uncounted) + 1
    BY <1>1, <2>4, Fewer
  <2>6. Counts' = Counts + 1 /\ Counts' <= MaxPayments
    BY <1>3, PaymentAdds
  <2>7. Counts' = logged' + missed' + Cardinality(Uncounted')
    <3> DEFINE c == Cardinality(Uncounted)
    <3>1. c \in Nat /\ Counts = logged + missed + c /\ Cardinality(Uncounted') = c + 1
      BY <1>2, <2>5
    <3> HIDE DEF c
    <3>2. (logged + missed + c) + 1 = logged + missed + (c + 1)
      BY <1>0, <3>1
    <3> QED
      BY <2>3, <2>6, <3>1, <3>2
  <2>8. rep'[a].count = rep[a].count + 1 /\ \A b \in Agents \ {a} : rep'[b] = rep[b]
    BY <1>0, <1>3 DEF RecordPayment
  <2>9. rep[a].count + 1 <= MaxPayments
    <3>1. rep[a].count <= Counts /\ rep[a].count \in Nat
      BY <1>0, CountsAre DEF Records
    <3>2. Counts + 1 <= MaxPayments
      BY <2>6
    <3> QED
      BY <1>0, <3>1, <3>2
  <2>10. \A b \in Agents : rep'[b].count <= MaxPayments
    BY <2>8, <2>9 DEF TotalInv
  <2>11. \A m \in Jobs : h'[m].count <= MaxPayments
    BY <1>0, <2>1, <2>2, <2>9 DEF TotalInv
  <2> QED
    BY <2>3, <2>6, <2>7, <2>10, <2>11 DEF TotalInv
<1>4. ASSUME NEW j \in Jobs, AskVolume(j) PROVE TotalInv'
  <2>1. PICK q \in Locals : q.pc = "volume" /\ q.count = 0 /\ Send(j, q)
    BY <1>4, Starts
  <2>2. h' = [h EXCEPT ![j] = q] /\ h[j].pc = "idle"
    BY <2>1 DEF Send
  <2>3. Uncounted' = Uncounted
    BY <1>0, <2>1, <2>2 DEF Uncounted
  <2>4. \A m \in Jobs : h'[m].count <= MaxPayments
    BY <1>0, <2>1, <2>2 DEF TotalInv
  <2>5. Counts' = Counts /\ UNCHANGED <<index, rep, logged, missed>>
    BY <1>4 DEF AskVolume, storeVars, Counts
  <2> QED
    BY <2>3, <2>4, <2>5 DEF TotalInv
<1>5. CASE Continue
  BY <1>5, TotalContinue
<1>6. CASE Tick
  <2>1. Counts' = Counts /\ UNCHANGED <<index, rep, logged, missed, h>>
    BY <1>6 DEF Tick, storeVars, Counts
  <2> QED
    BY <2>1 DEF TotalInv, Uncounted
<1>7. CASE Crash
  <2>1. Counts' = Counts /\ UNCHANGED <<index, rep, logged>> /\ h' = [j \in Jobs |-> Idle]
    BY <1>7 DEF Crash, storeVars, Counts
  <2>2. missed' = missed + Cardinality(Uncounted)
    BY <1>7 DEF Crash, Uncounted
  <2>3. Cardinality(Uncounted') = 0
    <3>1. Uncounted' = {}
      BY <2>1 DEF Uncounted, Idle
    <3> QED
      BY <3>1, FS_EmptySet
  <2>4. Counts' = logged' + missed' + Cardinality(Uncounted')
    <3> DEFINE c == Cardinality(Uncounted)
    <3>1. c \in Nat /\ Counts = logged + missed + c /\ missed' = missed + c
      BY <1>2, <2>2
    <3> HIDE DEF c
    <3>2. logged + missed + c = logged + (missed + c) + 0
      BY <1>0, <3>1
    <3> QED
      BY <2>1, <2>3, <3>1, <3>2
  <2>5. \A m \in Jobs : h'[m].count <= MaxPayments
    BY <2>1 DEF Idle
  <2> QED
    BY <2>1, <2>4, <2>5 DEF TotalInv
<1>8. CASE UNCHANGED vars
  <2>1. Counts' = Counts /\ UNCHANGED <<index, rep, logged, missed, h>>
    BY <1>8 DEF vars, storeVars, Counts
  <2> QED
    BY <2>1 DEF TotalInv, Uncounted
<1> QED
  BY <1>3, <1>4, <1>5, <1>6, <1>7, <1>8 DEF Next

\* The last of an agent's payments in line carries its count.
Last(i) == \A k \in (i + 1)..Len(line) :
              h[line[k]].pc = "recorded" => h[line[k]].agent # h[line[i]].agent

LastInv ==
    /\ \A i \in 1..Len(line) : h[line[i]].pc = "recorded" /\ Last(i)
                                 => h[line[i]].count = rep[h[line[i]].agent].count
    /\ \A a \in Agents : index[a] # rep[a].count => UnderWay(a) \/ a \in torn

LEMMA LastInit == Init => LastInv
BY DEF Init, LastInv, NoRecord

LEMMA LastContinue ==
    ASSUME JobsOK, StoreOK, LastInv, Continue
    PROVE  LastInv'
<1> DEFINE j == Head(line)
           n == Len(line)
<1>1. /\ j \in Jobs /\ rep' = rep /\ line # <<>>
      /\ \/ Answer(j) /\ h[j].pc \in {"trimmed", "volume", "adding", "saved"}
         \/ \E q \in Locals :
              /\ Await(j, q)
              /\ q.pc \notin {"idle", "recorded"}
              /\ q.agent = h[j].agent /\ q.count = h[j].count
              /\ q.pc = "logged" => q.stamp = clock /\ h[j].pc = "indexed"
              /\ q.pc = "indexed" => h[j].pc = "recorded"
  BY Moves
<1>2. /\ h \in [Jobs -> Locals] /\ n \in Nat
      /\ \A m \in Jobs : h[m].pc \in Paying => h[m].agent \in Agents
  BY DEF JobsOK, Lined, Proper
<1>3. /\ j = line[1] /\ 1 \in 1..n
      /\ \A i \in 1..(n - 1) : i + 1 \in 1..n /\ line[i + 1] # j /\ line[i + 1] \in Jobs
  BY <1>1, LinedHead DEF JobsOK
<1>j. j = Head(line)
  OBVIOUS
<1>4. /\ Len(line') \in {n - 1, n}
      /\ \A i \in 1..(n - 1) : line'[i] = line[i + 1] /\ h'[line[i + 1]] = h[line[i + 1]]
      /\ Len(line') = n => h'[line'[n]].pc # "recorded"
  <2>1. CASE Answer(j)
    <3>1. /\ Len(line') = n - 1
          /\ \A i \in 1..(n - 1) : line'[i] = line[i + 1] /\ h'[line[i + 1]] = h[line[i + 1]]
      BY <1>1, <2>1, LinedAnswer DEF JobsOK
    <3> QED
      BY <1>2, <3>1
  <2>2. ASSUME NEW q \in Locals, Await(j, q), q.pc \notin {"idle", "recorded"}
        PROVE  /\ Len(line') \in {n - 1, n}
               /\ \A i \in 1..(n - 1) : line'[i] = line[i + 1] /\ h'[line[i + 1]] = h[line[i + 1]]
               /\ Len(line') = n => h'[line'[n]].pc # "recorded"
    <3>1. /\ Len(line') = n /\ line'[n] = j /\ h'[j] = q
          /\ \A i \in 1..(n - 1) : line'[i] = line[i + 1] /\ h'[line[i + 1]] = h[line[i + 1]]
      BY <1>1, <2>2, LinedAwait DEF JobsOK
    <3> QED
      BY <2>2, <3>1
  <2> QED
    BY <1>1, <2>1, <2>2
<1> HIDE DEF j, n
<1>5. ASSUME NEW i \in 1..Len(line'), h'[line'[i]].pc = "recorded", Last(i)'
      PROVE  h'[line'[i]].count = rep[h'[line'[i]].agent].count
  <2>1. i \in 1..(n - 1) /\ i + 1 \in 1..n
    BY <1>2, <1>4, <1>5
  <2>2. h'[line'[i]] = h[line[i + 1]]
    BY <1>4, <2>1
  <2>3. Last(i + 1)
    <3> SUFFICES ASSUME NEW k \in ((i + 1) + 1)..n, h[line[k]].pc = "recorded"
                 PROVE  h[line[k]].agent # h[line[i + 1]].agent
      BY DEF Last, n
    <3>1. k - 1 \in 1..(n - 1) /\ k - 1 \in (i + 1)..Len(line') /\ (k - 1) + 1 = k
      BY <1>2, <1>4, <2>1
    <3>2. h'[line'[k - 1]] = h[line[k]]
      BY <1>4, <3>1
    <3> QED
      BY <1>5, <2>2, <3>1, <3>2 DEF Last
  <2> QED
    BY <1>5, <2>1, <2>2, <2>3 DEF LastInv, n
<1>6. ASSUME NEW a \in Agents, index'[a] # rep[a].count
      PROVE  UnderWay(a)' \/ a \in torn'
  <2>1. \A m \in Jobs : m # j => h'[m] = h[m]
    BY <1>1, <1>2 DEF Answer, Await
  <2>2. CASE RecordedReply(j) /\ h[j].agent = a
    <3>1. index'[a] = h[j].count /\ h[j].pc = "recorded"
      BY <2>2 DEF RecordedReply, Indexed, StoreOK
    <3>2. ~ Last(1)
      BY <1>3, <1>6, <2>2, <3>1 DEF LastInv, n
    <3>3. PICK k \in (1 + 1)..n : h[line[k]].pc = "recorded" /\ h[line[k]].agent = a
      BY <1>3, <2>2, <3>2 DEF Last, n
    <3>4. k - 1 \in 1..(n - 1) /\ (k - 1) + 1 = k
      BY <1>2, <3>3
    <3>5. line[k] # j /\ line[k] \in Jobs
      BY <1>3, <3>4
    <3> QED
      BY <2>1, <3>3, <3>5 DEF UnderWay
  <2>3. CASE RecordedReply(j) /\ h[j].agent # a
    <3>1. index'[a] = index[a] /\ (a \in torn => a \in torn')
      BY <2>3 DEF RecordedReply, Indexed, StoreOK
    <3>2. UnderWay(a) \/ a \in torn
      BY <1>6, <3>1 DEF LastInv
    <3>3. UnderWay(a) => UnderWay(a)'
      BY <2>1, <2>3 DEF UnderWay
    <3> QED
      BY <3>1, <3>2, <3>3
  <2>4. CASE ~ RecordedReply(j)
    <3>1. index' = index /\ torn' = torn /\ h[j].pc # "recorded"
      BY <1>j, <2>4 DEF Continue, IndexedReply, LoggedReply, AttestedReply, TrimmedReply,
                        VolumeReply, AddNext, SaveVolume, SavedReply, storeVars
    <3>2. UnderWay(a) => UnderWay(a)'
      BY <2>1, <3>1 DEF UnderWay
    <3> QED
      BY <1>6, <3>1, <3>2 DEF LastInv
  <2> QED
    BY <2>2, <2>3, <2>4
<1> QED
  BY <1>1, <1>5, <1>6 DEF LastInv

LEMMA LastStep ==
    ASSUME JobsOK, StoreOK, LastInv, [Next]_vars
    PROVE  LastInv'
<1> DEFINE n == Len(line)
<1>0. /\ h \in [Jobs -> Locals] /\ n \in Nat /\ rep \in [Agents -> Records]
      /\ \A m \in Jobs : h[m].pc \in Paying => h[m].agent \in Agents
      /\ \A i \in 1..n : line[i] \in Jobs
  BY DEF JobsOK, StoreOK, Lined, Proper
<1>1. ASSUME NEW j \in Jobs, NEW a \in Agents, NEW amount \in Amounts, RecordPayment(j, a, amount)
      PROVE  LastInv'
  <2>1. PICK q \in Locals : q.pc = "recorded" /\ q.agent = a /\ q.count = rep[a].count + 1 /\ Send(j, q)
    BY <1>1, Starts
  <2>2. h' = [h EXCEPT ![j] = q] /\ h[j].pc = "idle"
    BY <2>1 DEF Send
  <2>3. /\ Len(line') = n + 1 /\ line'[n + 1] = j /\ h'[j] = q
        /\ \A i \in 1..n : line'[i] = line[i] /\ h'[line[i]] = h[line[i]]
    BY <2>1, LinedSend DEF JobsOK
  <2>4. /\ index' = index /\ torn' = torn /\ rep'[a].count = rep[a].count + 1
        /\ \A b \in Agents \ {a} : rep'[b] = rep[b]
    BY <1>0, <1>1 DEF RecordPayment
  <2>n. n = Len(line)
    OBVIOUS
  <2> HIDE DEF n
  <2>5. ASSUME NEW i \in 1..Len(line'), h'[line'[i]].pc = "recorded", Last(i)'
        PROVE  h'[line'[i]].count = rep'[h'[line'[i]].agent].count
    <3>1. CASE i = n + 1
      BY <2>1, <2>3, <2>4, <3>1
    <3>2. CASE i # n + 1
      <4>1. i \in 1..n /\ n + 1 \in (i + 1)..Len(line')
        BY <1>0, <2>3, <3>2
      <4>2. h'[line'[i]] = h[line[i]] /\ h[line[i]].agent # a
        BY <2>1, <2>3, <2>5, <4>1 DEF Last
      <4>3. Last(i)
        <5> SUFFICES ASSUME NEW k \in (i + 1)..n, h[line[k]].pc = "recorded"
                     PROVE  h[line[k]].agent # h[line[i]].agent
          BY <2>n DEF Last
        <5>1. k \in 1..n /\ k \in (i + 1)..Len(line')
          BY <1>0, <2>3, <4>1
        <5> QED
          BY <2>3, <2>5, <4>2, <5>1 DEF Last
      <4>4. h[line[i]].agent \in Agents
        BY <1>0, <2>5, <4>1, <4>2 DEF Paying
      <4> QED
        BY <2>4, <2>5, <2>n, <4>1, <4>2, <4>3, <4>4 DEF LastInv
    <3> QED
      BY <3>1, <3>2
  <2>6. ASSUME NEW b \in Agents, index'[b] # rep'[b].count PROVE UnderWay(b)' \/ b \in torn'
    <3>1. CASE b = a
      BY <2>1, <2>3, <3>1 DEF UnderWay
    <3>2. CASE b # a
      <4>1. UnderWay(b) \/ b \in torn
        BY <2>4, <2>6, <3>2 DEF LastInv
      <4>2. UnderWay(b) => UnderWay(b)'
        BY <1>0, <2>2 DEF UnderWay
      <4> QED
        BY <2>4, <4>1, <4>2
    <3> QED
      BY <3>1, <3>2
  <2> QED
    BY <2>5, <2>6 DEF LastInv
<1>2. ASSUME NEW j \in Jobs, AskVolume(j) PROVE LastInv'
  <2>1. PICK q \in Locals : q.pc = "volume" /\ Send(j, q)
    BY <1>2, Starts
  <2>2. h' = [h EXCEPT ![j] = q] /\ h[j].pc = "idle"
    BY <2>1 DEF Send
  <2>3. /\ Len(line') = n + 1 /\ line'[n + 1] = j /\ h'[j] = q
        /\ \A i \in 1..n : line'[i] = line[i] /\ h'[line[i]] = h[line[i]]
    BY <2>1, LinedSend DEF JobsOK
  <2>4. index' = index /\ torn' = torn /\ rep' = rep
    BY <1>2 DEF AskVolume, storeVars
  <2>n. n = Len(line)
    OBVIOUS
  <2> HIDE DEF n
  <2>5. ASSUME NEW i \in 1..Len(line'), h'[line'[i]].pc = "recorded", Last(i)'
        PROVE  h'[line'[i]].count = rep[h'[line'[i]].agent].count
    <3>1. i \in 1..n
      BY <1>0, <2>1, <2>3, <2>5
    <3>2. h'[line'[i]] = h[line[i]]
      BY <2>3, <3>1
    <3>3. Last(i)
      <4> SUFFICES ASSUME NEW k \in (i + 1)..n, h[line[k]].pc = "recorded"
                   PROVE  h[line[k]].agent # h[line[i]].agent
        BY <2>n DEF Last
      <4>1. k \in 1..n /\ k \in (i + 1)..Len(line')
        BY <1>0, <2>3, <3>1
      <4> QED
        BY <2>3, <2>5, <3>2, <4>1 DEF Last
    <3> QED
      BY <2>5, <2>n, <3>1, <3>2, <3>3 DEF LastInv
  <2>6. \A b \in Agents : UnderWay(b) => UnderWay(b)'
    BY <1>0, <2>2 DEF UnderWay
  <2> QED
    BY <2>4, <2>5, <2>6 DEF LastInv
<1>3. CASE Continue
  BY <1>3, LastContinue
<1>4. CASE Tick
  BY <1>4 DEF Tick, storeVars, LastInv, Last, UnderWay
<1>5. CASE Crash
  <2>1. UNCHANGED <<rep, index>> /\ line' = <<>>
    BY <1>5 DEF Crash, storeVars
  <2>2. torn' = torn \cup {h[j].agent : j \in {i \in Jobs : h[i].pc = "recorded"}}
    BY <1>5 DEF Crash
  <2>3. \A a \in Agents : UnderWay(a) \/ a \in torn => a \in torn'
    BY <2>2 DEF UnderWay
  <2> QED
    BY <2>1, <2>3 DEF LastInv
<1>6. CASE UNCHANGED vars
  BY <1>6 DEF vars, storeVars, LastInv, Last, UnderWay
<1> QED
  BY <1>1, <1>2, <1>3, <1>4, <1>5, <1>6 DEF Next

LEMMA Totalling == Spec => [](JobsOK /\ StoreOK /\ TotalInv /\ LastInv)
BY TypedInit, TypedStep, TotalInit, TotalStep, LastInit, LastStep, PTL DEF Spec

\* The leaderboard and the totals agree with the records, up to what is under
\* way and what a crash cut off, for any number of concurrent payments.
THEOREM StatsAgreeHolds == Spec => []StatsAgree
<1>1. TotalInv /\ LastInv => StatsAgree
  BY DEF TotalInv, LastInv, StatsAgree, Uncounted
<1> QED
  BY <1>1, Totalling, PTL

-----------------------------------------------------------------------------
(* The published volume.                                                   *)

\* What a request read or added up so far has been paid by then.
Sound(q, all, paid) ==
    /\ q.pc = "volume" => q.sum <= all
    /\ q.pc = "adding" => q.sum <= Sum(paid, Agents \ q.left)

VolumeInv == volume <= Totals /\ \A j \in Jobs : Sound(h[j], Totals, Paid)

\* As much has been paid in any part of the agents after a step as before it.
LEMMA PaidGrows ==
    ASSUME StoreOK, StoreOK', \A b \in Agents : rep[b].total <= rep'[b].total
    PROVE  \A S \in SUBSET Agents : /\ Sum(Paid, S) \in Nat /\ Sum(Paid', S) \in Nat
                                    /\ Sum(Paid, S) <= Sum(Paid', S)
<1>1. \A b \in Agents : Paid[b] \in Nat /\ Paid'[b] \in Nat /\ Paid[b] <= Paid'[b]
  <2>1. \A b \in Agents : rep[b].total \in Nat /\ rep'[b].total \in Nat
    BY DEF StoreOK, Records
  <2> QED
    BY <2>1, CountsAre, CountsAreNext
<1> SUFFICES ASSUME NEW S \in SUBSET Agents
             PROVE  /\ Sum(Paid, S) \in Nat /\ Sum(Paid', S) \in Nat
                    /\ Sum(Paid, S) <= Sum(Paid', S)
  OBVIOUS
<1>2. IsFiniteSet(S)
  BY FS_Subset
<1>3. \A b \in S : Paid[b] \in Nat /\ Paid'[b] \in Nat /\ Paid[b] <= Paid'[b]
  BY <1>1
<1> QED
  BY <1>2, <1>3, SumNat, SumLess

\* So what was sound stays so.
LEMMA SoundStays ==
    ASSUME StoreOK, StoreOK', \A b \in Agents : rep[b].total <= rep'[b].total,
           NEW q \in Locals, Sound(q, Totals, Paid)
    PROVE  Sound(q, Totals', Paid') /\ Totals \in Nat /\ Totals' \in Nat /\ Totals <= Totals'
<1>1. /\ Totals \in Nat /\ Totals' \in Nat /\ Totals <= Totals'
      /\ Totals = Sum(Paid, Agents) /\ Totals' = Sum(Paid', Agents)
  BY PaidGrows, CountsAre, CountsAreNext
<1>2. q.sum \in Nat
  BY DEF Locals
<1>3. q.pc = "volume" => q.sum <= Totals'
  BY <1>1, <1>2 DEF Sound
<1>4. q.pc = "adding" => q.sum <= Sum(Paid', Agents \ q.left)
  <2> DEFINE S == Agents \ q.left
  <2>1. S \in SUBSET Agents
    OBVIOUS
  <2>2. q.pc = "adding" => q.sum <= Sum(Paid, S)
    BY DEF Sound
  <2> HIDE DEF S
  <2>3. Sum(Paid, S) \in Nat /\ Sum(Paid', S) \in Nat /\ Sum(Paid, S) <= Sum(Paid', S)
    BY <2>1, PaidGrows
  <2>4. q.pc = "adding" => q.sum <= Sum(Paid', S)
    BY <1>2, <2>2, <2>3
  <2> QED
    BY <2>4 DEF S
<1>5. Sound(q, Totals', Paid')
  BY <1>3, <1>4 DEF Sound
<1> QED
  BY <1>1, <1>5

LEMMA VolumeInit == Init => VolumeInv
<1> SUFFICES ASSUME Init PROVE VolumeInv
  OBVIOUS
<1>1. volume = 0 /\ \A j \in Jobs : h[j].pc = "idle"
  BY DEF Init, Idle
<1>2. Totals \in Nat
  BY TypedInit, CountsAre
<1>3. volume <= Totals
  BY <1>1, <1>2
<1> QED
  BY <1>1, <1>3 DEF VolumeInv, Sound

LEMMA VolumeContinue ==
    ASSUME JobsOK, StoreOK, StoreOK', VolumeInv, Continue
    PROVE  VolumeInv'
<1> DEFINE j == Head(line)
<1>1. /\ j \in Jobs /\ rep' = rep /\ (Answer(j) \/ \E q \in Locals : Await(j, q))
  BY Moves
<1>j. j = Head(line)
  OBVIOUS
<1> HIDE DEF j
<1>2. /\ h \in [Jobs -> Locals] /\ volume \in Nat /\ index \in [Agents -> Nat] /\ rep \in [Agents -> Records]
      /\ h[j] \in Locals
  BY <1>1 DEF JobsOK, StoreOK
<1>3. /\ Totals = Sum(Paid, Agents) /\ Totals \in Nat
      /\ \A a \in Agents : Paid[a] = rep[a].total /\ Paid[a] \in Nat
  BY CountsAre
<1>4. Totals' = Totals /\ Paid' = Paid
  BY <1>1 DEF Totals, Paid
<1>5. \A m \in Jobs : m # j => h'[m] = h[m]
  BY <1>1, <1>2 DEF Answer, Await
<1>7. volume' <= Totals /\ Sound(h'[j], Totals, Paid)
  <2>1. volume <= Totals /\ Sound(h[j], Totals, Paid)
    BY <1>1 DEF VolumeInv
  <2>2. CASE Answer(j) /\ volume' = volume
    <3>1. h'[j] = Idle /\ Idle.pc = "idle"
      BY <1>1, <1>2, <2>2 DEF Answer, Idle
    <3> QED
      BY <2>1, <2>2, <3>1 DEF Sound
  <2>3. ASSUME NEW q \in Locals, h' = [h EXCEPT ![j] = q], volume' = volume,
               q.pc \notin {"volume", "adding"}
        PROVE  volume' <= Totals /\ Sound(h'[j], Totals, Paid)
    BY <1>1, <1>2, <2>1, <2>3 DEF Sound
  <2>4. CASE RecordedReply(j) \/ LoggedReply(j) \/ AttestedReply(j) \/ IndexedReply(j)
    <3>1. PICK q \in Locals : Await(j, q) /\ q.pc \in {"indexed", "attested", "trimmed", "logged"}
      <4>1. /\ [h[j] EXCEPT !.pc = "indexed"] \in Locals /\ [h[j] EXCEPT !.pc = "indexed"].pc = "indexed"
            /\ [h[j] EXCEPT !.pc = "attested"] \in Locals /\ [h[j] EXCEPT !.pc = "attested"].pc = "attested"
            /\ [h[j] EXCEPT !.pc = "trimmed"] \in Locals /\ [h[j] EXCEPT !.pc = "trimmed"].pc = "trimmed"
        BY <1>2 DEF Locals, Pcs
      <4>2. clock \in 0..MaxTime
        BY DEF StoreOK
      <4>3. /\ [h[j] EXCEPT !.pc = "logged", !.stamp = clock] \in Locals
            /\ [h[j] EXCEPT !.pc = "logged", !.stamp = clock].pc = "logged"
        BY <1>2, <4>2 DEF Locals, Pcs
      <4>4. CASE IndexedReply(j)
        BY <4>3, <4>4 DEF IndexedReply
      <4>5. CASE RecordedReply(j)
        BY <4>1, <4>5 DEF RecordedReply
      <4>6. CASE LoggedReply(j)
        BY <4>1, <4>6 DEF LoggedReply
      <4>7. CASE AttestedReply(j)
        BY <4>1, <4>7 DEF AttestedReply
      <4> QED
        BY <2>4, <4>4, <4>5, <4>6, <4>7
    <3>2. volume' = volume
      BY <2>4 DEF RecordedReply, LoggedReply, AttestedReply, IndexedReply
    <3> QED
      BY <2>3, <3>1, <3>2 DEF Await
  <2>5. CASE TrimmedReply(j) \/ SavedReply(j)
    BY <2>2, <2>5 DEF TrimmedReply, SavedReply, storeVars
  <2>6. CASE VolumeReply(j)
    <3> DEFINE L == {a \in Agents : index[a] > 0}
               q == [h[j] EXCEPT !.pc = "adding", !.left = L]
    <3>1. volume' = volume /\ h[j].pc = "volume"
      BY <2>6 DEF VolumeReply, storeVars
    <3>2. CASE h[j].sum > 0
      BY <2>2, <2>6, <3>1, <3>2 DEF VolumeReply
    <3>3. CASE ~ (h[j].sum > 0)
      <4>1. h' = [h EXCEPT ![j] = q]
        BY <2>6, <3>3 DEF VolumeReply, Await
      <4>2. L \in SUBSET Agents /\ h[j].sum = 0
        BY <1>2, <3>3 DEF Locals
      <4> HIDE DEF L
      <4>3. q.pc = "adding" /\ q.left = L /\ q.sum = 0 /\ q \in Locals
        BY <1>2, <4>2 DEF Locals, Pcs
      <4> HIDE DEF q
      <4>4. Sum(Paid, Agents \ L) \in Nat
        <5>1. IsFiniteSet(Agents \ L)
          BY FS_Difference
        <5>2. \A a \in Agents \ L : Paid[a] \in Nat
          BY <1>3
        <5> QED
          BY <5>1, <5>2, SumNat
      <4>5. q.sum <= Sum(Paid, Agents \ q.left)
        BY <4>3, <4>4
      <4>6. h'[j] = q
        BY <1>1, <1>2, <4>1
      <4> QED
        BY <2>1, <3>1, <4>3, <4>5, <4>6 DEF Sound
    <3> QED
      BY <3>2, <3>3
  <2>7. CASE AddNext(j)
    <3>1. PICK a \in h[j].left : Await(j, [h[j] EXCEPT !.left = @ \ {a}, !.sum = @ + rep[a].total])
      BY <2>7 DEF AddNext
    <3> DEFINE t == h[j].sum + rep[a].total
               L == h[j].left \ {a}
               q == [h[j] EXCEPT !.left = L, !.sum = t]
    <3>2. volume' = volume /\ h[j].pc = "adding" /\ h' = [h EXCEPT ![j] = q]
      BY <2>7, <3>1 DEF AddNext, storeVars, Await
    <3>3. a \in Agents /\ h[j].left \in SUBSET Agents /\ h[j].sum \in Nat /\ L \in SUBSET Agents
      BY <1>2, <3>1 DEF Locals
    <3>4. t \in Nat /\ t = h[j].sum + Paid[a]
      BY <1>3, <3>3
    <3>5. Sum(Paid, Agents \ L) = Paid[a] + Sum(Paid, Agents \ h[j].left)
      <4>1. (Agents \ L) \ {a} = Agents \ h[j].left /\ a \in Agents \ L
        BY <3>1, <3>3
      <4> HIDE DEF L
      <4>2. IsFiniteSet(Agents \ L) /\ \A b \in Agents \ L : Paid[b] \in Int
        <5>1. IsFiniteSet(Agents \ L)
          BY FS_Difference
        <5>2. \A b \in Agents \ L : Paid[b] \in Int
          BY <1>3
        <5> QED
          BY <5>1, <5>2
      <4> QED
        BY <4>1, <4>2, SumRemove
    <3>6. h[j].sum <= Sum(Paid, Agents \ h[j].left) /\ Sum(Paid, Agents \ h[j].left) \in Nat
      <4>1. IsFiniteSet(Agents \ h[j].left) /\ \A b \in Agents \ h[j].left : Paid[b] \in Nat
        BY <1>3, FS_Difference
      <4>2. Sum(Paid, Agents \ h[j].left) \in Nat
        BY <4>1, SumNat
      <4> QED
        BY <2>1, <3>2, <4>2 DEF Sound
    <3> HIDE DEF t, L
    <3>7. q.pc = "adding" /\ q.left = L /\ q.sum = t
      BY <1>2, <3>2 DEF Locals
    <3>8. h'[j] = q
      BY <1>1, <1>2, <3>2
    <3> HIDE DEF q
    <3>9. t <= Sum(Paid, Agents \ L)
      <4> DEFINE u == Sum(Paid, Agents \ h[j].left)
      <4>1. u \in Nat /\ h[j].sum <= u /\ Sum(Paid, Agents \ L) = Paid[a] + u
        BY <3>5, <3>6
      <4>2. Paid[a] \in Nat
        BY <1>3, <3>3
      <4> HIDE DEF u
      <4> QED
        BY <3>3, <3>4, <4>1, <4>2
    <3> QED
      BY <2>1, <3>2, <3>7, <3>8, <3>9 DEF Sound
  <2>8. CASE SaveVolume(j)
    <3>1. h[j].pc = "adding" /\ h[j].left = {}
      BY <2>8 DEF SaveVolume
    <3>2. h[j].sum <= Totals
      <4>1. Agents \ h[j].left = Agents
        BY <3>1
      <4> QED
        BY <1>3, <2>1, <3>1, <4>1 DEF Sound
    <3>3. CASE h[j].sum = 0
      BY <2>2, <2>8, <3>3 DEF SaveVolume
    <3>4. CASE h[j].sum # 0
      <4> DEFINE q == [h[j] EXCEPT !.pc = "saved"]
      <4>1. volume' = h[j].sum /\ h' = [h EXCEPT ![j] = q]
        BY <2>8, <3>4 DEF SaveVolume, Saved, Await
      <4>2. q.pc = "saved"
        BY <1>2 DEF Locals
      <4> HIDE DEF q
      <4>3. h'[j] = q
        BY <1>1, <1>2, <4>1
      <4> QED
        BY <3>2, <4>1, <4>2, <4>3 DEF Sound
    <3> QED
      BY <3>3, <3>4
  <2> QED
    BY <2>4, <2>5, <2>6, <2>7, <2>8, <1>j DEF Continue
<1>8. ASSUME NEW m \in Jobs PROVE Sound(h'[m], Totals, Paid)
  BY <1>5, <1>7 DEF VolumeInv
<1> QED
  BY <1>4, <1>7, <1>8 DEF VolumeInv

LEMMA VolumeStep ==
    ASSUME JobsOK, StoreOK, StoreOK', VolumeInv, [Next]_vars
    PROVE  VolumeInv'
<1>0. h \in [Jobs -> Locals] /\ volume \in Nat
  BY DEF JobsOK, StoreOK
<1>1. \A b \in Agents : rep[b].total <= rep[b].total
  <2>1. \A b \in Agents : rep[b].total \in Nat
    BY DEF StoreOK, Records
  <2> QED
    BY <2>1
\* A step that starts requests or ends them, and at most adds to the records,
\* does no harm.
<1>2. ASSUME \A b \in Agents : rep[b].total <= rep'[b].total, volume' = volume,
             \A m \in Jobs : h'[m] = h[m] \/ (Sound(h'[m], Totals, Paid) /\ h'[m] \in Locals)
      PROVE  VolumeInv'
  <2>1. ASSUME NEW m \in Jobs PROVE Sound(h'[m], Totals', Paid')
    <3> DEFINE q == h'[m]
    <3>1. q \in Locals /\ Sound(q, Totals, Paid)
      BY <1>0, <1>2 DEF VolumeInv
    <3> HIDE DEF q
    <3>2. Sound(q, Totals', Paid')
      BY <1>2, <3>1, SoundStays
    <3> QED
      BY <3>2 DEF q
  <2>2. volume' <= Totals'
    <3>1. h \in [Jobs -> Locals] /\ Totals \in Nat /\ Totals' \in Nat /\ Totals <= Totals'
      BY <1>0, <1>2, PaidGrows, CountsAre, CountsAreNext
    <3> QED
      BY <1>0, <1>2, <3>1 DEF VolumeInv
  <2> QED
    BY <2>1, <2>2 DEF VolumeInv
<1>3. ASSUME NEW j \in Jobs, NEW a \in Agents, NEW amount \in Amounts, RecordPayment(j, a, amount)
      PROVE  VolumeInv'
  <2>1. PICK q \in Locals : q.pc = "recorded" /\ Send(j, q)
    BY <1>3, Starts
  <2>2. h' = [h EXCEPT ![j] = q] /\ Sound(q, Totals, Paid)
    BY <2>1 DEF Send, Sound
  <2>3. volume' = volume /\ \A b \in Agents : rep[b].total <= rep'[b].total
    BY <1>3, PaymentAdds DEF RecordPayment
  <2>4. \A m \in Jobs : h'[m] = h[m] \/ (Sound(h'[m], Totals, Paid) /\ h'[m] \in Locals)
    BY <1>0, <2>1, <2>2
  <2> QED
    BY <1>2, <2>3, <2>4
<1>4. ASSUME NEW j \in Jobs, AskVolume(j) PROVE VolumeInv'
  <2>1. PICK q \in Locals : q.pc = "volume" /\ q.sum = volume /\ Send(j, q)
    BY <1>4, Starts
  <2>2. h' = [h EXCEPT ![j] = q] /\ Sound(q, Totals, Paid)
    BY <2>1 DEF Send, Sound, VolumeInv
  <2>3. volume' = volume /\ rep' = rep
    BY <1>4 DEF AskVolume, storeVars
  <2>4. \A m \in Jobs : h'[m] = h[m] \/ (Sound(h'[m], Totals, Paid) /\ h'[m] \in Locals)
    BY <1>0, <2>1, <2>2
  <2> QED
    BY <1>1, <1>2, <2>3, <2>4
<1>5. CASE Continue
  BY <1>5, VolumeContinue
<1>6. CASE Tick \/ UNCHANGED vars
  <2>1. volume' = volume /\ rep' = rep /\ h' = h
    BY <1>6 DEF Tick, vars, storeVars
  <2>2. \A b \in Agents : rep[b].total <= rep'[b].total
    BY <1>1, <2>1
  <2>3. \A m \in Jobs : h'[m] = h[m] \/ (Sound(h'[m], Totals, Paid) /\ h'[m] \in Locals)
    <3>1. \A m \in Jobs : h'[m] = h[m]
      BY <2>1
    <3> QED
      BY <3>1
  <2>4. volume' = volume
    BY <2>1
  <2> QED
    BY <1>2, <2>2, <2>3, <2>4
<1>7. CASE Crash
  <2>1. volume' = volume /\ rep' = rep /\ h' = [j \in Jobs |-> Idle]
    BY <1>7 DEF Crash, storeVars
  <2>2. Sound(Idle, Totals, Paid) /\ Idle \in Locals
    BY IdleProper DEF Sound, Proper
  <2> QED
    BY <1>1, <1>2, <2>1, <2>2
<1> QED
  BY <1>3, <1>4, <1>5, <1>6, <1>7 DEF Next

\* The published volume never exceeds what was paid, however the requests that
\* add it up interleave with payments and one another.
THEOREM VolumeNotOverstatedHolds == Spec => []VolumeNotOverstated
<1>1. VolumeInv => VolumeNotOverstated
  BY DEF VolumeInv, VolumeNotOverstated
<1> QED
  BY <1>1, TypedInit, TypedStep, VolumeInit, VolumeStep, PTL DEF Spec

-----------------------------------------------------------------------------
\* Every variable has its type, the logs are newest first, and a request waits
\* for one reply.
THEOREM TypeCorrect == Spec => []TypeOK
<1>1. ASSUME JobsOK, StoreOK, TimeInv, TotalInv PROVE TypeOK
  <2>1. rep \in [Agents -> [count : 0..MaxPayments, total : Nat,
                            first : 0..MaxTime, last : 0..MaxTime]]
    <3>1. ASSUME NEW a \in Agents
          PROVE  rep[a] \in [count : 0..MaxPayments, total : Nat,
                             first : 0..MaxTime, last : 0..MaxTime]
      <4>1. rep[a] \in Records /\ rep[a].count \in 0..MaxPayments
        BY <1>1 DEF StoreOK, Records, TotalInv
      <4> QED
        BY <4>1 DEF Records
    <3> QED
      BY <1>1, <3>1 DEF StoreOK
  <2>2. index \in [Agents -> 0..MaxPayments]
    BY <1>1 DEF StoreOK, TotalInv
  <2>3. logged \in 0..MaxPayments
    <3>1. Uncounted \in SUBSET Jobs
      BY DEF Uncounted
    <3> DEFINE c == Cardinality(Uncounted)
    <3>2. c \in Nat /\ Counts = logged + missed + c /\ Counts <= MaxPayments /\ Counts \in Nat
      BY <1>1, <3>1, Fewer, CountsAre DEF TotalInv
    <3>3. logged \in Nat /\ missed \in Nat
      BY <1>1 DEF StoreOK
    <3> HIDE DEF c
    <3> QED
      BY <3>2, <3>3
  <2>4. ASSUME NEW log \in Seq(Entries), Falling(log) PROVE NewestFirst(log)
    <3>1. Len(log) \in Nat
      OBVIOUS
    <3>2. \A i \in 1..(Len(log) - 1) : i \in 1..Len(log) /\ i + 1 \in 1..Len(log) /\ i <= i + 1
      BY <3>1
    <3> QED
      BY <2>4, <3>2 DEF Falling, NewestFirst
  <2>5. NewestFirst(payments) /\ \A a \in Agents : NewestFirst(attest[a])
    BY <1>1, <2>4 DEF TimeInv, StoreOK
  <2>6. \A j \in Jobs :
          Cardinality({i \in DOMAIN line : line[i] = j}) = IF h[j].pc = "idle" THEN 0 ELSE 1
    BY <1>1, LinedOnce DEF JobsOK
  <2> QED
    BY <1>1, <2>1, <2>2, <2>3, <2>5, <2>6 DEF TypeOK, JobsOK, StoreOK, Lined, Locals, Pcs
<1> QED
  BY <1>1, Timing, Totalling, PTL

\* A payment, a reply or a crash never lowers an agent's risk: counts only
\* grow, and the time of the first payment stays.
THEOREM RiskTracksPaceHolds == Spec => RiskTracksPace
<1>1. ASSUME JobsOK, StoreOK, JobsOK', StoreOK', TimeInv, [Next]_vars, clock' = clock, NEW a \in Agents
      PROVE  SybilRisk(rep[a], clock) <= SybilRisk(rep'[a], clock)
  <2> DEFINE c == rep[a].count
             d == rep'[a].count
             f == rep[a].first
             g == rep'[a].first
  <2>1. c \in Nat /\ d \in Nat /\ f \in Nat /\ g \in Nat /\ clock \in Nat
    <3>1. rep[a] \in Records /\ rep'[a] \in Records /\ clock \in Nat
      BY <1>1 DEF StoreOK
    <3>2. \A r \in Records : r.count \in Nat /\ r.first \in Nat
      BY DEF Records
    <3> QED
      BY <3>1, <3>2
  <2>2. (c = d /\ f = g) \/ (d = c + 1 /\ (c # 0 => f = g) /\ (c = 0 => g = clock))
    <3>1. CASE rep' = rep
      BY <3>1
    <3>2. ASSUME NEW j \in Jobs, NEW b \in Agents, NEW amount \in Amounts, RecordPayment(j, b, amount)
          PROVE  (c = d /\ f = g) \/ (d = c + 1 /\ (c # 0 => f = g) /\ (c = 0 => g = clock))
      <4>1. rep' = [rep EXCEPT ![b] =
                     [count |-> rep[b].count + 1, total |-> rep[b].total + amount,
                      first |-> IF rep[b].count = 0 THEN clock ELSE rep[b].first, last |-> clock]]
        BY <3>2 DEF RecordPayment
      <4>2. rep \in [Agents -> Records]
        BY <1>1 DEF StoreOK
      <4>3. CASE b = a
        BY <4>1, <4>2, <4>3
      <4>4. CASE b # a
        BY <4>1, <4>2, <4>4
      <4> QED
        BY <4>3, <4>4
    <3>3. CASE Continue
      BY <1>1, <3>1, <3>3, Moves
    <3> QED
      BY <1>1, <3>1, <3>2, <3>3 DEF Next, AskVolume, Tick, Crash, storeVars, vars
  <2>3. \A i \in 1..3 : RiskAge[i] \in Nat /\ RiskCount[i] \in Nat
    OBVIOUS
  <2> DEFINE A1 == clock - f < RiskAge[1] /\ c > RiskCount[1]
             A2 == clock - f < RiskAge[2] /\ c > RiskCount[2]
             A3 == clock - f < RiskAge[3] /\ c > RiskCount[3]
             B1 == clock - g < RiskAge[1] /\ d > RiskCount[1]
             B2 == clock - g < RiskAge[2] /\ d > RiskCount[2]
             B3 == clock - g < RiskAge[3] /\ d > RiskCount[3]
  <2>4. c # 0 => (A1 => B1) /\ (A2 => B2) /\ (A3 => B3)
    <3>1. 1 \in 1..3 /\ 2 \in 1..3 /\ 3 \in 1..3
      OBVIOUS
    <3>2. /\ RiskCount[1] \in Nat /\ RiskCount[2] \in Nat /\ RiskCount[3] \in Nat
          /\ RiskAge[1] \in Nat /\ RiskAge[2] \in Nat /\ RiskAge[3] \in Nat
      BY <2>3, <3>1
    <3> HIDE DEF c, d, f, g
    <3> QED
      BY <2>1, <2>2, <3>2
  <2>5. SybilRisk(rep[a], clock) = IF c = 0 THEN 0 ELSE IF A1 THEN 2 ELSE IF A2 \/ A3 THEN 1 ELSE 0
    <3>1. c = 0 \/ c > 0
      BY <2>1
    <3> QED
      BY <2>1, <3>1 DEF SybilRisk
  <2>6. SybilRisk(rep'[a], clock) = IF d = 0 THEN 0 ELSE IF B1 THEN 2 ELSE IF B2 \/ B3 THEN 1 ELSE 0
    <3>1. d = 0 \/ d > 0
      BY <2>1
    <3> QED
      BY <2>1, <3>1 DEF SybilRisk
  <2>7. c # 0 => d # 0
    BY <2>1, <2>2
  <2> HIDE DEF A1, A2, A3, B1, B2, B3, c, d
  <2> QED
    BY <2>4, <2>5, <2>6, <2>7
<1>2. ASSUME JobsOK, StoreOK, JobsOK', StoreOK', TimeInv, [Next]_vars
      PROVE  [clock' = clock => \A a \in Agents :
                SybilRisk(rep[a], clock) <= SybilRisk(rep'[a], clock')]_vars
  BY <1>1, <1>2
<1> QED
  BY <1>2, Timing, PTL DEF Spec, RiskTracksPace
=============================================================================
