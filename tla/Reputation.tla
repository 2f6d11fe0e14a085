---------------------------- MODULE Reputation ----------------------------
(***************************************************************************)
(* What the Shield remembers of its payers and tells the public:           *)
(* recordPayment of index.js and of the Redis store, the leaderboard, the  *)
(* totals, and the risk signals of lib/detection.js.                       *)
(*                                                                         *)
(* The record of a payment is spread over four keys that are written by    *)
(* five round trips.  One process has one connection: commands take effect *)
(* in the order they are sent, replies are handled in that order (`line`), *)
(* and a handler sends its next command when it handles a reply.           *)
(***************************************************************************)
EXTENDS Integers, Sequences, FiniteSets, FiniteSetsExt

CONSTANTS
    Jobs,        \* requests in progress
    Agents,      \* public keys
    NoAgent,     \* none
    Amounts,     \* what payments can amount to
    LogMax,      \* 100 entries per log
    Many,        \* 50 payments
    Day,         \* 24 h
    Dormant,     \* 90 days
    RiskAge,     \* 6 h, 24 h, 72 h
    RiskCount,   \* 20, 50, 100 payments
    MaxTime,     \* bound on the clock
    MaxPayments, \* bound on payments
    MaxCrashes   \* bound on crashes

ASSUME ReputationAssumption ==
    /\ IsFiniteSet(Jobs)
    /\ IsFiniteSet(Agents) /\ NoAgent \notin Agents
    /\ Amounts \subseteq Nat \ {0}
    /\ LogMax \in Nat /\ Many \in 1..LogMax
    /\ Day \in Nat /\ Dormant \in Nat /\ Day <= Dormant
    /\ RiskAge \in [1..3 -> Nat] /\ RiskCount \in [1..3 -> Nat]
    /\ RiskAge[1] <= RiskAge[2] /\ RiskAge[2] <= RiskAge[3]
    /\ MaxTime \in Nat /\ MaxPayments \in Nat /\ MaxCrashes \in Nat

NoRecord == [count |-> 0, total |-> 0, first |-> 0, last |-> 0]
Idle == [pc |-> "idle", agent |-> NoAgent, amount |-> 0, count |-> 0, stamp |-> 0,
         left |-> {}, sum |-> 0]

VARIABLES
    clock,
    rep,      \* rep[a]: the reputation hash
    index,    \* index[a]: the leaderboard's score, 0 if a is not in it
    payments, \* the log of recent payments, newest first
    logged,   \* payments_total
    attest,   \* attest[a]: the attestation log, newest first
    volume,   \* payments_micro_lamports_total, 0 if it was never set
    h,        \* h[j]: where request j is and its local variables
    line,     \* the requests waiting for a reply, in order
    torn,     \* history: agents whose last payment was cut off before the index
    missed,   \* history: payments cut off before the log
    crashes

storeVars == <<rep, index, payments, logged, attest, volume>>
vars == <<clock, storeVars, h, line, torn, missed, crashes>>

Init ==
    /\ clock = 0
    /\ rep = [a \in Agents |-> NoRecord]
    /\ index = [a \in Agents |-> 0]
    /\ payments = <<>>
    /\ logged = 0
    /\ attest = [a \in Agents |-> <<>>]
    /\ volume = 0
    /\ h = [j \in Jobs |-> Idle]
    /\ line = <<>>
    /\ torn = {}
    /\ missed = 0
    /\ crashes = 0

Total(f) == MapThenSumSet(LAMBDA a : f[a], Agents)
Counts == Total([a \in Agents |-> rep[a].count])
Totals == Total([a \in Agents |-> rep[a].total])

-----------------------------------------------------------------------------
\* j sends its first command, or the next one, or answers its client.
Send(j, q) ==
    /\ h[j].pc = "idle"
    /\ h' = [h EXCEPT ![j] = q]
    /\ line' = Append(line, j)

Await(j, q) ==
    /\ h' = [h EXCEPT ![j] = q]
    /\ line' = Append(Tail(line), j)

Answer(j) ==
    /\ h' = [h EXCEPT ![j] = Idle]
    /\ line' = Tail(line)

\* Mutants: RPUSH; an LPUSH that is sent twice.
PushedTwice(log, entry) == <<entry, entry>> \o log
PushedLast(log, entry) == Append(log, entry)
\* LPUSH.
Pushed(log, entry) == <<entry>> \o log

\* LTRIM.
Trimmed(log) == IF Len(log) > LogMax THEN SubSeq(log, 1, LogMax) ELSE log

\* BOUND: at most MaxPayments payments.  store.recordPayment takes the time and
\* sends its pipeline: HINCRBY twice, HSET, HSETNX.
RecordPayment(j, a, amount) ==
    /\ Counts < MaxPayments
    /\ LET r == rep[a] IN
       /\ rep' = [rep EXCEPT ![a] = [count |-> r.count + 1, total |-> r.total + amount,
                     first |-> IF r.count = 0 THEN clock ELSE r.first, last |-> clock]]
       /\ Send(j, [Idle EXCEPT !.pc = "recorded", !.agent = a, !.amount = amount,
                               !.count = r.count + 1])
    /\ UNCHANGED <<clock, index, payments, logged, attest, volume, torn, missed, crashes>>

\* Mutant: the index takes new members only.
IndexedOnce(a, count) == [index EXCEPT ![a] = IF @ = 0 THEN count ELSE @]
Indexed(a, count) == [index EXCEPT ![a] = count]

\* ZADD of the count the pipeline answered.
RecordedReply(j) ==
    /\ h[j].pc = "recorded"
    /\ index' = Indexed(h[j].agent, h[j].count)
    /\ torn' = torn \ {h[j].agent}
    /\ Await(j, [h[j] EXCEPT !.pc = "indexed"])
    /\ UNCHANGED <<clock, rep, payments, logged, attest, volume, missed, crashes>>

\* recordPayment takes the time again; pushPayment.
IndexedReply(j) ==
    /\ h[j].pc = "indexed"
    /\ payments' = Trimmed(Pushed(payments, [ts |-> clock, amount |-> h[j].amount]))
    /\ logged' = logged + 1
    /\ Await(j, [h[j] EXCEPT !.pc = "logged", !.stamp = clock])
    /\ UNCHANGED <<clock, rep, index, attest, volume, torn, missed, crashes>>

\* pushAttestation: LPUSH, then LTRIM.
LoggedReply(j) ==
    /\ h[j].pc = "logged"
    /\ attest' = [attest EXCEPT ![h[j].agent] =
                    Pushed(@, [ts |-> h[j].stamp, amount |-> h[j].amount])]
    /\ Await(j, [h[j] EXCEPT !.pc = "attested"])
    /\ UNCHANGED <<clock, rep, index, payments, logged, volume, torn, missed, crashes>>

AttestedReply(j) ==
    /\ h[j].pc = "attested"
    /\ attest' = [attest EXCEPT ![h[j].agent] = Trimmed(@)]
    /\ Await(j, [h[j] EXCEPT !.pc = "trimmed"])
    /\ UNCHANGED <<clock, rep, index, payments, logged, volume, torn, missed, crashes>>

\* The paid request goes on.
TrimmedReply(j) ==
    /\ h[j].pc = "trimmed"
    /\ Answer(j)
    /\ UNCHANGED <<clock, storeVars, torn, missed, crashes>>

-----------------------------------------------------------------------------
\* GET /stats/recent: getTotalPaidVolume adds up the totals of the leaderboard
\* once and saves the sum for ever (no payment adds to it).

AskVolume(j) ==
    /\ Send(j, [Idle EXCEPT !.pc = "volume", !.sum = volume])
    /\ UNCHANGED <<clock, storeVars, torn, missed, crashes>>

\* HGET answered; if there is no sum, ZRANGE.
VolumeReply(j) ==
    /\ h[j].pc = "volume"
    /\ IF h[j].sum > 0 THEN Answer(j)
       ELSE Await(j, [h[j] EXCEPT !.pc = "adding", !.left = {a \in Agents : index[a] > 0}])
    /\ UNCHANGED <<clock, storeVars, torn, missed, crashes>>

\* HGET of the next member's total.
AddNext(j) ==
    /\ h[j].pc = "adding" /\ h[j].left # {}
    /\ \E a \in h[j].left :
         Await(j, [h[j] EXCEPT !.left = @ \ {a}, !.sum = @ + rep[a].total])
    /\ UNCHANGED <<clock, storeVars, torn, missed, crashes>>

\* Mutant: HINCRBY.
SavedOnTop(sum) == volume + sum
Saved(sum) == sum

SaveVolume(j) ==
    /\ h[j].pc = "adding" /\ h[j].left = {}
    /\ IF h[j].sum = 0 THEN Answer(j) /\ UNCHANGED volume
       ELSE /\ volume' = Saved(h[j].sum)
            /\ Await(j, [h[j] EXCEPT !.pc = "saved"])
    /\ UNCHANGED <<clock, rep, index, payments, logged, attest, torn, missed, crashes>>

SavedReply(j) ==
    /\ h[j].pc = "saved"
    /\ Answer(j)
    /\ UNCHANGED <<clock, storeVars, torn, missed, crashes>>

\* The next reply on the connection is handled.
Continue ==
    /\ line # <<>>
    /\ LET j == Head(line) IN
         \/ RecordedReply(j)
         \/ IndexedReply(j)
         \/ LoggedReply(j)
         \/ AttestedReply(j)
         \/ TrimmedReply(j)
         \/ VolumeReply(j)
         \/ AddNext(j)
         \/ SaveVolume(j)
         \/ SavedReply(j)

\* BOUND: the clock stops at MaxTime.
Tick ==
    /\ clock < MaxTime
    /\ clock' = clock + 1
    /\ UNCHANGED <<storeVars, h, line, torn, missed, crashes>>

\* BOUND: at most MaxCrashes crashes.  What was being recorded stays as it is.
Crash ==
    /\ crashes < MaxCrashes
    /\ crashes' = crashes + 1
    /\ torn' = torn \cup {h[j].agent : j \in {i \in Jobs : h[i].pc = "recorded"}}
    /\ missed' = missed + Cardinality({j \in Jobs : h[j].pc \in {"recorded", "indexed"}})
    /\ h' = [j \in Jobs |-> Idle]
    /\ line' = <<>>
    /\ UNCHANGED <<clock, storeVars>>

Next ==
    \/ \E j \in Jobs, a \in Agents, amount \in Amounts : RecordPayment(j, a, amount)
    \/ \E j \in Jobs : AskVolume(j)
    \/ Continue
    \/ Tick
    \/ Crash

Spec == Init /\ [][Next]_vars
-----------------------------------------------------------------------------
\* lib/detection.js, over the attestations and the record of one agent.  (The
\* signals across operators need a second OPERATOR_ID to be other than false.)

Attestations(a) == Trimmed(attest[a])
Recent(log, now) == {i \in DOMAIN log : log[i].ts > now - Day}

\* washPaymentSuspect
WashPaymentSuspect(log, now) ==
    /\ Cardinality(Recent(log, now)) >= Many
    /\ \E i \in Recent(log, now) :
         2 * Cardinality({k \in Recent(log, now) : log[k].amount = log[i].amount})
            > Cardinality(Recent(log, now))

\* Mutant: more than 50 in a day, as the comment says, instead of 50.
DormantRevivalOfMore(log, r, now) ==
    /\ r.count > 0
    /\ Len(log) > Many
    /\ Cardinality(Recent(log, now)) > Many
    /\ log[1].ts - r.first >= Dormant
    /\ log[1].ts - log[Len(log)].ts > Dormant

\* dormantRevival
DormantRevival(log, r, now) ==
    /\ r.count > 0
    /\ Len(log) > Many
    /\ Cardinality(Recent(log, now)) >= Many
    /\ log[1].ts - r.first >= Dormant
    /\ log[1].ts - log[Len(log)].ts > Dormant

\* getActiveFraudFlags
FraudFlags(log, r, now) ==
    {flag \in {"wash_payment_suspect", "dormant_revival"} :
        \/ flag = "wash_payment_suspect" /\ WashPaymentSuspect(log, now)
        \/ flag = "dormant_revival" /\ DormantRevival(log, r, now)}

\* Mutant: the rules are tried from the last to the first.
SybilRiskBackwards(r, now) ==
    LET Hasty(i) == now - r.first < RiskAge[i] /\ r.count > RiskCount[i] IN
    CASE r.count = 0 -> 0
      [] r.count > 0 /\ (Hasty(3) \/ Hasty(2)) -> 1
      [] r.count > 0 /\ ~(Hasty(3) \/ Hasty(2)) /\ Hasty(1) -> 2
      [] OTHER -> 0

\* classifySybilRisk: 0 is "low", 1 "medium", 2 "high".
SybilRisk(r, now) ==
    LET Hasty(i) == now - r.first < RiskAge[i] /\ r.count > RiskCount[i] IN
    CASE r.count = 0 -> 0
      [] r.count > 0 /\ Hasty(1) -> 2
      [] r.count > 0 /\ ~Hasty(1) /\ (Hasty(2) \/ Hasty(3)) -> 1
      [] OTHER -> 0
-----------------------------------------------------------------------------
Entries == [ts : 0..MaxTime, amount : Amounts]

NewestFirst(log) == \A i \in 1..(Len(log) - 1) : log[i].ts >= log[i + 1].ts

\* The type invariant; a request waits for one reply, and the logs are bounded
\* and, as the detection engine takes them to be, newest first, though
\* concurrent payments write them.
TypeOK ==
    /\ clock \in 0..MaxTime
    /\ rep \in [Agents -> [count : 0..MaxPayments, total : Nat,
                           first : 0..MaxTime, last : 0..MaxTime]]
    /\ index \in [Agents -> 0..MaxPayments]
    /\ payments \in Seq(Entries) /\ Len(payments) <= LogMax /\ NewestFirst(payments)
    /\ logged \in 0..MaxPayments
    /\ attest \in [Agents -> Seq(Entries)] /\ \A a \in Agents : NewestFirst(attest[a])
    /\ volume \in Nat
    /\ h \in [Jobs -> [pc : {"idle", "recorded", "indexed", "logged", "attested", "trimmed",
                             "volume", "adding", "saved"},
                       agent : Agents \cup {NoAgent}, amount : Nat, count : Nat,
                       stamp : 0..MaxTime, left : SUBSET Agents, sum : Nat]]
    /\ line \in Seq(Jobs)
    /\ \A j \in Jobs :
         Cardinality({i \in DOMAIN line : line[i] = j}) = IF h[j].pc = "idle" THEN 0 ELSE 1
    /\ torn \subseteq Agents
    /\ missed \in Nat /\ crashes \in 0..MaxCrashes

UnderWay(a) == \E j \in Jobs : h[j].pc = "recorded" /\ h[j].agent = a

\* The leaderboard ranks by the true counts and the totals count every payment
\* once, though concurrent payments of one agent write both in two trips: all
\* that can be missing is what is under way, and what a crash cut off (in the
\* leaderboard until the agent pays again).
StatsAgree ==
    /\ \A a \in Agents : index[a] # rep[a].count => UnderWay(a) \/ a \in torn
    /\ Counts = logged + missed + Cardinality({j \in Jobs : h[j].pc \in {"recorded", "indexed"}})

\* The published volume never exceeds what was paid, however the requests that
\* add it up for the first time interleave with payments and one another.
VolumeNotOverstated == volume <= Totals

\* The log shows Dormant without payments, then Many within a day.
Revived(log, now) ==
    \E i \in Many..(Len(log) - 1) :
        /\ log[i].ts - log[i + 1].ts > Dormant
        /\ \A k \in 1..i : log[k].ts > now - Day

\* A stolen or sold key shows: whoever is dormant for long and then bursts is
\* flagged as long as the log reaches back beyond the burst.
RevivalIsFlagged ==
    \A a \in Agents :
        Revived(Attestations(a), clock) => DormantRevival(Attestations(a), rep[a], clock)

\* Nobody is accused (and climbs the enforcement ladder faster) for payments of
\* others or for one payment seen twice: it takes Many of the agent's own.
FlagsAreEarned ==
    \A a \in Agents :
        FraudFlags(Attestations(a), rep[a], clock) # {} => rep[a].count >= Many

\* Paying does not make anybody look safer: no step but the clock's lowers an
\* agent's risk.
RiskTracksPace ==
    [][clock' = clock => \A a \in Agents :
         SybilRisk(rep[a], clock) <= SybilRisk(rep'[a], clock')]_vars
=============================================================================
