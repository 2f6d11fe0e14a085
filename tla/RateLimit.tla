----------------------------- MODULE RateLimit -----------------------------
(***************************************************************************)
(* The sliding-window limiter: rateLimitMiddleware as index.js mounts it   *)
(* in front of and behind the Shield on /rpc and in front of the other     *)
(* routes, over slidingWindowConsume and slidingWindowQuery of the store.  *)
(*                                                                         *)
(* A request takes its timestamp once per pass, then consumes its buckets  *)
(* one store call after the other, so a call can reach the store with a    *)
(* timestamp older than what newer calls have pruned by.  Store calls can  *)
(* fail, and ioredis sends a call again when its reply was lost.  Over the *)
(* memory backend no other request runs in between: those behaviours are   *)
(* among these.                                                            *)
(***************************************************************************)
EXTENDS Integers, Sequences, FiniteSets, FiniteSetsExt

CONSTANTS
    Requests,        \* requests the process can have in progress
    Ips,             \* client addresses
    Agents,          \* public keys
    NoOne,           \* no verified payer
    Everybody,       \* the owner of the global bucket
    Window,          \* RATE_WINDOW_MS
    MaxLag,          \* longest time from a timestamp to the store call
    MaxTime,         \* bound on the clock
    GlobalMax,       \* RATE_GLOBAL_LIMIT
    IpMax,           \* RATE_IP_LIMIT
    PubkeyMax,       \* RATE_PUBKEY_LIMIT
    PaidBase,        \* RATE_PAID_PUBKEY_BASE
    ScorePerPayment, \* 5 in the code
    MaxPaid,         \* bound on the payments of one agent
    MaxFaults        \* bound on lost replies and broken connections

ASSUME RateLimitAssumption ==
    /\ NoOne \notin Agents
    /\ Window \in Nat \ {0}
    /\ MaxLag \in 0..(Window - 1)
    /\ MaxTime \in Nat
    /\ GlobalMax \in Nat /\ IpMax \in Nat /\ PubkeyMax \in Nat
    /\ PaidBase \in Nat
    /\ ScorePerPayment \in Nat
    /\ MaxPaid \in Nat
    /\ MaxFaults \in Nat

Keys == {<<"global", Everybody>>}
          \cup ({"ip"} \X Ips)
          \cup ({"pubkey", "paid"} \X Agents)

\* An entry of a bucket: the timestamp and the rest of nextMemberId().
Members == [ts : 0..MaxTime, n : Nat \ {0}]
NoMember == [ts |-> 0, n |-> 0]

Idle == [pc |-> "idle", pass |-> "edge", ip |-> NoOne, agent |-> NoOne, stamp |-> 0,
         todo |-> <<>>, member |-> NoMember, counted |-> {}, degraded |-> FALSE]

VARIABLES
    clock,
    store,      \* "up", "failing" (calls reject) or "down" (and known to)
    bucket,     \* bucket[k]: the entries of k in the store
    paidCount,  \* paidCount[a], the reputation record
    h,          \* h[r]: where request r is and what it carries
    admitted,   \* history: every entry ever added to bucket k
    faults      \* how many faults there have been

vars == <<clock, store, bucket, paidCount, h, admitted, faults>>

\* getTrustMultiplier of the score min(100, 5 * paidCount).
Multiplier(count) ==
    LET score == count * ScorePerPayment IN
    CASE score <= 20 -> 1
      [] score > 20 /\ score <= 50 -> 2
      [] score > 50 /\ score <= 80 -> 5
      [] OTHER -> 10

Init ==
    /\ clock = 0
    /\ store = "up"
    /\ bucket = [k \in Keys |-> {}]
    /\ paidCount = [a \in Agents |-> 0]
    /\ h = [r \in Requests |-> Idle]
    /\ admitted = [k \in Keys |-> {}]
    /\ faults = 0

\* The buckets of each pass; the paid one depends on the score looked up.
Bucket(k, max) == [key |-> k, max |-> max]
EdgePlan(ip) == <<Bucket(<<"global", Everybody>>, GlobalMax), Bucket(<<"ip", ip>>, IpMax)>>
AuthPlan(a, multiplier) ==
    <<Bucket(<<"pubkey", a>>, PubkeyMax), Bucket(<<"paid", a>>, PaidBase * multiplier)>>

\* The buckets a request has met when it is through its last pass.
Met(q) ==
    {<<"global", Everybody>>, <<"ip", q.ip>>}
      \cup (IF q.agent = NoOne THEN {} ELSE {"pubkey", "paid"} \X {q.agent})

\* next(): the edge pass leads to the Shield, the other one out of the limiter.
GoOn(q) ==
    [q EXCEPT !.pc = IF q.pass = "edge" THEN "shield" ELSE "served",
              !.todo = <<>>, !.member = NoMember]

\* The head of the middleware: the health flag, then the timestamp.
Enter(q, pc, plan) ==
    IF store = "down"
    THEN GoOn([q EXCEPT !.degraded = TRUE])
    ELSE [q EXCEPT !.pc = pc, !.stamp = clock, !.todo = plan]

\* A request arrives at rpcEdge.  (Any other route is this pass with an address
\* bucket only.)
Arrive(r, ip) ==
    /\ h[r].pc = "idle"
    /\ h' = [h EXCEPT ![r] = Enter([Idle EXCEPT !.ip = ip], "consume", EdgePlan(ip))]
    /\ UNCHANGED <<clock, store, bucket, paidCount, admitted, faults>>

\* x402Shield forwards an unpaid request: rpcAfterAuth has no bucket for it.
PassUnpaid(r) ==
    /\ h[r].pc = "shield"
    /\ LET degraded == h[r].degraded \/ store = "down"
       IN h' = [h EXCEPT ![r] = GoOn([h[r] EXCEPT !.pass = "auth", !.degraded = degraded])]
    /\ UNCHANGED <<clock, store, bucket, paidCount, admitted, faults>>

\* x402Shield verifies and records a payment; rpcAfterAuth takes its
\* timestamp and asks for the payer's reputation.
PassPaid(r, a) ==
    /\ h[r].pc = "shield"
    /\ paidCount[a] < MaxPaid
    /\ paidCount' = [paidCount EXCEPT ![a] = @ + 1]
    /\ h' = [h EXCEPT ![r] = Enter([@ EXCEPT !.pass = "auth", !.agent = a], "lookup", <<>>)]
    /\ UNCHANGED <<clock, store, bucket, admitted, faults>>

\* x402Shield answers 402.
Challenge(r) ==
    /\ h[r].pc = "shield"
    /\ h' = [h EXCEPT ![r] = Idle]
    /\ UNCHANGED <<clock, store, bucket, paidCount, admitted, faults>>

\* getReputation settles; a failure means 1x.
Lookup(r) ==
    /\ h[r].pc = "lookup"
    /\ LET multiplier == IF store = "up" THEN Multiplier(paidCount[h[r].agent]) ELSE 1
       IN h' = [h EXCEPT ![r].pc = "consume", ![r].todo = AuthPlan(h[r].agent, multiplier)]
    /\ UNCHANGED <<clock, store, bucket, paidCount, admitted, faults>>

-----------------------------------------------------------------------------
\* slidingWindowConsume.

\* Mutants: the window's lower end is kept in it; the list is pruned by one
\* instant too many.
KeptClosed(entries, now) == {m \in entries : m.ts >= now - Window}
KeptShort(entries, now) == {m \in entries : m.ts > now - MaxLag}

\* What is left of a bucket's entries when it is pruned at time now.
Kept(entries, now) == {m \in entries : m.ts > now - Window}

\* The caller's memberId, drawn when it first sends the call.
Member(r, k) ==
    IF h[r].member # NoMember THEN h[r].member
    ELSE [ts |-> h[r].stamp,
          n  |-> 1 + Cardinality({m \in admitted[k] : m.ts = h[r].stamp})]

Full(r) ==
    LET b == Head(h[r].todo) IN Cardinality(Kept(bucket[b.key], h[r].stamp)) >= b.max

\* The entry is added, if it is not there already.
Insert(r) ==
    LET k == Head(h[r].todo).key IN
    /\ bucket' = [bucket EXCEPT ![k] = Kept(@, h[r].stamp) \cup {Member(r, k)}]
    /\ admitted' = [admitted EXCEPT ![k] = @ \cup {Member(r, k)}]

\* The bucket has room: on to the next one, or next().
Admit(r) ==
    /\ h[r].pc = "consume" /\ store = "up"
    /\ ~Full(r)
    /\ Insert(r)
    /\ LET q == [h[r] EXCEPT !.todo = Tail(@), !.member = NoMember,
                             !.counted = @ \cup {Head(h[r].todo).key}]
       IN h' = [h EXCEPT ![r] = IF q.todo = <<>> THEN GoOn(q) ELSE q]
    /\ UNCHANGED <<clock, store, paidCount, faults>>

\* It is full: the entries of the buckets before it stay.
Refuse(r) ==
    /\ h[r].pc = "consume" /\ store = "up"
    /\ Full(r)
    /\ LET k == Head(h[r].todo).key IN
       bucket' = [bucket EXCEPT ![k] = Kept(@, h[r].stamp)]
    /\ h' = [h EXCEPT ![r].pc = "blocked"]
    /\ UNCHANGED <<clock, store, paidCount, admitted, faults>>

\* BOUND: faults happen at most MaxFaults times.
Fault ==
    /\ faults < MaxFaults
    /\ faults' = faults + 1

\* The script ran, its reply was lost: ioredis keeps the call to send it
\* again, with the same memberId.
LoseReply(r) ==
    /\ h[r].pc = "consume" /\ store = "up"
    /\ ~Full(r)
    /\ Insert(r)
    /\ h' = [h EXCEPT ![r].member = Member(r, Head(h[r].todo).key),
                      ![r].counted = @ \cup {Head(h[r].todo).key}]
    /\ Fault
    /\ UNCHANGED <<clock, store, paidCount>>

\* Mutant: the rest of the plan is skipped without a word.
DegradeSilently(r) ==
    /\ h[r].pc = "consume" /\ store # "up"
    /\ h' = [h EXCEPT ![r] = GoOn(@)]
    /\ UNCHANGED <<clock, store, bucket, paidCount, admitted, faults>>

\* The call rejects: the request is let through, marked as degraded, with the
\* entries of earlier buckets (and of a lost reply) left in place.
Degrade(r) ==
    /\ h[r].pc = "consume" /\ store # "up"
    /\ h' = [h EXCEPT ![r] = GoOn([@ EXCEPT !.degraded = TRUE])]
    /\ UNCHANGED <<clock, store, bucket, paidCount, admitted, faults>>

\* The request is out of the limiter's hands: served behind it, or answered 429
\* (on /rpc when rlEnforce has recorded the offense, see module Enforcement).
Leave(r) ==
    /\ h[r].pc \in {"served", "blocked"}
    /\ h' = [h EXCEPT ![r] = Idle]
    /\ UNCHANGED <<clock, store, bucket, paidCount, admitted, faults>>

-----------------------------------------------------------------------------
\* slidingWindowQuery for /agent/status: over Redis it prunes by its own
\* timestamp, taken by the caller.
Query(k, now) ==
    /\ store = "up"
    /\ bucket' = [bucket EXCEPT ![k] = Kept(@, now)]
    /\ UNCHANGED <<clock, store, paidCount, h, admitted, faults>>

\* PEXPIRE: the key goes when its last entry has been in it for a window.
KeyExpire(k) ==
    /\ bucket[k] # {}
    /\ \A m \in bucket[k] : m.ts + Window <= clock
    /\ bucket' = [bucket EXCEPT ![k] = {}]
    /\ UNCHANGED <<clock, store, paidCount, h, admitted, faults>>

\* BOUND: no call is on its way to the store for longer than MaxLag.
Tick ==
    /\ clock < MaxTime
    /\ \A r \in Requests :
         h[r].pc \in {"lookup", "consume"} => clock + 1 - h[r].stamp <= MaxLag
    /\ clock' = clock + 1
    /\ UNCHANGED <<store, bucket, paidCount, h, admitted, faults>>

\* The connection breaks, the client's events say so, it is back.
Connection ==
    /\ \/ store = "up" /\ store' = "failing" /\ Fault
       \/ store = "failing" /\ store' = "down" /\ UNCHANGED faults
       \/ store # "up" /\ store' = "up" /\ UNCHANGED faults
    /\ UNCHANGED <<clock, bucket, paidCount, h, admitted>>

Step(r) ==
    \/ \E ip \in Ips : Arrive(r, ip)
    \/ PassUnpaid(r)
    \/ \E a \in Agents : PassPaid(r, a)
    \/ Challenge(r)
    \/ Lookup(r)
    \/ Admit(r)
    \/ Refuse(r)
    \/ LoseReply(r)
    \/ Degrade(r)
    \/ Leave(r)

Next ==
    \/ \E r \in Requests : Step(r)
    \/ \E k \in Keys, now \in (clock - MaxLag)..clock : Query(k, now)
    \/ \E k \in Keys : KeyExpire(k)
    \/ Tick
    \/ Connection

Spec == Init /\ [][Next]_vars
-----------------------------------------------------------------------------
Plans == Seq([key : Keys, max : Nat])

\* The type invariant; a request that consumes has a bucket left to consume,
\* and no timestamp on its way to the store is older than MaxLag.
TypeOK ==
    /\ clock \in 0..MaxTime
    /\ store \in {"up", "failing", "down"}
    /\ bucket \in [Keys -> SUBSET Members]
    /\ paidCount \in [Agents -> Nat]
    /\ h \in [Requests -> [pc : {"idle", "shield", "lookup", "consume", "blocked", "served"},
                           pass : {"edge", "auth"},
                           ip : Ips \cup {NoOne}, agent : Agents \cup {NoOne},
                           stamp : 0..MaxTime, todo : Plans,
                           member : Members \cup {NoMember}, counted : SUBSET Keys,
                           degraded : BOOLEAN]]
    /\ admitted \in [Keys -> SUBSET Members]
    /\ faults \in 0..MaxFaults
    /\ \A r \in Requests :
         /\ h[r].pc = "consume" => h[r].todo # <<>>
         /\ h[r].pc = "lookup" => h[r].agent \in Agents
         /\ h[r].pc \in {"lookup", "consume"} => /\ h[r].stamp <= clock
                                                 /\ clock - h[r].stamp <= MaxLag

\* The limit of bucket k at the payer's present reputation.
Limit(k) ==
    CASE k[1] = "global" -> GlobalMax
      [] k[1] = "ip"     -> IpMax
      [] k[1] = "pubkey" -> PubkeyMax
      [] OTHER           -> PaidBase * Multiplier(paidCount[k[2]])

\* No stretch of time shorter than the window by MaxLag holds more admissions
\* to a bucket than its limit, in whatever order the calls of concurrent
\* requests reach the store, prune it and are sent again.
WindowBound ==
    \A k \in Keys, t \in 0..MaxTime :
        Cardinality({m \in admitted[k] : t - (Window - MaxLag) < m.ts /\ m.ts <= t}) <= Limit(k)

\* A request is refused only while a full limit of requests was admitted in
\* the window that ends at its own timestamp, or later.
RefusalDeserved ==
    [][\A r \in Requests :
         h[r].pc = "consume" /\ h'[r].pc = "blocked" =>
            LET b == Head(h[r].todo) IN
            Cardinality({m \in admitted[b.key] : m.ts > h[r].stamp - Window}) >= b.max]_vars

\* Nobody slips through: a request that leaves the limiter without the
\* degraded mark has an entry in every bucket it met, though the store may
\* fail between any two of its calls.
NobodySlipsThrough ==
    \A r \in Requests :
        h[r].pc = "served" /\ ~h[r].degraded => Met(h[r]) \subseteq h[r].counted
=============================================================================
