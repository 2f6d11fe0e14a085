# x402 Shield: TLA+ models, model checking and proofs

This directory holds the formal models of the x402 Shield, the Express gateway
(`index.js`, `lib/`) that stands in front of a Solana RPC node. Under load it
asks agents to pay for priority (HTTP 402), takes the payment from a prepaid
escrow, and hands paid requests to a priority queue in front of the node.
Definitions are translated from the source; `PROJECT.json` maps each one to the
lines it stands for.

## The system

| Component | State it keeps | Operations | What is hard |
|---|---|---|---|
| Paid access to `/rpc` (`x402Shield`, `verifyX402Authorization`, `lib/preflight.js`, nonce/escrow/reputation operations of `lib/store.js`) | nonces with TTL, escrow balances, reputation (payments, volume) | challenge (402), pre-check, consume-and-debit, record, forward | every store call is an await: concurrent requests with one token, nonces that expire between check and use, scores that move, crash after the debit; two backends with different expiry and different null semantics |
| Escrow deposit (`POST /escrow/deposit`, `verifyDepositTx`, `lib/solana-circuit.js`) | used signatures, pending keys and negative cache (both with TTL), breaker state per process | known-bad check, claim, verify through the breaker, mark, credit, reject, release | a verification outlives its timeout; TTLs race work; two processes over one Redis; crash between mark and credit |
| Standalone QoS queue (`qosMiddleware`, `qosOnSlotFree`) | queue entries, `qosInFlight` | bypass, enqueue, drain, release on `finish`/`close`, timeout | re-entrant drain, double events, disconnects, time-dependent order |
| Cooperative QoS (`onProxyRes`, health probe) | fallback deadline, time of the first failed probe, consecutive successes | fall back on a header or on an unreachable operator, probe, resume | two writers of one deadline, a probe that times out, counters kept across windows |
| Enforcement ladder (`lib/enforcement.js`) | history per key, timed and permanent bans | `recordOffense`, `checkBan` | read-count-write over several store calls, history capped at 100, gates by score and age |
| Rate limiter (`lib/ratelimit.js`, `lib/ratelimit-enforcement.js`) | a sliding window per bucket | two passes per request, consume bucket by bucket, degrade, bridge to the ladder | timestamps older than what the window was pruned by, lost replies, a store that fails half way through the plan, bucket names |
| Admin API (`lib/admin.js`, `lib/config.js`, `index.js:1418-1599`) | mass-ban counters, configuration, audit log | authenticate, ban, unban, configure | INCR and EXPIRE in two commands, unhandled rejections, an audit entry an await after its effect |
| Boot and shutdown (`index.js:1602-1697`) | `shuttingDown`, the drain's deadline | boot, drain, close the store, exit | what the drain waits for while requests are being paid, queued or lose their client |
| Client SDK (`x402-client-sdk.ts`) | none between calls | ask, pay within a budget, retry once | a reply lost after the debit |
| Payer records and statistics (`recordPayment`, leaderboard, `/stats/recent`), detection (`lib/detection.js`, `lib/trust-multipliers.js`) | reputation hash, leaderboard, payment and attestation logs, a total computed once | record a payment, publish, raise risk signals | one payment is five round trips, interleaved with others and with the sum over all |
| Agent status and metrics | a 10 s cache | read-only views | |
| HTTP plumbing (body limit, CORS, logging, code of conduct) | none | filters and headers | |

How they interact: `/rpc` is a chain of middlewares (body limit, edge limiter,
ladder bridge, shield, paid limiter, ladder bridge, QoS, proxy). They share one
store (`createStore`: memory, or Redis shared by several processes), and pass
`req.x402Verified` and `req.rateLimitState` along. Deposits meet payments in the
escrow; refused proofs and rejected deposits feed the ladder without being
awaited; response events give QoS slots back; upstream response headers switch
cooperative QoS off; the drain watches the queue and the slots; the trust score
that prices a challenge also widens the paid bucket and shields from the ladder.

What makes each component correct:

- payment: a challenge is redeemed once, by an agent it may be redeemed by, for
  at least its price, out of that agent's balance; the books close; nobody is
  blamed for what did not happen; a debit is followed by the service paid for;
- deposit: a transfer is credited exactly once, by whatever process, and every
  request ends;
- QoS: slots are counted exactly, none is idle while somebody waits, order of
  arrival among equals, every entry is answered, low load means no queue;
- cooperative QoS: the Shield does not trust an operator that stays unreachable,
  and trusts it again when it is back;
- ladder: each rung has behind it the offenses it stands for, whoever else is
  writing the history; trusted and new agents keep their protection; a ban that
  holds is applied to every request that arrives under it;
- limiter: no window holds more admissions than its limit, a refusal rests on a
  full window, and who is not counted is marked;
- admin: the budget of bans holds against retries, faults and reconfiguration,
  a guard that is shut opens again, the audit log tells the truth;
- shutdown: what the drain promises to finish is finished, and it ends;
- SDK: a call ends, is charged at most once, at the price agreed;
- records: what is published agrees with what was paid, a signal has a cause.

## Modules

| Module | Content |
|---|---|
| `Ledger` | abstract specification: balances, vouchers, redemption |
| `Payment` | the paid path, refining `Ledger` |
| `Deposit` | the deposit handler and its verifications |
| `Qos` | the priority queue |
| `Enforcement` | the ban check, the offenses, `recordOffense`, the bridge from the limiter and the operators' bans |
| `RateLimit` | the two limiter passes over the sliding windows |
| `Admin` | the mass-ban guard, permanent bans, configuration, the audit log |
| `Cooperative` | the fallback and the health probe |
| `Service` | extends `Cooperative`: one process from boot to exit with the SDK calls it serves |
| `Reputation` | the record of payments, the published figures, the risk signals |
| `MC*` (+ `.cfg`) | model values, bounds and symmetry for TLC |
| `PaymentProofs`, `DepositProofs`, `QosProofs`, `EnforcementProofs`, `RateLimitProofs`, `AdminProofs`, `ServiceProofs`, `ReputationProofs` | theorems checked by TLAPS (`ServiceProofs` covers `Cooperative` too) |

A definition introduced by a comment "Mutant" is a deliberately wrong variant of
the definition that follows it. No specification uses it; it documents a bug the
properties are able to detect.

Two ways of seeing a store call are used. `Payment`, `Deposit`, `Enforcement` and
`RateLimit` suspend a request at a named await and take the call's effect and the
code that runs after it as one step, at any later moment. `Admin` and
`Reputation` keep the order of one connection: a command takes effect when it is
sent, its reply is handled in the order of sending (`line`), and the handler
sends its next command while it handles the reply. The second is needed where
the property is about what two requests of one process write in which order.

### Payment and Ledger

`pc[s]` names the await that request `s` is suspended at: `precheck`
(`store.getNonce`), `consume` (`consumeNonceAndDebit`), `record`
(`recordPayment`), `forward` (the second `getTrustScore`), `quote` (the score
behind the hint), `issue` (`setNonce`). One action is one store operation and the
code that runs after it settles. `consumeNonceAndDebit` is one action because it
never awaits in memory and is one Lua script in Redis. `status[n]` is what the
store still knows of a nonce: in memory an expired entry stays until the sweeper
deletes it, in Redis the key disappears (`Expire`). `HintRejects` is where the
backends differ: the Lua script sees `cjson.null` where JavaScript sees `null`.
A Redis-backed process can crash at any point (`Crash`); with the memory backend
a restart loses everything, which is `Init`.

`charge`, `forwarded`, `deposited` and `crashed` are history variables, read by
properties only. `ScorePerPayment` is 5 in the code and 50 in the runs, so that
two payments span the whole discount range. A request below the load threshold
is forwarded unpaid and touches no modelled state, so only challenged requests
arrive. A token with a wrong signature, wrong destination or foreign key is
`authentic = FALSE`. The log of challenges, wording and headers are left out; the
logs of payments are in `Reputation`.

`Ledger` knows balances, vouchers with a price and an optional holder, and the
set of redeemed vouchers. `Payment!Promise` maps nonces to vouchers, escrow to
balances and debited nonces to redeemed ones; pre-check, recording, forwarding,
expiry and crashes are stuttering steps.

### Deposit

A request (`Slots`) runs `check` (known-bad cache), `claim` (`SET NX`), `verify`
(awaits the breaker), `reject` (cache the rejection), `clear` (the `finally`
block). A verification (`Verifs`) is an activity of its own with phases `check`
(`hasSignature`), `fetch` (Solana), `mark` (`addSignature`), `credit`
(`incrEscrow`): when the breaker's timer fires, the handler goes on and the
verification continues with `awaited = FALSE`. opossum and the Solana network
are external: the breaker is modelled as the code configures and calls it
(closed, open, half-open with one probe), with a failure in the closed state
opening it or not, since the volume threshold and rolling window are not
counted.

`Slow` says whether a verification may outlive `DEPOSIT_PENDING_TTL_MS` and
`SOLANA_CIRCUIT_TIMEOUT_MS`. Both default to 15 s, so the answer that is slower
than one is slower than the other. With `Slow = FALSE` the timer never fires and
a pending key expires only after its holder died.

### Qos

`pc[r]` is where a request is; `entry[r]` is its queue entry, with `ahead` (the
entries pushed before it, which decides ties) and `gone` (its client has
disconnected while queued). `qosOnSlotFree` runs to completion, during which
time stands still, so `OnSlotFree` picks the set of entries that beat all others
instead of looping. `finish` and `close` are two actions, of which only the first
releases. Node emits `close` once per response and no `finish` on a destroyed
socket; an entry whose client is gone therefore holds its slot for ever, counted by the
history variable `leaked`. A tick is 5 s in the runs: 100 points of boost per
tick and a timeout of two ticks, as in the code. A full queue answers 503 and
changes nothing. `entry.next()` throwing is not modelled: the proxy middleware
does not throw synchronously. The cooperative fallback is a switch any step may
flip.

### Enforcement

`h[r]` is a request: the await it is suspended at and, once it offends, the local
variables of its call of `recordOffense`. `isPermanent` and `getBan` are the two
awaits of `checkBan`, run first for the address and then for the hinted key;
`push1` and `read` are the push and the read of the history; `ban2`/`push2` and
`ban3`/`push3` write a soft and a hard ban; `whitelist`, `permanent` and `push4`
are step 4. `Plan` decides steps 1 to 3 from the one summary that the code reads;
`After` is the order of the awaits. Entries carry the time the call began
(`now` in the code), windows are measured when the history is read, and bans run
from the moment they are written, as in the code. A ban whose end has passed is
gone (`Tick`): the memory backend drops it when it reads it, Redis by its TTL.
Over Redis `getBan` sends `GET` and `PTTL` together; that is one step here.

`KeyFromReq` is the option of the bridge `rlEnforce`: the tests pass a function
that returns the ban key of the client (`"client"`), `index.js` passes none
(`"none"`), and then the bucket's name is punished. The `rl:` keys are those
names; the global bucket, which belongs to nobody, is left out. Trust bands are
those of `trust-multipliers.js`; the multipliers are a constant. `rlEnforce` reads
score, attestations and first payment just before the call; they are read here
when the call begins, which is not later than the first push.

`log` remembers offenses and bans with their true times and the offender's trust,
and `barred[r]` which bans have held against the client of `r` ever since `r`
arrived. Left out: response headers, the second summary (only reported), audit
entries, `global` buckets, and failures of the store (each call of
`recordOffense` is fire-and-forget with a `catch`, so its effect is that of a
crash of that call alone).

### RateLimit

`h[r]` is a request on its way through `/rpc`: the `edge` pass (`rpcEdge`: global
and address buckets), the Shield (which forwards, is paid, or challenges), and
the `auth` pass (`rpcAfterAuth`: the payer's bucket and the paid one, whose limit
follows the reputation looked up in `Lookup`). Each pass takes its timestamp once
(`Enter`) and then consumes its plan (`todo`) one store call after the other, so a
call may reach the store up to `MaxLag` after its timestamp, behind calls with
newer ones. `Admit` and `Refuse` are `slidingWindowConsume`: prune (`Kept`), compare,
insert. The member id (`Member`) is drawn before the call is sent; `LoseReply` is a
script that ran without its answer arriving, after which ioredis sends the same
call again. The store is `up`, `failing` (calls reject, nobody has noticed) or
`down` (the health flag is off); both let the request through with `degraded` set
(`Degrade`, `Enter`), and leave the entries made so far where they are. `Query` is
`/agent/status`, which prunes in Redis too; `KeyExpire` is `PEXPIRE`. `counted` and
`admitted` are history variables. What an exceeded bucket means to the ladder
(`rlEnforce`) is in `Enforcement`.

### Admin

One process with one connection (see above). `counter[s]` is the count and the
time to live of the guard per key and of the global one; time is relative, so
that nothing in the state grows. `massBanGuard` awaits `INCR`, then `EXPIRE` if the
answer was 1, for the key and then for everybody (`GuardReply` to
`GlobalExpiryReply`), refuses with an audit entry (`Deny`) or lets the handler write
(`Decide`). Only the guard and the audit log catch a failure; a rejected `addPermanent`,
`setBan` or `clearBan` is an unhandled rejection, which ends the process (`Die`).
An order whose `ttl_s` is no number reaches Redis as `PX NaN` and does so even when
Redis is well (`endless`). `permanent` is the one target all orders are about,
`booked` what the audit log last said of it. `recent` is a history variable: the bans
that passed the guard, each with its key and its age in ticks, numbered within a
tick so that two of them stay two.
Timed bans are in `Enforcement`; here they differ from permanent ones only in what
they leave behind, and the run omits them together with malformed bodies, whose
steps it takes with the other orders. `config` is the guard's limit per key
(`ApplyUpdate`), read when the guard begins; the global limit is a constant. That a wrong signature is refused
is taken for granted; a correctly signed order can be repeated while its
timestamp is recent, so an order of the model may be a repetition.

### Cooperative and Service

`Cooperative` counts down what is left of the fallback (`qosOverloadFallbackUntil`)
and counts up the time since the first failed probe. A probe is sent every
`Interval` and answered, or aborted by its timer; too long a failure forces a
fallback of two intervals, `Reprobe` successes in a row end it. The fallback is
also set by an upstream response (`Overloaded`).

`Service` extends it with the rest of a process's life. `call[c]` is a call of the
SDK: it asks, is served or challenged, decides (`_parseChallenge`, budget,
`onChallenge`), and asks again with the proof, once. `srv[c]` is its request in the
process: in the Shield, past it, queued, in a slot, or proxied without one. Each of
these phases stands for a module: what happens in `shield` is `Payment`, `queued`
and `running` are `Qos`, of which the composition keeps who holds a slot.
`others` counts the slots of other clients, among them those that leaked to clients
who left while queued. `phase` is the process: `SIGTERM` closes the listener and
starts the drain, whose tick goes on to `store.close()` when queue and slots are
empty or the deadline has passed, and a moment later the process exits with
whatever it still serves. It can die in any phase (`Die`), and is started again.
`promised` are the requests that were queued or held a slot at the signal, `cut`
those of them that an exit before the deadline cut off.

### Reputation

One process with one connection. `recordPayment` is a pipeline on the reputation
hash, `ZADD` of the count it answered, `LPUSH` of the payment log, `LPUSH` and
`LTRIM` of the attestation log: five round trips, between which other payments
write. `getTotalPaidVolume` reads a sum that no payment ever adds to and, if there
is none, adds up the leaderboard's totals one trip at a time and stores the result
(`VolumeReply` to `SaveVolume`). The signals of `lib/detection.js` are operators over
the logs as they are: `FraudFlags`, `SybilRisk`. A crash leaves what it finds;
`torn` and `missed` remember which payments it cut off before the index and before
the log.

## Runs

`CHECK_DEADLOCK FALSE` is set in every run because clients, challenges, bounds on
time or faults simply run out.

| Run | Expect | Properties | Question |
|---|---|---|---|
| `PaymentMemory` | pass | `SingleUse`, `HintBlameDeserved` | Is a challenge redeemed once, and nobody blamed for a hint not given, over the memory backend with its late sweeper? |
| `PaymentRedis` | pass | `DiscountEarned`, `ReplayBlameDeserved`, `BooksBalance`, `DebitIsForwarded`, `ImplementsLedger` | Over Redis with crashes at any await: are discounts and blame deserved, do the books close, is no debit dropped, is `Ledger` implemented? |
| `DepositPrompt` | pass | `CreditOnce`, `MarkedIsCredited`, `OneVerification` | Two processes over one Redis with prompt verifications and crashes: is a transfer verified by one at a time and credited once? |
| `DepositSlow` | violation | `CreditOnce` | The same when verifications may outlive their timers. No |
| `DepositLive` | pass | `RequestsEnd`, `TransferIsCredited` | With slow verifications: does every request end, even if Solana never answers, and is a landed transfer credited to a client that keeps submitting it? |
| `QosQueue` | pass | `SlotsExact`, `WorkConserving`, `FairOrder`, `QueuedIsAnswered` | Slot accounting, no idle slot, order, and an answer for everybody queued, with disconnects and mode changes |
| `EnforcementLadder` | pass | `TrustIsHonoured`, `RungsAreEarned`, `NewcomerIsSpared`, `BannedIsRefused` | Two requests of one client in progress, wired as the bridge's tests wire it, with operators, first payments, expiry and crashes |
| `EnforcementBuckets` | violation | `BannedIsRefused` | Is a client that rate limiting banned refused, with the wiring of `index.js`? No |
| `RateLimit` | pass | `WindowBound`, `NobodySlipsThrough`, `RefusalDeserved` | Do limits and refusals hold with late timestamps, lost replies and a store that fails between two buckets? |
| `Admin` | pass | `TypeOK`, `BanBudget`, `AuditIsTrue`, `GuardReopens` | Does the guard hold its budget and open again, and is the audit log true, with broken connections and a process that dies? |
| `Service` | pass | `TypeOK`, `ChargedAsAgreed`, `DrainHonoured`, `FallbackHolds`, `CallsEnd`, `ShutdownEnds`, `CooperativeResumes` | Payment, queue, probe and drain together: are charges as agreed, promises kept, and do calls, shutdowns and fallbacks end? |
| `Reputation` | pass | `TypeOK`, `StatsAgree`, `VolumeNotOverstated`, `RevivalIsFlagged`, `FlagsAreEarned`, `RiskTracksPace` | Do the published figures agree with the payments, and do the signals have a cause, with concurrent payments and a crash? |

The type invariants of `Payment`, `Deposit`, `Qos`, `Enforcement` and `RateLimit` are
theorems (below), so no run repeats them; those of `Admin`, `Service` and
`Reputation` are both.

### Bounds and why they are enough

- `Payment`: two agents, two requests, three nonces, prices 20 and 40, deposits up
  to 80. That contains a replay that races its original, a nonce that expires
  between pre-check and consume, a discount earned by the first payment and used
  by the second, and an overpayment; 80 pays two full prices, so that double
  redemption by one agent is possible if the code allowed it. `ScorePerPayment` is
  50, so that two payments span the discount range. The properties of the two runs
  are split by backend to keep each within minutes: `SingleUse` over the memory
  backend, whose expiry is the less regular, `HintBlameDeserved` because over Redis
  it fails (below). All theorems but `HintBlameHolds` cover both backends.
- `Deposit`: one request per process is the least in which an orphan verification
  and a retry meet; two signatures share a breaker (one in the slow runs).
- `Qos`: two slots and a bypass threshold of one, so that a release can dispatch
  while another bypasses; four requests fill slots and queue at once. The scores
  are that of an unpaid request, one between the first and the second tick of
  boost, and one base price, so that aging overtakes some differences and not others.
- `Enforcement`: every threshold is two and a window is one or two ticks, so three
  events reach each rung, offenses of two calls in flight count each other, and
  soft bans escalate within a window or fall out of it; a permanent ban by the
  ladder needs fraud signals in two calls and is reached. Offenses, first payments,
  operators' orders and crashes share one bound. Trust multiplies nothing
  in the run, so that the top bands reach the thresholds too, and the whitelist
  does not end within it: other multipliers and an ending window are covered by
  the proofs only.
- `RateLimit`: a window of two ticks with a lag of one, so that a call can arrive
  after its timestamp has left somebody's window; limits of one and two, so that
  two requests fill a bucket and the global bucket outlasts the address's; one
  payment moves the payer to the next multiplier while a request holds a plan with
  the old one; time enough for a full window to empty and fill again.
- `Admin`: two orders at a time, windows of two ticks (the least that a burst can
  straddle) and limits of one and two, moved while orders are under way, one value
  out of range among those tried, and one fault. One client to ban: orders about
  different clients meet only in the counters.
- `Service`: one call, one slot, one connection that breaks and one restart, with
  prices below, at and above the budget; other clients compete for the slot, so a
  request is queued behind one that leaked. The probe's times keep the order they
  have in the code (timeout < interval < unreachable; overload shorter than
  forced). The numbers of calls and slots are where the composition is coarser than
  its parts, which `Qos` and `Payment` run with two and more.
- `Reputation`: two requests of two agents, so that payments of one agent and of two
  interleave; logs of three entries with `Many` two, so that a log is trimmed and
  can hold a burst together with the payment before the dormancy; four payments
  and four instants, which reach every rule of the risk classes; one crash.

Symmetry: nonces and payment slots, verification records, `Enforcement`'s requests,
`RateLimit`'s, `Admin`'s, and `Reputation`'s requests and agents are
interchangeable and appear in no constant operator; symmetry is used only in runs
without liveness properties.

Named bounds (comments `BOUND`): `MaxDeposited` on deposits, `NonceLeft` (a
request starts only while a nonce remains for its challenge), a verification
record for every arrival in `Deposit`, `MaxTime` and `MaxEvents` in `Enforcement`,
`MaxTime`, `MaxLag`, `MaxPaid` and `MaxFaults` in `RateLimit`, `Cap`, `late` (a request is answered before
the second tick) and `MaxFaults` in `Admin`, `FailingCap` in `Cooperative`, `MaxLost` and
`MaxBoots` in `Service`, `MaxTime`, `MaxPayments` and `MaxCrashes` in `Reputation`.
`late` and `MaxLag` are also assumptions of the properties: a request that hangs in the
store for a whole window is counted in the wrong one.

### Fairness

- `Deposit`: weak fairness of handler steps, store steps of a verification,
  and the breaker's timer. Nothing is assumed of the Solana RPC.
  `TransferIsCredited` states its own assumption (`Persistence`): a client that
  keeps submitting, an RPC that keeps answering, TTLs and resets that pass.
- `Qos`: clocks advance and timers fire. That upstream responses ever end is
  not assumed: the timers alone answer every queued request.
- `Service`: the SDK's own callback returns, handlers of a running process run
  (store calls settle, `proxyTimeout` bounds the upstream), so do its timers, and the
  container's restart policy starts it again. Nothing makes a call begin, an
  operator recover or a signal come.
- `Payment`, `Enforcement`, `RateLimit`, `Admin`, `Reputation`: none; only safety is
  asked of them.

## What the violation runs show

1. `DepositSlow`: after 15 s the breaker answers, the claim expires, and the old
   verification keeps running; a retry passes `hasSignature` too, and both call
   `incrEscrow`.
2. `EnforcementBuckets`: `index.js:929` builds `rlEnforce` without `keyFromReq`, so
   the ladder bans `rl:rpc:ip:<ip>` while the ban check asks for `ip:<ip>`. For the
   same reason `rlEnforce` looks for fraud signals under the bucket's name and
   never finds any.

Met while modelling, and not the subject of a run:

Payment and deposit

- `setNonce` stores `hintedPubkey: null`; the Lua test `nonceData.hintedPubkey and ...`
  (`store.js:423`) finds `cjson.null` true, so over Redis an agent that pays a
  challenge requested without the hint header is refused and its key is recorded as
  an offender. (`HintRejects` models it; `HintBlameDeserved` holds in memory only.)
- The SDK's default `priorityBudget` is 10000 (`x402-client-sdk.ts:65`) and the base
  price 20000, so a call with default options is never paid.
- A call of the SDK that fails after its paid request was sent may have been
  debited (`ChargedAsAgreed` bounds the amount, not the refund); a debited request
  can still be answered 429, 503 or 504.
- The negative cache of deposits is read before the claim (`index.js:1013`), so a
  second process that read it before the first was rejected asks Solana again,
  although `index.js:1022` says that concurrent requests ask once.
- The signature of a deposit already credited is treated like an invalid one
  (`index.js:1056`) and counts as an offense.

Queue and shutdown

- The boost by age is worth at most 200 points before the 504, the smallest payment
  20000 (`index.js:236`): an unpaid request cannot overtake a paid one.
- A slot given to a response that has closed is never released (`index.js:265`).
- An `X-QoS-Overload` header during a forced fallback of 60 s shortens it to 30 s
  (`index.js:1355`); `FallbackHolds` shows that no gap follows while the operator
  stays unreachable. Successful probes count also before a fallback begins, so one
  success may end it (`index.js:512`).
- The drain watches slots and queue, so requests in cooperative or `off` mode, and
  those between debit and queue, are cut off (`index.js:1671`).

Enforcement, limiter, admin

- Invalid signatures are tier-1 entries and so also count as throttles
  (`enforcement.js:207`): three in five minutes soft-ban, before the ten in 60 s of
  the design's table (section 8.1).
- `checkBan` returns `ban.until` (`enforcement.js:59`) but both stores answer
  `untilEpochMs`, so the pre-flight response cannot say when a ban ends.
- A soft ban decided earlier can overwrite a longer one (`store.js:346`, `:819`), and
  unban leaves the history, so the next offense can ban again at once.
- `agent-status.js:58` and `index.js:1489` read the abuse history under the bare
  public key, while `recordOffense` writes it under `pk:<key>`.
- `POST /admin/config` changes an object that the mass-ban guard, `/admin/ban` and
  `/agent/status` read. The limiter keeps the limits it was built with
  (`index.js:895`) and the ladder reads `process.env`, so limits, the tier cap and the
  whitelist days do not change, while the status view shows the new limits.
- A `ttl_s` that is no number makes `SET ... PX NaN`: over Redis an unhandled
  rejection ends the process, in memory the ban never expires.
- A limiter call that is sent again after its reply was lost finds its own entry in
  the bucket: if that entry filled it, the request is refused although it had been
  admitted (`Full`, then `Refuse`, after `LoseReply`).
- The mass-ban guard's windows are fixed, so a burst across two of them is twice the
  limit (`BanBudget` states twice). A crash between `INCR` and `EXPIRE` leaves a guard
  that never opens (`GuardReopens` shows that nothing else does).

Records and signals

- Nothing calls `incrPaymentVolume`: the published volume stays as it was first read.
- Two processes over one Redis may log payments out of order, and a resent `LPUSH`
  duplicates an attestation; `RevivalIsFlagged` and `FlagsAreEarned` are checked for
  one process.
- `dormantRevival` compares the newest entry with the oldest of the capped log, so a
  steady payer with few payments in 90 days and 50 today is flagged, and a burst
  that fills the log hides the dormancy before it.

## Proofs

TLC checks the instances above; TLAPS checks the following for all values of the
constants that satisfy the modules' assumptions.

- `PaymentProofs`. `TypeCorrect` proves `Typed`, which contains `TypeOK` and what
  the later proofs need of types. `SingleUseHolds` and `ReplayBlameHolds` follow
  from an invariant that ties `pc`, `charge` and `status`: a charged nonce is
  never live again, a request at `record` or `forward` owns the charge of its
  nonce alone, and that nonce has not been forwarded. `SingleUse` is not
  inductive by itself because it does not say who is about to forward.
  `DebitIsForwardedHolds` adds its converse: a charge not yet forwarded is held by
  some request, unless a process died. `DiscountEarnedHolds` needs that a score read
  for a challenge never exceeds the present one (payments are only added), that
  `Discounted` is antitone in the score, and that a discounted challenge is bound to
  its hint. `HintBlameHolds` assumes the memory backend; an issued challenge never
  changes. `PaymentImplementsLedger` maps every action to a `Ledger` step or a
  stutter; it uses the first invariant for "not redeemed yet".
- `DepositProofs`. `TypeCorrect` and `MarkedIsCreditedHolds` hold however slow
  verifications are; their invariant says that a request awaits at most one
  verification, at `verify`, and which of the two store steps a verification has
  behind it. `OneVerificationHolds` and `CreditOnceHolds` assume `~Slow`: then a
  verification which runs is awaited, by a request at `verify`, for that request's
  signature, and requests past their claim and before their `finally` hold the key
  alone; for `CreditOnce`, an uncredited verification past `check` is for a signature
  nobody has marked, or has marked itself. Without the assumption `DepositSlow`
  refutes both.
- `QosProofs`. `SlotsExactHolds` and `WorkConservingHolds` come from one
  invariant; the lemmas say how the drain changes the number of requests in a
  slot (a finite-set argument about the popped entries) and that after it either
  the queue is empty or every slot is taken. `FairOrderHolds`: `ahead` is a strict
  order among the waiting, and whoever is ahead has aged at least as much; the boost
  is monotone in age, so an entry that beats all others is beaten by nobody ahead
  of it with as high a base.
- `EnforcementProofs`, for both wirings but the last. `TypeCorrect` splits the state into the
  store's and the process's part, with one lemma per group of actions and one on
  `Pushed` (a sequence argument) for the cap. `TrustIsHonouredHolds`: the log alone
  is not inductive, because a ban is written awaits after it was decided; the
  invariant adds that what a call has planned, and the step it is about to take,
  are allowed to its own band and evidence. `NewcomerIsSparedHolds`: a call for a
  pubkey that carries a first payment carries the one in the store, and past the
  whitelist the pubkey is no newcomer to that call; time keeps it so, and a first
  payment that comes later does not precede the call. `RungsAreEarnedHolds`: behind
  the entries of a history, counted per tier since any moment, stand as many
  occurrences in the log, which are not those that calls have still to write. What a
  call planned rests on such a count at its read, and since a call logs a ban before
  it writes the ban's entry, its own bans come on top of it. A push is one entry for
  one occurrence, by an injection; the cap and expiry only drop entries.
  `BannedIsRefusedHolds` assumes `KeyFromReq = "client"`: then only addresses and
  pubkeys are banned, and the bans that have held since a request arrived are on keys
  it has still to look up. Without the assumption `EnforcementBuckets` refutes it.
- `RateLimitProofs`. `TypeCorrect` includes that no call reaches the store with a
  timestamp older than `MaxLag`. `WindowBoundHolds` and `RefusalDeservedHolds` relate
  the bucket to every entry ever admitted: no prune, by whatever timestamp, has
  taken an entry younger than `Window`, and nothing is in a bucket that was not
  admitted; so a full count of the recent is a full bucket, and a full bucket was
  admitted. The limits in a plan are at most the present ones, because reputations
  only grow (`LimitsGrow`, over the multiplier's steps). `NobodySlipsThroughHolds`: the
  buckets of the plan still to do and those counted cover what the request has met,
  unless it is marked.

- `AdminProofs`. `TypeCorrect` needs what one connection gives: whoever waits is in
  `line` once, and nobody else is. `GuardReopensHolds` says which handler is about to
  give a counter without expiry one, and that an expiry is only ever counted down.
  `AuditIsTrueHolds`: only the last of the handlers between write and entry matters,
  and entries are written in the order of `line`. `BanBudgetHolds` splits the bans of
  a window by the last expiry of the counter (`Balanced`): those admitted since, with
  the requests counted since and still waiting, are at most what the counter has
  counted, hence at most the limit; those admitted before, with the waiting requests
  counted then, are at most the limit as well, until they leave the window. A
  request answered in the tick after its count (`late`) is what costs the windows
  one tick, and a limit lowered under way what makes the bound the largest limit.
- `ServiceProofs`. `ChargedAsAgreedHolds` says of each call, by the phase of its
  request, whether it has been debited. `DrainHonouredHolds`: past the drain and before
  its deadline no promised request is pending, so an exit there cuts off none.
  `FallbackHoldsAlways`: if the operator was unreachable for too long when the last
  probe was sent, the fallback lasts until the next one is due, also when an
  overload header has set it back; this is where `Interval <= OverloadFor` is needed.
- `ReputationProofs`. `FlagsAreEarnedHolds`: an agent's log is no longer than its
  count less its payments in progress. `RevivalIsFlaggedHolds`: logs fall in time
  and end no earlier than the first payment, because replies are handled in
  the order of sending. `StatsAgreeHolds` keeps the equation between the sum of all
  counts and what is logged, missed and in progress. `VolumeNotOverstatedHolds`: what
  a request has added up is at most the present total of the agents it has visited.
  `RiskTracksPaceHolds` is an action property: one more payment never lowers a rule.

`BooksBalance`, `StatsAgree` and `VolumeNotOverstated` are about sums over finite
sets, which the models write as folds. The library's induction over sets cannot be
instantiated here, so the lemmas about `Sum` in `PaymentProofs` and
`ReputationProofs` take a smallest set for which the claim fails instead.

Assumed: each module's named `ASSUME`, which TLC evaluates in every run, and where
stated `~Slow`, the memory backend or the bridge wired as in its tests. Beyond the shape of the constants these say:
what the model sums over or counts is finite (nonces, requests, calls, agents, keys);
the times of the probe are ordered as in `index.js`, including `Interval <= OverloadFor` (both
30 s, lines 224 and 1355); the guard's limit has a largest admissible value
(`RANGES` in `config.js`); a container starts at least once.

Every invariant and action property of the passing runs is a theorem. Only
model-checked: liveness (`RequestsEnd`, `TransferIsCredited`,
`QueuedIsAnswered`, `CallsEnd`, `ShutdownEnds`, `CooperativeResumes`). Out of the
prover's reach are liveness and `ENABLED`, what a definition by recursion over data
computes for every input, and `RECURSIVE` operators, of which the models have none of
their own.

## Not modelled

- Agent status and metrics: read-only views; the one effect on shared state,
  pruning a window, is `RateLimit`'s `Query`. The 10 s cache is shared between
  callers, so the remaining count of an address may be another caller's.
- HTTP plumbing: stateless filters, headers and formatting.
- The operator's reference stack, benchmarks, tools, static pages: programs around
  the Shield; what the Shield sees of the operator is in `Cooperative`.
- Load measurement and `calcDynamicPrice`: a quote is one of a set, in `Payment` the
  discount on it is exact. Amounts stay below 2^53 by supply.
- Configuration keys other than the guard's limit, and the partial application of a
  rejected update (the one hazard in `PROJECT.json` without a property: nothing in
  the repository says what it should be).
- Signals across operators: they need a second `OPERATOR_ID`.
- Guards on environment variables at boot: decided once, before anything runs.
- Failures of Redis in `Payment`, `Deposit` and `Enforcement` (an awaited call that
  rejects answers 5xx there and leaves what a crash of that request would);
  `RateLimit` and `Admin`, where the code handles them, model them. Clocks that jump.

## What is left

The load window and `calcDynamicPrice` as operators against a reference, and the
agent status cache.
