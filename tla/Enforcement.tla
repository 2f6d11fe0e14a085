----------------------------- MODULE Enforcement -----------------------------
(***************************************************************************)
(* The enforcement ladder: the ban check in front of every route, the      *)
(* offenses that requests commit behind it, recordOffense of               *)
(* lib/enforcement.js as its sequence of awaited store calls, and the      *)
(* operators' /admin/ban and /admin/unban.                                 *)
(*                                                                         *)
(* Several requests are between two store calls at the same time, and a    *)
(* request that passed the ban check may offend long after its key was     *)
(* banned.  The store outlives the process (the Redis backend).            *)
(***************************************************************************)
EXTENDS Integers, Sequences, FiniteSets

CONSTANTS
    Handlers,     \* requests that can be in progress together
    Clients,      \* a client: an IP address and the agent's key used from it
    KeyFromReq,   \* the bridge's option: "client", as its tests pass it, or
                  \* "none", as index.js leaves it
    TierMax,      \* ENFORCEMENT_TIER_MAX
    ThrottlesToSoftBan, InvalidSigsToSoftBan,    \* DEFAULT_THRESHOLDS
    SoftBansToHardBan, HardBansToPermanent,
    Minute, FiveMin, OneDay, SevenDays,          \* windows, in ticks
    SoftBanFor, HardBanFor,                      \* ban durations, in ticks
    AdminTtls,    \* ban durations that operators choose, in ticks
    WhitelistFor, \* NEW_PUBKEY_WHITELIST_DAYS, in ticks
    Multiplier,   \* getTrustMultiplier of a trust band
    Bands,        \* trust bands: 1 is 0-20, 2 is 21-50, 3 is 51-80, 4 is 81-100
    HistoryCap,   \* entries kept by pushAbuseHistory: 100
    MaxTime,      \* bound on the clock
    MaxEvents,    \* bound on offenses, first payments, orders of operators
                  \* and crashes, together
    Never         \* the firstPaidAt of an agent that never paid

ASSUME EnforcementAssumption ==
    /\ Clients # {}
    /\ KeyFromReq \in {"client", "none"}
    /\ TierMax \in Nat
    /\ {ThrottlesToSoftBan, InvalidSigsToSoftBan} \subseteq Nat \ {0}
    /\ {SoftBansToHardBan, HardBansToPermanent} \subseteq Nat \ {0}
    /\ {Minute, FiveMin, OneDay, SevenDays} \subseteq Nat
    /\ {SoftBanFor, HardBanFor, WhitelistFor} \cup AdminTtls \subseteq Nat
    /\ Bands \subseteq 1..4 /\ 1 \in Bands
    /\ Multiplier \in [1..4 -> Nat \ {0}]
    /\ HistoryCap \in Nat \ {0}
    /\ MaxTime \in Nat
    /\ MaxEvents \in Nat
    /\ Never \notin Int

VARIABLES
    now,        \* Date.now()
    history,    \* history[k]: abuse history, newest first
    ban,        \* ban[k]: until when k is banned, or NoBan
    permanent,  \* the set abuse:permanent
    firstPaid,  \* firstPaid[c]: reputation.firstPaidAt of the client's key
    h,          \* h[r]: the request, and the step it is about to take
    unbanning,  \* keys whose ban is cleared but not yet their permanent one
    events,     \* how many bounded events there were
    log,        \* history variable: log[k], offenses and ladder bans of k
    barred      \* history variable: barred[r], bans that have been in force
                \* against r's client ever since r arrived

vars == <<now, history, ban, permanent, firstPaid, h, unbanning, events, log,
          barred>>

store == <<history, ban, permanent, firstPaid, unbanning>>

\* Ban keys are "ip:" and "pk:"; "rl" keys are rate-limit bucket names, which
\* are ban keys only by accident.
Scopes == {"ip", "pk", "rl:ip", "rl:pk"}
Keys == Scopes \X Clients

\* What /admin/ban and /admin/unban can name.
AdminKeys == {"ip", "pk"} \X Clients

NoBan == -1

Steps == {"idle", "isPermanent", "getBan", "served",
          "push1", "read", "ban2", "push2", "ban3", "push3",
          "whitelist", "permanent", "push4"}

\* A request, and the local variables of its call of recordOffense.
Requests ==
    [step : Steps, client : Clients, hinted : BOOLEAN, key : Keys,
     signature : BOOLEAN, band : 1..4, flagged : BOOLEAN, paidAt : Int \cup {Never},
     began : Nat, readAt : Nat, plan : SUBSET {"soft", "hard", "promote"}, id : Nat]

NoRequest ==
    LET c == CHOOSE x \in Clients : TRUE
    IN [step |-> "idle", client |-> c, hinted |-> FALSE, key |-> <<"ip", c>>,
        signature |-> FALSE, band |-> 1, flagged |-> FALSE, paidAt |-> Never,
        began |-> 0, readAt |-> 0, plan |-> {}, id |-> 0]

Init ==
    /\ now = 0
    /\ history = [k \in Keys |-> <<>>]
    /\ ban = [k \in Keys |-> NoBan]
    /\ permanent = {}
    /\ firstPaid = [c \in Clients |-> Never]
    /\ h = [r \in Handlers |-> NoRequest]
    /\ unbanning = {}
    /\ events = 0
    /\ log = [k \in Keys |-> {}]
    /\ barred = [r \in Handlers |-> {}]

-----------------------------------------------------------------------------
\* A request and its ban check.

\* Bans that the ladder or an operator holds against a request.
Against(c, hinted) ==
    LET keys == (IF hinted THEN Scopes ELSE {"ip", "rl:ip"}) \X {c}
    IN {<<k, "timed">> : k \in {x \in keys : ban[x] # NoBan}}
         \cup {<<k, "permanent">> : k \in keys \cap permanent}

Arrive(r, c, hinted) ==
    /\ h[r].step = "idle"
    /\ h' = [h EXCEPT ![r] = [NoRequest EXCEPT !.step = "isPermanent", !.client = c,
                                               !.hinted = hinted, !.key = <<"ip", c>>]]
    /\ barred' = [barred EXCEPT ![r] = Against(c, hinted)]
    /\ UNCHANGED <<now, store, events, log>>

Goto(r, step) == h' = [h EXCEPT ![r].step = step]
Done(r) == h' = [h EXCEPT ![r] = NoRequest]

\* checkBan, first await; a banned request is answered on the spot.
CheckPermanent(r) ==
    /\ h[r].step = "isPermanent"
    /\ IF h[r].key \in permanent
       THEN Done(r) /\ barred' = [barred EXCEPT ![r] = {}]
       ELSE Goto(r, "getBan") /\ UNCHANGED barred
    /\ UNCHANGED <<now, store, events, log>>

\* Mutant: the pre-flight check never turns to the hinted key.
CheckTimedOfIp(r) ==
    /\ h[r].step = "getBan"
    /\ IF ban[h[r].key] # NoBan THEN Done(r) ELSE Goto(r, "served")
    /\ barred' = [barred EXCEPT ![r] = {}]
    /\ UNCHANGED <<now, store, events, log>>

\* checkBan, second await; the pre-flight check then turns to the hinted key.
CheckTimed(r) ==
    /\ h[r].step = "getBan"
    /\ IF ban[h[r].key] # NoBan
       THEN Done(r) /\ barred' = [barred EXCEPT ![r] = {}]
       ELSE IF h[r].hinted /\ h[r].key[1] = "ip"
       THEN /\ h' = [h EXCEPT ![r].key = <<"pk", h[r].client>>, ![r].step = "isPermanent"]
            /\ UNCHANGED barred
       ELSE Goto(r, "served") /\ barred' = [barred EXCEPT ![r] = {}]
    /\ UNCHANGED <<now, store, events, log>>

\* The request ends without an offense.
Behave(r) ==
    /\ h[r].step = "served"
    /\ Done(r)
    /\ UNCHANGED <<now, store, events, log, barred>>

-----------------------------------------------------------------------------
\* Where the program calls recordOffense, and with what.

Event == events < MaxEvents /\ events' = events + 1

Offend(r, key, signature, band, flagged, paidAt) ==
    /\ h[r].step = "served"
    /\ Event
    /\ h' = [h EXCEPT ![r] = [NoRequest EXCEPT !.step = "push1", !.key = key, !.began = now,
                                               !.signature = signature, !.band = band,
                                               !.flagged = flagged, !.paidAt = paidAt,
                                               !.id = events + 1]]
    /\ UNCHANGED <<now, store, log, barred>>

\* Trust comes with payments.
TrustOf(c) == {b \in Bands : b = 1 \/ firstPaid[c] # Never}

\* The key rlEnforce punishes: the bucket's, unless keyFromReq says otherwise.
OffenderKey(dimension, c) ==
    IF KeyFromReq = "client" THEN <<dimension, c>>
    ELSE IF dimension = "ip" THEN <<"rl:ip", c>> ELSE <<"rl:pk", c>>

\* rlEnforce on an exceeded bucket.  Score and first payment are those of the
\* hinted key; fraud flags are looked up only in the pubkey dimension, under
\* the offender's key: a bucket's name has no attestations.
RateLimited(r, dimension, band, flagged) ==
    LET c == h[r].client
        key == OffenderKey(dimension, c)
    IN /\ band \in (IF h[r].hinted THEN TrustOf(c) ELSE {1})
       /\ flagged => key = <<"pk", c>>
       /\ Offend(r, key, FALSE, band, flagged, IF h[r].hinted THEN firstPaid[c] ELSE Never)

\* An invalid proof of payment.
InvalidSignature(r) == Offend(r, <<"ip", h[r].client>>, TRUE, 1, FALSE, Never)

\* A replayed nonce, a body too large or a deposit that does not verify.
OtherOffense(r) == Offend(r, <<"ip", h[r].client>>, FALSE, 1, FALSE, Never)

\* A proof signed by another key than the challenge's hint.
HintMismatch(r, band) ==
    LET c == h[r].client
    IN /\ band \in TrustOf(c)
       /\ Offend(r, <<"pk", c>>, FALSE, band, FALSE, firstPaid[c])

-----------------------------------------------------------------------------
\* recordOffense.

\* Mutant: the window is not looked at.
RecentEver(hist, tier, window) == {i \in DOMAIN hist : hist[i].tier = tier}

\* _countRecent over the entries of one tier.
Recent(hist, tier, window) ==
    {i \in DOMAIN hist : hist[i].ts >= now - window /\ hist[i].tier = tier}

\* _historySummary.
Summary(hist) ==
    [throttles |-> Cardinality(Recent(hist, 1, FiveMin)),
     invalidSigs |-> Cardinality({i \in Recent(hist, 1, Minute) : hist[i].signature}),
     softBans |-> Cardinality(Recent(hist, 2, OneDay)),
     hardBans |-> Cardinality(Recent(hist, 3, SevenDays))]

\* Mutant: the highest band is treated like the others.
NeedsNoEvidence(o) == FALSE

\* requireFraudCorroboration, and no evidence of fraud.
Uncorroborated(o) == o.band = 4 /\ ~o.flagged

\* Steps 1 to 3, and whether step 4 looks into a permanent ban.
Plan(o, s) ==
    LET shortcut == o.flagged /\ s.throttles >= 1
        soft == /\ ~shortcut
                /\ \/ s.throttles >= ThrottlesToSoftBan * Multiplier[o.band]
                   \/ s.invalidSigs >= InvalidSigsToSoftBan * Multiplier[o.band]
                /\ ~Uncorroborated(o)
        hard == \/ shortcut
                \/ soft /\ s.softBans + 1 >= SoftBansToHardBan /\ ~Uncorroborated(o)
        promote == hard /\ s.hardBans + 1 >= HardBansToPermanent
    IN {x \in {"soft", "hard", "promote"} :
          \/ x = "soft" /\ soft
          \/ x = "hard" /\ hard
          \/ x = "promote" /\ promote}

\* The next await of a call that has taken a step.
After(step, plan) ==
    CASE step = "push1" -> "read"
      [] step = "read" /\ "soft" \in plan -> "ban2"
      [] step = "read" /\ "soft" \notin plan /\ "hard" \in plan -> "ban3"
      [] step = "ban2" -> "push2"
      [] step = "push2" /\ "hard" \in plan -> "ban3"
      [] step = "ban3" -> "push3"
      [] step = "push3" /\ "promote" \in plan -> "whitelist"
      [] step = "permanent" -> "push4"
      [] OTHER -> "idle"

\* The call goes on, or ends and its request with it.
Proceed(r, o) ==
    LET next == After(o.step, o.plan)
    IN h' = [h EXCEPT ![r] = IF next = "idle" THEN NoRequest ELSE [o EXCEPT !.step = next]]

\* pushAbuseHistory: newest first, the oldest dropped beyond the cap.
Pushed(hist, e) == SubSeq(<<e>> \o hist, 1,
                          IF Len(hist) < HistoryCap THEN Len(hist) + 1 ELSE HistoryCap)

Logged(r, tier, at) ==
    log' = [log EXCEPT ![h[r].key] =
              @ \cup {[id |-> h[r].id, tier |-> tier, at |-> at,
                       band |-> h[r].band, flagged |-> h[r].flagged]}]

TierOf(step) ==
    CASE step = "push1" -> 1
      [] step \in {"ban2", "push2"} -> 2
      [] step \in {"ban3", "push3"} -> 3
      [] OTHER -> 4

\* (The reason matters only in a tier-1 entry, so it is dropped after it.)
PushHistory(r) ==
    /\ h[r].step \in {"push1", "push2", "push3", "push4"}
    /\ LET o == h[r]
           e == [ts |-> o.began, tier |-> TierOf(o.step), signature |-> o.signature]
       IN /\ history' = [history EXCEPT ![o.key] = Pushed(@, e)]
          /\ Proceed(r, [o EXCEPT !.signature = FALSE])
    /\ IF h[r].step = "push1" THEN Logged(r, 1, h[r].began) ELSE UNCHANGED log
    /\ UNCHANGED <<now, ban, permanent, firstPaid, unbanning, events, barred>>

\* getAbuseHistory and the decision.  (Entries that expired in the store are
\* older than every window.)
ReadHistory(r) ==
    /\ h[r].step = "read"
    /\ LET plan == Plan(h[r], Summary(history[h[r].key]))
       IN Proceed(r, [h[r] EXCEPT !.plan = plan, !.readAt = now])
    /\ UNCHANGED <<now, store, events, log, barred>>

SetBan(r) ==
    /\ h[r].step \in {"ban2", "ban3"}
    /\ ban' = [ban EXCEPT ![h[r].key] =
                 now + (IF h[r].step = "ban2" THEN SoftBanFor ELSE HardBanFor)]
    /\ Logged(r, TierOf(h[r].step), now)
    /\ Proceed(r, h[r])
    /\ UNCHANGED <<now, history, permanent, firstPaid, unbanning, events, barred>>

\* Mutant: only the first payment that the caller passes counts.
WhitelistedByCaller(o) == o.paidAt # Never /\ now - o.paidAt < WhitelistFor

\* inWhitelistWindow: the caller's first payment, or else the reputation of
\* the key, if it is a pubkey.
Whitelisted(o) ==
    LET paid == IF o.paidAt = Never /\ o.key[1] = "pk"
                THEN firstPaid[o.key[2]] ELSE o.paidAt
    IN paid # Never /\ now - paid < WhitelistFor

\* Step 4: the gates of an automatic permanent ban.
CheckWhitelist(r) ==
    /\ h[r].step = "whitelist"
    /\ IF TierMax >= 4 /\ h[r].band < 3 /\ ~Whitelisted(h[r])
       THEN Goto(r, "permanent") ELSE Done(r)
    /\ UNCHANGED <<now, store, events, log, barred>>

AddPermanent(r) ==
    /\ h[r].step = "permanent"
    /\ permanent' = permanent \cup {h[r].key}
    /\ Logged(r, 4, now)
    /\ Proceed(r, h[r])
    /\ UNCHANGED <<now, history, ban, firstPaid, unbanning, events, barred>>

-----------------------------------------------------------------------------
\* The operators, the agents, the clock and the process.

\* Bans of S that are in force no more.
Lifted(S) == barred' = [r \in Handlers |-> barred[r] \ S]

\* POST /admin/ban with tier 2 or 3, for a duration of the operator's choice.
AdminBan(k, duration) ==
    /\ Event
    /\ ban' = [ban EXCEPT ![k] = now + duration]
    /\ UNCHANGED <<now, history, permanent, firstPaid, h, unbanning, log, barred>>

\* POST /admin/ban with tier 4.
AdminPermanent(k) ==
    /\ Event
    /\ permanent' = permanent \cup {k}
    /\ UNCHANGED <<now, history, ban, firstPaid, h, unbanning, log, barred>>

\* POST /admin/unban: clearBan, then removePermanent.
AdminClear(k) ==
    /\ Event
    /\ ban' = [ban EXCEPT ![k] = NoBan]
    /\ unbanning' = unbanning \cup {k}
    /\ Lifted({<<k, "timed">>})
    /\ UNCHANGED <<now, history, permanent, firstPaid, h, log>>

AdminRemove(k) ==
    /\ k \in unbanning
    /\ permanent' = permanent \ {k}
    /\ unbanning' = unbanning \ {k}
    /\ Lifted({<<k, "permanent">>})
    /\ UNCHANGED <<now, history, ban, firstPaid, h, events, log>>

\* A first payment settles.
FirstPayment(c) ==
    /\ Event
    /\ firstPaid[c] = Never
    /\ firstPaid' = [firstPaid EXCEPT ![c] = now]
    /\ UNCHANGED <<now, history, ban, permanent, h, unbanning, log, barred>>

\* Time passes, and bans expire.
Expired == {k \in Keys : ban[k] # NoBan /\ ban[k] < now + 1}

Tick ==
    /\ now < MaxTime
    /\ now' = now + 1
    /\ ban' = [k \in Keys |-> IF k \in Expired THEN NoBan ELSE ban[k]]
    /\ Lifted(Expired \X {"timed"})
    /\ UNCHANGED <<history, permanent, firstPaid, h, unbanning, events, log>>

\* The process dies with everything in progress; the store keeps its keys.
Crash ==
    /\ Event
    /\ h' = [r \in Handlers |-> NoRequest]
    /\ unbanning' = {}
    /\ barred' = [r \in Handlers |-> {}]
    /\ UNCHANGED <<now, history, ban, permanent, firstPaid, log>>

Offense(r) ==
    \/ \E dimension \in {"ip", "pk"}, band \in Bands, flagged \in BOOLEAN :
          RateLimited(r, dimension, band, flagged)
    \/ InvalidSignature(r)
    \/ OtherOffense(r)
    \/ \E band \in Bands : HintMismatch(r, band)

Record(r) ==
    \/ PushHistory(r) \/ ReadHistory(r) \/ SetBan(r)
    \/ CheckWhitelist(r) \/ AddPermanent(r)

Handle(r) ==
    \/ \E c \in Clients, hinted \in BOOLEAN : Arrive(r, c, hinted)
    \/ CheckPermanent(r) \/ CheckTimed(r) \/ Behave(r)
    \/ Offense(r)
    \/ Record(r)

Operator ==
    \E k \in AdminKeys :
        \/ \E duration \in AdminTtls : AdminBan(k, duration)
        \/ AdminPermanent(k)
        \/ AdminClear(k)
        \/ AdminRemove(k)

Next ==
    \/ \E r \in Handlers : Handle(r)
    \/ Operator
    \/ \E c \in Clients : FirstPayment(c)
    \/ Tick
    \/ Crash

Spec == Init /\ [][Next]_vars

-----------------------------------------------------------------------------
\* Types, no ban that has expired, and no history beyond its cap.
TypeOK ==
    /\ now \in Nat
    /\ history \in [Keys -> Seq([ts : Nat, tier : 1..4, signature : BOOLEAN])]
    /\ \A k \in Keys : Len(history[k]) <= HistoryCap
    /\ ban \in [Keys -> Nat \cup {NoBan}]
    /\ \A k \in Keys : ban[k] # NoBan => ban[k] >= now
    /\ permanent \subseteq Keys
    /\ firstPaid \in [Clients -> Int \cup {Never}]
    /\ h \in [Handlers -> Requests]
    /\ unbanning \subseteq AdminKeys
    /\ events \in 0..MaxEvents
    /\ log \in [Keys -> SUBSET [id : Nat, tier : 1..4, at : Nat, band : 1..4, flagged : BOOLEAN]]
    /\ barred \in [Handlers -> SUBSET (Keys \X {"timed", "permanent"})]

\* The request takes its step from a to b (and does not die in it).
Takes(r, a, b) == h[r].step = a /\ h'[r].step = b

\* What the key of r has had of a tier, up to a window before r's decision.
Had(r, tier, window) ==
    Cardinality({e \in log[h[r].key] : e.tier = tier /\ e.at >= h[r].readAt - window})

\* Every rung is earned: however requests interleave, a soft ban follows as
\* many offenses as the smaller threshold asks, a hard ban three soft bans or
\* a fraud signal, a permanent ban three hard bans, each within its window
\* (recordOffense, steps 1 to 4, on a history others are writing).
RungsAreEarned ==
    [][\A r \in Handlers :
         /\ Takes(r, "ban2", "push2") =>
              \/ Had(r, 1, FiveMin) >= ThrottlesToSoftBan
              \/ Had(r, 1, Minute) >= InvalidSigsToSoftBan
         /\ Takes(r, "ban3", "push3") =>
              h[r].flagged \/ Had(r, 2, OneDay) >= SoftBansToHardBan
         /\ Takes(r, "permanent", "push4") =>
              Had(r, 3, SevenDays) >= HardBansToPermanent]_vars

\* An agent of the highest band is never banned by the ladder without a fraud
\* signal, and an agent of the upper half never permanently, whoever else's
\* offenses are in the history they share (applyTrust).
TrustIsHonoured ==
    \A k \in Keys : \A e \in log[k] :
        /\ e.tier \in {2, 3} => e.band < 4 \/ e.flagged
        /\ e.tier = 4 => e.band < 3 /\ TierMax >= 4

\* An agent that had paid before it offended, and is still new, is not made a
\* permanent outcast by the ladder (inWhitelistWindow).
NewcomerIsSpared ==
    [][\A r \in Handlers, c \in Clients :
         Takes(r, "permanent", "push4") /\ h[r].key = <<"pk", c>> =>
           ~ (/\ firstPaid[c] # Never
              /\ firstPaid[c] < h[r].began
              /\ now - firstPaid[c] < WhitelistFor)]_vars

\* A request gets past the ban check only if no ban has been in force against
\* its client, or the key it hints, ever since it arrived (the pre-flight
\* check of index.js; design, section 8.1: "429 em todas as requests").
BannedIsRefused ==
    [][\A r \in Handlers : Takes(r, "getBan", "served") => barred[r] = {}]_vars
=============================================================================
