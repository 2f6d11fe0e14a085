-------------------------- MODULE EnforcementProofs --------------------------
(***************************************************************************)
(* Proofs about module Enforcement, for any number of requests and         *)
(* clients, any thresholds, windows, durations and trust multipliers, both *)
(* wirings of keyFromReq and every TierMax: types and the history's cap,   *)
(* trust is honoured, newcomers are spared, every rung is earned and, with *)
(* the bridge wired as its tests wire it, the banned are refused.          *)
(***************************************************************************)
EXTENDS Enforcement, SequenceTheorems, FiniteSetTheorems, TLAPS

USE EnforcementAssumption

-----------------------------------------------------------------------------
(* Helpers: the entries of a history, the idle request, the next step.     *)

Entries == [ts : Nat, tier : 1..4, signature : BOOLEAN]

\* pushAbuseHistory adds one entry and never exceeds the cap.
LEMMA PushedProperties ==
    ASSUME NEW hist \in Seq(Entries), NEW e \in Entries, Len(hist) <= HistoryCap
    PROVE  /\ Pushed(hist, e) \in Seq(Entries)
           /\ Len(Pushed(hist, e)) <= HistoryCap
<1> DEFINE n == IF Len(hist) < HistoryCap THEN Len(hist) + 1 ELSE HistoryCap
           all == <<e>> \o hist
<1>1. <<e>> \in Seq(Entries) /\ Len(<<e>>) = 1 /\ Len(hist) \in Nat
  OBVIOUS
<1>2. all \in Seq(Entries) /\ Len(all) = 1 + Len(hist)
  BY <1>1, ConcatProperties
<1>3. n \in Nat /\ n <= HistoryCap /\ n <= 1 + Len(hist)
  BY <1>1
<1>4. Pushed(hist, e) = SubSeq(all, 1, n)
  BY DEF Pushed
<1> HIDE DEF n, all
<1>5. \A i \in 1..n : all[i] \in Entries
  <2> SUFFICES ASSUME NEW i \in 1..n PROVE all[i] \in Entries
    OBVIOUS
  <2>1. i \in 1..Len(all)
    BY <1>1, <1>2, <1>3
  <2> HIDE EnforcementAssumption
  <2> QED
    BY <1>2, <2>1
<1>6. /\ SubSeq(all, 1, n) \in Seq(Entries)
      /\ Len(SubSeq(all, 1, n)) = IF 1 <= n THEN n - 1 + 1 ELSE 0
  BY <1>3, <1>5, SubSeqProperties
<1> QED
  BY <1>3, <1>4, <1>6

LEMMA NoRequestType == NoRequest \in Requests /\ NoRequest.step = "idle"
<1>1. (CHOOSE x \in Clients : TRUE) \in Clients
  OBVIOUS
<1> QED
  BY <1>1 DEF NoRequest, Requests, Keys, Scopes, Steps

LEMMA AfterType == \A step, plan : After(step, plan) \in Steps
BY DEF After, Steps

-----------------------------------------------------------------------------
(* Types.  Each part of TypeOK has the steps that can disturb it.          *)

Logs == [id : Nat, tier : 1..4, at : Nat, band : 1..4, flagged : BOOLEAN]

\* The parts of TypeOK that speak of the store, and those of the process.
StoreOK ==
    /\ now \in Nat
    /\ history \in [Keys -> Seq(Entries)]
    /\ \A k \in Keys : Len(history[k]) <= HistoryCap
    /\ ban \in [Keys -> Nat \cup {NoBan}]
    /\ \A k \in Keys : ban[k] # NoBan => ban[k] >= now
    /\ permanent \subseteq Keys
    /\ firstPaid \in [Clients -> Int \cup {Never}]
    /\ unbanning \subseteq AdminKeys

ProcessOK ==
    /\ h \in [Handlers -> Requests]
    /\ events \in 0..MaxEvents
    /\ log \in [Keys -> SUBSET Logs]
    /\ barred \in [Handlers -> SUBSET (Keys \X {"timed", "permanent"})]

LEMMA TypeParts == TypeOK <=> StoreOK /\ ProcessOK
BY DEF TypeOK, StoreOK, ProcessOK, Entries, Logs

LEMMA AdminKeysAreKeys == AdminKeys \subseteq Keys
BY DEF AdminKeys, Keys, Scopes

\* The call of recordOffense goes on from o, or ends.
LEMMA ProceedType ==
    ASSUME ProcessOK, NEW r \in Handlers, NEW o \in Requests, Proceed(r, o)
    PROVE  h' \in [Handlers -> Requests]
<1>1. [o EXCEPT !.step = After(o.step, o.plan)] \in Requests
  BY AfterType DEF Requests
<1> QED
  BY <1>1, NoRequestType DEF Proceed, ProcessOK

LEMMA LoggedType ==
    ASSUME ProcessOK, NEW r \in Handlers, NEW tier \in 1..4, NEW at \in Nat,
           Logged(r, tier, at)
    PROVE  log' \in [Keys -> SUBSET Logs]
<1>1. h[r] \in Requests
  BY DEF ProcessOK
<1>2. [id |-> h[r].id, tier |-> tier, at |-> at,
       band |-> h[r].band, flagged |-> h[r].flagged] \in Logs
  BY <1>1 DEF Requests, Logs
<1> QED
  BY <1>2 DEF Logged, ProcessOK

LEMMA TypeInit == Init => TypeOK
<1> SUFFICES ASSUME Init PROVE StoreOK /\ ProcessOK
  BY TypeParts
<1>1. <<>> \in Seq(Entries) /\ Len(<<>>) = 0
  OBVIOUS
<1>2. StoreOK
  BY <1>1 DEF Init, StoreOK, NoBan
<1>3. ProcessOK
  BY NoRequestType DEF Init, ProcessOK
<1> QED
  BY <1>2, <1>3

\* The steps of a request's ban check, and its end.
LEMMA CheckType ==
    ASSUME StoreOK, ProcessOK, NEW r \in Handlers,
           \/ \E c \in Clients, hinted \in BOOLEAN : Arrive(r, c, hinted)
           \/ CheckPermanent(r) \/ CheckTimed(r) \/ Behave(r)
    PROVE  StoreOK' /\ ProcessOK'
<1>1. UNCHANGED <<now, history, ban, permanent, firstPaid, unbanning, events, log>>
  BY DEF Arrive, CheckPermanent, CheckTimed, Behave, store
<1>2. StoreOK'
  BY <1>1 DEF StoreOK
<1>3. h[r] \in Requests
  BY DEF ProcessOK
<1>4. ASSUME NEW step \in Steps, NEW key \in Keys
      PROVE  [h[r] EXCEPT !.key = key, !.step = step] \in Requests
  BY <1>3, <1>4 DEF Requests
<1>5. ASSUME NEW step \in Steps PROVE [h[r] EXCEPT !.step = step] \in Requests
  BY <1>3, <1>5 DEF Requests
<1> DEFINE Typed == /\ h' \in [Handlers -> Requests]
                    /\ barred' \in [Handlers -> SUBSET (Keys \X {"timed", "permanent"})]
<1>6. Typed
  <2>1. ASSUME NEW c \in Clients, NEW hinted \in BOOLEAN, Arrive(r, c, hinted)
        PROVE  Typed
    <3>1. [NoRequest EXCEPT !.step = "isPermanent", !.client = c,
                            !.hinted = hinted, !.key = <<"ip", c>>] \in Requests
      BY NoRequestType DEF Requests, Steps, Keys, Scopes
    <3>2. Against(c, hinted) \in SUBSET (Keys \X {"timed", "permanent"})
      BY DEF Against, Keys, Scopes
    <3> QED
      BY <2>1, <3>1, <3>2 DEF Arrive, ProcessOK
  <2>2. CASE CheckPermanent(r)
    BY <2>2, <1>5, NoRequestType DEF CheckPermanent, Done, Goto, ProcessOK, Steps
  <2>3. CASE CheckTimed(r)
    <3>1. <<"pk", h[r].client>> \in Keys
      BY <1>3 DEF Requests, Keys, Scopes
    <3>2. "isPermanent" \in Steps /\ "served" \in Steps
      BY DEF Steps
    <3>3. [h[r] EXCEPT !.key = <<"pk", h[r].client>>, !.step = "isPermanent"] \in Requests
      BY <3>1, <3>2, <1>4
    <3>4. [h[r] EXCEPT !.step = "served"] \in Requests
      BY <3>2, <1>5
    <3> QED
      BY <2>3, <3>3, <3>4, NoRequestType DEF CheckTimed, Done, Goto, ProcessOK
  <2>4. CASE Behave(r)
    BY <2>4, NoRequestType DEF Behave, Done, ProcessOK
  <2> QED
    BY <2>1, <2>2, <2>3, <2>4
<1> QED
  BY <1>1, <1>2, <1>6 DEF ProcessOK

\* An offense: recordOffense is called.
LEMMA OffenseType ==
    ASSUME StoreOK, ProcessOK, NEW r \in Handlers, Offense(r)
    PROVE  StoreOK' /\ ProcessOK'
<1>1. ASSUME NEW key \in Keys, NEW signature \in BOOLEAN, NEW band \in 1..4,
             NEW flagged \in BOOLEAN, NEW paidAt \in Int \cup {Never},
             Offend(r, key, signature, band, flagged, paidAt)
      PROVE  StoreOK' /\ ProcessOK'
  <2>1. events \in Nat /\ events + 1 \in 0..MaxEvents /\ events' = events + 1
    BY <1>1 DEF Offend, Event, ProcessOK
  <2>2. now \in Nat
    BY DEF StoreOK
  <2>3. [NoRequest EXCEPT !.step = "push1", !.key = key, !.began = now,
                          !.signature = signature, !.band = band, !.flagged = flagged,
                          !.paidAt = paidAt, !.id = events + 1] \in Requests
    <3>1. ASSUME NEW o \in Requests
          PROVE  [o EXCEPT !.step = "push1", !.key = key, !.began = now,
                           !.signature = signature, !.band = band, !.flagged = flagged,
                           !.paidAt = paidAt, !.id = events + 1] \in Requests
      <4>1. "push1" \in Steps /\ events + 1 \in Nat
        BY <2>1 DEF Steps
      <4> DEFINE o1 == [o EXCEPT !.step = "push1", !.key = key, !.began = now]
                 o2 == [o1 EXCEPT !.signature = signature, !.band = band]
                 o3 == [o2 EXCEPT !.flagged = flagged, !.paidAt = paidAt, !.id = events + 1]
      <4>2. o1 \in Requests
        BY <2>2, <4>1 DEF Requests
      <4>3. o2 \in Requests
        <5> HIDE DEF o1
        <5> QED
          BY <4>2 DEF Requests
      <4>4. o3 \in Requests
        <5> HIDE DEF o2
        <5> QED
          BY <4>1, <4>3 DEF Requests
      <4> QED
        BY <4>4
    <3> QED
      BY <3>1, NoRequestType
  <2>4. h' \in [Handlers -> Requests]
    BY <1>1, <2>3 DEF Offend, ProcessOK
  <2>5. UNCHANGED <<now, history, ban, permanent, firstPaid, unbanning, log, barred>>
    BY <1>1 DEF Offend, store
  <2> QED
    BY <2>1, <2>4, <2>5 DEF StoreOK, ProcessOK
<1>2. /\ h[r].client \in Clients /\ firstPaid[h[r].client] \in Int \cup {Never}
      /\ Never \in Int \cup {Never}
  BY DEF StoreOK, ProcessOK, Requests
<1>3. \A dimension \in {"ip", "pk"} : /\ <<dimension, h[r].client>> \in Keys
                                      /\ OffenderKey(dimension, h[r].client) \in Keys
  BY <1>2 DEF OffenderKey, Keys, Scopes
<1>4. ASSUME NEW dimension \in {"ip", "pk"}, NEW band \in Bands, NEW flagged \in BOOLEAN,
             RateLimited(r, dimension, band, flagged)
      PROVE  StoreOK' /\ ProcessOK'
  BY <1>1, <1>2, <1>3, <1>4 DEF RateLimited
<1>5. CASE InvalidSignature(r)
  BY <1>1, <1>2, <1>3, <1>5 DEF InvalidSignature
<1>6. CASE OtherOffense(r)
  BY <1>1, <1>2, <1>3, <1>6 DEF OtherOffense
<1>7. ASSUME NEW band \in Bands, HintMismatch(r, band)
      PROVE  StoreOK' /\ ProcessOK'
  BY <1>1, <1>2, <1>3, <1>7 DEF HintMismatch
<1> QED
  BY <1>4, <1>5, <1>6, <1>7 DEF Offense

\* The steps of recordOffense.
LEMMA RecordType ==
    ASSUME StoreOK, ProcessOK, NEW r \in Handlers, Record(r)
    PROVE  StoreOK' /\ ProcessOK'
<1>1. /\ h[r] \in Requests /\ h[r].key \in Keys /\ h[r].began \in Nat
      /\ now \in Nat
  BY DEF StoreOK, ProcessOK, Requests
<1>2. CASE PushHistory(r)
  <2> DEFINE e == [ts |-> h[r].began, tier |-> TierOf(h[r].step),
                   signature |-> h[r].signature]
  <2>1. e \in Entries
    BY <1>1 DEF Entries, TierOf, Requests
  <2>2. history' = [history EXCEPT ![h[r].key] = Pushed(@, e)]
    BY <1>2 DEF PushHistory
  <2> HIDE DEF e
  <2>3. /\ history' \in [Keys -> Seq(Entries)]
        /\ \A k \in Keys : Len(history'[k]) <= HistoryCap
    BY <1>1, <2>1, <2>2, PushedProperties DEF StoreOK
  <2>4. [h[r] EXCEPT !.signature = FALSE] \in Requests
    BY <1>1 DEF Requests
  <2>5. h' \in [Handlers -> Requests]
    BY <1>2, <2>4, ProceedType DEF PushHistory
  <2>6. log' \in [Keys -> SUBSET Logs]
    BY <1>1, <1>2, LoggedType DEF PushHistory, ProcessOK
  <2>7. UNCHANGED <<now, ban, permanent, firstPaid, unbanning, events, barred>>
    BY <1>2 DEF PushHistory
  <2> QED
    BY <2>3, <2>5, <2>6, <2>7 DEF StoreOK, ProcessOK
<1>3. CASE ReadHistory(r)
  <2> DEFINE plan == Plan(h[r], Summary(history[h[r].key]))
  <2>1. plan \in SUBSET {"soft", "hard", "promote"}
    BY DEF Plan
  <2>2. Proceed(r, [h[r] EXCEPT !.plan = plan, !.readAt = now])
    BY <1>3 DEF ReadHistory
  <2> HIDE DEF plan
  <2>3. [h[r] EXCEPT !.plan = plan, !.readAt = now] \in Requests
    BY <1>1, <2>1 DEF Requests
  <2>4. h' \in [Handlers -> Requests]
    BY <2>2, <2>3, ProceedType
  <2>5. UNCHANGED <<now, store, events, log, barred>>
    BY <1>3 DEF ReadHistory
  <2> QED
    BY <2>4, <2>5 DEF StoreOK, ProcessOK, store
<1>4. CASE SetBan(r)
  <2>1. h' \in [Handlers -> Requests]
    BY <1>1, <1>4, ProceedType DEF SetBan
  <2>2. TierOf(h[r].step) \in 1..4
    BY DEF TierOf
  <2>3. log' \in [Keys -> SUBSET Logs]
    BY <1>1, <1>4, <2>2, LoggedType DEF SetBan
  <2> DEFINE until == now + (IF h[r].step = "ban2" THEN SoftBanFor ELSE HardBanFor)
  <2>0. until \in Nat /\ until >= now
    BY <1>1
  <2>4. ban' = [ban EXCEPT ![h[r].key] = until]
    BY <1>4 DEF SetBan
  <2> HIDE DEF until
  <2>5. /\ ban' \in [Keys -> Nat \cup {NoBan}]
        /\ \A k \in Keys : ban'[k] # NoBan => ban'[k] >= now
    BY <1>1, <2>0, <2>4 DEF StoreOK
  <2>6. UNCHANGED <<now, history, permanent, firstPaid, unbanning, events, barred>>
    BY <1>4 DEF SetBan
  <2> QED
    BY <2>1, <2>3, <2>5, <2>6 DEF StoreOK, ProcessOK
<1>5. CASE CheckWhitelist(r)
  <2>1. [h[r] EXCEPT !.step = "permanent"] \in Requests
    BY <1>1 DEF Requests, Steps
  <2>2. h' \in [Handlers -> Requests]
    BY <1>5, <2>1, NoRequestType DEF CheckWhitelist, Goto, Done, ProcessOK
  <2>3. UNCHANGED <<now, store, events, log, barred>>
    BY <1>5 DEF CheckWhitelist
  <2> QED
    BY <2>2, <2>3 DEF StoreOK, ProcessOK, store
<1>6. CASE AddPermanent(r)
  <2>1. h' \in [Handlers -> Requests]
    BY <1>1, <1>6, ProceedType DEF AddPermanent
  <2>2. log' \in [Keys -> SUBSET Logs]
    BY <1>1, <1>6, LoggedType DEF AddPermanent
  <2>3. permanent' \subseteq Keys
    BY <1>1, <1>6 DEF AddPermanent, StoreOK
  <2>4. UNCHANGED <<now, history, ban, firstPaid, unbanning, events, barred>>
    BY <1>6 DEF AddPermanent
  <2> QED
    BY <2>1, <2>2, <2>3, <2>4 DEF StoreOK, ProcessOK
<1> QED
  BY <1>2, <1>3, <1>4, <1>5, <1>6 DEF Record

\* Operators, first payments, the clock, and the crash.
LEMMA SurroundingsType ==
    ASSUME StoreOK, ProcessOK,
           Operator \/ Tick \/ Crash \/ \E c \in Clients : FirstPayment(c)
    PROVE  StoreOK' /\ ProcessOK'
<1>1. Event => events' \in 0..MaxEvents
  BY DEF Event, ProcessOK
<1>2. \A S : Lifted(S) =>
          barred' \in [Handlers -> SUBSET (Keys \X {"timed", "permanent"})]
  BY DEF Lifted, ProcessOK
<1>3. ASSUME NEW k \in AdminKeys, NEW duration \in AdminTtls, AdminBan(k, duration)
      PROVE  StoreOK' /\ ProcessOK'
  <2> DEFINE until == now + duration
  <2>0. until \in Nat /\ until >= now
    BY DEF StoreOK
  <2>1. ban' = [ban EXCEPT ![k] = until]
    BY <1>3 DEF AdminBan
  <2> HIDE DEF until
  <2>2. /\ ban' \in [Keys -> Nat \cup {NoBan}]
        /\ \A x \in Keys : ban'[x] # NoBan => ban'[x] >= now
    BY <2>0, <2>1 DEF StoreOK
  <2> QED
    BY <1>1, <1>3, <2>2 DEF AdminBan, StoreOK, ProcessOK
<1>4. ASSUME NEW k \in AdminKeys, AdminPermanent(k) PROVE StoreOK' /\ ProcessOK'
  BY <1>1, <1>4, AdminKeysAreKeys DEF AdminPermanent, StoreOK, ProcessOK
<1>5. ASSUME NEW k \in AdminKeys, AdminClear(k) PROVE StoreOK' /\ ProcessOK'
  <2>1. /\ ban' \in [Keys -> Nat \cup {NoBan}]
        /\ \A x \in Keys : ban'[x] # NoBan => ban'[x] >= now
    BY <1>5 DEF AdminClear, StoreOK
  <2> QED
    BY <1>1, <1>2, <1>5, <2>1 DEF AdminClear, StoreOK, ProcessOK
<1>6. ASSUME NEW k \in AdminKeys, AdminRemove(k) PROVE StoreOK' /\ ProcessOK'
  BY <1>2, <1>6 DEF AdminRemove, StoreOK, ProcessOK
<1>7. ASSUME NEW c \in Clients, FirstPayment(c) PROVE StoreOK' /\ ProcessOK'
  <2>1. now \in Int \cup {Never}
    BY DEF StoreOK
  <2>2. firstPaid' \in [Clients -> Int \cup {Never}]
    BY <1>7, <2>1 DEF FirstPayment, StoreOK
  <2>3. UNCHANGED <<now, history, ban, permanent, h, unbanning, log, barred>>
    BY <1>7 DEF FirstPayment
  <2>4. events' \in 0..MaxEvents
    BY <1>1, <1>7 DEF FirstPayment
  <2> QED
    BY <2>2, <2>3, <2>4 DEF StoreOK, ProcessOK
<1>8. CASE Tick
  <2>1. now' = now + 1 /\ now' \in Nat
    BY <1>8 DEF Tick, StoreOK
  <2>2. ban' \in [Keys -> Nat \cup {NoBan}]
    BY <1>8 DEF Tick, StoreOK
  <2>3. \A k \in Keys : ban'[k] # NoBan => ban'[k] >= now'
    <3> SUFFICES ASSUME NEW k \in Keys, ban'[k] # NoBan PROVE ban'[k] >= now'
      OBVIOUS
    <3>1. k \notin Expired /\ ban'[k] = ban[k]
      BY <1>8 DEF Tick
    <3>2. ~ (ban[k] < now + 1) /\ ban[k] \in Nat
      BY <3>1 DEF Expired, StoreOK
    <3> QED
      BY <2>1, <3>1, <3>2
  <2>4. UNCHANGED <<history, permanent, firstPaid, h, unbanning, events, log>>
    BY <1>8 DEF Tick
  <2>5. barred' \in [Handlers -> SUBSET (Keys \X {"timed", "permanent"})]
    BY <1>2, <1>8 DEF Tick
  <2> QED
    BY <2>1, <2>2, <2>3, <2>4, <2>5 DEF StoreOK, ProcessOK
<1>9. CASE Crash
  <2>1. UNCHANGED <<now, history, ban, permanent, firstPaid, log>> /\ unbanning' = {}
    BY <1>9 DEF Crash
  <2>2. h' \in [Handlers -> Requests] /\ events' \in 0..MaxEvents
        /\ barred' \in [Handlers -> SUBSET (Keys \X {"timed", "permanent"})]
    BY <1>1, <1>9, NoRequestType DEF Crash
  <2> QED
    BY <2>1, <2>2 DEF StoreOK, ProcessOK
<1> QED
  BY <1>3, <1>4, <1>5, <1>6, <1>7, <1>8, <1>9 DEF Operator

LEMMA TypeStep == TypeOK /\ [Next]_vars => TypeOK'
<1> SUFFICES ASSUME StoreOK, ProcessOK, [Next]_vars PROVE StoreOK' /\ ProcessOK'
  BY DEF TypeOK, StoreOK, ProcessOK, Entries, Logs
<1>1. CASE UNCHANGED vars
  BY <1>1 DEF vars, StoreOK, ProcessOK
<1>2. ASSUME NEW r \in Handlers, Handle(r) PROVE StoreOK' /\ ProcessOK'
  BY <1>2, CheckType, OffenseType, RecordType DEF Handle
<1> QED
  BY <1>1, <1>2, SurroundingsType DEF Next

\* Every reachable state is typed, no timed ban outlives its end, and no
\* history outgrows the cap of pushAbuseHistory.
THEOREM TypeCorrect == Spec => []TypeOK
BY TypeInit, TypeStep, PTL DEF Spec

-----------------------------------------------------------------------------
(* Trust.  What a call has decided is allowed to its request's band, and   *)
(* it takes only the steps it has decided.                                 *)

Lenient(o) == o.band < 4 \/ o.flagged

\* A request whose remaining steps honour its band.
Honours(o) ==
    /\ o.plan \cap {"soft", "hard"} # {} => Lenient(o)
    /\ o.step \in {"ban2", "ban3"} => Lenient(o)
    /\ o.step = "permanent" => o.band < 3 /\ TierMax >= 4

TrustInv ==
    /\ \A r \in Handlers : Honours(h[r])
    /\ TrustIsHonoured

LEMMA NoRequestHonours == Honours(NoRequest)
BY DEF NoRequest, Honours, Lenient

\* Going on with a plan the band allows.
LEMMA ProceedHonours ==
    ASSUME TypeOK, TrustInv, NEW r \in Handlers, NEW o \in Requests,
           o.plan \cap {"soft", "hard"} # {} => Lenient(o),
           Proceed(r, o)
    PROVE  \A x \in Handlers : Honours(h'[x])
<1> DEFINE next == After(o.step, o.plan)
<1>1. next # "permanent"
  BY DEF After
<1>2. next \in {"ban2", "ban3"} => o.plan \cap {"soft", "hard"} # {}
  BY DEF After
<1> HIDE DEF next
<1>3. Honours([o EXCEPT !.step = next])
  BY <1>1, <1>2 DEF Honours, Lenient, Requests
<1>4. h' = [h EXCEPT ![r] = IF next = "idle" THEN NoRequest ELSE [o EXCEPT !.step = next]]
  BY DEF Proceed, next
<1>5. h \in [Handlers -> Requests]
  BY DEF TypeOK
<1> QED
  BY <1>3, <1>4, <1>5, NoRequestHonours DEF TrustInv

\* A request that is dropped, or that takes a harmless step.
LEMMA ReplacedHonours ==
    ASSUME TypeOK, TrustInv, NEW r \in Handlers, NEW o,
           o \in Requests, Honours(o), h' = [h EXCEPT ![r] = o], UNCHANGED log
    PROVE  TrustInv'
<1>1. h \in [Handlers -> Requests]
  BY DEF TypeOK
<1> QED
  BY <1>1 DEF TrustInv, TrustIsHonoured

\* What a step of the ladder adds to the log.
LEMMA LoggedHonours ==
    ASSUME TypeOK, TrustInv, NEW r \in Handlers, NEW tier, NEW at, Logged(r, tier, at),
           tier \in {2, 3} => Lenient(h[r]),
           tier = 4 => h[r].band < 3 /\ TierMax >= 4
    PROVE  TrustIsHonoured'
<1>1. h[r] \in Requests /\ h[r].key \in Keys /\ log \in [Keys -> SUBSET Logs]
  BY DEF TypeOK, Requests, Logs
<1> DEFINE new == [id |-> h[r].id, tier |-> tier, at |-> at,
                   band |-> h[r].band, flagged |-> h[r].flagged]
<1>2. log' = [log EXCEPT ![h[r].key] = @ \cup {new}]
  BY DEF Logged
<1>3. new.tier = tier /\ new.band = h[r].band /\ new.flagged = h[r].flagged
  OBVIOUS
<1> HIDE DEF new
<1> SUFFICES ASSUME NEW k \in Keys, NEW e \in log'[k]
             PROVE  /\ e.tier \in {2, 3} => e.band < 4 \/ e.flagged
                    /\ e.tier = 4 => e.band < 3 /\ TierMax >= 4
  BY DEF TrustIsHonoured
<1>4. e \in log[k] \/ e = new
  BY <1>1, <1>2
<1> QED
  BY <1>3, <1>4 DEF Lenient, TrustInv, TrustIsHonoured

\* The decision honours the band: applyTrust, and the fraud shortcut.
LEMMA PlanHonours ==
    ASSUME NEW o \in Requests, NEW s, Plan(o, s) \cap {"soft", "hard"} # {}
    PROVE  Lenient(o)
<1>1. o.band \in 1..4
  BY DEF Requests
<1>2. ~Uncorroborated(o)
  BY DEF Plan, Uncorroborated
<1> QED
  BY <1>1, <1>2 DEF Uncorroborated, Lenient

LEMMA TrustStep == TypeOK /\ TrustInv /\ [Next]_vars => TrustInv'
<1> SUFFICES ASSUME TypeOK, TrustInv, [Next]_vars PROVE TrustInv'
  OBVIOUS
<1>0. \A r \in Handlers : h[r] \in Requests /\ Honours(h[r])
  BY DEF TypeOK, TrustInv
<1>1. ASSUME UNCHANGED <<h, log>> PROVE TrustInv'
  BY <1>1 DEF TrustInv, TrustIsHonoured
<1>2. ASSUME NEW r \in Handlers, Done(r), UNCHANGED log PROVE TrustInv'
  BY <1>2, NoRequestHonours, NoRequestType, ReplacedHonours DEF Done
<1>3. ASSUME NEW r \in Handlers, NEW step \in Steps \ {"ban2", "ban3", "permanent"},
             Goto(r, step), UNCHANGED log
      PROVE  TrustInv'
  <2>1. /\ [h[r] EXCEPT !.step = step] \in Requests
        /\ Honours([h[r] EXCEPT !.step = step])
    BY <1>0 DEF Requests, Honours, Lenient
  <2>2. h' = [h EXCEPT ![r] = [h[r] EXCEPT !.step = step]]
    BY <1>3 DEF Goto
  <2> QED
    BY <1>3, <2>1, <2>2, ReplacedHonours
<1>4. ASSUME NEW r \in Handlers, NEW c \in Clients, NEW hinted \in BOOLEAN,
             Arrive(r, c, hinted)
      PROVE  TrustInv'
  <2> DEFINE o == [NoRequest EXCEPT !.step = "isPermanent", !.client = c,
                                    !.hinted = hinted, !.key = <<"ip", c>>]
  <2>1. o \in Requests
    BY NoRequestType DEF Requests, Steps, Keys, Scopes
  <2>2. Honours(o)
    BY NoRequestType, NoRequestHonours DEF Requests, Honours, Lenient
  <2> HIDE DEF o
  <2>3. h' = [h EXCEPT ![r] = o] /\ UNCHANGED log
    BY <1>4 DEF Arrive, o
  <2> QED
    BY <2>1, <2>2, <2>3, ReplacedHonours
<1>5. ASSUME NEW r \in Handlers, CheckPermanent(r) PROVE TrustInv'
  BY <1>2, <1>3, <1>5 DEF CheckPermanent, Steps
<1>6. ASSUME NEW r \in Handlers, CheckTimed(r) PROVE TrustInv'
  <2>1. CASE h' = [h EXCEPT ![r].key = <<"pk", h[r].client>>, ![r].step = "isPermanent"]
    <3> DEFINE o == [h[r] EXCEPT !.key = <<"pk", h[r].client>>, !.step = "isPermanent"]
    <3>1. <<"pk", h[r].client>> \in Keys /\ "isPermanent" \in Steps
      BY <1>0 DEF Requests, Keys, Scopes, Steps
    <3>2. o \in Requests
      BY <1>0, <3>1 DEF Requests
    <3>3. Honours(o)
      BY <1>0 DEF Requests, Honours, Lenient
    <3>4. h' = [h EXCEPT ![r] = o] /\ UNCHANGED log
      BY <1>0, <1>6, <2>1 DEF CheckTimed, TypeOK
    <3> QED
      BY <3>2, <3>3, <3>4, ReplacedHonours
  <2>2. CASE h' # [h EXCEPT ![r].key = <<"pk", h[r].client>>, ![r].step = "isPermanent"]
    BY <1>2, <1>3, <1>6, <2>2 DEF CheckTimed, Steps
  <2> QED
    BY <2>1, <2>2
<1>7. ASSUME NEW r \in Handlers, Offense(r) PROVE TrustInv'
  <2>1. UNCHANGED log /\ h'[r].plan = {} /\ h'[r].step = "push1"
        /\ \A x \in Handlers \ {r} : h'[x] = h[x]
    <3>1. PICK key, signature, band, flagged, paidAt :
            Offend(r, key, signature, band, flagged, paidAt)
      BY <1>7 DEF Offense, RateLimited, InvalidSignature, OtherOffense, HintMismatch
    <3>2. h \in [Handlers -> Requests] /\ UNCHANGED log
      BY <3>1 DEF Offend, TypeOK
    <3>3. h' = [h EXCEPT ![r] = [NoRequest EXCEPT !.step = "push1", !.key = key, !.began = now,
                                   !.signature = signature, !.band = band,
                                   !.flagged = flagged, !.paidAt = paidAt, !.id = events + 1]]
      BY <3>1 DEF Offend
    <3>4. NoRequest.plan = {} /\ DOMAIN NoRequest = {"step", "client", "hinted", "key",
              "signature", "band", "flagged", "paidAt", "began", "readAt", "plan", "id"}
      BY DEF NoRequest
    <3> QED
      BY <3>2, <3>3, <3>4
  <2>2. \A x \in Handlers : Honours(h'[x])
    BY <1>0, <2>1 DEF Honours
  <2> QED
    BY <2>1, <2>2 DEF TrustInv, TrustIsHonoured
<1>8. ASSUME NEW r \in Handlers, PushHistory(r) PROVE TrustInv'
  <2>1. /\ [h[r] EXCEPT !.signature = FALSE] \in Requests
        /\ [h[r] EXCEPT !.signature = FALSE].plan = h[r].plan
        /\ Lenient([h[r] EXCEPT !.signature = FALSE]) = Lenient(h[r])
    BY <1>0 DEF Requests, Lenient
  <2>2. \A x \in Handlers : Honours(h'[x])
    BY <1>0, <1>8, <2>1, ProceedHonours DEF PushHistory, Honours
  <2>3. TrustIsHonoured'
    BY <1>8, LoggedHonours DEF PushHistory, TrustInv, TrustIsHonoured
  <2> QED
    BY <2>2, <2>3 DEF TrustInv
<1>9. ASSUME NEW r \in Handlers, ReadHistory(r) PROVE TrustInv'
  <2> DEFINE plan == Plan(h[r], Summary(history[h[r].key]))
             o == [h[r] EXCEPT !.plan = plan, !.readAt = now]
  <2>1. plan \in SUBSET {"soft", "hard", "promote"} /\ now \in Nat
    BY DEF Plan, TypeOK
  <2>2. plan \cap {"soft", "hard"} # {} => Lenient(h[r])
    BY <1>0, PlanHonours
  <2>3. Proceed(r, o) /\ UNCHANGED log
    BY <1>9 DEF ReadHistory
  <2> HIDE DEF plan
  <2>4. o \in Requests /\ o.plan = plan /\ Lenient(o) = Lenient(h[r])
    BY <1>0, <2>1 DEF Requests, Lenient
  <2> HIDE DEF o
  <2>5. \A x \in Handlers : Honours(h'[x])
    BY <2>2, <2>3, <2>4, ProceedHonours
  <2> QED
    BY <2>3, <2>5 DEF TrustInv, TrustIsHonoured
<1>10. ASSUME NEW r \in Handlers, SetBan(r) PROVE TrustInv'
  <2>1. \A x \in Handlers : Honours(h'[x])
    BY <1>0, <1>10, ProceedHonours DEF SetBan, Honours
  <2>2. Lenient(h[r]) /\ TierOf(h[r].step) # 4
    BY <1>0, <1>10 DEF SetBan, Honours, TierOf
  <2>3. TrustIsHonoured'
    BY <1>10, <2>2, LoggedHonours DEF SetBan
  <2> QED
    BY <2>1, <2>3 DEF TrustInv
<1>11. ASSUME NEW r \in Handlers, CheckWhitelist(r) PROVE TrustInv'
  <2>1. CASE TierMax >= 4 /\ h[r].band < 3 /\ ~Whitelisted(h[r])
    <3>1. /\ [h[r] EXCEPT !.step = "permanent"] \in Requests
          /\ Honours([h[r] EXCEPT !.step = "permanent"])
      BY <1>0, <2>1 DEF Requests, Honours, Lenient, Steps
    <3>2. h' = [h EXCEPT ![r] = [h[r] EXCEPT !.step = "permanent"]] /\ UNCHANGED log
      BY <1>11, <2>1 DEF CheckWhitelist, Goto
    <3> QED
      BY <3>1, <3>2, ReplacedHonours
  <2>2. CASE ~ (TierMax >= 4 /\ h[r].band < 3 /\ ~Whitelisted(h[r]))
    BY <1>2, <1>11, <2>2 DEF CheckWhitelist
  <2> QED
    BY <2>1, <2>2
<1>12. ASSUME NEW r \in Handlers, AddPermanent(r) PROVE TrustInv'
  <2>1. \A x \in Handlers : Honours(h'[x])
    BY <1>0, <1>12, ProceedHonours DEF AddPermanent, Honours
  <2>2. h[r].band < 3 /\ TierMax >= 4
    BY <1>0, <1>12 DEF AddPermanent, Honours
  <2>3. TrustIsHonoured'
    BY <1>12, <2>2, LoggedHonours DEF AddPermanent
  <2> QED
    BY <2>1, <2>3 DEF TrustInv
<1>13. CASE Crash
  <2>1. h' = [r \in Handlers |-> NoRequest] /\ UNCHANGED log
    BY <1>13 DEF Crash
  <2> QED
    BY <2>1, NoRequestHonours DEF TrustInv, TrustIsHonoured
<1>14. CASE Operator \/ Tick \/ \E c \in Clients : FirstPayment(c)
  BY <1>1, <1>14 DEF Operator, AdminBan, AdminPermanent, AdminClear, AdminRemove, Tick,
                     FirstPayment
<1>15. ASSUME NEW r \in Handlers, Handle(r) PROVE TrustInv'
  <2>1. CASE Behave(r)
    BY <1>2, <2>1 DEF Behave
  <2> QED
    BY <1>4, <1>5, <1>6, <1>7, <1>8, <1>9, <1>10, <1>11, <1>12, <1>15, <2>1
       DEF Handle, Record
<1>16. CASE UNCHANGED vars
  BY <1>1, <1>16 DEF vars
<1> QED
  BY <1>13, <1>14, <1>15, <1>16 DEF Next

LEMMA TrustInit == Init => TrustInv
BY NoRequestHonours DEF Init, TrustInv, TrustIsHonoured

\* The ladder never bans the highest band without a fraud signal, and never
\* bans the upper half permanently, whatever the interleaving.
THEOREM TrustIsHonouredHolds == Spec => []TrustIsHonoured
<1>1. TrustInv => TrustIsHonoured
  BY DEF TrustInv
<1> QED
  BY <1>1, TypeInit, TypeStep, TrustInit, TrustStep, PTL DEF Spec

-----------------------------------------------------------------------------
(* Newcomers.  A call that carries the first payment of a pubkey carries   *)
(* the one in the store, and once it is past the whitelist the pubkey is   *)
(* no newcomer; time only makes it older, and a first payment that comes   *)
(* later does not precede the call.                                        *)

\* c had paid before a call that began then, and is new.
Newcomer(c, began) ==
    /\ firstPaid[c] # Never
    /\ firstPaid[c] < began
    /\ now - firstPaid[c] < WhitelistFor

Informed(o) ==
    /\ o.began <= now
    /\ o.step \in {"isPermanent", "getBan"} => o.paidAt = Never
    /\ o.key[1] = "pk" /\ o.paidAt # Never => o.paidAt = firstPaid[o.key[2]]
    /\ o.step = "permanent" =>
         \A c \in Clients : o.key = <<"pk", c>> => ~Newcomer(c, o.began)

NewcomerInv == \A r \in Handlers : Informed(h[r])

LEMMA NoRequestInformed == TypeOK => Informed(NoRequest)
BY DEF NoRequest, Informed, TypeOK

LEMMA ReplacedInformed ==
    ASSUME TypeOK, NewcomerInv, NEW r \in Handlers, NEW o, Informed(o),
           h' = [h EXCEPT ![r] = o], UNCHANGED <<now, firstPaid>>
    PROVE  NewcomerInv'
<1>1. h \in [Handlers -> Requests]
  BY DEF TypeOK
<1> QED
  BY <1>1 DEF NewcomerInv, Informed, Newcomer

\* A call that goes on does not enter step "permanent".
LEMMA ProceedInformed ==
    ASSUME TypeOK, NewcomerInv, NEW r \in Handlers, NEW o \in Requests,
           o.step # "permanent" => Informed(o), o.step = "permanent" => o = h[r],
           Proceed(r, o), UNCHANGED <<now, firstPaid>>
    PROVE  NewcomerInv'
<1> DEFINE next == After(o.step, o.plan)
<1>1. next \notin {"permanent", "isPermanent", "getBan"}
  BY DEF After
<1>2. h' = [h EXCEPT ![r] = IF next = "idle" THEN NoRequest ELSE [o EXCEPT !.step = next]]
  BY DEF Proceed
<1> HIDE DEF next
<1>3. Informed(o)
  BY DEF NewcomerInv
<1>4. Informed([o EXCEPT !.step = next])
  BY <1>1, <1>3 DEF Informed, Requests
<1> QED
  BY <1>2, <1>4, NoRequestInformed, ReplacedInformed

LEMMA NewcomerStep == TypeOK /\ NewcomerInv /\ [Next]_vars => NewcomerInv'
<1> SUFFICES ASSUME TypeOK, NewcomerInv, [Next]_vars PROVE NewcomerInv'
  OBVIOUS
<1>0. \A r \in Handlers : h[r] \in Requests /\ Informed(h[r])
  BY DEF TypeOK, NewcomerInv
<1>1. ASSUME UNCHANGED <<h, now, firstPaid>> PROVE NewcomerInv'
  BY <1>1 DEF NewcomerInv, Informed, Newcomer
<1>2. ASSUME NEW r \in Handlers, Done(r), UNCHANGED <<now, firstPaid>> PROVE NewcomerInv'
  BY <1>2, NoRequestInformed, ReplacedInformed DEF Done
<1>3. ASSUME NEW r \in Handlers, h[r].step \in {"isPermanent", "getBan"},
             NEW step \in {"getBan", "served"}, Goto(r, step), UNCHANGED <<now, firstPaid>>
      PROVE  NewcomerInv'
  <2>1. Informed([h[r] EXCEPT !.step = step])
    BY <1>0, <1>3 DEF Requests, Informed
  <2>2. h' = [h EXCEPT ![r] = [h[r] EXCEPT !.step = step]]
    BY <1>3 DEF Goto
  <2> QED
    BY <1>3, <2>1, <2>2, ReplacedInformed
<1>4. ASSUME NEW r \in Handlers, NEW c \in Clients, NEW hinted \in BOOLEAN,
             Arrive(r, c, hinted)
      PROVE  NewcomerInv'
  <2> DEFINE o == [NoRequest EXCEPT !.step = "isPermanent", !.client = c,
                                    !.hinted = hinted, !.key = <<"ip", c>>]
  <2>1. Informed(o)
    BY DEF NoRequest, Informed, TypeOK
  <2> HIDE DEF o
  <2>2. h' = [h EXCEPT ![r] = o] /\ UNCHANGED <<now, firstPaid>>
    BY <1>4 DEF Arrive, store, o
  <2> QED
    BY <2>1, <2>2, ReplacedInformed
<1>5. ASSUME NEW r \in Handlers, CheckPermanent(r) PROVE NewcomerInv'
  BY <1>2, <1>3, <1>5 DEF CheckPermanent, store
\* The check turns to the hinted key with no call of recordOffense begun.
<1>6. ASSUME NEW r \in Handlers, CheckTimed(r) PROVE NewcomerInv'
  <2>1. CASE h' = [h EXCEPT ![r].key = <<"pk", h[r].client>>, ![r].step = "isPermanent"]
    <3> DEFINE o == [h[r] EXCEPT !.key = <<"pk", h[r].client>>, !.step = "isPermanent"]
    <3>1. Informed(o)
      BY <1>0, <1>6 DEF CheckTimed, Informed, Requests
    <3>2. h' = [h EXCEPT ![r] = o] /\ UNCHANGED <<now, firstPaid>>
      BY <1>6, <2>1 DEF CheckTimed, store, TypeOK
    <3> QED
      BY <3>1, <3>2, ReplacedInformed
  <2>2. CASE h' # [h EXCEPT ![r].key = <<"pk", h[r].client>>, ![r].step = "isPermanent"]
    BY <1>2, <1>3, <1>6, <2>2 DEF CheckTimed, store
  <2> QED
    BY <2>1, <2>2
<1>7. ASSUME NEW r \in Handlers, Offense(r) PROVE NewcomerInv'
  <2> DEFINE Called == \E key, signature, band, flagged, paidAt :
          /\ Offend(r, key, signature, band, flagged, paidAt)
          /\ key[1] = "pk" /\ paidAt # Never => paidAt = firstPaid[key[2]]
  <2>0. Called
    <3>1. CASE InvalidSignature(r) \/ OtherOffense(r)
      BY <3>1 DEF InvalidSignature, OtherOffense
    <3>2. ASSUME NEW band, HintMismatch(r, band) PROVE Called
      <4>1. PICK paidAt, key :
              /\ key = <<"pk", h[r].client>>
              /\ paidAt = firstPaid[h[r].client]
              /\ Offend(r, key, FALSE, band, FALSE, paidAt)
        BY <3>2 DEF HintMismatch
      <4>2. key[2] = h[r].client
        BY <4>1
      <4> QED
        BY <4>1, <4>2
    <3>3. ASSUME NEW dimension \in {"ip", "pk"}, NEW band, NEW flagged,
                 RateLimited(r, dimension, band, flagged)
          PROVE  Called
      <4>1. PICK paidAt, key :
              /\ key = OffenderKey(dimension, h[r].client)
              /\ paidAt = IF h[r].hinted THEN firstPaid[h[r].client] ELSE Never
              /\ Offend(r, key, FALSE, band, flagged, paidAt)
        BY <3>3 DEF RateLimited
      <4>2. key[1] = "pk" => key[2] = h[r].client
        BY <4>1 DEF OffenderKey
      <4> QED
        BY <4>1, <4>2
    <3> QED
      BY <1>7, <3>1, <3>2, <3>3 DEF Offense
  <2>1. PICK key, signature, band, flagged, paidAt :
          /\ Offend(r, key, signature, band, flagged, paidAt)
          /\ key[1] = "pk" /\ paidAt # Never => paidAt = firstPaid[key[2]]
    BY <2>0
  <2> HIDE DEF Called
  <2> DEFINE o == [NoRequest EXCEPT !.step = "push1", !.key = key, !.began = now,
                                    !.signature = signature, !.band = band,
                                    !.flagged = flagged, !.paidAt = paidAt,
                                    !.id = events + 1]
  <2>2. h' = [h EXCEPT ![r] = o] /\ UNCHANGED <<now, firstPaid>>
    BY <2>1 DEF Offend, store
  <2>3. DOMAIN NoRequest = {"step", "client", "hinted", "key", "signature", "band",
                            "flagged", "paidAt", "began", "readAt", "plan", "id"}
    BY DEF NoRequest
  <2>4. o.step = "push1" /\ o.key = key /\ o.began = now /\ o.paidAt = paidAt
    BY <2>3
  <2> HIDE DEF o
  <2>5. Informed(o)
    BY <2>1, <2>4 DEF Informed, TypeOK
  <2> QED
    BY <2>2, <2>5, ReplacedInformed
<1>8. ASSUME NEW r \in Handlers, PushHistory(r) PROVE NewcomerInv'
  <2>1. /\ [h[r] EXCEPT !.signature = FALSE] \in Requests
        /\ Informed([h[r] EXCEPT !.signature = FALSE])
        /\ [h[r] EXCEPT !.signature = FALSE].step # "permanent"
    BY <1>0, <1>8 DEF PushHistory, Requests, Informed
  <2> QED
    BY <1>8, <2>1, ProceedInformed DEF PushHistory
<1>9. ASSUME NEW r \in Handlers, ReadHistory(r) PROVE NewcomerInv'
  <2> DEFINE plan == Plan(h[r], Summary(history[h[r].key]))
             o == [h[r] EXCEPT !.plan = plan, !.readAt = now]
  <2>1. plan \in SUBSET {"soft", "hard", "promote"} /\ now \in Nat
    BY DEF Plan, TypeOK
  <2>2. Proceed(r, o) /\ UNCHANGED <<now, firstPaid>> /\ h[r].step = "read"
    BY <1>9 DEF ReadHistory, store
  <2> HIDE DEF plan
  <2>3. o \in Requests /\ Informed(o) /\ o.step # "permanent"
    BY <1>0, <2>1, <2>2 DEF Requests, Informed
  <2> HIDE DEF o
  <2> QED
    BY <2>2, <2>3, ProceedInformed
<1>10. ASSUME NEW r \in Handlers, SetBan(r) \/ AddPermanent(r) PROVE NewcomerInv'
  BY <1>0, <1>10, ProceedInformed DEF SetBan, AddPermanent
\* Past the whitelist, the key is no newcomer.
<1>11. ASSUME NEW r \in Handlers, CheckWhitelist(r) PROVE NewcomerInv'
  <2>1. CASE TierMax >= 4 /\ h[r].band < 3 /\ ~Whitelisted(h[r])
    <3> DEFINE o == [h[r] EXCEPT !.step = "permanent"]
    <3>1. h' = [h EXCEPT ![r] = o] /\ UNCHANGED <<now, firstPaid>>
      BY <1>11, <2>1 DEF CheckWhitelist, Goto, store
    <3>2. \A c \in Clients : h[r].key = <<"pk", c>> => ~Newcomer(c, h[r].began)
      BY <1>0, <2>1 DEF Whitelisted, Newcomer, Informed
    <3>3. Informed(o)
      BY <1>0, <3>2 DEF Informed, Requests
    <3> QED
      BY <3>1, <3>3, ReplacedInformed
  <2>2. CASE ~ (TierMax >= 4 /\ h[r].band < 3 /\ ~Whitelisted(h[r]))
    BY <1>2, <1>11, <2>2 DEF CheckWhitelist, store
  <2> QED
    BY <2>1, <2>2
\* A first payment: whoever pays it had none, and pays it after every call
\* in progress began.
<1>12. ASSUME NEW c \in Clients, FirstPayment(c) PROVE NewcomerInv'
  <2> SUFFICES ASSUME NEW r \in Handlers PROVE Informed(h[r])'
    BY DEF NewcomerInv
  <2>1. /\ firstPaid[c] = Never /\ firstPaid' = [firstPaid EXCEPT ![c] = now]
        /\ UNCHANGED <<h, now>>
    BY <1>12 DEF FirstPayment
  <2>2. /\ firstPaid \in [Clients -> Int \cup {Never}]
        /\ h[r].key \in Keys /\ h[r].began \in Nat /\ now \in Nat
        /\ h[r].key[2] \in Clients
    BY <1>0 DEF TypeOK, Requests, Keys
  <2>3. \A d \in Clients \ {c} : firstPaid'[d] = firstPaid[d]
    BY <2>1, <2>2
  <2>4. firstPaid'[c] = now
    BY <2>1, <2>2
  <2>5. h[r].key[1] = "pk" /\ h[r].paidAt # Never =>
          h[r].paidAt = firstPaid'[h[r].key[2]]
    BY <1>0, <2>1, <2>2, <2>3 DEF Informed
  <2>6. h[r].step = "permanent" =>
          \A d \in Clients : h[r].key = <<"pk", d>> => ~Newcomer(d, h[r].began)'
    <3> SUFFICES ASSUME h[r].step = "permanent", NEW d \in Clients, h[r].key = <<"pk", d>>
                 PROVE  ~Newcomer(d, h[r].began)'
      BY <2>1
    <3>1. CASE d = c
      BY <1>0, <2>1, <2>2, <2>4, <3>1 DEF Newcomer, Informed
    <3>2. CASE d # c
      BY <1>0, <2>1, <2>3, <3>2 DEF Newcomer, Informed
    <3> QED
      BY <3>1, <3>2
  <2> QED
    BY <1>0, <2>1, <2>5, <2>6 DEF Informed
\* Time makes no newcomer.
<1>13. CASE Tick
  <2> SUFFICES ASSUME NEW r \in Handlers PROVE Informed(h[r])'
    BY DEF NewcomerInv
  <2>1. now' = now + 1 /\ UNCHANGED <<h, firstPaid>>
    BY <1>13 DEF Tick
  <2>2. now \in Nat /\ h[r].began \in Nat /\ firstPaid \in [Clients -> Int \cup {Never}]
    BY <1>0 DEF TypeOK, Requests
  <2>3. \A d \in Clients : Newcomer(d, h[r].began)' => Newcomer(d, h[r].began)
    <3> SUFFICES ASSUME NEW d \in Clients, Newcomer(d, h[r].began)'
                 PROVE  Newcomer(d, h[r].began)
      OBVIOUS
    <3>1. /\ firstPaid[d] # Never /\ firstPaid[d] < h[r].began
          /\ now + 1 - firstPaid[d] < WhitelistFor /\ firstPaid[d] \in Int
      BY <2>1, <2>2 DEF Newcomer
    <3>2. now - firstPaid[d] < WhitelistFor
      BY <2>2, <3>1
    <3> QED
      BY <3>1, <3>2 DEF Newcomer
  <2> QED
    BY <1>0, <2>1, <2>2, <2>3 DEF Informed
<1>14. CASE Crash
  <2>1. h' = [r \in Handlers |-> NoRequest] /\ UNCHANGED <<now, firstPaid>>
    BY <1>14 DEF Crash
  <2> QED
    BY <2>1, NoRequestInformed DEF NewcomerInv, Informed, Newcomer
<1>15. CASE Operator
  BY <1>1, <1>15 DEF Operator, AdminBan, AdminPermanent, AdminClear, AdminRemove
<1>16. ASSUME NEW r \in Handlers, Handle(r) PROVE NewcomerInv'
  <2>1. CASE Behave(r)
    BY <1>2, <2>1 DEF Behave, store
  <2> QED
    BY <1>4, <1>5, <1>6, <1>7, <1>8, <1>9, <1>10, <1>11, <1>16, <2>1 DEF Handle, Record
<1>17. CASE UNCHANGED vars
  BY <1>1, <1>17 DEF vars
<1> QED
  BY <1>12, <1>13, <1>14, <1>15, <1>16, <1>17 DEF Next

LEMMA NewcomerInit == Init => NewcomerInv
BY DEF Init, NewcomerInv, Informed, NoRequest

\* An agent that had paid before it offended, and is still new, is never made
\* a permanent outcast by the ladder.
THEOREM NewcomerIsSparedHolds == Spec => NewcomerIsSpared
<1> DEFINE Spared == \A r \in Handlers, c \in Clients :
                       Takes(r, "permanent", "push4") /\ h[r].key = <<"pk", c>> =>
                         ~ (/\ firstPaid[c] # Never
                            /\ firstPaid[c] < h[r].began
                            /\ now - firstPaid[c] < WhitelistFor)
<1>1. NewcomerInv => Spared
  BY DEF NewcomerInv, Informed, Newcomer, Takes
<1> QED
  BY <1>1, TypeInit, TypeStep, NewcomerInit, NewcomerStep, PTL DEF Spec, NewcomerIsSpared

HIDE EnforcementAssumption
-----------------------------------------------------------------------------
(* The rungs.  A ban of the ladder rests on entries it found in the         *)
(* history; behind each of them is what the log remembers of the same call, *)
(* at the entry's time or later.  A call logs a ban before it writes the    *)
(* ban's entry, so its own bans come on top of those it found.              *)

Calling == {"push1", "read", "ban2", "push2", "ban3", "push3",
            "whitelist", "permanent", "push4"}

\* The tiers that a call at this step has not logged.
Ahead(step) ==
    CASE step = "push1" -> 1..4
      [] step \in {"read", "ban2"} -> 2..4
      [] step \in {"push2", "ban3"} -> 3..4
      [] step \in {"push3", "whitelist", "permanent"} -> {4}
      [] OTHER -> {}

\* The tier whose entry a call at this step is about to write.
Writing(step) ==
    CASE step = "push1" -> 1
      [] step = "push2" -> 2
      [] step = "push3" -> 3
      [] step = "push4" -> 4
      [] OTHER -> 0

\* Offenses and bans of a key since time x, and what others than call o had.
Since(L, tier, x) == {e \in L : e.tier = tier /\ e.at >= x}
Others(o, L, tier, x) == {e \in Since(L, tier, x) : e.id # o.id}

\* Call o itself imposed a ban of this tier, after its decision.
Imposed(o, L, tier) ==
    \E e \in L : e.id = o.id /\ e.tier = tier /\ e.at >= o.began /\ e.at >= o.readAt

\* The steps that follow a decision, and what they leave in the log.
Follows(o, L) ==
    /\ o.step \in {"push1", "read"} => o.plan = {}
    /\ o.step \in {"ban2", "push2"} => "soft" \in o.plan
    /\ o.step \in {"ban3", "push3", "whitelist", "permanent", "push4"} => "hard" \in o.plan
    /\ o.step \in {"whitelist", "permanent", "push4"} => "promote" \in o.plan
    /\ o.step = "push2" => Imposed(o, L, 2)
    /\ o.step = "ban3" /\ "soft" \in o.plan => Imposed(o, L, 2)
    /\ o.step \in {"push3", "whitelist", "permanent"} => Imposed(o, L, 3)
    /\ o.step = "push4" => Imposed(o, L, 4)

\* What a decision rests on.
Founded(o, L) ==
    /\ "soft" \in o.plan =>
         \/ Cardinality(Since(L, 1, o.readAt - FiveMin)) >= ThrottlesToSoftBan
         \/ Cardinality(Since(L, 1, o.readAt - Minute)) >= InvalidSigsToSoftBan
    /\ "hard" \in o.plan /\ ~o.flagged =>
         /\ "soft" \in o.plan
         /\ Cardinality(Others(o, L, 2, o.readAt - OneDay)) + 1 >= SoftBansToHardBan
    /\ "promote" \in o.plan =>
         Cardinality(Others(o, L, 3, o.readAt - SevenDays)) + 1 >= HardBansToPermanent

Fresh(o, L) == \A e \in L : e.id = o.id => e.tier \notin Ahead(o.step)

\* A call of recordOffense in progress.
Sound(o, L, time, count) ==
    o.step \in Calling =>
        /\ o.began <= time /\ o.readAt <= time /\ o.id <= count
        /\ \A k \in Keys : Fresh(o, L[k])
        /\ Follows(o, L[o.key])
        /\ Founded(o, L[o.key])

\* The log without what is still to be written to the history.
Written(calls, L) == {e \in L : \A r \in Handlers : calls[r].id = e.id => Writing(calls[r].step) # e.tier}

Entered(hist, tier, x) == {i \in DOMAIN hist : hist[i].ts >= x /\ hist[i].tier = tier}

Covered(hist, calls, L) ==
    \A tier \in 1..4, x \in Int :
        Cardinality(Entered(hist, tier, x)) <= Cardinality(Since(Written(calls, L), tier, x))

LogInv == \A k \in Keys : IsFiniteSet(log[k]) /\ \A e \in log[k] : e.id <= events

Apart == \A r, s \in Handlers :
            r # s /\ h[r].step \in Calling /\ h[s].step \in Calling => h[r].id # h[s].id

RungInv ==
    /\ LogInv
    /\ Apart
    /\ \A r \in Handlers : Sound(h[r], log, now, events)
    /\ \A k \in Keys : Covered(history[k], h, log[k])

-----------------------------------------------------------------------------
(* Counting.                                                               *)

LEMMA Counted ==
    ASSUME NEW L, IsFiniteSet(L)
    PROVE  \A S, T : S \subseteq T /\ T \subseteq L =>
             /\ IsFiniteSet(S) /\ Cardinality(S) \in Nat /\ Cardinality(T) \in Nat
             /\ Cardinality(S) <= Cardinality(T)
<1> SUFFICES ASSUME NEW S, NEW T, S \subseteq T, T \subseteq L
             PROVE  /\ IsFiniteSet(S) /\ Cardinality(S) \in Nat /\ Cardinality(T) \in Nat
                    /\ Cardinality(S) <= Cardinality(T)
  OBVIOUS
<1>1. IsFiniteSet(T)
  BY FS_Subset
<1>2. IsFiniteSet(S) /\ Cardinality(S) <= Cardinality(T)
  BY <1>1, FS_Subset
<1> QED
  BY <1>1, <1>2, FS_CardinalityType

\* One more than the others have.
LEMMA CountedWith ==
    ASSUME NEW L, IsFiniteSet(L), NEW S, NEW T, NEW d, S \subseteq T, T \subseteq L,
           d \in T, d \notin S
    PROVE  Cardinality(S) + 1 <= Cardinality(T) /\ Cardinality(S) \in Nat
           /\ Cardinality(T) \in Nat
<1>1. IsFiniteSet(S) /\ Cardinality(S) \in Nat /\ Cardinality(T) \in Nat
  BY Counted
<1>2. Cardinality(S \cup {d}) = Cardinality(S) + 1
  BY <1>1, FS_AddElement
<1>3. S \cup {d} \subseteq T
  OBVIOUS
<1>4. Cardinality(S \cup {d}) <= Cardinality(T)
  BY <1>3, Counted
<1> QED
  BY <1>1, <1>2, <1>4

LEMMA EnteredFinite ==
    ASSUME NEW hist \in Seq(Entries), NEW tier, NEW x
    PROVE  /\ Entered(hist, tier, x) \subseteq 1..Len(hist)
           /\ IsFiniteSet(Entered(hist, tier, x))
           /\ Cardinality(Entered(hist, tier, x)) \in Nat
<1>1. Len(hist) \in Nat /\ DOMAIN hist = 1..Len(hist)
  OBVIOUS
<1>2. Entered(hist, tier, x) \subseteq 1..Len(hist)
  BY <1>1 DEF Entered
<1>3. IsFiniteSet(1..Len(hist))
  BY <1>1, FS_Interval
<1> QED
  BY <1>2, <1>3, FS_Subset, FS_CardinalityType

\* What stands where in a history after a push.
LEMMA PushedAt ==
    ASSUME NEW hist \in Seq(Entries), NEW e \in Entries
    PROVE  /\ Pushed(hist, e) \in Seq(Entries)
           /\ \A i \in 1..Len(Pushed(hist, e)) :
                /\ i = 1 => Pushed(hist, e)[i] = e
                /\ i # 1 => i - 1 \in 1..Len(hist) /\ Pushed(hist, e)[i] = hist[i - 1]
<1> DEFINE n == IF Len(hist) < HistoryCap THEN Len(hist) + 1 ELSE HistoryCap
           all == <<e>> \o hist
<1>1. <<e>> \in Seq(Entries) /\ Len(<<e>>) = 1 /\ <<e>>[1] = e /\ Len(hist) \in Nat
  OBVIOUS
<1>2. /\ all \in Seq(Entries) /\ Len(all) = 1 + Len(hist)
      /\ \A i \in 1..(1 + Len(hist)) : all[i] = IF i <= 1 THEN <<e>>[i] ELSE hist[i - 1]
  BY <1>1, ConcatProperties
<1>3. n \in Nat /\ 1 <= n /\ n <= 1 + Len(hist)
  BY <1>1, EnforcementAssumption
<1>4. Pushed(hist, e) = SubSeq(all, 1, n)
  BY DEF Pushed
<1> HIDE DEF n, all
<1> HIDE EnforcementAssumption
<1>5. \A i \in 1..n : all[i] \in Entries
  BY <1>1, <1>2, <1>3
<1>6. /\ SubSeq(all, 1, n) \in Seq(Entries)
      /\ Len(SubSeq(all, 1, n)) = n
      /\ \A i \in 1..n : SubSeq(all, 1, n)[i] = all[i]
  <2>1. /\ SubSeq(all, 1, n) \in Seq(Entries)
        /\ Len(SubSeq(all, 1, n)) = IF 1 <= n THEN n - 1 + 1 ELSE 0
        /\ \A i \in 1..(n - 1 + 1) : SubSeq(all, 1, n)[i] = all[1 + i - 1]
    BY <1>3, <1>5, SubSeqProperties
  <2> QED
    BY <1>3, <2>1
<1> SUFFICES ASSUME NEW i \in 1..n
             PROVE  /\ i = 1 => all[i] = e
                    /\ i # 1 => i - 1 \in 1..Len(hist) /\ all[i] = hist[i - 1]
  BY <1>4, <1>6
<1>7. i \in 1..(1 + Len(hist))
  BY <1>1, <1>3
<1>8. all[i] = IF i <= 1 THEN <<e>>[i] ELSE hist[i - 1]
  BY <1>2, <1>7
<1> QED
  BY <1>1, <1>7, <1>8

\* A push adds its entry to what it falls among.
LEMMA PushedCount ==
    ASSUME NEW hist \in Seq(Entries), NEW e \in Entries, NEW tier \in 1..4, NEW x \in Int
    PROVE  /\ ~ (e.tier = tier /\ e.ts >= x) =>
                Cardinality(Entered(Pushed(hist, e), tier, x)) <= Cardinality(Entered(hist, tier, x))
           /\ Cardinality(Entered(Pushed(hist, e), tier, x)) <= Cardinality(Entered(hist, tier, x)) + 1
<1> DEFINE new == Entered(Pushed(hist, e), tier, x)
           rest == new \ {1}
           old == Entered(hist, tier, x)
           back == [i \in rest |-> i - 1]
<1>1. IsFiniteSet(new) /\ Cardinality(new) \in Nat /\ IsFiniteSet(old) /\ Cardinality(old) \in Nat
  BY EnteredFinite, PushedAt
<1>2. new \subseteq 1..Len(Pushed(hist, e)) /\ Len(Pushed(hist, e)) \in Nat
  BY EnteredFinite, PushedAt
<1>3. \A i \in rest : i \in Int /\ i - 1 \in old
  <2> SUFFICES ASSUME NEW i \in rest PROVE i \in Int /\ i - 1 \in old
    OBVIOUS
  <2>1. i \in 1..Len(Pushed(hist, e)) /\ i # 1
    BY <1>2
  <2>2. i - 1 \in 1..Len(hist) /\ Pushed(hist, e)[i] = hist[i - 1]
    BY <2>1, PushedAt
  <2>3. Pushed(hist, e)[i].ts >= x /\ Pushed(hist, e)[i].tier = tier
    BY DEF Entered
  <2>4. i \in Int /\ DOMAIN hist = 1..Len(hist)
    BY <2>1
  <2> QED
    BY <2>2, <2>3, <2>4 DEF Entered
<1> HIDE DEF new, old
<1>4. back \in Injection(rest, old)
  BY <1>3 DEF Injection, IsInjective
<1> HIDE DEF back
<1>5. Cardinality(rest) <= Cardinality(old)
  BY <1>1, <1>4, FS_Injection
<1>6. Cardinality(rest) = IF 1 \in new THEN Cardinality(new) - 1 ELSE Cardinality(new)
  BY <1>1, FS_RemoveElement
<1>7. 1 \in new => e.tier = tier /\ e.ts >= x
  <2> SUFFICES ASSUME 1 \in new PROVE e.tier = tier /\ e.ts >= x
    OBVIOUS
  <2>1. 1 \in 1..Len(Pushed(hist, e))
    BY <1>2
  <2>2. Pushed(hist, e)[1] = e
    BY <2>1, PushedAt
  <2> QED
    BY <2>2 DEF new, Entered
<1> HIDE DEF rest
<1>8. Cardinality(new) <= Cardinality(old) + 1 /\ (1 \notin new => Cardinality(new) <= Cardinality(old))
  BY <1>1, <1>5, <1>6
<1> QED
  BY <1>7, <1>8 DEF new, old

LEMMA WrittenIn == \A calls, L : Written(calls, L) \subseteq L
BY DEF Written

\* The histories are covered as long as nothing written is taken back.
LEMMA CoveredStays ==
    ASSUME NEW hist, NEW calls, NEW L, NEW next, NEW M, IsFiniteSet(M),
           Covered(hist, calls, L), hist \in Seq(Entries),
           Written(calls, L) \subseteq Written(next, M)
    PROVE  Covered(hist, next, M)
<1> SUFFICES ASSUME NEW tier \in 1..4, NEW x \in Int
             PROVE  Cardinality(Entered(hist, tier, x)) <= Cardinality(Since(Written(next, M), tier, x))
  BY DEF Covered
<1> DEFINE S == Since(Written(calls, L), tier, x)
           T == Since(Written(next, M), tier, x)
<1>1. S \subseteq T /\ T \subseteq M
  BY WrittenIn DEF Since
<1>2. Cardinality(Entered(hist, tier, x)) <= Cardinality(S)
  BY DEF Covered
<1>3. Cardinality(Entered(hist, tier, x)) \in Nat
  BY EnteredFinite
<1> HIDE DEF S, T
<1>4. Cardinality(S) \in Nat /\ Cardinality(T) \in Nat /\ Cardinality(S) <= Cardinality(T)
  BY <1>1, Counted
<1>5. Cardinality(Entered(hist, tier, x)) <= Cardinality(T)
  BY <1>2, <1>3, <1>4
<1> QED
  BY <1>5 DEF T

\* An entry is covered by what the call logged before, or with it.
LEMMA CoveredPush ==
    ASSUME NEW hist, NEW calls, NEW L, NEW next, NEW M, NEW e \in Entries, NEW d,
           IsFiniteSet(M), M \subseteq Logs,
           Covered(hist, calls, L), hist \in Seq(Entries),
           Written(calls, L) \subseteq Written(next, M),
           d \in Written(next, M), d \notin Written(calls, L), d.tier = e.tier, d.at >= e.ts
    PROVE  Covered(Pushed(hist, e), next, M)
<1> SUFFICES ASSUME NEW tier \in 1..4, NEW x \in Int
             PROVE  Cardinality(Entered(Pushed(hist, e), tier, x))
                      <= Cardinality(Since(Written(next, M), tier, x))
  BY DEF Covered
<1> DEFINE S == Since(Written(calls, L), tier, x)
           T == Since(Written(next, M), tier, x)
           old == Cardinality(Entered(hist, tier, x))
           new == Cardinality(Entered(Pushed(hist, e), tier, x))
<1>1. S \subseteq T /\ T \subseteq M
  BY WrittenIn DEF Since
<1>2. old <= Cardinality(S)
  BY DEF Covered
<1>3. old \in Nat /\ new \in Nat
  BY EnteredFinite, PushedAt
<1>4. /\ ~ (e.tier = tier /\ e.ts >= x) => new <= old
      /\ new <= old + 1
  BY PushedCount
<1>5. e.tier = tier /\ e.ts >= x => d \in T /\ d \notin S
  <2>1. d \in Logs
    BY WrittenIn
  <2>2. d.at \in Nat /\ e.ts \in Nat
    BY <2>1 DEF Logs, Entries
  <2> QED
    BY <2>2 DEF Since
<1> HIDE DEF S, T, old, new
<1>6. Cardinality(S) \in Nat /\ Cardinality(T) \in Nat /\ Cardinality(S) <= Cardinality(T)
  BY <1>1, Counted
<1>7. new <= Cardinality(T)
  <2>1. CASE e.tier = tier /\ e.ts >= x
    <3>1. Cardinality(S) + 1 <= Cardinality(T)
      BY <1>1, <1>5, <2>1, CountedWith
    <3> QED
      BY <1>2, <1>3, <1>4, <1>6, <3>1
  <2>2. CASE ~ (e.tier = tier /\ e.ts >= x)
    BY <1>2, <1>3, <1>4, <1>6, <2>2
  <2> QED
    BY <2>1, <2>2
<1> QED
  BY <1>7 DEF T, new

-----------------------------------------------------------------------------
(* One request moves.                                                      *)

LEMMA FoundedGrows ==
    ASSUME NEW o \in Requests, NEW L, NEW M, IsFiniteSet(M), L \subseteq M, Founded(o, L)
    PROVE  Founded(o, M)
<1>1. \A tier, x : /\ Cardinality(Since(L, tier, x)) \in Nat
                   /\ Cardinality(Since(M, tier, x)) \in Nat
                   /\ Cardinality(Since(L, tier, x)) <= Cardinality(Since(M, tier, x))
  <2> SUFFICES ASSUME NEW tier, NEW x
               PROVE  /\ Cardinality(Since(L, tier, x)) \in Nat
                      /\ Cardinality(Since(M, tier, x)) \in Nat
                      /\ Cardinality(Since(L, tier, x)) <= Cardinality(Since(M, tier, x))
    OBVIOUS
  <2>1. Since(L, tier, x) \subseteq Since(M, tier, x) /\ Since(M, tier, x) \subseteq M
    BY DEF Since
  <2> QED
    BY <2>1, Counted
<1>2. \A tier, x : /\ Cardinality(Others(o, L, tier, x)) \in Nat
                   /\ Cardinality(Others(o, M, tier, x)) \in Nat
                   /\ Cardinality(Others(o, L, tier, x)) <= Cardinality(Others(o, M, tier, x))
  <2> SUFFICES ASSUME NEW tier, NEW x
               PROVE  /\ Cardinality(Others(o, L, tier, x)) \in Nat
                      /\ Cardinality(Others(o, M, tier, x)) \in Nat
                      /\ Cardinality(Others(o, L, tier, x)) <= Cardinality(Others(o, M, tier, x))
    OBVIOUS
  <2>1. Others(o, L, tier, x) \subseteq Others(o, M, tier, x) /\ Others(o, M, tier, x) \subseteq M
    BY DEF Others, Since
  <2> QED
    BY <2>1, Counted
<1>3. /\ ThrottlesToSoftBan \in Nat /\ InvalidSigsToSoftBan \in Nat
      /\ SoftBansToHardBan \in Nat /\ HardBansToPermanent \in Nat
  BY EnforcementAssumption
<1>4. "soft" \in o.plan =>
        \/ Cardinality(Since(M, 1, o.readAt - FiveMin)) >= ThrottlesToSoftBan
        \/ Cardinality(Since(M, 1, o.readAt - Minute)) >= InvalidSigsToSoftBan
  <2>1. ASSUME NEW n \in Nat, NEW x, Cardinality(Since(L, 1, x)) >= n
        PROVE  Cardinality(Since(M, 1, x)) >= n
    BY <1>1, <2>1
  <2> QED
    BY <1>3, <2>1 DEF Founded
<1>5. ASSUME NEW n \in Nat, NEW tier, NEW x, Cardinality(Others(o, L, tier, x)) + 1 >= n
      PROVE  Cardinality(Others(o, M, tier, x)) + 1 >= n
  BY <1>2, <1>5
<1>6. "hard" \in o.plan /\ ~o.flagged =>
        /\ "soft" \in o.plan
        /\ Cardinality(Others(o, M, 2, o.readAt - OneDay)) + 1 >= SoftBansToHardBan
  BY <1>3, <1>5 DEF Founded
<1>7. "promote" \in o.plan =>
        Cardinality(Others(o, M, 3, o.readAt - SevenDays)) + 1 >= HardBansToPermanent
  BY <1>3, <1>5 DEF Founded
<1> QED
  BY <1>4, <1>6, <1>7 DEF Founded

LEMMA FollowsGrows ==
    ASSUME NEW o, NEW L, NEW M, L \subseteq M, Follows(o, L)
    PROVE  Follows(o, M)
<1>1. \A tier : Imposed(o, L, tier) => Imposed(o, M, tier)
  BY DEF Imposed
<1> QED
  BY <1>1 DEF Follows

\* The log as a step of request r leaves it.
Grown(r, d) ==
    \/ UNCHANGED log
    \/ /\ h[r].step \in Calling /\ d \in Logs /\ d.id = h[r].id
       /\ log' = [log EXCEPT ![h[r].key] = @ \cup {d}]

\* What a step of r logs is of its own call.
LEMMA GrownLog ==
    ASSUME TypeOK, LogInv, NEW r \in Handlers, NEW d, Grown(r, d),
           h[r].step \in Calling => h[r].id <= events,
           events' \in Nat, events <= events'
    PROVE  /\ LogInv'
           /\ \A k \in Keys : /\ log[k] \subseteq log'[k]
                              /\ \A e \in log'[k] \ log[k] : h[r].step \in Calling /\ e.id = h[r].id
<1>1. log \in [Keys -> SUBSET Logs] /\ h[r] \in Requests /\ events \in Nat
  BY DEF TypeOK, Logs
<1>2. h[r].key \in Keys /\ h[r].id \in Nat
  BY <1>1 DEF Requests
<1>3. \A k \in Keys : \A e \in log[k] : e.id \in Nat /\ e.id <= events
  BY <1>1 DEF Logs, LogInv
<1>4. CASE UNCHANGED log
  BY <1>1, <1>3, <1>4 DEF LogInv
<1>5. CASE /\ h[r].step \in Calling /\ d \in Logs /\ d.id = h[r].id
           /\ log' = [log EXCEPT ![h[r].key] = @ \cup {d}]
  <2>1. \A k \in Keys : log'[k] = IF k = h[r].key THEN log[k] \cup {d} ELSE log[k]
    BY <1>1, <1>5
  <2>2. \A k \in Keys : IsFiniteSet(log'[k])
    <3> SUFFICES ASSUME NEW k \in Keys PROVE IsFiniteSet(log'[k])
      OBVIOUS
    <3>1. IsFiniteSet(log[k]) /\ IsFiniteSet(log[k] \cup {d})
      BY FS_AddElement DEF LogInv
    <3> QED
      BY <2>1, <3>1
  <2>3. d.id <= events'
    BY <1>1, <1>2, <1>5
  <2>4. \A k \in Keys : \A e \in log'[k] : e.id <= events'
    <3> SUFFICES ASSUME NEW k \in Keys, NEW e \in log'[k] PROVE e.id <= events'
      OBVIOUS
    <3>1. CASE e = d
      BY <2>3, <3>1
    <3>2. CASE e # d
      <4>1. e \in log[k]
        BY <2>1, <3>2
      <4> QED
        BY <1>1, <1>3, <4>1
    <3> QED
      BY <3>1, <3>2
  <2>5. LogInv'
    BY <2>2, <2>4 DEF LogInv
  <2> QED
    BY <1>5, <2>1, <2>5
<1> QED
  BY <1>4, <1>5 DEF Grown

LEMMA SoundGrows ==
    ASSUME NEW o \in Requests, NEW L, NEW M, NEW time \in Nat, NEW count \in Nat,
           NEW time2 \in Nat, NEW count2 \in Nat, time <= time2, count <= count2,
           \A k \in Keys : /\ L[k] \subseteq M[k] /\ IsFiniteSet(M[k])
                           /\ \A e \in M[k] \ L[k] : e.id # o.id,
           Sound(o, L, time, count)
    PROVE  Sound(o, M, time2, count2)
<1> SUFFICES ASSUME o.step \in Calling PROVE Sound(o, M, time2, count2)
  BY DEF Sound
<1>1. o.began \in Nat /\ o.readAt \in Nat /\ o.id \in Nat /\ o.key \in Keys
  BY DEF Requests
<1>2. o.began <= time2 /\ o.readAt <= time2 /\ o.id <= count2
  BY <1>1 DEF Sound
<1>3. \A k \in Keys : Fresh(o, M[k])
  BY DEF Sound, Fresh
<1>4. Follows(o, M[o.key])
  BY <1>1, FollowsGrows DEF Sound
<1>5. Founded(o, M[o.key])
  BY <1>1, FoundedGrows DEF Sound
<1> QED
  BY <1>2, <1>3, <1>4, <1>5 DEF Sound

\* Request r becomes o, and nobody else is disturbed.
LEMMA RungMoves ==
    ASSUME TypeOK, RungInv, NEW r \in Handlers, NEW o \in Requests, NEW d,
           h' = [h EXCEPT ![r] = o], now' = now, events' \in Nat, events <= events',
           Grown(r, d), Sound(o, log', now, events'),
           \/ o.step \notin Calling
           \/ h[r].step \in Calling /\ o.id = h[r].id
           \/ o.id = events + 1
    PROVE  /\ LogInv' /\ Apart'
           /\ \A x \in Handlers : Sound(h'[x], log', now', events')
<1>1. /\ h \in [Handlers -> Requests] /\ now \in Nat /\ events \in Nat
      /\ \A x \in Handlers : h[x] \in Requests /\ h[x].id \in Nat
  BY DEF TypeOK, Requests
<1>2. \A x \in Handlers : Sound(h[x], log, now, events) /\ (h[x].step \in Calling => h[x].id <= events)
  BY DEF RungInv, Sound
<1>3. /\ LogInv'
      /\ \A k \in Keys : /\ log[k] \subseteq log'[k]
                         /\ \A e \in log'[k] \ log[k] : h[r].step \in Calling /\ e.id = h[r].id
  BY <1>2, GrownLog DEF RungInv
<1>4. \A x \in Handlers : h'[x] = IF x = r THEN o ELSE h[x]
  BY <1>1
<1>5. Apart'
  <2> SUFFICES ASSUME NEW x \in Handlers, NEW y \in Handlers, x # y,
                      h'[x].step \in Calling, h'[y].step \in Calling
               PROVE  h'[x].id # h'[y].id
    BY DEF Apart
  <2>1. Apart
    BY DEF RungInv
  <2>2. ASSUME NEW z \in Handlers, z # r, h[z].step \in Calling, o.step \in Calling
        PROVE  h[z].id # o.id
    <3>1. h[z].id \in Nat /\ h[z].id <= events
      BY <1>1, <1>2, <2>2
    <3> QED
      BY <1>1, <2>1, <2>2, <3>1 DEF Apart
  <2>3. CASE x # r /\ y # r
    BY <1>4, <2>1, <2>3 DEF Apart
  <2>4. CASE x = r
    BY <1>4, <2>2, <2>4
  <2>5. CASE y = r
    BY <1>4, <2>2, <2>5
  <2> QED
    BY <2>3, <2>4, <2>5
<1>6. ASSUME NEW x \in Handlers PROVE Sound(h'[x], log', now', events')
  <2>1. CASE x = r
    BY <1>4, <2>1
  <2>2. CASE x # r /\ h[x].step \notin Calling
    BY <1>4, <2>2 DEF Sound
  <2>3. CASE x # r /\ h[x].step \in Calling
    <3>1. h[r].step \in Calling => h[x].id # h[r].id
      BY <2>3 DEF RungInv, Apart
    <3>2. \A k \in Keys : /\ log[k] \subseteq log'[k] /\ IsFiniteSet(log'[k])
                          /\ \A e \in log'[k] \ log[k] : e.id # h[x].id
      BY <1>3, <3>1 DEF LogInv
    <3>3. Sound(h[x], log', now, events')
      <4> DEFINE M == log'
                 count == events'
      <4>1. /\ h[x] \in Requests /\ now \in Nat /\ events \in Nat /\ count \in Nat
            /\ now <= now /\ events <= count /\ Sound(h[x], log, now, events)
        BY <1>1, <1>2
      <4>2. \A k \in Keys : /\ log[k] \subseteq M[k] /\ IsFiniteSet(M[k])
                            /\ \A e \in M[k] \ log[k] : e.id # h[x].id
        BY <3>2
      <4> HIDE DEF M, count
      <4>3. Sound(h[x], M, now, count)
        BY <4>1, <4>2, SoundGrows
      <4> QED
        BY <4>3 DEF M, count
    <3> QED
      BY <1>4, <2>3, <3>3
  <2> QED
    BY <2>1, <2>2, <2>3
<1> QED
  BY <1>3, <1>5, <1>6

\* A request that writes nothing, and is about to write nothing logged.
LEMMA RungQuiet ==
    ASSUME TypeOK, RungInv, NEW r \in Handlers, NEW o \in Requests,
           h' = [h EXCEPT ![r] = o], now' = now, events' \in Nat, events <= events',
           UNCHANGED <<log, history>>, Sound(o, log, now, events'),
           \/ o.step \notin Calling
           \/ h[r].step \in Calling /\ o.id = h[r].id /\ Writing(o.step) = 0
           \/ o.id = events + 1
    PROVE  RungInv'
<1>1. \A x \in Handlers : h'[x] = IF x = r THEN o ELSE h[x]
  BY DEF TypeOK
<1>2. Writing(o.step) = 0 \/ o.id = events + 1
  BY DEF Writing, Calling
<1>3. ASSUME NEW k \in Keys PROVE Covered(history'[k], h', log'[k])
  <2>1. \A e \in log[k] : e.tier # 0 /\ e.id # events + 1
    <3> SUFFICES ASSUME NEW e \in log[k] PROVE e.tier # 0 /\ e.id # events + 1
      OBVIOUS
    <3>1. e \in Logs /\ e.id <= events /\ events \in Nat
      BY DEF TypeOK, Logs, RungInv, LogInv
    <3> QED
      BY <3>1 DEF Logs
  <2>2. Written(h, log[k]) \subseteq Written(h', log[k])
    BY <1>1, <1>2, <2>1 DEF Written
  <2>3. /\ IsFiniteSet(log[k]) /\ Covered(history[k], h, log[k])
        /\ history[k] \in Seq(Entries)
    BY DEF RungInv, LogInv, TypeOK, Entries
  <2>4. Covered(history[k], h', log[k])
    BY <2>2, <2>3, CoveredStays
  <2> QED
    BY <2>4
<1>4. Grown(r, 0)
  BY DEF Grown
<1>5. Sound(o, log', now, events')
  OBVIOUS
<1>6. /\ LogInv' /\ Apart'
      /\ \A x \in Handlers : Sound(h'[x], log', now', events')
  BY <1>4, <1>5, RungMoves
<1> QED
  BY <1>3, <1>6 DEF RungInv

\* A call logs what it is to write next: not in the history yet, not written.
LEMMA RungLogs ==
    ASSUME TypeOK, RungInv, NEW r \in Handlers, NEW p \in Requests, NEW d \in Logs,
           h' = [h EXCEPT ![r] = p], UNCHANGED <<now, events, history>>,
           h[r].step \in Calling, d.id = h[r].id, d.tier \in Ahead(h[r].step),
           log' = [log EXCEPT ![h[r].key] = @ \cup {d}],
           p.id = h[r].id, Writing(p.step) = d.tier,
           Sound(p, log', now, events)
    PROVE  RungInv'
<1>1. \A x \in Handlers : h'[x] = IF x = r THEN p ELSE h[x]
  BY DEF TypeOK
<1>2. /\ log \in [Keys -> SUBSET Logs] /\ events \in Nat /\ events <= events
      /\ h[r].key \in Keys
  BY DEF TypeOK, Logs, Requests
<1>3. Grown(r, d)
  BY DEF Grown
<1>4. /\ LogInv' /\ Apart'
      /\ \A x \in Handlers : Sound(h'[x], log', now', events')
  <2>1. Sound(p, log', now, events')
    OBVIOUS
  <2> QED
    BY <1>2, <1>3, <2>1, RungMoves
<1>5. ASSUME NEW k \in Keys PROVE Covered(history'[k], h', log'[k])
  <2>1. \A e \in log[k] : e.id = h[r].id => e.tier # d.tier
    BY DEF RungInv, Sound, Fresh
  <2>2. Written(h, log[k]) \subseteq Written(h', log[k])
    BY <1>1, <2>1 DEF Written
  <2>3. log[k] \subseteq log'[k]
    BY <1>2
  <2>4. Written(h, log[k]) \subseteq Written(h', log'[k])
    BY <2>2, <2>3 DEF Written
  <2>5. IsFiniteSet(log'[k])
    BY <1>4 DEF LogInv
  <2>6. Covered(history[k], h, log[k]) /\ history[k] \in Seq(Entries)
    BY DEF RungInv, TypeOK, Entries
  <2>7. Covered(history[k], h', log'[k])
    <3> DEFINE M == log'[k]
               next == h'
    <3>1. Written(h, log[k]) \subseteq Written(next, M) /\ IsFiniteSet(M)
      BY <2>4, <2>5
    <3> HIDE DEF M, next
    <3>2. Covered(history[k], next, M)
      BY <2>6, <3>1, CoveredStays
    <3> QED
      BY <3>2 DEF M, next
  <2> QED
    BY <2>7
<1> QED
  BY <1>4, <1>5 DEF RungInv

\* A call writes the entry of what it logged before, or logs with it.
LEMMA RungPushes ==
    ASSUME TypeOK, RungInv, NEW r \in Handlers, NEW p \in Requests, NEW e \in Entries, NEW d,
           h' = [h EXCEPT ![r] = p], UNCHANGED <<now, events>>, Grown(r, d),
           h[r].step \in Calling, e.tier = Writing(h[r].step),
           history' = [history EXCEPT ![h[r].key] = Pushed(@, e)],
           \E b \in log'[h[r].key] : b.id = h[r].id /\ b.tier = e.tier /\ b.at >= e.ts,
           p.step \notin Calling \/ p.id = h[r].id, Writing(p.step) = 0,
           Sound(p, log', now, events)
    PROVE  RungInv'
<1> DEFINE key == h[r].key
<1>1. \A x \in Handlers : h'[x] = IF x = r THEN p ELSE h[x]
  BY DEF TypeOK
<1>2. /\ log \in [Keys -> SUBSET Logs] /\ events \in Nat /\ events <= events
      /\ key \in Keys /\ e.tier \in 1..4
  BY DEF TypeOK, Logs, Requests, Entries
<1>3. /\ LogInv' /\ Apart'
      /\ \A x \in Handlers : Sound(h'[x], log', now', events')
  <2>1. Sound(p, log', now, events')
    OBVIOUS
  <2> QED
    BY <1>2, <2>1, RungMoves
<1>4. ASSUME NEW k \in Keys PROVE log[k] \subseteq log'[k] /\ log'[k] \subseteq Logs
  BY <1>2 DEF Grown
<1>5. ASSUME NEW k \in Keys
      PROVE  /\ Written(h, log[k]) \subseteq Written(h', log'[k])
             /\ IsFiniteSet(log'[k])
             /\ Covered(history[k], h, log[k]) /\ history[k] \in Seq(Entries)
  <2>1. \A b \in log[k] : b.tier # 0
    BY <1>2 DEF Logs
  <2>2. Written(h, log[k]) \subseteq Written(h', log'[k])
    BY <1>1, <1>4, <2>1 DEF Written
  <2> QED
    BY <1>3, <2>2 DEF LogInv, RungInv, TypeOK, Entries
<1>6. PICK b \in log'[key] : b.id = h[r].id /\ b.tier = e.tier /\ b.at >= e.ts
  OBVIOUS
<1>7. b \notin Written(h, log[key])
  BY <1>6 DEF Written
<1>8. b \in Written(h', log'[key])
  <2> SUFFICES ASSUME NEW x \in Handlers, h'[x].id = b.id PROVE Writing(h'[x].step) # b.tier
    BY DEF Written
  <2>1. CASE x = r
    BY <1>1, <1>2, <1>6, <2>1
  <2>2. CASE x # r
    <3>1. h[x].id = h[r].id /\ h'[x] = h[x]
      BY <1>1, <1>6, <2>2
    <3>2. h[x].step \notin Calling
      BY <2>2, <3>1 DEF RungInv, Apart
    <3>3. Writing(h[x].step) = 0
      BY <3>2 DEF Calling, Writing
    <3> QED
      BY <1>2, <1>6, <3>1, <3>3
  <2> QED
    BY <2>1, <2>2
<1>9. ASSUME NEW k \in Keys PROVE Covered(history'[k], h', log'[k])
  <2> DEFINE M == log'[k]
             next == h'
  <2>1. CASE k = key
    <3>1. history'[k] = Pushed(history[k], e)
      BY <2>1 DEF TypeOK
    <3>2. /\ IsFiniteSet(M) /\ M \subseteq Logs
          /\ Covered(history[k], h, log[k]) /\ history[k] \in Seq(Entries)
          /\ Written(h, log[k]) \subseteq Written(next, M)
          /\ b \in Written(next, M) /\ b \notin Written(h, log[k])
          /\ b.tier = e.tier /\ b.at >= e.ts
      BY <1>4, <1>5, <1>6, <1>7, <1>8, <2>1
    <3> HIDE DEF M, next
    <3>3. Covered(Pushed(history[k], e), next, M)
      BY <3>2, CoveredPush
    <3> QED
      BY <3>1, <3>3 DEF M, next
  <2>2. CASE k # key
    <3>1. history'[k] = history[k]
      BY <2>2 DEF TypeOK
    <3>2. /\ IsFiniteSet(M)
          /\ Covered(history[k], h, log[k]) /\ history[k] \in Seq(Entries)
          /\ Written(h, log[k]) \subseteq Written(next, M)
      BY <1>5
    <3> HIDE DEF M, next
    <3>3. Covered(history[k], next, M)
      BY <3>2, CoveredStays
    <3> QED
      BY <3>1, <3>3 DEF M, next
  <2> QED
    BY <2>1, <2>2
<1> QED
  BY <1>3, <1>9 DEF RungInv

\* The request that a call which goes on leaves.
LEMMA ProceedIs ==
    ASSUME NEW r \in Handlers, NEW o \in Requests, Proceed(r, o)
    PROVE  \E p \in Requests :
             /\ h' = [h EXCEPT ![r] = p] /\ p.step = After(o.step, o.plan)
             /\ p.step \in Calling =>
                  /\ p.id = o.id /\ p.key = o.key /\ p.began = o.began /\ p.readAt = o.readAt
                  /\ p.plan = o.plan /\ p.flagged = o.flagged
<1> DEFINE next == After(o.step, o.plan)
<1>1. next \in Steps
  BY AfterType
<1>2. h' = [h EXCEPT ![r] = IF next = "idle" THEN NoRequest ELSE [o EXCEPT !.step = next]]
  BY DEF Proceed
<1> HIDE DEF next
<1>3. CASE next = "idle"
  BY <1>2, <1>3, NoRequestType DEF Calling, next
<1>4. CASE next # "idle"
  <2> DEFINE p == [o EXCEPT !.step = next]
  <2>1. /\ p \in Requests /\ p.step = next
        /\ p.id = o.id /\ p.key = o.key /\ p.began = o.began /\ p.readAt = o.readAt
        /\ p.plan = o.plan /\ p.flagged = o.flagged
    BY <1>1 DEF Requests
  <2>2. h' = [h EXCEPT ![r] = p]
    BY <1>2, <1>4
  <2> HIDE DEF p
  <2> QED
    BY <2>1, <2>2 DEF next
<1> QED
  BY <1>3, <1>4

LEMMA FoundedSame ==
    ASSUME NEW o, NEW p, NEW L, Founded(o, L), p.id = o.id, p.plan = o.plan,
           p.readAt = o.readAt, p.flagged = o.flagged
    PROVE  Founded(p, L)
BY DEF Founded, Others

\* No trust multiplies a threshold by less than one.
LEMMA Multiplied ==
    ASSUME NEW n \in Nat, NEW m \in Nat \ {0}
    PROVE  n * m >= n
<1>1. n * (m - 1) \in Nat
  OBVIOUS
<1>2. n * m = n * (m - 1) + n
  OBVIOUS
<1> QED
  BY <1>1, <1>2

-----------------------------------------------------------------------------
(* The steps of recordOffense.                                             *)

\* What the history shows, the log holds.
LEMMA Shown ==
    ASSUME TypeOK, RungInv, NEW k \in Keys, NEW tier \in 1..4, NEW x \in Int
    PROVE  /\ Cardinality(Entered(history[k], tier, x)) \in Nat
           /\ Cardinality(Since(log[k], tier, x)) \in Nat
           /\ Cardinality(Entered(history[k], tier, x)) <= Cardinality(Since(log[k], tier, x))
<1>1. Since(Written(h, log[k]), tier, x) \subseteq Since(log[k], tier, x)
  BY WrittenIn DEF Since
<1>2. Since(log[k], tier, x) \subseteq log[k] /\ IsFiniteSet(log[k])
  BY DEF Since, RungInv, LogInv
<1>3. /\ Cardinality(Since(Written(h, log[k]), tier, x)) \in Nat
      /\ Cardinality(Since(log[k], tier, x)) \in Nat
      /\ Cardinality(Since(Written(h, log[k]), tier, x)) <= Cardinality(Since(log[k], tier, x))
  BY <1>1, <1>2, Counted
<1>4. Cardinality(Entered(history[k], tier, x)) <= Cardinality(Since(Written(h, log[k]), tier, x))
  BY DEF RungInv, Covered
<1>5. Cardinality(Entered(history[k], tier, x)) \in Nat
  BY EnteredFinite DEF TypeOK, Entries
<1> QED
  BY <1>3, <1>4, <1>5

\* A decision is founded on what the key has had.
LEMMA Decision ==
    ASSUME TypeOK, RungInv, NEW r \in Handlers, h[r].step = "read",
           NEW p, p.id = h[r].id, p.flagged = h[r].flagged, p.readAt = now,
           p.plan = Plan(h[r], Summary(history[h[r].key]))
    PROVE  Founded(p, log[h[r].key])
<1> DEFINE key == h[r].key
           s == Summary(history[key])
           L == log[key]
           Had2 == Cardinality(Since(L, 2, now - OneDay))
           Had3 == Cardinality(Since(L, 3, now - SevenDays))
<1>1. /\ h[r] \in Requests /\ key \in Keys /\ now \in Int /\ h[r].band \in 1..4
      /\ h[r].flagged \in BOOLEAN
  BY DEF TypeOK, Requests
<1>2. /\ Minute \in Nat /\ FiveMin \in Nat /\ OneDay \in Nat /\ SevenDays \in Nat
      /\ ThrottlesToSoftBan \in Nat /\ InvalidSigsToSoftBan \in Nat
      /\ SoftBansToHardBan \in Nat /\ HardBansToPermanent \in Nat
      /\ Multiplier[h[r].band] \in Nat \ {0}
  BY <1>1, EnforcementAssumption
<1>3. \A tier \in 1..4, window \in Nat :
        /\ Cardinality(Recent(history[key], tier, window)) \in Nat
        /\ Cardinality(Since(L, tier, now - window)) \in Nat
        /\ Cardinality(Recent(history[key], tier, window)) <= Cardinality(Since(L, tier, now - window))
  <2> SUFFICES ASSUME NEW tier \in 1..4, NEW window \in Nat
               PROVE  /\ Cardinality(Recent(history[key], tier, window)) \in Nat
                      /\ Cardinality(Since(L, tier, now - window)) \in Nat
                      /\ Cardinality(Recent(history[key], tier, window))
                           <= Cardinality(Since(L, tier, now - window))
    OBVIOUS
  <2>1. now - window \in Int
    BY <1>1
  <2>2. Recent(history[key], tier, window) = Entered(history[key], tier, now - window)
    BY DEF Recent, Entered
  <2> QED
    BY <1>1, <2>1, <2>2, Shown
<1>4. s.throttles \in Nat /\ s.throttles <= Cardinality(Since(L, 1, now - FiveMin))
      /\ Cardinality(Since(L, 1, now - FiveMin)) \in Nat
  BY <1>2, <1>3 DEF Summary
<1>5. s.invalidSigs \in Nat /\ s.invalidSigs <= Cardinality(Since(L, 1, now - Minute))
      /\ Cardinality(Since(L, 1, now - Minute)) \in Nat
  <2>0. /\ Cardinality(Since(L, 1, now - Minute)) \in Nat
        /\ Cardinality(Recent(history[key], 1, Minute)) <= Cardinality(Since(L, 1, now - Minute))
    <3>1. Minute \in Nat /\ 1 \in 1..4
      BY <1>2
    <3> HIDE DEF L, key
    <3> QED
      BY <1>3, <3>1
  <2> DEFINE all == Recent(history[key], 1, Minute)
             some == {i \in all : history[key][i].signature}
  <2>1. IsFiniteSet(all)
    <3>1. all = Entered(history[key], 1, now - Minute)
      BY DEF Recent, Entered
    <3>2. history[key] \in Seq(Entries)
      BY <1>1 DEF TypeOK, Entries
    <3> HIDE DEF all
    <3> QED
      BY <3>1, <3>2, EnteredFinite
  <2>2. some \subseteq all /\ all \subseteq all
    OBVIOUS
  <2>3. s.invalidSigs = Cardinality(some)
    BY DEF Summary
  <2> HIDE DEF all, some, s
  <2>4. Cardinality(some) \in Nat /\ Cardinality(all) \in Nat /\ Cardinality(some) <= Cardinality(all)
    BY <2>1, <2>2, Counted
  <2>5. /\ Cardinality(Since(L, 1, now - Minute)) \in Nat
        /\ Cardinality(all) <= Cardinality(Since(L, 1, now - Minute))
    BY <2>0 DEF all
  <2> QED
    BY <2>3, <2>4, <2>5
<1>6. s.softBans \in Nat /\ s.softBans <= Had2 /\ Had2 \in Nat
  BY <1>2, <1>3 DEF Summary
<1>7. s.hardBans \in Nat /\ s.hardBans <= Had3 /\ Had3 \in Nat
  BY <1>2, <1>3 DEF Summary
<1>8. \A tier \in {2, 3} : \A x : Others(p, L, tier, x) = Since(L, tier, x)
  <2>1. Fresh(h[r], L)
    BY <1>1 DEF RungInv, Sound, Calling
  <2>2. \A e \in L : e.tier \in {2, 3} => e.id # h[r].id
    BY <2>1 DEF Fresh, Ahead
  <2> QED
    BY <2>2 DEF Others, Since
<1> HIDE DEF s, Had2, Had3
<1>9. "soft" \in p.plan =>
        /\ \/ s.throttles >= ThrottlesToSoftBan * Multiplier[h[r].band]
           \/ s.invalidSigs >= InvalidSigsToSoftBan * Multiplier[h[r].band]
  BY DEF Plan, s, key
<1>10. "hard" \in p.plan /\ ~p.flagged => "soft" \in p.plan /\ s.softBans + 1 >= SoftBansToHardBan
  BY DEF Plan, s, key
<1>11. "promote" \in p.plan => s.hardBans + 1 >= HardBansToPermanent
  BY DEF Plan, s, key
<1>12. /\ ThrottlesToSoftBan * Multiplier[h[r].band] \in Nat
       /\ ThrottlesToSoftBan * Multiplier[h[r].band] >= ThrottlesToSoftBan
       /\ InvalidSigsToSoftBan * Multiplier[h[r].band] \in Nat
       /\ InvalidSigsToSoftBan * Multiplier[h[r].band] >= InvalidSigsToSoftBan
  <2>1. \A n \in Nat, m \in Nat \ {0} : n * m \in Nat /\ n * m >= n
    BY Multiplied
  <2> QED
    BY <1>2, <2>1
<1>13. "soft" \in p.plan =>
         \/ Cardinality(Since(L, 1, p.readAt - FiveMin)) >= ThrottlesToSoftBan
         \/ Cardinality(Since(L, 1, p.readAt - Minute)) >= InvalidSigsToSoftBan
  <2> DEFINE a == ThrottlesToSoftBan * Multiplier[h[r].band]
             b == InvalidSigsToSoftBan * Multiplier[h[r].band]
             f == Cardinality(Since(L, 1, now - FiveMin))
             m == Cardinality(Since(L, 1, now - Minute))
  <2> SUFFICES ASSUME "soft" \in p.plan PROVE f >= ThrottlesToSoftBan \/ m >= InvalidSigsToSoftBan
    OBVIOUS
  <2>1. a \in Nat /\ b \in Nat /\ a >= ThrottlesToSoftBan /\ b >= InvalidSigsToSoftBan
    BY <1>12
  <2>2. s.throttles >= a \/ s.invalidSigs >= b
    BY <1>9
  <2>3. f \in Nat /\ m \in Nat /\ s.throttles <= f /\ s.invalidSigs <= m
        /\ s.throttles \in Nat /\ s.invalidSigs \in Nat
    BY <1>4, <1>5
  <2> HIDE DEF a, b, f, m
  <2> QED
    BY <1>2, <2>1, <2>2, <2>3
<1>14. "hard" \in p.plan /\ ~p.flagged =>
         /\ "soft" \in p.plan
         /\ Cardinality(Others(p, L, 2, p.readAt - OneDay)) + 1 >= SoftBansToHardBan
  <2>1. Cardinality(Others(p, L, 2, p.readAt - OneDay)) = Had2
    BY <1>8 DEF Had2
  <2>2. s.softBans + 1 >= SoftBansToHardBan => Had2 + 1 >= SoftBansToHardBan
    BY <1>2, <1>6
  <2> QED
    BY <1>10, <2>1, <2>2
<1>15. "promote" \in p.plan =>
         Cardinality(Others(p, L, 3, p.readAt - SevenDays)) + 1 >= HardBansToPermanent
  <2>1. Cardinality(Others(p, L, 3, p.readAt - SevenDays)) = Had3
    BY <1>8 DEF Had3
  <2>2. s.hardBans + 1 >= HardBansToPermanent => Had3 + 1 >= HardBansToPermanent
    BY <1>2, <1>7
  <2> QED
    BY <1>11, <2>1, <2>2
<1> QED
  BY <1>13, <1>14, <1>15 DEF Founded

LEMMA RungReads ==
    ASSUME TypeOK, RungInv, NEW r \in Handlers, ReadHistory(r)
    PROVE  RungInv'
<1> DEFINE plan == Plan(h[r], Summary(history[h[r].key]))
           o == [h[r] EXCEPT !.plan = plan, !.readAt = now]
<1>1. /\ h[r] \in Requests /\ now \in Nat /\ events \in Nat /\ h[r].key \in Keys
      /\ h[r].id \in Nat /\ h[r].began \in Nat
  BY DEF TypeOK, Requests
<1>2. plan \in SUBSET {"soft", "hard", "promote"}
  BY DEF Plan
<1>3. /\ h[r].step = "read" /\ Proceed(r, o)
      /\ UNCHANGED <<now, events, log, history>>
  BY DEF ReadHistory, store
<1>4. /\ plan = Plan(h[r], Summary(history[h[r].key]))
  OBVIOUS
<1> HIDE DEF plan
<1>5. /\ o \in Requests /\ o.step = "read" /\ o.plan = plan /\ o.readAt = now
      /\ o.id = h[r].id /\ o.key = h[r].key /\ o.began = h[r].began /\ o.flagged = h[r].flagged
  BY <1>1, <1>2, <1>3 DEF Requests
<1> HIDE DEF o
<1>6. PICK p \in Requests :
        /\ h' = [h EXCEPT ![r] = p] /\ p.step = After("read", plan)
        /\ p.step \in Calling =>
             /\ p.id = h[r].id /\ p.key = h[r].key /\ p.began = h[r].began /\ p.readAt = now
             /\ p.plan = plan /\ p.flagged = h[r].flagged
  BY <1>3, <1>5, ProceedIs
<1>7. p.step \in {"ban2", "ban3", "idle"} /\ Writing(p.step) = 0
  BY <1>6 DEF After, Writing
<1>8. Sound(p, log, now, events)
  <2> SUFFICES ASSUME p.step \in Calling PROVE Sound(p, log, now, events)
    BY DEF Sound
  <2>1. Sound(h[r], log, now, events) /\ h[r].step \in Calling
    BY <1>3 DEF RungInv, Calling
  <2>2. \A k \in Keys : Fresh(p, log[k])
    BY <1>3, <1>6, <1>7, <2>1 DEF Sound, Fresh, Ahead
  <2>3. Follows(p, log[p.key])
    BY <1>6, <1>7 DEF Follows, After
  <2>4. Founded(p, log[p.key])
    BY <1>3, <1>4, <1>6, Decision
  <2>5. p.began <= now /\ p.readAt <= now /\ p.id <= events
    BY <1>1, <1>6, <2>1 DEF Sound
  <2> QED
    BY <2>2, <2>3, <2>4, <2>5 DEF Sound
<1>9. h[r].step \in Calling /\ (p.step \notin Calling \/ p.id = h[r].id)
  BY <1>3, <1>6 DEF Calling
<1> QED
  <2>1. events' \in Nat /\ events <= events' /\ now' = now /\ UNCHANGED <<log, history>>
    BY <1>1, <1>3
  <2>2. Sound(p, log, now, events')
    BY <1>3, <1>8
  <2>3. \/ p.step \notin Calling
        \/ h[r].step \in Calling /\ p.id = h[r].id /\ Writing(p.step) = 0
    BY <1>7, <1>9
  <2> QED
    BY <1>6, <2>1, <2>2, <2>3, RungQuiet

LEMMA RungWrites ==
    ASSUME TypeOK, RungInv, NEW r \in Handlers, PushHistory(r)
    PROVE  RungInv'
<1> DEFINE o == [h[r] EXCEPT !.signature = FALSE]
           e == [ts |-> h[r].began, tier |-> TierOf(h[r].step), signature |-> h[r].signature]
           new == [id |-> h[r].id, tier |-> 1, at |-> h[r].began,
                   band |-> h[r].band, flagged |-> h[r].flagged]
           key == h[r].key
<1>1. /\ h[r] \in Requests /\ now \in Nat /\ events \in Nat /\ key \in Keys
      /\ h[r].id \in Nat /\ h[r].began \in Nat /\ h[r].signature \in BOOLEAN
      /\ log \in [Keys -> SUBSET Logs]
  BY DEF TypeOK, Requests, Logs
<1>2. /\ h[r].step \in {"push1", "push2", "push3", "push4"} /\ Proceed(r, o)
      /\ history' = [history EXCEPT ![key] = Pushed(@, e)]
      /\ UNCHANGED <<now, events>>
      /\ IF h[r].step = "push1" THEN log' = [log EXCEPT ![key] = @ \cup {new}] ELSE UNCHANGED log
  BY DEF PushHistory, Logged
<1>3. e \in Entries /\ e.ts = h[r].began /\ e.tier = Writing(h[r].step)
  BY <1>1, <1>2 DEF Entries, TierOf, Writing
<1>4. new \in Logs /\ new.id = h[r].id /\ new.tier = 1 /\ new.at = h[r].began
  BY <1>1 DEF Logs, Requests
<1>5. /\ o \in Requests /\ o.step = h[r].step /\ o.plan = h[r].plan /\ o.readAt = h[r].readAt
      /\ o.id = h[r].id /\ o.key = key /\ o.began = h[r].began /\ o.flagged = h[r].flagged
  BY <1>1 DEF Requests
<1> HIDE DEF o, e, new
<1>6. PICK p \in Requests :
        /\ h' = [h EXCEPT ![r] = p] /\ p.step = After(h[r].step, h[r].plan)
        /\ p.step \in Calling =>
             /\ p.id = h[r].id /\ p.key = key /\ p.began = h[r].began /\ p.readAt = h[r].readAt
             /\ p.plan = h[r].plan /\ p.flagged = h[r].flagged
  BY <1>2, <1>5, ProceedIs
<1>7. /\ h[r].step = "push1" => p.step = "read"
      /\ h[r].step = "push2" => p.step = "idle" \/ (p.step = "ban3" /\ "hard" \in h[r].plan)
      /\ h[r].step = "push3" => p.step = "idle" \/ (p.step = "whitelist" /\ "promote" \in h[r].plan)
      /\ h[r].step = "push4" => p.step = "idle"
  BY <1>6 DEF After
<1>8. Writing(p.step) = 0 /\ h[r].step \in Calling
  BY <1>2, <1>7 DEF Writing, Calling
<1>9. Grown(r, new)
  BY <1>2, <1>4, <1>8 DEF Grown
<1>10. Sound(h[r], log, now, events)
  BY DEF RungInv
<1>11. log[key] \subseteq log'[key] /\ IsFiniteSet(log'[key])
  <2>1. LogInv'
    <3>1. h[r].id <= events /\ events <= events /\ LogInv
      BY <1>1, <1>8, <1>10 DEF Sound, RungInv
    <3> QED
      BY <1>1, <1>2, <1>9, <3>1, GrownLog
  <2> QED
    BY <1>1, <1>2, <2>1 DEF LogInv
<1>12. \E b \in log'[key] : b.id = h[r].id /\ b.tier = e.tier /\ b.at >= e.ts
  <2>1. CASE h[r].step = "push1"
    <3>1. new \in log'[key] /\ e.tier = 1
      BY <1>1, <1>2, <1>3, <2>1 DEF Writing
    <3> QED
      BY <1>1, <1>3, <1>4, <3>1
  <2>2. CASE h[r].step # "push1"
    <3>1. Follows(h[r], log[key])
      BY <1>8, <1>10 DEF Sound
    <3>2. Imposed(h[r], log[key], e.tier)
      BY <1>2, <1>3, <2>2, <3>1 DEF Follows, Writing
    <3> QED
      BY <1>3, <1>11, <3>2 DEF Imposed
  <2> QED
    BY <2>1, <2>2
<1>13. Sound(p, log', now, events)
  <2> SUFFICES ASSUME p.step \in Calling PROVE Sound(p, log', now, events)
    BY DEF Sound
  <2>1. p.began <= now /\ p.readAt <= now /\ p.id <= events
    BY <1>6, <1>8, <1>10 DEF Sound
  <2>2. \A k \in Keys : Fresh(p, log'[k])
    <3> SUFFICES ASSUME NEW k \in Keys, NEW b \in log'[k], b.id = h[r].id
                 PROVE  b.tier \notin Ahead(p.step)
      BY <1>6 DEF Fresh
    <3>1. b \in log[k] \/ (h[r].step = "push1" /\ b = new)
      BY <1>1, <1>2
    <3>2. CASE b \in log[k]
      <4>1. b.tier \notin Ahead(h[r].step)
        BY <1>8, <1>10, <3>2 DEF Sound, Fresh
      <4> QED
        BY <1>2, <1>7, <4>1 DEF Ahead, Calling
    <3>3. CASE h[r].step = "push1" /\ b = new
      BY <1>4, <1>7, <3>3 DEF Ahead
    <3> QED
      BY <3>1, <3>2, <3>3
  <2>3. Follows(h[r], log[key]) /\ Founded(h[r], log[key])
    BY <1>8, <1>10 DEF Sound
  <2>4. Follows(p, log'[p.key])
    <3>1. \A tier : Imposed(h[r], log[key], tier) => Imposed(p, log'[p.key], tier)
      BY <1>6, <1>11 DEF Imposed
    <3> QED
      BY <1>2, <1>6, <1>7, <2>3, <3>1 DEF Follows, Calling
  <2>5. Founded(p, log'[p.key])
    <3>1. Founded(h[r], log'[key])
      BY <1>1, <1>11, <2>3, FoundedGrows
    <3> QED
      BY <1>6, <3>1, FoundedSame
  <2> QED
    BY <2>1, <2>2, <2>4, <2>5 DEF Sound
<1>14. p.step \notin Calling \/ p.id = h[r].id
  BY <1>6
<1> QED
  BY <1>2, <1>3, <1>6, <1>8, <1>9, <1>12, <1>13, <1>14, RungPushes

\* A ban is logged when it is written to the store, which is after the
\* decision and before its entry.
LEMMA RungBans ==
    ASSUME TypeOK, RungInv, NEW r \in Handlers, SetBan(r) \/ AddPermanent(r)
    PROVE  RungInv'
<1> DEFINE tier == TierOf(h[r].step)
           new == [id |-> h[r].id, tier |-> tier, at |-> now,
                   band |-> h[r].band, flagged |-> h[r].flagged]
           key == h[r].key
<1>1. /\ h[r] \in Requests /\ now \in Nat /\ events \in Nat /\ key \in Keys
      /\ h[r].id \in Nat /\ log \in [Keys -> SUBSET Logs]
  BY DEF TypeOK, Requests, Logs
<1>2. /\ h[r].step \in {"ban2", "ban3", "permanent"} /\ Proceed(r, h[r])
      /\ log' = [log EXCEPT ![key] = @ \cup {new}]
      /\ UNCHANGED <<now, events, history>>
  BY DEF SetBan, AddPermanent, Logged, TierOf
<1>3. tier \in 2..4 /\ tier \in Ahead(h[r].step) /\ h[r].step \in Calling
  BY <1>2 DEF TierOf, Ahead, Calling
<1>4. new \in Logs /\ new.id = h[r].id /\ new.tier = tier /\ new.at = now
  BY <1>1, <1>3 DEF Logs, Requests
<1>5. PICK p \in Requests :
        /\ h' = [h EXCEPT ![r] = p] /\ p.step = After(h[r].step, h[r].plan)
        /\ p.step \in Calling =>
             /\ p.id = h[r].id /\ p.key = key /\ p.began = h[r].began /\ p.readAt = h[r].readAt
             /\ p.plan = h[r].plan /\ p.flagged = h[r].flagged
  BY <1>1, <1>2, ProceedIs
<1>6. /\ h[r].step = "ban2" => p.step = "push2" /\ tier = 2
      /\ h[r].step = "ban3" => p.step = "push3" /\ tier = 3
      /\ h[r].step = "permanent" => p.step = "push4" /\ tier = 4
  BY <1>5 DEF After, TierOf
<1> HIDE DEF tier, new
<1>7. p.step \in Calling /\ Writing(p.step) = tier
  BY <1>2, <1>6 DEF Calling, Writing
<1>8. Sound(h[r], log, now, events)
  BY DEF RungInv
<1>9. Grown(r, new)
  BY <1>2, <1>3, <1>4 DEF Grown
<1>10. log[key] \subseteq log'[key] /\ IsFiniteSet(log'[key]) /\ new \in log'[key]
  <2>1. LogInv'
    <3>1. h[r].id <= events /\ events <= events /\ LogInv
      BY <1>1, <1>3, <1>8 DEF Sound, RungInv
    <3> QED
      BY <1>1, <1>2, <1>9, <3>1, GrownLog
  <2> QED
    BY <1>1, <1>2, <2>1 DEF LogInv
<1>11. Sound(p, log', now, events)
  <2>1. p.began <= now /\ p.readAt <= now /\ p.id <= events
    BY <1>3, <1>5, <1>7, <1>8 DEF Sound
  <2>2. \A k \in Keys : Fresh(p, log'[k])
    <3> SUFFICES ASSUME NEW k \in Keys, NEW b \in log'[k], b.id = h[r].id
                 PROVE  b.tier \notin Ahead(p.step)
      BY <1>5, <1>7 DEF Fresh
    <3>1. b \in log[k] \/ b = new
      BY <1>1, <1>2
    <3>2. CASE b \in log[k]
      <4>1. b.tier \notin Ahead(h[r].step)
        BY <1>3, <1>8, <3>2 DEF Sound, Fresh
      <4> QED
        BY <1>2, <1>6, <4>1 DEF Ahead
    <3>3. CASE b = new
      BY <1>2, <1>4, <1>6, <3>3 DEF Ahead
    <3> QED
      BY <3>1, <3>2, <3>3
  <2>3. Follows(h[r], log[key]) /\ Founded(h[r], log[key])
    BY <1>3, <1>8 DEF Sound
  <2>4. Follows(p, log'[p.key])
    <3>1. Imposed(p, log'[p.key], tier)
      <4>1. p.began <= new.at /\ p.readAt <= new.at
        BY <1>4, <2>1
      <4>2. new.at >= p.began /\ new.at >= p.readAt
        BY <1>1, <1>4, <4>1 DEF Requests
      <4> QED
        BY <1>4, <1>5, <1>7, <1>10, <4>2 DEF Imposed
    <3> QED
      BY <1>2, <1>5, <1>6, <1>7, <2>3, <3>1 DEF Follows
  <2>5. Founded(p, log'[p.key])
    <3>1. Founded(h[r], log'[key])
      BY <1>1, <1>10, <2>3, FoundedGrows
    <3> QED
      BY <1>5, <1>7, <3>1, FoundedSame
  <2> QED
    BY <2>1, <2>2, <2>4, <2>5 DEF Sound
<1> QED
  BY <1>2, <1>3, <1>4, <1>5, <1>7, <1>11, RungLogs

\* A request that is in no call afterwards.
LEMMA RungLeaves ==
    ASSUME TypeOK, RungInv, NEW r \in Handlers, NEW o \in Requests, o.step \notin Calling,
           h' = [h EXCEPT ![r] = o], UNCHANGED <<now, events, log, history>>
    PROVE  RungInv'
<1>1. events' \in Nat /\ events <= events' /\ now' = now /\ UNCHANGED <<log, history>>
  BY DEF TypeOK
<1>2. Sound(o, log, now, events')
  BY DEF Sound
<1> QED
  BY <1>1, <1>2, RungQuiet

LEMMA RungChecks ==
    ASSUME TypeOK, RungInv, NEW r \in Handlers,
           \/ \E c \in Clients, hinted \in BOOLEAN : Arrive(r, c, hinted)
           \/ CheckPermanent(r) \/ CheckTimed(r) \/ Behave(r)
    PROVE  RungInv'
<1>1. h \in [Handlers -> Requests] /\ h[r] \in Requests
  BY DEF TypeOK
<1>2. StoreOK' /\ ProcessOK'
  BY TypeParts, CheckType
<1>3. h' \in [Handlers -> Requests]
  BY <1>2 DEF ProcessOK
<1>4. UNCHANGED <<now, events, log, history>>
  BY DEF Arrive, CheckPermanent, CheckTimed, Behave, store
<1>5. /\ \A x \in Handlers : x # r => h'[x] = h[x]
      /\ h'[r].step \notin Calling
  <2>1. ASSUME NEW c \in Clients, NEW hinted \in BOOLEAN, Arrive(r, c, hinted)
        PROVE  /\ \A x \in Handlers : x # r => h'[x] = h[x]
               /\ h'[r].step = "isPermanent"
    <3>1. DOMAIN NoRequest = {"step", "client", "hinted", "key", "signature", "band",
                              "flagged", "paidAt", "began", "readAt", "plan", "id"}
      BY DEF NoRequest
    <3> QED
      BY <1>1, <2>1, <3>1 DEF Arrive
  <2>2. CASE CheckPermanent(r) \/ CheckTimed(r) \/ Behave(r)
    <3>1. \A x \in Handlers : x # r => h'[x] = h[x]
      BY <1>1, <2>2 DEF CheckPermanent, CheckTimed, Behave, Done, Goto
    <3>2. CASE Done(r)
      BY <1>1, <3>1, <3>2, NoRequestType DEF Done, Calling
    <3>3. ASSUME NEW step, Goto(r, step) PROVE h'[r].step = step
      BY <1>1, <3>3 DEF Goto, Requests
    <3>4. CASE h' = [h EXCEPT ![r].key = <<"pk", h[r].client>>, ![r].step = "isPermanent"]
      <4>1. h'[r].step = "isPermanent"
        BY <1>1, <3>4 DEF Requests
      <4> QED
        BY <3>1, <4>1 DEF Calling
    <3>5. CASE Goto(r, "getBan") \/ Goto(r, "served")
      BY <3>1, <3>3, <3>5 DEF Calling
    <3> QED
      BY <2>2, <3>2, <3>4, <3>5 DEF CheckPermanent, CheckTimed, Behave
  <2> QED
    BY <2>1, <2>2 DEF Calling
<1>6. h' = [h EXCEPT ![r] = h'[r]] /\ h'[r] \in Requests
  BY <1>1, <1>3, <1>5
<1> DEFINE o == h'[r]
<1>7. o \in Requests /\ o.step \notin Calling /\ h' = [h EXCEPT ![r] = o]
  BY <1>5, <1>6
<1> HIDE DEF o
<1> QED
  BY <1>4, <1>7, RungLeaves

\* recordOffense is called, with a number of its own.
LEMMA RungOffends ==
    ASSUME TypeOK, RungInv, NEW r \in Handlers, Offense(r)
    PROVE  RungInv'
<1>1. PICK key, signature, band, flagged, paidAt :
        Offend(r, key, signature, band, flagged, paidAt)
  BY DEF Offense, RateLimited, InvalidSignature, OtherOffense, HintMismatch
<1> DEFINE o == [NoRequest EXCEPT !.step = "push1", !.key = key, !.began = now,
                                  !.signature = signature, !.band = band,
                                  !.flagged = flagged, !.paidAt = paidAt,
                                  !.id = events + 1]
<1>2. h' = [h EXCEPT ![r] = o] /\ events' = events + 1 /\ UNCHANGED <<now, log, history>>
  BY <1>1 DEF Offend, store, Event
<1>3. /\ DOMAIN NoRequest = {"step", "client", "hinted", "key", "signature", "band",
                             "flagged", "paidAt", "began", "readAt", "plan", "id"}
      /\ NoRequest.plan = {} /\ NoRequest.readAt = 0
  BY DEF NoRequest
<1>4. /\ o.step = "push1" /\ o.began = now /\ o.readAt = 0 /\ o.plan = {} /\ o.id = events + 1
  BY <1>3
<1>5. StoreOK' /\ ProcessOK' /\ h \in [Handlers -> Requests]
  <2>1. StoreOK /\ ProcessOK
    BY TypeParts
  <2> QED
    BY <2>1, OffenseType DEF ProcessOK
<1>6. o \in Requests
  <2>1. o = h'[r]
    BY <1>2, <1>5
  <2> QED
    BY <1>5, <2>1 DEF ProcessOK
<1> HIDE DEF o
<1>7. now \in Nat /\ events \in Nat /\ events' \in Nat /\ events <= events'
  BY <1>2 DEF TypeOK
<1>8. Sound(o, log, now, events')
  <2>1. ASSUME NEW k \in Keys PROVE Fresh(o, log[k])
    <3>1. \A e \in log[k] : e.id \in Nat /\ e.id <= events
      BY DEF RungInv, LogInv, TypeOK
    <3> QED
      BY <1>4, <1>7, <3>1 DEF Fresh
  <2>2. Follows(o, log[o.key]) /\ Founded(o, log[o.key])
    BY <1>4 DEF Follows, Founded
  <2>3. o.began <= now /\ o.readAt <= now /\ o.id <= events'
    BY <1>2, <1>4, <1>7
  <2> QED
    BY <2>1, <2>2, <2>3 DEF Sound
<1> QED
  BY <1>2, <1>4, <1>6, <1>7, <1>8, RungQuiet

LEMMA RungGates ==
    ASSUME TypeOK, RungInv, NEW r \in Handlers, CheckWhitelist(r)
    PROVE  RungInv'
<1>1. h[r] \in Requests /\ h[r].step = "whitelist" /\ UNCHANGED <<now, events, log, history>>
  BY DEF TypeOK, CheckWhitelist, store
<1>2. CASE Done(r)
  BY <1>1, <1>2, NoRequestType, RungLeaves DEF Done, Calling
<1>3. CASE Goto(r, "permanent")
  <2> DEFINE o == [h[r] EXCEPT !.step = "permanent"]
  <2>1. h' = [h EXCEPT ![r] = o]
    BY <1>3 DEF Goto
  <2>2. /\ o \in Requests /\ o.step = "permanent" /\ o.plan = h[r].plan
        /\ o.readAt = h[r].readAt /\ o.id = h[r].id /\ o.key = h[r].key
        /\ o.began = h[r].began /\ o.flagged = h[r].flagged
    BY <1>1 DEF Requests, Steps
  <2> HIDE DEF o
  <2>3. Sound(h[r], log, now, events) /\ h[r].step \in Calling
    BY <1>1 DEF RungInv, Calling
  <2>4. \A k \in Keys : Fresh(o, log[k])
    BY <1>1, <2>2, <2>3 DEF Sound, Fresh, Ahead
  <2>5. Follows(o, log[o.key])
    <3>1. \A tier : Imposed(h[r], log[h[r].key], tier) => Imposed(o, log[o.key], tier)
      BY <2>2 DEF Imposed
    <3> QED
      BY <1>1, <2>2, <2>3, <3>1 DEF Sound, Follows
  <2>6. Founded(o, log[o.key])
    BY <2>2, <2>3, FoundedSame DEF Sound
  <2>7. Sound(o, log, now, events)
    BY <2>2, <2>3, <2>4, <2>5, <2>6 DEF Sound
  <2>8. events' \in Nat /\ events <= events' /\ now' = now /\ UNCHANGED <<log, history>>
        /\ events' = events
    BY <1>1 DEF TypeOK
  <2>9. Sound(o, log, now, events') /\ Writing(o.step) = 0
    BY <2>2, <2>7, <2>8 DEF Writing
  <2> QED
    BY <2>1, <2>2, <2>3, <2>8, <2>9, RungQuiet
<1> QED
  BY <1>2, <1>3 DEF CheckWhitelist

\* Operators, payments, the clock and a crash leave what is logged.
LEMMA RungElse ==
    ASSUME TypeOK, RungInv,
           Operator \/ Tick \/ Crash \/ (\E c \in Clients : FirstPayment(c)) \/ UNCHANGED vars,
           TypeOK'
    PROVE  RungInv'
<1>1. /\ now \in Nat /\ now' \in Nat /\ events \in Nat /\ events' \in Nat
      /\ now <= now' /\ events <= events' /\ UNCHANGED <<log, history>>
  <2>1. now \in Nat /\ now' \in Nat /\ events \in Nat /\ events' \in Nat
    BY DEF TypeOK
  <2>2. /\ now' = now \/ now' = now + 1
        /\ events' = events \/ events' = events + 1
        /\ UNCHANGED <<log, history>>
    BY DEF Operator, AdminBan, AdminPermanent, AdminClear, AdminRemove, Tick, Crash,
           FirstPayment, Event, vars
  <2> QED
    BY <2>1, <2>2
<1>2. h' = h \/ h' = [r \in Handlers |-> NoRequest]
  BY DEF Operator, AdminBan, AdminPermanent, AdminClear, AdminRemove, Tick, Crash,
         FirstPayment, vars
<1>3. LogInv'
  <2>1. ASSUME NEW k \in Keys, NEW e \in log[k] PROVE e.id <= events'
    <3>1. e.id \in Nat /\ e.id <= events
      BY DEF TypeOK, RungInv, LogInv
    <3> QED
      BY <1>1, <3>1
  <2> QED
    BY <1>1, <2>1 DEF RungInv, LogInv
<1>4. NoRequest.step \notin Calling /\ Writing(NoRequest.step) = 0
  BY NoRequestType DEF Calling, Writing
<1>5. Apart'
  BY <1>2, <1>4 DEF Apart, RungInv
<1>6. ASSUME NEW r \in Handlers PROVE Sound(h'[r], log', now', events')
  <2>1. CASE h' = h
    <3>1. \A k \in Keys : /\ log[k] \subseteq log[k] /\ IsFiniteSet(log[k])
                          /\ \A e \in log[k] \ log[k] : e.id # h[r].id
      BY DEF RungInv, LogInv
    <3>2. h[r] \in Requests /\ Sound(h[r], log, now, events)
      BY DEF TypeOK, RungInv
    <3> DEFINE time == now'
               count == events'
    <3>3. time \in Nat /\ count \in Nat /\ now <= time /\ events <= count
      BY <1>1
    <3> HIDE DEF time, count
    <3>4. Sound(h[r], log, time, count)
      BY <1>1, <3>1, <3>2, <3>3, SoundGrows
    <3> QED
      BY <1>1, <2>1, <3>4 DEF time, count
  <2>2. CASE h' = [x \in Handlers |-> NoRequest]
    BY <1>4, <2>2 DEF Sound
  <2> QED
    BY <1>2, <2>1, <2>2
<1>7. ASSUME NEW k \in Keys PROVE Covered(history'[k], h', log'[k])
  <2>1. /\ IsFiniteSet(log[k]) /\ Covered(history[k], h, log[k])
        /\ history[k] \in Seq(Entries)
    BY DEF RungInv, LogInv, TypeOK, Entries
  <2>2. Written(h, log[k]) \subseteq Written(h', log[k])
    <3>1. CASE h' = h
      BY <3>1
    <3>2. CASE h' = [x \in Handlers |-> NoRequest]
      <4>1. \A e \in log[k] : e.tier # 0
        <5>1. log[k] \subseteq Logs
          BY DEF TypeOK, Logs
        <5> QED
          BY <5>1 DEF Logs
      <4> QED
        BY <1>4, <3>2, <4>1 DEF Written
    <3> QED
      BY <1>2, <3>1, <3>2
  <2> DEFINE next == h'
  <2>3. Written(h, log[k]) \subseteq Written(next, log[k])
    BY <2>2
  <2> HIDE DEF next
  <2>4. Covered(history[k], next, log[k])
    BY <2>1, <2>3, CoveredStays
  <2> QED
    BY <1>1, <2>4 DEF next
<1> QED
  BY <1>3, <1>5, <1>6, <1>7 DEF RungInv

LEMMA RungStep == TypeOK /\ RungInv /\ [Next]_vars => RungInv'
<1> SUFFICES ASSUME TypeOK, RungInv, [Next]_vars PROVE RungInv'
  OBVIOUS
<1>1. TypeOK'
  BY TypeStep
<1>2. ASSUME NEW r \in Handlers, Handle(r) PROVE RungInv'
  BY <1>2, RungChecks, RungOffends, RungReads, RungWrites, RungBans, RungGates
     DEF Handle, Record
<1> QED
  BY <1>1, <1>2, RungElse DEF Next

LEMMA RungInit == Init => RungInv
<1> SUFFICES ASSUME Init PROVE RungInv
  OBVIOUS
<1>1. NoRequest.step \notin Calling
  BY NoRequestType DEF Calling
<1>2. LogInv /\ Apart /\ \A r \in Handlers : Sound(h[r], log, now, events)
  BY <1>1, FS_EmptySet DEF Init, LogInv, Apart, Sound
<1>3. ASSUME NEW k \in Keys PROVE Covered(history[k], h, log[k])
  <2>1. history[k] = <<>> /\ log[k] = {}
    BY DEF Init
  <2>2. \A tier, x : /\ Entered(history[k], tier, x) = {}
                     /\ Since(Written(h, log[k]), tier, x) = {}
    BY <2>1 DEF Entered, Since, Written
  <2>3. Cardinality({}) = 0
    BY FS_EmptySet
  <2> QED
    BY <2>2, <2>3 DEF Covered
<1> QED
  BY <1>2, <1>3 DEF RungInv

\* What has been imposed comes on top of what the others had.
LEMMA OnTop ==
    ASSUME TypeOK, RungInv, NEW r \in Handlers, NEW tier, NEW window \in Nat,
           Imposed(h[r], log[h[r].key], tier)
    PROVE  /\ Cardinality(Others(h[r], log[h[r].key], tier, h[r].readAt - window)) + 1
                <= Had(r, tier, window)
           /\ Had(r, tier, window) \in Nat
           /\ Cardinality(Others(h[r], log[h[r].key], tier, h[r].readAt - window)) \in Nat
<1> DEFINE L == log[h[r].key]
           S == Others(h[r], L, tier, h[r].readAt - window)
           T == {e \in log[h[r].key] : e.tier = tier /\ e.at >= h[r].readAt - window}
<1>1. h[r].readAt \in Nat /\ h[r].key \in Keys /\ IsFiniteSet(L) /\ L \subseteq Logs
  BY DEF TypeOK, Requests, RungInv, LogInv, Logs
<1>2. S \subseteq T /\ T \subseteq L
  BY DEF Others, Since
<1>3. PICK e \in L : e.id = h[r].id /\ e.tier = tier /\ e.at >= h[r].readAt
  BY DEF Imposed
<1>4. e \in T /\ e \notin S
  <2>1. e.at \in Nat
    BY <1>1 DEF Logs
  <2>2. e.at >= h[r].readAt - window
    BY <1>1, <1>3, <2>1
  <2> QED
    BY <1>3, <2>2 DEF Others
<1>5. Had(r, tier, window) = Cardinality(T)
  BY DEF Had
<1> HIDE DEF S, T
<1>6. Cardinality(S) + 1 <= Cardinality(T) /\ Cardinality(S) \in Nat /\ Cardinality(T) \in Nat
  BY <1>1, <1>2, <1>4, CountedWith
<1> QED
  BY <1>5, <1>6 DEF S

\* Every rung is earned, however the calls of recordOffense interleave on the
\* histories they share.
THEOREM RungsAreEarnedHolds == Spec => RungsAreEarned
<1> DEFINE Earned(r) ==
             /\ Takes(r, "ban2", "push2") =>
                  \/ Had(r, 1, FiveMin) >= ThrottlesToSoftBan
                  \/ Had(r, 1, Minute) >= InvalidSigsToSoftBan
             /\ Takes(r, "ban3", "push3") =>
                  h[r].flagged \/ Had(r, 2, OneDay) >= SoftBansToHardBan
             /\ Takes(r, "permanent", "push4") =>
                  Had(r, 3, SevenDays) >= HardBansToPermanent
           Rungs == \A r \in Handlers : Earned(r)
<1>1. ASSUME TypeOK, RungInv, NEW r \in Handlers PROVE Earned(r)
  <2>1. Sound(h[r], log, now, events)
    BY <1>1 DEF RungInv
  <2>2. h[r].step \in {"ban2", "ban3", "permanent"} =>
          Follows(h[r], log[h[r].key]) /\ Founded(h[r], log[h[r].key])
    BY <2>1 DEF Sound, Calling
  <2>3. CASE h[r].step = "ban2"
    <3>1. \A window : Had(r, 1, window) = Cardinality(Since(log[h[r].key], 1, h[r].readAt - window))
      BY DEF Had, Since
    <3>2. \/ Had(r, 1, FiveMin) >= ThrottlesToSoftBan
          \/ Had(r, 1, Minute) >= InvalidSigsToSoftBan
      BY <2>2, <2>3, <3>1 DEF Follows, Founded
    <3> QED
      BY <2>3, <3>2 DEF Takes
  <2>4. CASE h[r].step = "ban3"
    <3> SUFFICES ASSUME ~h[r].flagged PROVE Had(r, 2, OneDay) >= SoftBansToHardBan
      BY <2>4 DEF Takes
    <3> DEFINE n == Cardinality(Others(h[r], log[h[r].key], 2, h[r].readAt - OneDay))
    <3>1. "soft" \in h[r].plan /\ n + 1 >= SoftBansToHardBan
      BY <2>2, <2>4 DEF Follows, Founded
    <3>2. Imposed(h[r], log[h[r].key], 2)
      BY <2>2, <2>4, <3>1 DEF Follows
    <3>3. OneDay \in Nat /\ SoftBansToHardBan \in Nat
      BY EnforcementAssumption
    <3>4. n + 1 <= Had(r, 2, OneDay) /\ Had(r, 2, OneDay) \in Nat /\ n \in Nat
      BY <1>1, <3>2, <3>3, OnTop
    <3> HIDE DEF n
    <3> QED
      BY <3>1, <3>3, <3>4
  <2>5. CASE h[r].step = "permanent"
    <3> DEFINE n == Cardinality(Others(h[r], log[h[r].key], 3, h[r].readAt - SevenDays))
    <3>1. n + 1 >= HardBansToPermanent
      BY <2>2, <2>5 DEF Follows, Founded
    <3>2. Imposed(h[r], log[h[r].key], 3)
      BY <2>2, <2>5 DEF Follows
    <3>3. SevenDays \in Nat /\ HardBansToPermanent \in Nat
      BY EnforcementAssumption
    <3>4. n + 1 <= Had(r, 3, SevenDays) /\ Had(r, 3, SevenDays) \in Nat /\ n \in Nat
      BY <1>1, <3>2, <3>3, OnTop
    <3> HIDE DEF n
    <3>5. Had(r, 3, SevenDays) >= HardBansToPermanent
      BY <3>1, <3>3, <3>4
    <3> QED
      BY <2>5, <3>5 DEF Takes
  <2>6. CASE h[r].step \notin {"ban2", "ban3", "permanent"}
    BY <2>6 DEF Takes
  <2> QED
    BY <2>3, <2>4, <2>5, <2>6
<1>2. TypeOK /\ RungInv => Rungs
  BY <1>1
<1>3. Spec => [](TypeOK /\ RungInv)
  BY TypeInit, TypeStep, RungInit, RungStep, PTL DEF Spec
<1>4. Spec => [][Rungs]_vars
  BY <1>2, <1>3, PTL
<1> QED
  BY <1>4 DEF RungsAreEarned
-----------------------------------------------------------------------------
(* The ban check, wired as the tests of the bridge wire it: then only       *)
(* addresses and pubkeys are banned.  Of the bans that have held against a  *)
(* request since it arrived, those on keys already looked up are none.      *)

Addressable(k) == k[1] \in {"ip", "pk"}

\* The keys that a request in the ban check has not been let pass for.
ToCheck(o) == IF o.hinted THEN {o.key, <<"pk", o.client>>} ELSE {o.key}

\* What bans of b may stand against a request that is at o.
Standing(o, b, bans, perm) ==
    IF o.step \in {"isPermanent", "getBan"}
    THEN /\ o.key = <<"ip", o.client>> \/ (o.hinted /\ o.key = <<"pk", o.client>>)
         /\ \A x \in b : /\ x[1] \in ToCheck(o)
                         /\ x[2] = "timed" => bans[x[1]] # NoBan
                         /\ x[2] = "permanent" => x[1] \in perm
         /\ o.step = "getBan" => <<o.key, "permanent">> \notin b
    ELSE b = {}

BannedKeys == \A k \in Keys : ban[k] # NoBan \/ k \in permanent => Addressable(k)

BarInv ==
    /\ BannedKeys
    /\ \A r \in Handlers : h[r].step \in Calling => Addressable(h[r].key)
    /\ \A r \in Handlers : Standing(h[r], barred[r], ban, permanent)

Verdicts == Keys \X {"timed", "permanent"}

LEMMA VerdictIs ==
    ASSUME NEW x \in Verdicts
    PROVE  x[1] \in Keys /\ x[2] \in {"timed", "permanent"} /\ x = <<x[1], x[2]>>
BY DEF Verdicts

\* The second await of checkBan leaves nothing that holds under its key.
LEMMA NoneLeft ==
    ASSUME NEW o, NEW b \in SUBSET Verdicts, NEW bans, NEW perm,
           Standing(o, b, bans, perm), o.step = "getBan", bans[o.key] = NoBan
    PROVE  \A x \in b : x[1] # o.key
<1> SUFFICES ASSUME NEW x \in b, x[1] = o.key PROVE FALSE
  OBVIOUS
<1>1. x \in Verdicts
  OBVIOUS
<1>2. x[2] \in {"timed", "permanent"} /\ x = <<o.key, x[2]>>
  BY <1>1, VerdictIs
<1>3. x[2] = "timed" => bans[x[1]] # NoBan
  BY DEF Standing
<1>4. <<o.key, "permanent">> \notin b
  BY DEF Standing
<1> QED
  BY <1>2, <1>3, <1>4

\* Bans that are lifted stand against nobody; other changes are bans more.
LEMMA StandingStays ==
    ASSUME NEW o, NEW b \in SUBSET Verdicts, NEW bans, NEW perm, Standing(o, b, bans, perm),
           NEW c \in SUBSET b, NEW bans2, NEW perm2,
           \A x \in c : /\ x[2] = "timed" /\ bans[x[1]] # NoBan => bans2[x[1]] # NoBan
                        /\ x[2] = "permanent" /\ x[1] \in perm => x[1] \in perm2
    PROVE  Standing(o, c, bans2, perm2)
BY DEF Standing

\* Against an arriving request stand the bans on its address and hinted key.
LEMMA AgainstStands ==
    ASSUME TypeOK, BannedKeys, NEW c \in Clients, NEW hinted \in BOOLEAN,
           NEW o, o.step = "isPermanent", o.key = <<"ip", c>>, o.client = c, o.hinted = hinted
    PROVE  Standing(o, Against(c, hinted), ban, permanent)
<1> DEFINE keys == (IF hinted THEN Scopes ELSE {"ip", "rl:ip"}) \X {c}
<1>1. ASSUME NEW k \in keys, ban[k] # NoBan \/ k \in permanent PROVE k \in ToCheck(o)
  <2>1. k \in Keys
    BY DEF Keys, Scopes
  <2>2. Addressable(k)
    BY <1>1, <2>1 DEF BannedKeys
  <2>3. k = <<k[1], c>> /\ k[1] \in {"ip", "pk"} /\ (k[1] = "pk" => hinted)
    BY <2>2 DEF Addressable
  <2> QED
    BY <2>3 DEF ToCheck
<1>2. ASSUME NEW x \in Against(c, hinted)
      PROVE  \/ \E k \in keys : x = <<k, "timed">> /\ ban[k] # NoBan
             \/ \E k \in keys : x = <<k, "permanent">> /\ k \in permanent
  BY DEF Against
<1> HIDE DEF keys
<1>3. ASSUME NEW x \in Against(c, hinted)
      PROVE  /\ x[1] \in ToCheck(o)
             /\ x[2] = "timed" => ban[x[1]] # NoBan
             /\ x[2] = "permanent" => x[1] \in permanent
  <2>1. CASE \E k \in keys : x = <<k, "timed">> /\ ban[k] # NoBan
    <3>1. PICK k \in keys : x = <<k, "timed">> /\ ban[k] # NoBan
      BY <2>1
    <3>2. x[1] = k /\ x[2] = "timed"
      BY <3>1
    <3> QED
      BY <1>1, <3>1, <3>2
  <2>2. CASE \E k \in keys : x = <<k, "permanent">> /\ k \in permanent
    <3>1. PICK k \in keys : x = <<k, "permanent">> /\ k \in permanent
      BY <2>2
    <3>2. x[1] = k /\ x[2] = "permanent"
      BY <3>1
    <3> QED
      BY <1>1, <3>1, <3>2
  <2> QED
    BY <1>2, <2>1, <2>2
<1> QED
  BY <1>3 DEF Standing

LEMMA BarredType ==
    ASSUME TypeOK, NEW r \in Handlers
    PROVE  barred[r] \in SUBSET Verdicts
BY DEF TypeOK, Verdicts

\* Request r becomes o with verdicts b, and no ban is lifted.
LEMMA BarMoves ==
    ASSUME TypeOK, BarInv, NEW r \in Handlers, NEW o,
           h' = [h EXCEPT ![r] = o], \A x \in Handlers : x # r => barred'[x] = barred[x],
           BannedKeys',
           \A k \in Keys : ban[k] # NoBan => ban'[k] # NoBan, permanent \subseteq permanent',
           o.step \in Calling => Addressable(o.key),
           Standing(o, barred'[r], ban', permanent')
    PROVE  BarInv'
<1>1. \A x \in Handlers : h'[x] = IF x = r THEN o ELSE h[x]
  BY DEF TypeOK
<1>2. ASSUME NEW x \in Handlers PROVE Standing(h'[x], barred'[x], ban', permanent')
  <2>1. CASE x = r
    BY <1>1, <2>1
  <2>2. CASE x # r
    <3> DEFINE bans == ban'
               perm == permanent'
               b == barred[x]
    <3>1. b \in SUBSET Verdicts /\ b \in SUBSET b /\ Standing(h[x], b, ban, permanent)
      BY BarredType DEF BarInv
    <3>2. \A y \in b : /\ y[2] = "timed" /\ ban[y[1]] # NoBan => bans[y[1]] # NoBan
                       /\ y[2] = "permanent" /\ y[1] \in permanent => y[1] \in perm
      <4> SUFFICES ASSUME NEW y \in b
                   PROVE  /\ ban[y[1]] # NoBan => bans[y[1]] # NoBan
                          /\ y[1] \in permanent => y[1] \in perm
        OBVIOUS
      <4>1. y[1] \in Keys
        BY <3>1, VerdictIs
      <4> QED
        BY <4>1
    <3> HIDE DEF bans, perm, b
    <3>3. Standing(h[x], b, bans, perm)
      BY <3>1, <3>2, StandingStays
    <3> QED
      BY <1>1, <2>2, <3>3 DEF bans, perm, b
  <2> QED
    BY <2>1, <2>2
<1>3. \A x \in Handlers : h'[x].step \in Calling => Addressable(h'[x].key)
  BY <1>1 DEF BarInv
<1> QED
  BY <1>2, <1>3 DEF BarInv

\* A request that is past the check, or gone.
LEMMA BarPasses ==
    ASSUME TypeOK, BarInv, NEW r \in Handlers, NEW o, o.step \notin {"isPermanent", "getBan"},
           h' = [h EXCEPT ![r] = o], barred' = [barred EXCEPT ![r] = {}] \/ UNCHANGED barred,
           UNCHANGED barred => barred[r] = {},
           o.step \in Calling => Addressable(o.key),
           BannedKeys',
           \A k \in Keys : ban[k] # NoBan => ban'[k] # NoBan, permanent \subseteq permanent'
    PROVE  BarInv'
<1>1. /\ barred'[r] = {}
      /\ \A x \in Handlers : x # r => barred'[x] = barred[x]
  BY DEF TypeOK
<1>2. Standing(o, barred'[r], ban', permanent')
  BY <1>1 DEF Standing
<1> QED
  BY <1>1, <1>2, BarMoves

LEMMA BarChecks ==
    ASSUME TypeOK, BarInv, NEW r \in Handlers,
           \/ \E c \in Clients, hinted \in BOOLEAN : Arrive(r, c, hinted)
           \/ CheckPermanent(r) \/ CheckTimed(r) \/ Behave(r)
    PROVE  BarInv'
<1>1. /\ h[r] \in Requests /\ barred[r] \in SUBSET Verdicts
      /\ Standing(h[r], barred[r], ban, permanent)
      /\ barred \in [Handlers -> SUBSET Verdicts]
  BY BarredType DEF TypeOK, BarInv, Verdicts
<1>2. UNCHANGED <<ban, permanent>>
  BY DEF Arrive, CheckPermanent, CheckTimed, Behave, store
<1>3. /\ BannedKeys'
      /\ \A k \in Keys : ban[k] # NoBan => ban'[k] # NoBan
      /\ permanent \subseteq permanent'
  BY <1>2 DEF BarInv, BannedKeys
<1>4. ASSUME Done(r), barred' = [barred EXCEPT ![r] = {}] \/ UNCHANGED barred,
             UNCHANGED barred => barred[r] = {}
      PROVE  BarInv'
  BY <1>3, <1>4, NoRequestType, BarPasses DEF Done, Calling
<1>5. ASSUME NEW c \in Clients, NEW hinted \in BOOLEAN, Arrive(r, c, hinted) PROVE BarInv'
  <2> DEFINE o == [NoRequest EXCEPT !.step = "isPermanent", !.client = c,
                                    !.hinted = hinted, !.key = <<"ip", c>>]
  <2>1. h' = [h EXCEPT ![r] = o] /\ barred' = [barred EXCEPT ![r] = Against(c, hinted)]
    BY <1>5 DEF Arrive
  <2>2. DOMAIN NoRequest = {"step", "client", "hinted", "key", "signature", "band",
                            "flagged", "paidAt", "began", "readAt", "plan", "id"}
    BY DEF NoRequest
  <2>3. o.step = "isPermanent" /\ o.key = <<"ip", c>> /\ o.client = c /\ o.hinted = hinted
    BY <2>2
  <2> HIDE DEF o
  <2>4. Standing(o, Against(c, hinted), ban, permanent)
    BY <2>3, AgainstStands DEF BarInv
  <2>5. /\ barred'[r] = Against(c, hinted)
        /\ \A x \in Handlers : x # r => barred'[x] = barred[x]
    BY <1>1, <2>1
  <2>6. Standing(o, barred'[r], ban', permanent')
    BY <1>2, <2>4, <2>5
  <2>7. o.step \notin Calling
    BY <2>3 DEF Calling
  <2> QED
    BY <1>3, <2>1, <2>5, <2>6, <2>7, BarMoves
<1>6. CASE CheckPermanent(r)
  <2>1. CASE h[r].key \in permanent
    <3>1. Done(r) /\ barred' = [barred EXCEPT ![r] = {}]
      BY <1>6, <2>1 DEF CheckPermanent
    <3>2. UNCHANGED barred => barred[r] = {}
      BY <1>1, <3>1
    <3> QED
      BY <1>4, <3>1, <3>2
  <2>2. CASE h[r].key \notin permanent
    <3> DEFINE o == [h[r] EXCEPT !.step = "getBan"]
    <3>1. h' = [h EXCEPT ![r] = o] /\ UNCHANGED barred /\ h[r].step = "isPermanent"
      BY <1>6, <2>2 DEF CheckPermanent, Goto
    <3>2. o.step = "getBan" /\ o.key = h[r].key /\ o.client = h[r].client /\ o.hinted = h[r].hinted
      BY <1>1 DEF Requests
    <3> HIDE DEF o
    <3>3. <<h[r].key, "permanent">> \notin barred[r]
      <4> SUFFICES ASSUME <<h[r].key, "permanent">> \in barred[r] PROVE FALSE
        OBVIOUS
      <4> DEFINE x == <<h[r].key, "permanent">>
      <4>1. x \in barred[r] /\ x[1] = h[r].key /\ x[2] = "permanent"
        OBVIOUS
      <4> HIDE DEF x
      <4>2. x[1] \in permanent
        BY <1>1, <3>1, <4>1 DEF Standing
      <4> QED
        BY <2>2, <4>1, <4>2
    <3>4. ToCheck(o) = ToCheck(h[r])
      BY <3>2 DEF ToCheck
    <3>5. Standing(o, barred[r], ban, permanent)
      BY <1>1, <3>1, <3>2, <3>3, <3>4 DEF Standing
    <3>6. Standing(o, barred'[r], ban', permanent') /\ o.step \notin Calling
      BY <1>2, <3>1, <3>2, <3>5 DEF Calling
    <3>7. \A x \in Handlers : x # r => barred'[x] = barred[x]
      BY <3>1
    <3> QED
      BY <1>3, <3>1, <3>6, <3>7, BarMoves
  <2> QED
    BY <2>1, <2>2
<1>7. CASE CheckTimed(r)
  <2>1. CASE ban[h[r].key] # NoBan
    <3>1. Done(r) /\ barred' = [barred EXCEPT ![r] = {}]
      BY <1>7, <2>1 DEF CheckTimed
    <3>2. UNCHANGED barred => barred[r] = {}
      BY <1>1, <3>1
    <3> QED
      BY <1>4, <3>1, <3>2
  <2>2. CASE ban[h[r].key] = NoBan /\ h[r].hinted /\ h[r].key[1] = "ip"
    <3> DEFINE o == [h[r] EXCEPT !.key = <<"pk", h[r].client>>, !.step = "isPermanent"]
    <3>1. h' = [h EXCEPT ![r] = o] /\ UNCHANGED barred /\ h[r].step = "getBan"
      BY <1>7, <2>2 DEF CheckTimed, TypeOK
    <3>2. /\ o.step = "isPermanent" /\ o.key = <<"pk", h[r].client>> /\ o.client = h[r].client
          /\ o.hinted = h[r].hinted
      BY <1>1 DEF Requests
    <3> HIDE DEF o
    <3>3. \A x \in barred[r] : x[1] # h[r].key
      BY <1>1, <2>2, <3>1, NoneLeft
    <3>4. \A x \in barred[r] : /\ x[1] \in ToCheck(h[r])
                               /\ x[2] = "timed" => ban[x[1]] # NoBan
                               /\ x[2] = "permanent" => x[1] \in permanent
      BY <1>1, <3>1 DEF Standing
    <3>5. \A x \in barred[r] : x[1] \in ToCheck(o)
      BY <2>2, <3>2, <3>3, <3>4 DEF ToCheck
    <3>6. Standing(o, barred[r], ban, permanent)
      BY <2>2, <3>2, <3>4, <3>5 DEF Standing
    <3>7. Standing(o, barred'[r], ban', permanent') /\ o.step \notin Calling
      BY <1>2, <3>1, <3>2, <3>6 DEF Calling
    <3>8. \A x \in Handlers : x # r => barred'[x] = barred[x]
      BY <3>1
    <3> QED
      BY <1>3, <3>1, <3>7, <3>8, BarMoves
  <2>3. CASE ban[h[r].key] = NoBan /\ ~(h[r].hinted /\ h[r].key[1] = "ip")
    <3> DEFINE o == [h[r] EXCEPT !.step = "served"]
    <3>1. h' = [h EXCEPT ![r] = o] /\ barred' = [barred EXCEPT ![r] = {}]
      BY <1>7, <2>3 DEF CheckTimed, Goto
    <3>2. o.step = "served"
      BY <1>1 DEF Requests
    <3> HIDE DEF o
    <3>3. UNCHANGED barred => barred[r] = {}
      BY <1>1, <3>1
    <3>4. o.step \notin {"isPermanent", "getBan"} /\ o.step \notin Calling
      BY <3>2 DEF Calling
    <3> QED
      BY <1>3, <3>1, <3>3, <3>4, BarPasses
  <2> QED
    BY <2>1, <2>2, <2>3
<1>8. CASE Behave(r)
  <2>1. Done(r) /\ UNCHANGED barred /\ barred[r] = {}
    BY <1>1, <1>8 DEF Behave, Standing
  <2> QED
    BY <1>4, <2>1
<1> QED
  BY <1>5, <1>6, <1>7, <1>8

\* Offenses are recorded under addresses and pubkeys.
LEMMA BarOffends ==
    ASSUME KeyFromReq = "client", TypeOK, BarInv, NEW r \in Handlers, Offense(r)
    PROVE  BarInv'
<1>1. \E key, signature, band, flagged, paidAt :
        Offend(r, key, signature, band, flagged, paidAt) /\ Addressable(key)
  <2>1. \A c : Addressable(<<"ip", c>>) /\ Addressable(<<"pk", c>>)
    BY DEF Addressable
  <2>2. \A dimension \in {"ip", "pk"} : \A c : Addressable(OffenderKey(dimension, c))
    BY <2>1 DEF OffenderKey
  <2>3. CASE InvalidSignature(r)
    BY <2>1, <2>3 DEF InvalidSignature
  <2>4. CASE OtherOffense(r)
    BY <2>1, <2>4 DEF OtherOffense
  <2>5. ASSUME NEW band, HintMismatch(r, band) PROVE <1>1!:
    BY <2>1, <2>5 DEF HintMismatch
  <2>6. ASSUME NEW dimension \in {"ip", "pk"}, NEW band, NEW flagged,
               RateLimited(r, dimension, band, flagged)
        PROVE  <1>1!:
    BY <2>2, <2>6 DEF RateLimited
  <2> QED
    BY <2>3, <2>4, <2>5, <2>6 DEF Offense
<1>2. PICK key, signature, band, flagged, paidAt :
        Offend(r, key, signature, band, flagged, paidAt) /\ Addressable(key)
  BY <1>1
<1> DEFINE o == [NoRequest EXCEPT !.step = "push1", !.key = key, !.began = now,
                                  !.signature = signature, !.band = band,
                                  !.flagged = flagged, !.paidAt = paidAt,
                                  !.id = events + 1]
<1>3. /\ h[r].step = "served" /\ h' = [h EXCEPT ![r] = o]
      /\ UNCHANGED <<ban, permanent, barred>>
  BY <1>2 DEF Offend, store
<1>4. DOMAIN NoRequest = {"step", "client", "hinted", "key", "signature", "band",
                          "flagged", "paidAt", "began", "readAt", "plan", "id"}
  BY DEF NoRequest
<1>5. o.step = "push1" /\ Addressable(o.key)
  BY <1>2, <1>4
<1> HIDE DEF o
<1>6. barred[r] = {}
  BY <1>3 DEF BarInv, Standing
<1>7. /\ BannedKeys' /\ permanent \subseteq permanent'
      /\ \A k \in Keys : ban[k] # NoBan => ban'[k] # NoBan
  BY <1>3 DEF BarInv, BannedKeys
<1>8. o.step \notin {"isPermanent", "getBan"}
  BY <1>5
<1> QED
  BY <1>3, <1>5, <1>6, <1>7, <1>8, BarPasses

\* A call bans the key it records under.
LEMMA BarRecords ==
    ASSUME TypeOK, BarInv, NEW r \in Handlers, Record(r)
    PROVE  BarInv'
<1>1. /\ h[r] \in Requests /\ h[r].step \in Calling /\ UNCHANGED barred
  BY DEF TypeOK, Record, PushHistory, ReadHistory, SetBan, CheckWhitelist, AddPermanent, Calling
<1>2. /\ Addressable(h[r].key) /\ h[r].key \in Keys
      /\ barred[r] = {}
  BY <1>1 DEF BarInv, Standing, Calling, Requests
<1>3. /\ BannedKeys' /\ permanent \subseteq permanent'
      /\ \A k \in Keys : ban[k] # NoBan => ban'[k] # NoBan
  <2>1. CASE UNCHANGED <<ban, permanent>>
    BY <2>1 DEF BarInv, BannedKeys
  <2>2. CASE SetBan(r)
    <3> DEFINE until == now + (IF h[r].step = "ban2" THEN SoftBanFor ELSE HardBanFor)
    <3>1. ban' = [ban EXCEPT ![h[r].key] = until] /\ UNCHANGED permanent
      BY <2>2 DEF SetBan
    <3>2. until # NoBan
      <4>1. now \in Nat /\ SoftBanFor \in Nat /\ HardBanFor \in Nat
        BY EnforcementAssumption DEF TypeOK
      <4>2. until \in Nat
        BY <4>1
      <4> HIDE DEF until
      <4> QED
        BY <4>2 DEF NoBan
    <3> HIDE DEF until
    <3>3. \A k \in Keys : ban'[k] = IF k = h[r].key THEN until ELSE ban[k]
      BY <3>1 DEF TypeOK
    <3> QED
      BY <1>2, <3>1, <3>2, <3>3 DEF BarInv, BannedKeys
  <2>3. CASE AddPermanent(r)
    BY <1>2, <2>3 DEF AddPermanent, BarInv, BannedKeys
  <2> QED
    BY <2>1, <2>2, <2>3 DEF Record, PushHistory, ReadHistory, CheckWhitelist, store
<1>4. ASSUME NEW o \in Requests, Proceed(r, o), o.key = h[r].key PROVE BarInv'
  <2>1. PICK p \in Requests :
          /\ h' = [h EXCEPT ![r] = p] /\ p.step = After(o.step, o.plan)
          /\ p.step \in Calling => p.key = o.key
    BY <1>4, ProceedIs
  <2>2. p.step \notin {"isPermanent", "getBan"}
    BY <2>1 DEF After
  <2> QED
    BY <1>1, <1>2, <1>3, <1>4, <2>1, <2>2, BarPasses
<1>5. CASE PushHistory(r)
  <2>1. [h[r] EXCEPT !.signature = FALSE] \in Requests
        /\ [h[r] EXCEPT !.signature = FALSE].key = h[r].key
    BY <1>1 DEF Requests
  <2> QED
    BY <1>4, <1>5, <2>1 DEF PushHistory
<1>6. CASE ReadHistory(r)
  <2> DEFINE plan == Plan(h[r], Summary(history[h[r].key]))
  <2>1. plan \in SUBSET {"soft", "hard", "promote"} /\ now \in Nat
    BY DEF Plan, TypeOK
  <2>2. Proceed(r, [h[r] EXCEPT !.plan = plan, !.readAt = now])
    BY <1>6 DEF ReadHistory
  <2> HIDE DEF plan
  <2>3. [h[r] EXCEPT !.plan = plan, !.readAt = now] \in Requests
        /\ [h[r] EXCEPT !.plan = plan, !.readAt = now].key = h[r].key
    BY <1>1, <2>1 DEF Requests
  <2> QED
    BY <1>4, <2>2, <2>3
<1>7. CASE SetBan(r) \/ AddPermanent(r)
  BY <1>1, <1>4, <1>7 DEF SetBan, AddPermanent
<1>8. CASE CheckWhitelist(r)
  <2>1. CASE Done(r)
    BY <1>1, <1>2, <1>3, <2>1, NoRequestType, BarPasses DEF Done, Calling
  <2>2. CASE Goto(r, "permanent")
    <3> DEFINE o == [h[r] EXCEPT !.step = "permanent"]
    <3>1. h' = [h EXCEPT ![r] = o] /\ o.step = "permanent" /\ o.key = h[r].key
      BY <1>1, <2>2 DEF Goto, Requests
    <3> HIDE DEF o
    <3> QED
      BY <1>1, <1>2, <1>3, <3>1, BarPasses
  <2> QED
    BY <1>8, <2>1, <2>2 DEF CheckWhitelist
<1> QED
  BY <1>5, <1>6, <1>7, <1>8 DEF Record

\* Operators ban what can be banned, and what they or the clock lift stands
\* against nobody any more.
LEMMA BarElse ==
    ASSUME TypeOK, BarInv,
           Operator \/ Tick \/ (\E c \in Clients : FirstPayment(c)) \/ UNCHANGED vars
    PROVE  BarInv'
<1>1. UNCHANGED h
  BY DEF Operator, AdminBan, AdminPermanent, AdminClear, AdminRemove, Tick, FirstPayment, vars
<1>2. /\ now \in Nat /\ ban \in [Keys -> Nat \cup {NoBan}] /\ NoBan \notin Nat
      /\ barred \in [Handlers -> SUBSET Verdicts]
      /\ \A k \in AdminKeys : k \in Keys /\ Addressable(k)
  BY DEF TypeOK, NoBan, Verdicts, AdminKeys, Keys, Scopes, Addressable
\* What a step of these does to the bans.
<1> DEFINE Changes ==
             /\ BannedKeys'
             /\ \A r \in Handlers : barred'[r] \subseteq barred[r]
             /\ \A r \in Handlers : \A x \in barred'[r] :
                  /\ x[2] = "timed" /\ ban[x[1]] # NoBan => ban'[x[1]] # NoBan
                  /\ x[2] = "permanent" /\ x[1] \in permanent => x[1] \in permanent'
<1>3. ASSUME UNCHANGED <<ban, permanent, barred>> PROVE Changes
  BY <1>3 DEF BarInv, BannedKeys
<1>4. ASSUME NEW k \in AdminKeys, NEW duration \in AdminTtls, AdminBan(k, duration) PROVE Changes
  <2> DEFINE until == now + duration
  <2>1. ban' = [ban EXCEPT ![k] = until] /\ UNCHANGED <<permanent, barred>>
    BY <1>4 DEF AdminBan
  <2>2. until # NoBan
    <3>1. duration \in Nat
      BY EnforcementAssumption
    <3>2. until \in Nat
      BY <1>2, <3>1
    <3> HIDE DEF until
    <3> QED
      BY <1>2, <3>2
  <2> HIDE DEF until
  <2>3. \A x \in Keys : ban'[x] = IF x = k THEN until ELSE ban[x]
    BY <1>2, <2>1
  <2>4. \A r \in Handlers : \A x \in barred[r] : x[1] \in Keys
    BY <1>2, VerdictIs
  <2> QED
    BY <1>2, <2>1, <2>2, <2>3, <2>4 DEF BarInv, BannedKeys
<1>5. ASSUME NEW k \in AdminKeys, AdminPermanent(k) PROVE Changes
  BY <1>2, <1>5 DEF AdminPermanent, BarInv, BannedKeys
<1>6. ASSUME NEW S, Lifted(S)
      PROVE  \A r \in Handlers : barred'[r] = barred[r] \ S
  BY <1>6 DEF Lifted
<1>7. ASSUME NEW k \in AdminKeys, AdminClear(k) PROVE Changes
  <2>1. ban' = [ban EXCEPT ![k] = NoBan] /\ UNCHANGED permanent /\ Lifted({<<k, "timed">>})
    BY <1>7 DEF AdminClear
  <2>2. \A r \in Handlers : barred'[r] = barred[r] \ {<<k, "timed">>}
    BY <1>6, <2>1
  <2>3. \A x \in Keys : ban'[x] = IF x = k THEN NoBan ELSE ban[x]
    BY <1>2, <2>1
  <2>4. ASSUME NEW r \in Handlers, NEW x \in barred'[r], x[2] = "timed"
        PROVE  x[1] \in Keys /\ x[1] # k
    <3>1. x \in Verdicts /\ x # <<k, "timed">>
      BY <1>2, <2>2
    <3> QED
      BY <2>4, <3>1, VerdictIs
  <2> QED
    BY <2>1, <2>2, <2>3, <2>4 DEF BarInv, BannedKeys
<1>8. ASSUME NEW k \in AdminKeys, AdminRemove(k) PROVE Changes
  <2>1. permanent' = permanent \ {k} /\ UNCHANGED ban /\ Lifted({<<k, "permanent">>})
    BY <1>8 DEF AdminRemove
  <2>2. \A r \in Handlers : barred'[r] = barred[r] \ {<<k, "permanent">>}
    BY <1>6, <2>1
  <2>3. ASSUME NEW r \in Handlers, NEW x \in barred'[r], x[2] = "permanent"
        PROVE  x[1] # k
    <3>1. x \in Verdicts /\ x # <<k, "permanent">>
      BY <1>2, <2>2
    <3> QED
      BY <2>3, <3>1, VerdictIs
  <2> QED
    BY <2>1, <2>2, <2>3 DEF BarInv, BannedKeys
<1>9. ASSUME Tick PROVE Changes
  <2>1. /\ ban' = [k \in Keys |-> IF k \in Expired THEN NoBan ELSE ban[k]]
        /\ UNCHANGED permanent /\ Lifted(Expired \X {"timed"})
    BY <1>9 DEF Tick
  <2>2. \A r \in Handlers : barred'[r] = barred[r] \ (Expired \X {"timed"})
    BY <1>6, <2>1
  <2>3. ASSUME NEW r \in Handlers, NEW x \in barred'[r], x[2] = "timed"
        PROVE  x[1] \in Keys /\ x[1] \notin Expired
    <3>1. x \in Verdicts /\ x \notin Expired \X {"timed"}
      BY <1>2, <2>2
    <3>2. x[1] \in Keys /\ x = <<x[1], x[2]>>
      BY <3>1, VerdictIs
    <3> QED
      BY <2>3, <3>1, <3>2
  <2> HIDE DEF Expired
  <2>4. \A k \in Keys : ban'[k] = IF k \in Expired THEN NoBan ELSE ban[k]
    BY <2>1
  <2> QED
    BY <2>1, <2>2, <2>3, <2>4 DEF BarInv, BannedKeys
<1>10. Changes
  <2>1. (\E c \in Clients : FirstPayment(c)) \/ UNCHANGED vars => UNCHANGED <<ban, permanent, barred>>
    BY DEF FirstPayment, vars
  <2> HIDE DEF Changes
  <2> QED
    BY <1>3, <1>4, <1>5, <1>7, <1>8, <1>9, <2>1 DEF Operator
<1>11. ASSUME NEW r \in Handlers PROVE Standing(h'[r], barred'[r], ban', permanent')
  <2> DEFINE b == barred[r]
             c == barred'[r]
             bans == ban'
             perm == permanent'
  <2>1. /\ b \in SUBSET Verdicts /\ c \in SUBSET b /\ Standing(h[r], b, ban, permanent)
        /\ \A x \in c : /\ x[2] = "timed" /\ ban[x[1]] # NoBan => bans[x[1]] # NoBan
                        /\ x[2] = "permanent" /\ x[1] \in permanent => x[1] \in perm
    BY <1>10, BarredType DEF BarInv
  <2> HIDE DEF b, c, bans, perm
  <2>2. Standing(h[r], c, bans, perm)
    BY <2>1, StandingStays
  <2> QED
    BY <1>1, <2>2 DEF c, bans, perm
<1> QED
  BY <1>1, <1>10, <1>11 DEF BarInv

LEMMA BarCrashes == ASSUME TypeOK, BarInv, Crash PROVE BarInv'
<1>1. /\ h' = [r \in Handlers |-> NoRequest] /\ barred' = [r \in Handlers |-> {}]
      /\ UNCHANGED <<ban, permanent>>
  BY DEF Crash
<1> QED
  BY <1>1, NoRequestType DEF BarInv, BannedKeys, Standing, Calling

LEMMA BarStep == KeyFromReq = "client" => (TypeOK /\ BarInv /\ [Next]_vars => BarInv')
<1> SUFFICES ASSUME KeyFromReq = "client", TypeOK, BarInv, [Next]_vars PROVE BarInv'
  OBVIOUS
<1>1. ASSUME NEW r \in Handlers, Handle(r) PROVE BarInv'
  BY <1>1, BarChecks, BarOffends, BarRecords DEF Handle
<1> QED
  BY <1>1, BarElse, BarCrashes DEF Next

LEMMA BarInit == Init => BarInv
BY NoRequestType DEF Init, BarInv, BannedKeys, Standing, Calling

\* Only the second await of the check lets a request pass.
LEMMA PassesByCheck ==
    ASSUME TypeOK, NEW r \in Handlers, Next, Takes(r, "getBan", "served")
    PROVE  CheckTimed(r)
<1>1. h \in [Handlers -> Requests] /\ h[r].step = "getBan" /\ h'[r].step = "served"
  BY DEF TypeOK, Takes
<1>2. NoRequest.step # "served" /\ DOMAIN NoRequest =
        {"step", "client", "hinted", "key", "signature", "band",
         "flagged", "paidAt", "began", "readAt", "plan", "id"}
  BY NoRequestType DEF NoRequest
<1>3. h' # h /\ ~Crash
  BY <1>1, <1>2 DEF Crash
<1>4. ~Operator /\ ~Tick /\ ~ \E c \in Clients : FirstPayment(c)
  BY <1>3 DEF Operator, AdminBan, AdminPermanent, AdminClear, AdminRemove, Tick, FirstPayment
<1>5. PICK x \in Handlers : Handle(x)
  BY <1>3, <1>4 DEF Next
<1>6. h'[r] # h[r]
  BY <1>1
<1>7. CASE x = r
  <2>1. ~Offense(r)
    BY <1>1 DEF Offense, RateLimited, InvalidSignature, OtherOffense, HintMismatch, Offend
  <2>2. ~Record(r)
    BY <1>1 DEF Record, PushHistory, ReadHistory, SetBan, CheckWhitelist, AddPermanent
  <2>3. ~CheckPermanent(r) /\ ~Behave(r) /\ ~ \E c \in Clients, hinted \in BOOLEAN : Arrive(r, c, hinted)
    BY <1>1 DEF CheckPermanent, Behave, Arrive
  <2> QED
    BY <1>5, <1>7, <2>1, <2>2, <2>3 DEF Handle
<1>8. CASE x # r
  <2>1. \A o : h' = [h EXCEPT ![x] = o] => h'[r] = h[r]
    BY <1>1, <1>8
  <2>2. \A step : Goto(x, step) => h'[r] = h[r]
    BY <1>1, <1>8 DEF Goto
  <2>3. Done(x) => h'[r] = h[r]
    BY <2>1 DEF Done
  <2>4. \A o : Proceed(x, o) => h'[r] = h[r]
    BY <2>1 DEF Proceed
  <2>5. Offense(x) => h'[r] = h[r]
    <3> SUFFICES ASSUME Offense(x) PROVE h'[r] = h[r]
      OBVIOUS
    <3>1. PICK key, signature, band, flagged, paidAt :
            Offend(x, key, signature, band, flagged, paidAt)
      BY DEF Offense, RateLimited, InvalidSignature, OtherOffense, HintMismatch
    <3> QED
      BY <2>1, <3>1 DEF Offend
  <2>6. Record(x) => h'[r] = h[r]
    BY <2>2, <2>3, <2>4
       DEF Record, PushHistory, ReadHistory, SetBan, CheckWhitelist, AddPermanent
  <2>7. CheckPermanent(x) \/ CheckTimed(x) \/ Behave(x) => h'[r] = h[r]
    <3>1. h' = [h EXCEPT ![x].key = <<"pk", h[x].client>>, ![x].step = "isPermanent"]
            => h'[r] = h[r]
      BY <1>1, <1>8
    <3> QED
      BY <2>2, <2>3, <3>1 DEF CheckPermanent, CheckTimed, Behave
  <2>8. (\E c \in Clients, hinted \in BOOLEAN : Arrive(x, c, hinted)) => h'[r] = h[r]
    BY <2>1 DEF Arrive
  <2> QED
    BY <1>5, <1>6, <2>5, <2>6, <2>7, <2>8 DEF Handle
<1> QED
  BY <1>7, <1>8

\* With the bridge wired as its tests wire it, no request gets past the ban
\* check against which a ban has held ever since it arrived.
THEOREM BannedIsRefusedHolds ==
    ASSUME KeyFromReq = "client" PROVE Spec => BannedIsRefused
<1> DEFINE Refused == \A r \in Handlers : Takes(r, "getBan", "served") => barred[r] = {}
<1>1. TypeOK /\ BarInv /\ [Next]_vars => Refused
  <2> SUFFICES ASSUME TypeOK, BarInv, [Next]_vars, NEW r \in Handlers,
                      Takes(r, "getBan", "served")
               PROVE  barred[r] = {}
    OBVIOUS
  <2>1. Next
    BY DEF Takes, vars
  <2>2. CheckTimed(r)
    BY <2>1, PassesByCheck
  <2>3. /\ h[r] \in Requests /\ h[r].step = "getBan" /\ h'[r].step = "served"
        /\ h \in [Handlers -> Requests]
    BY DEF TypeOK, Takes
  <2>4. ban[h[r].key] = NoBan /\ ~(h[r].hinted /\ h[r].key[1] = "ip")
    <3>1. NoRequest.step # "served"
      BY NoRequestType
    <3>2. Done(r) => h'[r].step # "served"
      BY <2>3, <3>1 DEF Done
    <3>3. h' = [h EXCEPT ![r].key = <<"pk", h[r].client>>, ![r].step = "isPermanent"]
            => h'[r].step = "isPermanent"
      BY <2>3 DEF Requests
    <3> QED
      BY <2>2, <2>3, <3>2, <3>3 DEF CheckTimed
  <2>5. Standing(h[r], barred[r], ban, permanent) /\ barred[r] \in SUBSET Verdicts
    BY BarredType DEF BarInv
  <2>6. \A x \in barred[r] : x[1] # h[r].key /\ x[1] \in ToCheck(h[r])
    <3>1. \A x \in barred[r] : x[1] # h[r].key
      BY <2>3, <2>4, <2>5, NoneLeft
    <3> QED
      BY <2>3, <2>5, <3>1 DEF Standing
  <2>7. ToCheck(h[r]) = {h[r].key}
    BY <2>3, <2>4, <2>5 DEF Standing, ToCheck
  <2> QED
    BY <2>6, <2>7
<1>2. Spec => [](TypeOK /\ BarInv)
  <2>1. TypeOK /\ BarInv /\ [Next]_vars => BarInv'
    BY BarStep
  <2> QED
    BY <2>1, TypeInit, TypeStep, BarInit, PTL DEF Spec
<1>3. Spec => [][Refused]_vars
  BY <1>1, <1>2, PTL DEF Spec
<1> QED
  BY <1>3 DEF BannedIsRefused
=============================================================================
