------------------------------- MODULE Admin -------------------------------
(***************************************************************************)
(* The operators' interface: the /admin/* chain of index.js with           *)
(* makeAdminGuards of lib/admin.js, applyUpdate of lib/config.js and the   *)
(* counter, ban and audit operations of the Redis store.                   *)
(*                                                                         *)
(* One process has one connection to Redis: commands run in the order they *)
(* are sent and replies come back in that order, so a command takes effect *)
(* when it is sent and `line` holds the handlers whose reply is still to   *)
(* be handled.  Time is relative: expiries count down and admissions age.  *)
(* An order that fails authentication changes nothing; the one below may   *)
(* be a repetition of an earlier one, for nothing tells them apart.        *)
(***************************************************************************)
EXTENDS Integers, Sequences, FiniteSets, FiniteSetsExt

CONSTANTS
    Handlers,        \* requests in progress
    AdminKeys,       \* ADMIN_KEYS_JSON
    Orders,          \* the orders that operators send
    Everybody,       \* the owner of the global counter
    Forever,         \* no expiry
    KeyWindow,       \* 60 s, of the guard per key
    GlobalWindow,    \* 3600 s, of the global guard
    GuardMax,        \* default of MASS_BAN_GUARD_PER_KEY_PER_MIN
    GuardRange,      \* what it can be set to (RANGES)
    GuardTried,      \* what operators try to set it to
    GlobalMax,       \* MASS_BAN_GUARD_GLOBAL_PER_HOUR
    MaxFaults        \* bound on broken connections and crashes

\* POST /ban for tier 4, for tiers 2 and 3 (their bans are in Enforcement), with
\* a ttl_s that is no number, and with an invalid body; /unban; /config; a GET.
AllOrders == {"permanent", "timed", "endless", "malformed", "unban", "config", "read"}
BanOrders == {"permanent", "timed", "endless", "malformed"}

ASSUME AdminAssumption ==
    /\ Orders \subseteq AllOrders
    /\ KeyWindow \in Nat \ {0} /\ GlobalWindow \in Nat \ {0}
    /\ KeyWindow <= GlobalWindow
    /\ Forever \notin Nat
    /\ IsFiniteSet(Handlers) /\ IsFiniteSet(AdminKeys)
    /\ GlobalMax \in Nat
    /\ GuardRange \subseteq Nat \ {0} /\ GuardMax \in GuardRange
    /\ \E top \in GuardRange : \A n \in GuardRange : n <= top
    /\ GuardTried \subseteq Nat
    /\ MaxFaults \in Nat

Scopes == ({"guard"} \X AdminKeys) \cup {<<"global", Everybody>>}
WindowOf(s) == IF s[1] = "global" THEN GlobalWindow ELSE KeyWindow
Absent == [count |-> 0, ttl |-> Forever]

\* A ban that passed the guards, age ticks ago.
Bans == [key : AdminKeys, age : 0..(GlobalWindow - 1), nr : Nat]

\* BOUND: counters saturate above every limit.
Cap == Max(GuardRange \cup {GlobalMax}) + 1

Idle == [pc |-> "idle", order |-> "read", key |-> Everybody, ok |-> TRUE,
         max |-> 0, own |-> 0, all |-> 0, late |-> FALSE]

VARIABLES
    counter,    \* counter[s]: count and time to live of a scope
    permanent,  \* the client the orders are about is banned for good
    config,     \* MASS_BAN_GUARD_PER_KEY_PER_MIN in this process
    up,         \* commands succeed
    h,          \* h[r]: where request r is and its local variables
    line,       \* the handlers waiting for a reply, in order
    recent,     \* history: the bans that passed the guards, numbered in each tick
    booked,     \* history: the audit log's last word on the permanent ban
    faults, crashed

storeVars == <<counter, permanent>>
faultVars == <<up, faults, crashed>>
vars == <<storeVars, config, h, line, recent, booked, faultVars>>

Init ==
    /\ counter = [s \in Scopes |-> Absent]
    /\ permanent = FALSE
    /\ config = GuardMax
    /\ up = TRUE
    /\ h = [r \in Handlers |-> Idle]
    /\ line = <<>>
    /\ recent = {}
    /\ booked = FALSE
    /\ faults = 0
    /\ crashed = FALSE

-----------------------------------------------------------------------------
\* The reply of r is handled, r goes on to q and waits for another one; or it
\* answers its client.
Await(r, q) ==
    /\ h' = [h EXCEPT ![r] = [q EXCEPT !.ok = up, !.late = h[r].late]]
    /\ line' = Append(Tail(line), r)

Respond(r) ==
    /\ h' = [h EXCEPT ![r] = Idle]
    /\ line' = Tail(line)

\* INCR: what the count is then, and the counters.
CountOf(s) == IF counter[s].count < Cap THEN counter[s].count + 1 ELSE Cap
Counted(s) == IF up THEN [counter EXCEPT ![s].count = CountOf(s)] ELSE counter

\* Mutant: every call renews the expiry.
AnyCall(n) == n >= 1

\* The call that created the counter is the one that gives it an expiry.
FirstCall(n) == n = 1

\* EXPIRE, sent when INCR answered 1.
Expiring(s) == IF up THEN [counter EXCEPT ![s].ttl = WindowOf(s)] ELSE counter

\* auditAdminWrite: a failed push is only logged.
AuditBan(word) == booked' = IF up THEN word ELSE booked

-----------------------------------------------------------------------------
\* A request arrives, verifyAdminAuth finds its HMAC to be that of a configured
\* key over a recent timestamp, and adminKeyRateLimit lets it through: its
\* handler sends its first command.  (That limit counts like the guard below;
\* what it refuses, or what fails authentication, is answered at once.)
Enter(r, q) ==
    /\ h[r].pc = "idle"
    /\ h' = [h EXCEPT ![r] = [q EXCEPT !.ok = up]]
    /\ line' = Append(line, r)
    /\ UNCHANGED <<permanent, recent, booked, faultVars>>

\* POST /ban: massBanGuard.
OrderBan(r, k, o) ==
    /\ o \in BanOrders
    /\ counter' = Counted(<<"guard", k>>)
    /\ Enter(r, [Idle EXCEPT !.pc = "guard", !.order = o, !.key = k, !.max = config,
                             !.own = CountOf(<<"guard", k>>)])
    /\ UNCHANGED config

\* POST /unban: clearBan.
OrderUnban(r) ==
    /\ Enter(r, [Idle EXCEPT !.pc = "cleared", !.order = "unban"])
    /\ UNCHANGED <<counter, config>>

\* applyUpdate: a number out of range changes nothing.
ApplyUpdate(n) == IF n \in GuardRange THEN n ELSE config

\* POST /config: every key up to the first bad one, then an audit entry.
OrderConfig(r) ==
    /\ \E n \in GuardTried : config' = ApplyUpdate(n)
    /\ Enter(r, [Idle EXCEPT !.pc = "audit"])
    /\ UNCHANGED counter

\* GET /config, or an order whose body is rejected: an audit entry.
OrderRead(r) ==
    /\ Enter(r, [Idle EXCEPT !.pc = "audit"])
    /\ UNCHANGED <<counter, config>>

Arrive(r, k, o) ==
    \/ OrderBan(r, k, o)
    \/ o = "unban" /\ OrderUnban(r)
    \/ o = "config" /\ OrderConfig(r)
    \/ o = "read" /\ OrderRead(r)

\* incrMassBanCounter goes on to EXPIRE.
SetExpiry(r, s, pc) ==
    /\ counter' = Expiring(s)
    /\ Await(r, [h[r] EXCEPT !.pc = pc])
    /\ UNCHANGED <<permanent, config, recent, booked, faultVars>>

\* Mutant: the answer is sent and the wait goes on.
AnswerAndWait(r) ==
    /\ h' = [h EXCEPT ![r] = Idle]
    /\ UNCHANGED <<storeVars, config, line, recent, booked, faultVars>>

Answer(r) ==
    /\ Respond(r)
    /\ UNCHANGED <<storeVars, config, recent, booked, faultVars>>

-----------------------------------------------------------------------------
\* massBanGuard and the handler of POST /ban.

\* 429, 503 or 400, after an audit entry that says so.
Deny(r) ==
    /\ Await(r, [Idle EXCEPT !.pc = "audit"])
    /\ UNCHANGED <<storeVars, config, recent, booked, faultVars>>

CountAll(r) ==
    LET s == <<"global", Everybody>> IN
    /\ counter' = Counted(s)
    /\ Await(r, [h[r] EXCEPT !.pc = "global", !.all = CountOf(s)])
    /\ UNCHANGED <<permanent, config, recent, booked, faultVars>>

\* Mutant: one ban too many.
PassedLoose(r) == h[r].own <= h[r].max + 1 /\ h[r].all <= GlobalMax + 1
Passed(r) == h[r].own <= h[r].max /\ h[r].all <= GlobalMax

\* History.
NextBan(k) ==
    [key |-> k, age |-> 0, nr |-> Cardinality({b \in recent : b.key = k /\ b.age = 0})]

\* Both counters are known: refuse, reject the body, or write the ban.
Decide(r) ==
    IF ~Passed(r) \/ h[r].order = "malformed" THEN Deny(r)
    ELSE /\ recent' = recent \cup {NextBan(h[r].key)}
         /\ permanent' = (permanent \/ (up /\ h[r].order = "permanent"))
         /\ IF h[r].order = "endless"
            THEN \* SET ... PX NaN is an error
                 /\ h' = [h EXCEPT ![r] = [@ EXCEPT !.pc = "written", !.ok = FALSE,
                                                   !.max = 0, !.own = 0, !.all = 0]]
                 /\ line' = Append(Tail(line), r)
            ELSE Await(r, [h[r] EXCEPT !.pc = "written", !.max = 0, !.own = 0, !.all = 0])
         /\ UNCHANGED <<counter, config, booked, faultVars>>

GuardReply(r) ==
    /\ h[r].pc = "guard"
    /\ IF ~h[r].ok THEN Deny(r)
       ELSE IF FirstCall(h[r].own) THEN SetExpiry(r, <<"guard", h[r].key>>, "guardExpiry")
       ELSE CountAll(r)

GuardExpiryReply(r) ==
    /\ h[r].pc = "guardExpiry"
    /\ IF h[r].ok THEN CountAll(r) ELSE Deny(r)

GlobalReply(r) ==
    /\ h[r].pc = "global"
    /\ IF ~h[r].ok THEN Deny(r)
       ELSE IF FirstCall(h[r].all) THEN SetExpiry(r, <<"global", Everybody>>, "globalExpiry")
       ELSE Decide(r)

GlobalExpiryReply(r) ==
    /\ h[r].pc = "globalExpiry"
    /\ IF h[r].ok THEN Decide(r) ELSE Deny(r)

-----------------------------------------------------------------------------
\* The process ends: its requests and its configuration are gone.
Die ==
    /\ h' = [r \in Handlers |-> Idle]
    /\ line' = <<>>
    /\ config' = GuardMax
    /\ crashed' = TRUE
    /\ UNCHANGED <<storeVars, up, recent, booked, faults>>

\* Mutant: a ban that was written is answered without an audit entry.
WrittenSilently(r) ==
    /\ h[r].pc = "written"
    /\ IF h[r].ok THEN Answer(r) ELSE Die

\* addPermanent or setBan is done.  Nothing catches a rejection here, and an
\* unhandled rejection ends the process.
WrittenReply(r) ==
    /\ h[r].pc = "written"
    /\ IF ~h[r].ok THEN Die
       ELSE /\ IF h[r].order = "permanent" THEN AuditBan(TRUE) ELSE UNCHANGED booked
            /\ Await(r, [Idle EXCEPT !.pc = "audit"])
            /\ UNCHANGED <<storeVars, config, recent, faultVars>>

\* clearBan is done: removePermanent.
ClearedReply(r) ==
    /\ h[r].pc = "cleared"
    /\ IF ~h[r].ok THEN Die
       ELSE /\ permanent' = IF up THEN FALSE ELSE permanent
            /\ Await(r, [h[r] EXCEPT !.pc = "removed"])
            /\ UNCHANGED <<counter, config, recent, booked, faultVars>>

RemovedReply(r) ==
    /\ h[r].pc = "removed"
    /\ IF ~h[r].ok THEN Die
       ELSE /\ AuditBan(FALSE)
            /\ Await(r, [Idle EXCEPT !.pc = "audit"])
            /\ UNCHANGED <<storeVars, config, recent, faultVars>>

AuditReply(r) ==
    /\ h[r].pc = "audit"
    /\ Answer(r)

\* The next reply on the connection is handled.
Continue ==
    /\ line # <<>>
    /\ LET r == Head(line) IN
         \/ GuardReply(r)
         \/ GuardExpiryReply(r)
         \/ GlobalReply(r)
         \/ GlobalExpiryReply(r)
         \/ WrittenReply(r)
         \/ ClearedReply(r)
         \/ RemovedReply(r)
         \/ AuditReply(r)

\* A tick: counters that expire are gone, and admissions age.
\* BOUND: a request is answered before the second tick after its arrival.
Tick ==
    /\ \A r \in Handlers : ~h[r].late
    /\ h' = [r \in Handlers |-> IF h[r].pc = "idle" THEN h[r]
                                ELSE [h[r] EXCEPT !.late = TRUE]]
    /\ counter' = [s \in Scopes |->
         CASE counter[s].ttl = Forever -> counter[s]
           [] counter[s].ttl = 1 -> Absent
           [] OTHER -> [counter[s] EXCEPT !.ttl = @ - 1]]
    /\ recent' = {[b EXCEPT !.age = @ + 1] : b \in {c \in recent : c.age + 1 < GlobalWindow}}
    /\ UNCHANGED <<permanent, config, line, booked, faultVars>>

\* BOUND: the connection breaks and the process is killed at most MaxFaults
\* times together.
Break ==
    /\ up /\ faults < MaxFaults
    /\ up' = FALSE
    /\ faults' = faults + 1
    /\ UNCHANGED <<storeVars, config, h, line, recent, booked, crashed>>

Recover ==
    /\ ~up
    /\ up' = TRUE
    /\ UNCHANGED <<storeVars, config, h, line, recent, booked, faults, crashed>>

Crash ==
    /\ faults < MaxFaults
    /\ faults' = faults + 1
    /\ h' = [r \in Handlers |-> Idle]
    /\ line' = <<>>
    /\ config' = GuardMax
    /\ crashed' = TRUE
    /\ UNCHANGED <<storeVars, up, recent, booked>>

Next ==
    \/ \E r \in Handlers, k \in AdminKeys, o \in Orders : Arrive(r, k, o)
    \/ Continue
    \/ Tick
    \/ Break
    \/ Recover
    \/ Crash

Spec == Init /\ [][Next]_vars
-----------------------------------------------------------------------------
\* The type invariant; the handlers in line are those that are not idle.
TypeOK ==
    /\ counter \in [Scopes -> [count : 0..Cap, ttl : {Forever} \cup (1..GlobalWindow)]]
    /\ permanent \in BOOLEAN
    /\ config \in GuardRange
    /\ h \in [Handlers ->
                [pc : {"idle", "guard", "guardExpiry", "global", "globalExpiry",
                       "written", "cleared", "removed", "audit"},
                 order : AllOrders, key : AdminKeys \cup {Everybody}, ok : BOOLEAN,
                 max : Nat, own : 0..Cap, all : 0..Cap,
                 late : BOOLEAN]]
    /\ line \in Seq(Handlers)
    /\ \A r \in Handlers :
         Cardinality({i \in 1..Len(line) : line[i] = r}) = IF h[r].pc = "idle" THEN 0 ELSE 1
    /\ recent \subseteq Bans /\ IsFiniteSet(recent)
    /\ booked \in BOOLEAN
    /\ up \in BOOLEAN /\ faults \in 0..MaxFaults /\ crashed \in BOOLEAN

\* The bans of these keys that passed the guard in the last n ticks.
PassedIn(keys, n) == Cardinality({b \in recent : b.key \in keys /\ b.age < n})

\* A runaway script is stopped: whatever is retried, reconfigured, lost or
\* restarted, no stretch of time shorter than a guard's window (by the tick a
\* request may take) sees more bans than two counters admit.  The windows are
\* fixed, not sliding: a burst may straddle two of them.
BanBudget ==
    /\ \A k \in AdminKeys : PassedIn({k}, KeyWindow - 1) <= 2 * Max(GuardRange)
    /\ PassedIn(AdminKeys, GlobalWindow - 1) <= 2 * GlobalMax

\* Nobody is about to give counter s its expiry.
Orphan(s) ==
    /\ counter[s].count > 0 /\ counter[s].ttl = Forever
    /\ \A r \in Handlers :
         CASE s[1] = "guard" -> ~(h[r].pc = "guard" /\ h[r].key = s[2] /\ h[r].ok /\ h[r].own = 1)
           [] OTHER -> ~(h[r].pc = "global" /\ h[r].ok /\ h[r].all = 1)

\* A guard that is shut opens again, whoever keeps trying: only a fault between
\* INCR and EXPIRE leaves its counter without expiry, shutting its operators
\* out for good, and once there is one nothing puts it off.
GuardReopens ==
    /\ [](\A s \in Scopes : Orphan(s) => crashed \/ faults > 0)
    /\ [][\A s \in Scopes :
            counter[s].ttl # Forever /\ counter'[s].ttl # Forever =>
               counter'[s].ttl <= counter[s].ttl]_vars

\* The audit log does not lie about permanent bans: its last word on the
\* target is what the store holds, unless a request is between its write and
\* its entry, the process died there, or the log could not be written.
AuditIsTrue ==
    booked # permanent =>
        \/ \E r \in Handlers : h[r].pc \in {"written", "removed"}
        \/ crashed \/ faults > 0
=============================================================================
