--------------------------- MODULE DepositProofs ---------------------------
(***************************************************************************)
(* Proofs about module Deposit, for any number of processes, requests and  *)
(* signatures: while verifications keep within the lifetime of the pending *)
(* key and of the breaker's timer, a transfer is credited at most once.    *)
(***************************************************************************)
EXTENDS Deposit, TLAPS

USE DepositAssumption

-----------------------------------------------------------------------------
(* The claim on a signature protects its verification, the verification    *)
(* protects the signature's mark, and the mark protects the credit.        *)

Record == [phase : {"none", "check", "fetch", "mark", "credit"},
           sig : Sigs \cup {NoSig}, origin : Slots \cup {NoSlot}, awaited : BOOLEAN]

Shape ==
    /\ used \subseteq Sigs
    /\ locked \subseteq Sigs
    /\ credited \in [Sigs -> Nat]
    /\ pc \in [Slots -> {"idle", "check", "claim", "verify", "reject", "clear"}]
    /\ sig \in [Slots -> Sigs \cup {NoSig}]
    /\ \A s \in Slots : pc[s] # "idle" => sig[s] \in Sigs
    /\ ver \in [Verifs -> Record]

Holding(s) == pc[s] \in {"verify", "reject", "clear"}

\* Whoever holds the claim on a signature is alone, and its key is set.
ClaimInv ==
    /\ \A s \in Slots : Holding(s) => sig[s] \in locked
    /\ \A s, t \in Slots : Holding(s) /\ Holding(t) /\ sig[s] = sig[t] => s = t

\* A running verification is awaited by the request that started it.
OwnerInv ==
    /\ \A v \in Verifs : ver[v].phase # "none" =>
          /\ ver[v].awaited
          /\ ver[v].origin \in Slots
          /\ pc[ver[v].origin] = "verify"
          /\ sig[ver[v].origin] = ver[v].sig
    /\ \A v, w \in Verifs :
          /\ ver[v].phase # "none" /\ ver[w].phase # "none"
          /\ ver[v].origin = ver[w].origin
          => v = w

\* A signature is marked after it was looked up and before it is credited.
CreditInv ==
    /\ \A g \in Sigs : /\ credited[g] <= 1
                       /\ g \notin used => credited[g] = 0
    /\ \A v \in Verifs :
          /\ ver[v].phase \in {"fetch", "mark"} => ver[v].sig \notin used
          /\ ver[v].phase = "credit" => ver[v].sig \in used /\ credited[ver[v].sig] = 0

Prompt == Shape /\ ClaimInv /\ OwnerInv

\* A verification alone with its signature.
LEMMA Alone ==
    ASSUME Prompt, NEW v \in Verifs, NEW w \in Verifs,
           ver[v].phase # "none", ver[w].phase # "none", ver[v].sig = ver[w].sig
    PROVE  v = w
<1>1. /\ ver[v].origin \in Slots /\ ver[w].origin \in Slots
      /\ pc[ver[v].origin] = "verify" /\ pc[ver[w].origin] = "verify"
      /\ sig[ver[v].origin] = sig[ver[w].origin]
  BY DEF Prompt, OwnerInv
<1>2. ver[v].origin = ver[w].origin
  BY <1>1 DEF Prompt, ClaimInv, Holding
<1> QED
  BY <1>2 DEF Prompt, OwnerInv

LEMMA PromptInit == Init => Prompt
<1> SUFFICES ASSUME Init PROVE Prompt
  OBVIOUS
<1>1. NoVer \in Record /\ NoVer.phase = "none"
  BY DEF NoVer, Record
<1>2. ver \in [Verifs -> Record] /\ \A v \in Verifs : ver[v].phase = "none"
  BY <1>1 DEF Init
<1>3. Shape
  BY <1>2 DEF Init, Shape
<1>4. ClaimInv /\ OwnerInv
  BY <1>2 DEF Init, ClaimInv, OwnerInv, Holding
<1> QED
  BY <1>3, <1>4 DEF Prompt

\* The verification goes on: nothing about claims changes.
LEMMA GoOnKeeps ==
    ASSUME Prompt, NEW v \in Verifs, ver[v].phase # "none",
           NEW phase \in {"fetch", "mark", "credit"}, GoOn(v, phase),
           UNCHANGED <<locked, sig>>, used' \subseteq Sigs, credited' \in [Sigs -> Nat]
    PROVE  Prompt'
<1>1. Shape /\ ClaimInv /\ OwnerInv
  BY DEF Prompt
<1>2. /\ ver' = [ver EXCEPT ![v] = [ver[v] EXCEPT !.phase = phase]]
      /\ pc' = pc
  BY DEF GoOn
<1>3. ver[v] \in Record /\ ver \in [Verifs -> Record]
  BY <1>1 DEF Shape
<1> DEFINE new == [ver[v] EXCEPT !.phase = phase]
<1>4. /\ new \in Record /\ new.phase = phase /\ new.sig = ver[v].sig
      /\ new.origin = ver[v].origin /\ new.awaited = ver[v].awaited
  BY <1>3 DEF Record
<1>5. ver' = [ver EXCEPT ![v] = new]
  BY <1>2
<1> HIDE DEF new
<1>6. ver' \in [Verifs -> Record]
  BY <1>3, <1>4, <1>5
<1>7. \A w \in Verifs : /\ ver'[w].phase # "none" => ver[w].phase # "none"
                        /\ ver'[w].sig = ver[w].sig
                        /\ ver'[w].origin = ver[w].origin
                        /\ ver'[w].awaited = ver[w].awaited
  BY <1>3, <1>4, <1>5
<1>8. Shape'
  BY <1>1, <1>2, <1>6 DEF Shape
<1>9. ClaimInv'
  BY <1>1, <1>2 DEF ClaimInv, Holding
<1>10. OwnerInv'
  BY <1>1, <1>2, <1>7 DEF OwnerInv
<1> QED
  BY <1>8, <1>9, <1>10 DEF Prompt

\* The verification settles: the request that awaits it moves on, and keeps
\* its claim.
LEMMA SettleKeeps ==
    ASSUME Prompt, NEW v \in Verifs, ver[v].phase # "none",
           NEW verdict, Settle(v, verdict),
           UNCHANGED <<locked, sig>>, used' \subseteq Sigs, credited' \in [Sigs -> Nat]
    PROVE  Prompt'
<1>1. Shape /\ ClaimInv /\ OwnerInv
  BY DEF Prompt
<1>2. PICK s \in Slots : s = ver[v].origin /\ pc[s] = "verify" /\ ver[v].awaited
  BY <1>1 DEF OwnerInv
<1>3. PICK next \in {"clear", "reject"} : pc' = [pc EXCEPT ![s] = next]
  BY <1>2 DEF Settle
<1>4. ver' = [ver EXCEPT ![v] = NoVer]
  BY DEF Settle
<1>5. NoVer \in Record /\ NoVer.phase = "none"
  BY DEF NoVer, Record
<1>6. pc \in [Slots -> {"idle", "check", "claim", "verify", "reject", "clear"}]
      /\ ver \in [Verifs -> Record]
  BY <1>1 DEF Shape
<1>7. /\ pc' \in [Slots -> {"idle", "check", "claim", "verify", "reject", "clear"}]
      /\ ver' \in [Verifs -> Record]
  BY <1>3, <1>4, <1>5, <1>6
<1>8. \A t \in Slots : /\ pc'[t] # "idle" <=> pc[t] # "idle"
                       /\ Holding(t)' <=> Holding(t)
                       /\ t # s => pc'[t] = pc[t]
  BY <1>2, <1>3, <1>6 DEF Holding
<1>9. \A w \in Verifs : ver'[w].phase # "none" => w # v /\ ver'[w] = ver[w]
  BY <1>4, <1>5, <1>6
<1>10. Shape'
  BY <1>1, <1>7, <1>8 DEF Shape
<1>11. ClaimInv'
  BY <1>1, <1>8 DEF ClaimInv
<1>12. OwnerInv'
  <2>1. \A w \in Verifs : ver'[w].phase # "none" => ver[w].origin # s
    BY <1>1, <1>2, <1>9 DEF OwnerInv
  <2> QED
    BY <1>1, <1>8, <1>9, <2>1 DEF OwnerInv
<1> QED
  BY <1>10, <1>11, <1>12 DEF Prompt

\* A request leaves, or moves between states in which it claims nothing.
LEMMA FreeMove ==
    ASSUME Prompt, NEW s \in Slots, pc[s] # "verify",
           NEW next \in {"idle", "check", "claim"}, NEW g \in Sigs \cup {NoSig},
           next # "idle" => g \in Sigs,
           pc' = [pc EXCEPT ![s] = next], sig' = [sig EXCEPT ![s] = g],
           locked' = locked \/ (Holding(s) /\ locked' = locked \ {sig[s]}),
           UNCHANGED <<used, credited, ver>>
    PROVE  Prompt'
<1>1. Shape /\ ClaimInv /\ OwnerInv
  BY DEF Prompt
<1>2. /\ pc \in [Slots -> {"idle", "check", "claim", "verify", "reject", "clear"}]
      /\ sig \in [Slots -> Sigs \cup {NoSig}]
  BY <1>1 DEF Shape
<1>3. \A t \in Slots \ {s} : pc'[t] = pc[t] /\ sig'[t] = sig[t]
  BY <1>2
<1>4. pc'[s] = next /\ sig'[s] = g
  BY <1>2
<1>5. Shape'
  <2>1. pc' \in [Slots -> {"idle", "check", "claim", "verify", "reject", "clear"}]
        /\ sig' \in [Slots -> Sigs \cup {NoSig}]
    BY <1>2
  <2>2. \A t \in Slots : pc'[t] # "idle" => sig'[t] \in Sigs
    BY <1>1, <1>3, <1>4 DEF Shape
  <2> QED
    BY <1>1, <2>1, <2>2 DEF Shape
<1>6. \A t \in Slots : Holding(t)' => t # s /\ Holding(t)
  BY <1>3, <1>4 DEF Holding
<1>7. ClaimInv'
  BY <1>1, <1>3, <1>6 DEF ClaimInv
<1>8. OwnerInv'
  BY <1>1, <1>3 DEF OwnerInv
<1> QED
  BY <1>5, <1>7, <1>8 DEF Prompt

LEMMA ClaimKeeps ==
    ASSUME Prompt, NEW s \in Slots, Claim(s)
    PROVE  Prompt'
<1>1. Shape /\ ClaimInv /\ OwnerInv
  BY DEF Prompt
<1>2. pc[s] = "claim" /\ sig[s] \in Sigs /\ ~Holding(s)
  BY <1>1 DEF Claim, Shape, Holding
<1>3. CASE sig[s] \in locked
  <2>1. /\ pc' = [pc EXCEPT ![s] = "idle"] /\ sig' = [sig EXCEPT ![s] = NoSig]
        /\ UNCHANGED <<locked, used, credited, ver>>
    BY <1>3 DEF Claim, Leave
  <2> QED
    BY <2>1, <1>2, FreeMove
<1>4. CASE sig[s] \notin locked
  <2>1. /\ locked' = locked \cup {sig[s]}
        /\ UNCHANGED <<sig, used, credited>>
    BY <1>4 DEF Claim
  <2>2. PICK next \in {"verify", "clear"} : pc' = [pc EXCEPT ![s] = next]
    BY <1>4 DEF Claim
  <2>3. pc \in [Slots -> {"idle", "check", "claim", "verify", "reject", "clear"}]
        /\ ver \in [Verifs -> Record]
    BY <1>1 DEF Shape
  <2>4. /\ pc'[s] = next
        /\ \A t \in Slots \ {s} : pc'[t] = pc[t]
    BY <2>2, <2>3
  \* Nobody else holds a claim on this signature, or its key would be set.
  <2>5. \A t \in Slots : Holding(t)' => t = s \/ (Holding(t) /\ sig[t] # sig[s])
    BY <1>1, <1>4, <2>4 DEF ClaimInv, Holding
  <2>6. ClaimInv'
    BY <1>1, <2>1, <2>5 DEF ClaimInv
  <2>7. \A v \in Verifs : ver[v].phase # "none" => ver[v].origin # s
    BY <1>1, <1>2 DEF OwnerInv
  <2>8. pc' \in [Slots -> {"idle", "check", "claim", "verify", "reject", "clear"}]
        /\ \A t \in Slots : pc'[t] # "idle" => sig'[t] \in Sigs
    BY <1>1, <1>2, <2>1, <2>2, <2>3, <2>4 DEF Shape
  <2>9. CASE UNCHANGED ver
    <3>1. Shape'
      BY <1>1, <1>2, <2>1, <2>8, <2>9 DEF Shape
    <3>2. OwnerInv'
      BY <1>1, <2>1, <2>4, <2>7, <2>9 DEF OwnerInv
    <3> QED
      BY <2>6, <3>1, <3>2 DEF Prompt
  <2>10. ASSUME NEW v \in Verifs \ Busy, next = "verify",
                ver' = [ver EXCEPT ![v] = [phase |-> "check", sig |-> sig[s],
                                           origin |-> s, awaited |-> TRUE]]
         PROVE  Prompt'
    <3> DEFINE new == [phase |-> "check", sig |-> sig[s], origin |-> s, awaited |-> TRUE]
    <3>1. new \in Record
      BY <1>2 DEF Record
    <3>2. /\ new.phase = "check" /\ new.sig = sig[s] /\ new.origin = s /\ new.awaited
          /\ ver' = [ver EXCEPT ![v] = new]
      BY <2>10
    <3> HIDE DEF new
    <3>3. /\ ver' \in [Verifs -> Record]
          /\ ver'[v] = new
          /\ \A w \in Verifs \ {v} : ver'[w] = ver[w]
      BY <2>3, <3>1, <3>2
    <3>4. Shape'
      BY <1>1, <1>2, <2>1, <2>8, <3>3 DEF Shape
    <3>5. OwnerInv'
      BY <1>1, <2>1, <2>4, <2>7, <2>10, <3>2, <3>3 DEF OwnerInv
    <3> QED
      BY <2>6, <3>4, <3>5 DEF Prompt
  <2>11. CASE Admits(breaker[Home[s]])
    <3>1. PICK v \in Verifs \ Busy :
               ver' = [ver EXCEPT ![v] = [phase |-> "check", sig |-> sig[s],
                                          origin |-> s, awaited |-> TRUE]]
      BY <1>4, <2>11 DEF Claim
    <3>2. pc' = [pc EXCEPT ![s] = "verify"]
      BY <1>4, <2>11 DEF Claim
    <3>3. next = "verify"
      BY <2>3, <2>4, <3>2
    <3> QED
      BY <2>10, <3>1, <3>3
  <2>12. CASE ~Admits(breaker[Home[s]])
    <3>1. UNCHANGED ver
      BY <1>4, <2>12 DEF Claim
    <3> QED
      BY <2>9, <3>1
  <2> QED
    BY <2>11, <2>12
<1> QED
  BY <1>3, <1>4

LEMMA RejectKeeps ==
    ASSUME Prompt, NEW s \in Slots, Reject(s)
    PROVE  Prompt'
<1>1. Shape /\ ClaimInv /\ OwnerInv
  BY DEF Prompt
<1>2. /\ pc[s] = "reject" /\ pc' = [pc EXCEPT ![s] = "clear"]
      /\ UNCHANGED <<used, credited, locked, sig, ver>>
  BY DEF Reject
<1>3. pc \in [Slots -> {"idle", "check", "claim", "verify", "reject", "clear"}]
  BY <1>1 DEF Shape
<1>4. \A t \in Slots : /\ Holding(t)' <=> Holding(t)
                       /\ pc'[t] # "idle" => pc[t] # "idle"
                       /\ pc[t] = "verify" => pc'[t] = "verify"
  BY <1>2, <1>3 DEF Holding
<1>5. Shape' /\ ClaimInv' /\ OwnerInv'
  <2>1. pc' \in [Slots -> {"idle", "check", "claim", "verify", "reject", "clear"}]
    BY <1>2, <1>3
  <2>2. Shape'
    BY <1>1, <1>2, <1>4, <2>1 DEF Shape
  <2>3. ClaimInv'
    BY <1>1, <1>2, <1>4 DEF ClaimInv
  <2>4. OwnerInv'
    BY <1>1, <1>2, <1>4 DEF OwnerInv
  <2> QED
    BY <2>2, <2>3, <2>4
<1> QED
  BY <1>5 DEF Prompt

\* A dead process takes its verifications with it; its keys stay.
LEMMA CrashKeeps ==
    ASSUME Prompt, NEW p \in Processes, Crash(p)
    PROVE  Prompt'
<1>1. Shape /\ ClaimInv /\ OwnerInv
  BY DEF Prompt
<1> DEFINE Dead(s) == s \in Slots /\ Home[s] = p
<1>2. /\ pc' = [s \in Slots |-> IF Dead(s) THEN "idle" ELSE pc[s]]
      /\ sig' = [s \in Slots |-> IF Dead(s) THEN NoSig ELSE sig[s]]
      /\ ver' = [v \in Verifs |-> IF Dead(ver[v].origin) THEN NoVer ELSE ver[v]]
      /\ UNCHANGED <<used, credited, locked>>
  BY DEF Crash, storeVars
<1>3. NoVer \in Record /\ NoVer.phase = "none"
  BY DEF NoVer, Record
<1>4. \A s \in Slots : pc'[s] # "idle" => ~Dead(s) /\ pc'[s] = pc[s] /\ sig'[s] = sig[s]
  BY <1>2
<1>5. \A v \in Verifs : ver'[v].phase # "none" => ~Dead(ver[v].origin) /\ ver'[v] = ver[v]
  BY <1>2, <1>3
<1>6. Shape'
  <2>1. ver' \in [Verifs -> Record]
    BY <1>1, <1>2, <1>3 DEF Shape
  <2>2. /\ pc' \in [Slots -> {"idle", "check", "claim", "verify", "reject", "clear"}]
        /\ sig' \in [Slots -> Sigs \cup {NoSig}]
    BY <1>1, <1>2 DEF Shape
  <2> QED
    BY <1>1, <1>2, <1>4, <2>1, <2>2 DEF Shape
<1>7. ClaimInv'
  BY <1>1, <1>2, <1>4 DEF ClaimInv, Holding
<1>8. OwnerInv'
  <2>1. \A s \in Slots : ~Dead(s) => pc'[s] = pc[s] /\ sig'[s] = sig[s]
    BY <1>2
  <2> QED
    BY <1>1, <1>5, <2>1 DEF OwnerInv
<1> QED
  BY <1>6, <1>7, <1>8 DEF Prompt

LEMMA PromptStep ==
    ASSUME ~Slow, Prompt, [Next]_vars
    PROVE  Prompt'
<1> USE DEF storeVars
<1>s. Shape /\ ClaimInv /\ OwnerInv
  BY DEF Prompt
<1>1. ASSUME UNCHANGED <<used, credited, locked, pc, sig, ver>>
      PROVE  Prompt'
  BY <1>1, <1>s DEF Prompt, Shape, ClaimInv, OwnerInv, Holding
<1>2. ASSUME NEW g \in Sigs, LockExpire(g)
      PROVE  Prompt'
  <2>1. /\ locked' = locked \ {g}
        /\ \A s \in Slots : Holding(s) => sig[s] # g
        /\ UNCHANGED <<used, credited, pc, sig, ver>>
    BY <1>2 DEF LockExpire, Holders, Holding
  <2>2. ClaimInv'
    BY <1>s, <2>1 DEF ClaimInv, Holding
  <2> QED
    BY <1>s, <2>1, <2>2 DEF Prompt, Shape, OwnerInv
<1>3. ASSUME NEW s \in Slots, NEW g \in Sigs, Arrive(s, g)
      PROVE  Prompt'
  BY <1>3, FreeMove DEF Arrive
<1>4. ASSUME NEW s \in Slots, CheckKnownBad(s)
      PROVE  Prompt'
  <2>1. pc[s] = "check" /\ sig[s] \in Sigs /\ UNCHANGED <<used, credited, locked, ver>>
    BY <1>4, <1>s DEF CheckKnownBad, Shape
  <2>2. CASE sig[s] \in knownBad
    <3>1. pc' = [pc EXCEPT ![s] = "idle"] /\ sig' = [sig EXCEPT ![s] = NoSig]
      BY <1>4, <2>2 DEF CheckKnownBad, Leave
    <3> QED
      BY <2>1, <3>1, FreeMove
  <2>3. CASE sig[s] \notin knownBad
    <3>1. pc' = [pc EXCEPT ![s] = "claim"] /\ sig' = [sig EXCEPT ![s] = sig[s]]
      BY <1>4, <2>3, <1>s DEF CheckKnownBad, Shape
    <3> QED
      BY <2>1, <3>1, FreeMove
  <2> QED
    BY <2>2, <2>3
<1>5. ASSUME NEW s \in Slots, Clear(s)
      PROVE  Prompt'
  <2>1. /\ pc[s] = "clear" /\ locked' = locked \ {sig[s]}
        /\ pc' = [pc EXCEPT ![s] = "idle"] /\ sig' = [sig EXCEPT ![s] = NoSig]
        /\ UNCHANGED <<used, credited, ver>>
    BY <1>5 DEF Clear, Leave
  <2>2. Holding(s)
    BY <2>1 DEF Holding
  <2>3. Shape' /\ OwnerInv'
    <3>1. pc \in [Slots -> {"idle", "check", "claim", "verify", "reject", "clear"}]
          /\ sig \in [Slots -> Sigs \cup {NoSig}]
      BY <1>s DEF Shape
    <3>2. /\ \A t \in Slots \ {s} : pc'[t] = pc[t] /\ sig'[t] = sig[t]
          /\ pc'[s] = "idle"
      BY <2>1, <3>1
    <3>3. /\ pc' \in [Slots -> {"idle", "check", "claim", "verify", "reject", "clear"}]
          /\ sig' \in [Slots -> Sigs \cup {NoSig}]
      BY <2>1, <3>1
    <3>4. Shape'
      BY <1>s, <2>1, <3>2, <3>3 DEF Shape
    <3>5. OwnerInv'
      BY <1>s, <2>1, <3>2 DEF OwnerInv
    <3> QED
      BY <3>4, <3>5
  <2>4. ClaimInv'
    <3>1. sig \in [Slots -> Sigs \cup {NoSig}]
          /\ pc \in [Slots -> {"idle", "check", "claim", "verify", "reject", "clear"}]
      BY <1>s DEF Shape
    <3>2. \A t \in Slots : Holding(t)' => t # s /\ Holding(t) /\ sig'[t] = sig[t]
      BY <2>1, <3>1 DEF Holding
    <3>3. \A t \in Slots : Holding(t)' => sig[t] # sig[s]
      BY <1>s, <2>2, <3>2 DEF ClaimInv
    <3> QED
      BY <1>s, <2>1, <3>2, <3>3 DEF ClaimInv
  <2> QED
    BY <2>3, <2>4 DEF Prompt
<1>6. ASSUME NEW v \in Verifs, CheckUsed(v)
      PROVE  Prompt'
  <2>1. ver[v].phase # "none" /\ UNCHANGED <<locked, sig, used, credited>>
    BY <1>6 DEF CheckUsed
  <2>2. GoOn(v, "fetch") \/ Settle(v, "bad")
    BY <1>6 DEF CheckUsed
  <2> QED
    BY <2>1, <2>2, <1>s, GoOnKeeps, SettleKeeps DEF Shape
<1>7. ASSUME NEW v \in Verifs, Answer(v)
      PROVE  Prompt'
  <2>1. ver[v].phase # "none" /\ UNCHANGED <<locked, sig, used, credited>>
    BY <1>7 DEF Answer
  <2>2. GoOn(v, "mark") \/ Settle(v, "bad")
    BY <1>7 DEF Answer
  <2> QED
    BY <2>1, <2>2, <1>s, GoOnKeeps, SettleKeeps DEF Shape
<1>8. ASSUME NEW v \in Verifs, RpcError(v)
      PROVE  Prompt'
  BY <1>8, <1>s, SettleKeeps DEF RpcError, Shape
<1>9. ASSUME NEW v \in Verifs, Mark(v)
      PROVE  Prompt'
  <2>1. ver[v].phase = "mark" /\ ver[v] \in Record
    BY <1>9, <1>s DEF Mark, Shape
  <2>2. ver[v].sig \in Sigs
    BY <2>1, <1>s DEF OwnerInv, Shape
  <2>3. used' \subseteq Sigs
    BY <1>9, <1>s, <2>2 DEF Mark, Shape
  <2> QED
    BY <1>9, <1>s, <2>1, <2>3, GoOnKeeps DEF Mark, Shape
<1>10. ASSUME NEW v \in Verifs, AddCredit(v)
       PROVE  Prompt'
  <2>1. ver[v].phase = "credit" /\ UNCHANGED <<locked, sig, used>>
    BY <1>10 DEF AddCredit
  <2>2. credited' \in [Sigs -> Nat]
    <3>1. ver[v].sig \in Sigs
      BY <2>1, <1>s DEF OwnerInv, Shape
    <3>2. credited' = [credited EXCEPT ![ver[v].sig] = credited[ver[v].sig] + 1]
      BY <1>10 DEF AddCredit
    <3> QED
      BY <3>1, <3>2, <1>s DEF Shape
  <2> QED
    BY <1>10, <1>s, <2>1, <2>2, SettleKeeps DEF AddCredit, Shape
<1>11. ASSUME NEW s \in Slots, Handle(s) \/ Timeout(s)
       PROVE  Prompt'
  BY <1>4, <1>5, <1>11, ClaimKeeps, RejectKeeps DEF Handle, Timeout
<1>12. ASSUME NEW p \in Processes, BreakerReset(p) \/ Crash(p)
       PROVE  Prompt'
  BY <1>1, <1>12, CrashKeeps DEF BreakerReset
<1>13. ASSUME NEW g \in Sigs, Land(g) \/ LockExpire(g) \/ KnownBadExpire(g)
       PROVE  Prompt'
  BY <1>1, <1>2, <1>13 DEF Land, KnownBadExpire
<1>14. CASE UNCHANGED vars
  BY <1>1, <1>14 DEF vars
<1> QED
  BY <1>3, <1>6, <1>7, <1>8, <1>9, <1>10, <1>11, <1>12, <1>13, <1>14 DEF Next, Verify

\* Concurrent submissions of a signature are verified one at a time, in any
\* number of processes and across their crashes.
THEOREM OneVerificationHolds == ASSUME ~Slow PROVE Spec => []OneVerification
<1>1. Prompt => OneVerification
  BY Alone DEF OneVerification, Busy
<1>2. Prompt /\ [Next]_vars => Prompt'
  BY PromptStep
<1> QED
  BY <1>1, <1>2, PromptInit, PTL DEF Spec

-----------------------------------------------------------------------------
(* The credit.                                                             *)

LEMMA CreditStep ==
    ASSUME Prompt, CreditInv, [Next]_vars, Prompt'
    PROVE  CreditInv'
<1> USE DEF storeVars
<1>s. Shape
  BY DEF Prompt
\* Steps that mark and credit nothing, and take no verification to a later
\* phase.
<1>f. ASSUME UNCHANGED <<used, credited>>,
             \A v \in Verifs : ver'[v].phase \in {"fetch", "mark", "credit"} =>
                 ver'[v].phase = ver[v].phase /\ ver'[v].sig = ver[v].sig
      PROVE  CreditInv'
  BY <1>f DEF CreditInv
<1>n. NoVer.phase = "none"
  BY DEF NoVer
<1>v. ver \in [Verifs -> Record]
  BY <1>s DEF Shape
\* What a verification that goes on, or settles, leaves behind.
<1>g. ASSUME NEW v \in Verifs, NEW phase, GoOn(v, phase)
      PROVE  /\ ver'[v].phase = phase /\ ver'[v].sig = ver[v].sig
             /\ \A w \in Verifs \ {v} : ver'[w] = ver[w]
  <2>1. ver[v] \in Record
    BY <1>v
  <2> DEFINE new == [ver[v] EXCEPT !.phase = phase]
  <2>2. new.phase = phase /\ new.sig = ver[v].sig
    BY <2>1 DEF Record
  <2>3. ver' = [ver EXCEPT ![v] = new]
    BY <1>g DEF GoOn
  <2> HIDE DEF new
  <2> QED
    BY <1>v, <2>2, <2>3
<1>h. ASSUME NEW v \in Verifs, NEW verdict, Settle(v, verdict)
      PROVE  /\ ver'[v].phase = "none"
             /\ \A w \in Verifs \ {v} : ver'[w] = ver[w]
  BY <1>h, <1>v, <1>n DEF Settle
<1>1. ASSUME NEW v \in Verifs, CheckUsed(v)
      PROVE  CreditInv'
  <2>1. UNCHANGED <<used, credited>> /\ ver[v].phase = "check"
    BY <1>1 DEF CheckUsed
  <2>2. CASE ver[v].sig \in used
    <3>1. Settle(v, "bad")
      BY <1>1, <2>2 DEF CheckUsed
    <3> QED
      BY <2>1, <3>1, <1>h, <1>f
  <2>3. CASE ver[v].sig \notin used
    <3>1. GoOn(v, "fetch")
      BY <1>1, <2>3 DEF CheckUsed
    <3> QED
      BY <2>1, <2>3, <3>1, <1>g DEF CreditInv
  <2> QED
    BY <2>2, <2>3
<1>2. ASSUME NEW v \in Verifs, Answer(v)
      PROVE  CreditInv'
  <2>1. UNCHANGED <<used, credited>> /\ ver[v].phase = "fetch"
    BY <1>2 DEF Answer
  <2>2. GoOn(v, "mark") \/ Settle(v, "bad")
    BY <1>2 DEF Answer
  <2>3. CASE Settle(v, "bad")
    BY <2>1, <2>3, <1>h, <1>f
  <2>4. CASE GoOn(v, "mark")
    BY <2>1, <2>4, <1>g DEF CreditInv
  <2> QED
    BY <2>2, <2>3, <2>4
<1>3. ASSUME NEW v \in Verifs, RpcError(v)
      PROVE  CreditInv'
  <2>1. UNCHANGED <<used, credited>> /\ Settle(v, "error")
    BY <1>3 DEF RpcError
  <2> QED
    BY <2>1, <1>h, <1>f
\* Nobody else verifies this signature, so nobody relies on its absence.
<1>4. ASSUME NEW v \in Verifs, Mark(v)
      PROVE  CreditInv'
  <2>1. /\ used' = used \cup {ver[v].sig} /\ credited' = credited
        /\ ver[v].phase = "mark" /\ GoOn(v, "credit")
    BY <1>4 DEF Mark
  <2>2. \A w \in Verifs \ {v} : ver[w].phase # "none" => ver[w].sig # ver[v].sig
    BY <2>1, Alone
  <2>3. ver[v].sig \in Sigs
    BY <2>1, <1>v DEF Prompt, OwnerInv, Shape
  <2>4. /\ ver'[v].phase = "credit" /\ ver'[v].sig = ver[v].sig
        /\ \A w \in Verifs \ {v} : ver'[w] = ver[w]
    BY <2>1, <1>g
  <2>5. credited[ver[v].sig] = 0
    BY <2>1, <2>3 DEF CreditInv
  <2> QED
    BY <2>1, <2>2, <2>3, <2>4, <2>5 DEF CreditInv
<1>5. ASSUME NEW v \in Verifs, AddCredit(v)
      PROVE  CreditInv'
  <2>1. /\ credited' = [credited EXCEPT ![ver[v].sig] = @ + 1] /\ used' = used
        /\ ver[v].phase = "credit" /\ Settle(v, "ok")
    BY <1>5 DEF AddCredit
  <2>2. \A w \in Verifs \ {v} : ver[w].phase # "none" => ver[w].sig # ver[v].sig
    BY <2>1, Alone
  <2>3. ver[v].sig \in used /\ credited[ver[v].sig] = 0
    BY <2>1 DEF CreditInv
  <2>4. /\ ver'[v].phase = "none"
        /\ \A w \in Verifs \ {v} : ver'[w] = ver[w]
    BY <2>1, <1>h
  <2>5. credited \in [Sigs -> Nat] /\ used \subseteq Sigs
    BY <1>s DEF Shape
  <2>6. \A g \in Sigs : credited'[g] = IF g = ver[v].sig THEN 1 ELSE credited[g]
    BY <2>1, <2>3, <2>5
  <2> QED
    BY <2>1, <2>2, <2>3, <2>4, <2>6 DEF CreditInv
<1>6. ASSUME NEW s \in Slots, Claim(s)
      PROVE  CreditInv'
  <2>1. UNCHANGED <<used, credited>>
    BY <1>6 DEF Claim
  <2>2. ASSUME NEW v \in Verifs,
               ver' = [ver EXCEPT ![v] = [phase |-> "check", sig |-> sig[s],
                                          origin |-> s, awaited |-> TRUE]]
        PROVE  CreditInv'
    <3>1. /\ ver'[v].phase = "check"
          /\ \A w \in Verifs \ {v} : ver'[w] = ver[w]
      BY <2>2, <1>v
    <3> QED
      BY <2>1, <3>1, <1>f
  <2>3. UNCHANGED ver \/ \E v \in Verifs :
           ver' = [ver EXCEPT ![v] = [phase |-> "check", sig |-> sig[s],
                                      origin |-> s, awaited |-> TRUE]]
    BY <1>6 DEF Claim
  <2> QED
    BY <2>1, <2>2, <2>3, <1>f
<1>7. ASSUME NEW s \in Slots, CheckKnownBad(s) \/ Reject(s) \/ Clear(s)
      PROVE  CreditInv'
  BY <1>7, <1>f DEF CheckKnownBad, Reject, Clear
<1>8. ASSUME NEW s \in Slots, Timeout(s)
      PROVE  CreditInv'
  <2>1. /\ UNCHANGED <<used, credited>>
        /\ ver' = [v \in Verifs |-> IF ver[v].origin = s
                                      THEN [ver[v] EXCEPT !.awaited = FALSE] ELSE ver[v]]
    BY <1>8 DEF Timeout
  <2>2. \A v \in Verifs : ver'[v].phase = ver[v].phase /\ ver'[v].sig = ver[v].sig
    BY <2>1, <1>v DEF Record
  <2> QED
    BY <2>1, <2>2, <1>f
<1>9. ASSUME NEW p \in Processes, Crash(p)
      PROVE  CreditInv'
  <2>1. UNCHANGED <<used, credited>>
        /\ \A v \in Verifs : ver'[v] = NoVer \/ ver'[v] = ver[v]
    BY <1>9 DEF Crash
  <2> QED
    BY <2>1, <1>f, <1>n
<1>10. ASSUME UNCHANGED <<used, credited, ver>>
       PROVE  CreditInv'
  BY <1>10, <1>f
<1>11. ASSUME \/ \E g \in Sigs : Land(g) \/ LockExpire(g) \/ KnownBadExpire(g)
              \/ \E s \in Slots, g \in Sigs : Arrive(s, g)
              \/ \E p \in Processes : BreakerReset(p)
              \/ UNCHANGED vars
       PROVE  CreditInv'
  BY <1>10, <1>11 DEF Land, LockExpire, KnownBadExpire, Arrive, BreakerReset, vars
<1> QED
  BY <1>1, <1>2, <1>3, <1>4, <1>5, <1>6, <1>7, <1>8, <1>9, <1>11
     DEF Next, Handle, Verify

\* A transfer is credited at most once, whatever is submitted when and to
\* which process, and whenever processes die.
THEOREM CreditOnceHolds == ASSUME ~Slow PROVE Spec => []CreditOnce
<1>1. Init => CreditInv
  BY DEF Init, CreditInv, NoVer
<1>2. CreditInv => CreditOnce
  BY DEF CreditInv, CreditOnce
<1>3. Prompt /\ [Next]_vars => Prompt'
  BY PromptStep
<1>4. Prompt /\ CreditInv /\ [Next]_vars /\ Prompt' => CreditInv'
  BY CreditStep
<1> QED
  BY <1>1, <1>2, <1>3, <1>4, PromptInit, PTL DEF Spec

-----------------------------------------------------------------------------
(* The types, with or without slow verifications: a verification that is   *)
(* awaited is the only one its request awaits, so settling it moves on a   *)
(* request that is there.                                                  *)

Places == {"idle", "check", "claim", "verify", "reject", "clear"}
States == {"closed", "open", "half", "probing"}

Awaiting ==
    /\ \A v \in Verifs : ver[v].phase # "none" => ver[v].sig \in Sigs
    /\ \A v \in Verifs : ver[v].awaited =>
          ver[v].origin \in Slots /\ pc[ver[v].origin] = "verify"
    /\ \A v, w \in Verifs :
          ver[v].awaited /\ ver[w].awaited /\ ver[v].origin = ver[w].origin => v = w

\* What requests, verifications and breakers are in.
Flow ==
    /\ breaker \in [Processes -> States]
    /\ pc \in [Slots -> Places]
    /\ sig \in [Slots -> Sigs \cup {NoSig}]
    /\ \A s \in Slots : pc[s] = "idle" <=> sig[s] = NoSig
    /\ ver \in [Verifs -> Record]
    /\ Awaiting

\* What the store and the chain hold.
Kept ==
    /\ chain \in [Sigs -> {"absent", "transfer", "other"}]
    /\ used \subseteq Sigs
    /\ credited \in [Sigs -> Nat]
    /\ locked \subseteq Sigs
    /\ knownBad \subseteq Sigs
    /\ crashed \in BOOLEAN

LEMMA FlowInit == Init => Flow /\ Kept
<1> SUFFICES ASSUME Init PROVE Flow /\ Kept
  OBVIOUS
<1>1. NoVer \in Record /\ NoVer.phase = "none" /\ ~NoVer.awaited
  BY DEF NoVer, Record
<1>2. /\ ver \in [Verifs -> Record]
      /\ \A v \in Verifs : ver[v].phase = "none" /\ ~ver[v].awaited
  BY <1>1 DEF Init
<1>3. Flow
  BY <1>2 DEF Init, Flow, Awaiting, Places, States
<1> QED
  BY <1>3 DEF Init, Kept

\* A request that awaits nothing, before and after.
LEMMA RequestMoves ==
    ASSUME Flow, NEW s \in Slots, NEW to \in Places, NEW g \in Sigs \cup {NoSig},
           to = "idle" <=> g = NoSig, pc[s] # "verify",
           pc' = [pc EXCEPT ![s] = to], sig' = [sig EXCEPT ![s] = g],
           UNCHANGED <<breaker, ver>>
    PROVE  Flow'
<1>1. /\ pc \in [Slots -> Places] /\ sig \in [Slots -> Sigs \cup {NoSig}]
      /\ Awaiting
  BY DEF Flow
<1>2. /\ pc' \in [Slots -> Places] /\ sig' \in [Slots -> Sigs \cup {NoSig}]
      /\ pc'[s] = to /\ sig'[s] = g
      /\ \A t \in Slots \ {s} : pc'[t] = pc[t] /\ sig'[t] = sig[t]
  BY <1>1
<1>3. \A t \in Slots : pc'[t] = "idle" <=> sig'[t] = NoSig
  BY <1>2 DEF Flow
<1>4. Awaiting'
  BY <1>1, <1>2 DEF Awaiting
<1> QED
  BY <1>2, <1>3, <1>4 DEF Flow

LEMMA GoOnFlows ==
    ASSUME Flow, NEW v \in Verifs, ver[v].phase # "none",
           NEW phase \in {"fetch", "mark", "credit"}, GoOn(v, phase), UNCHANGED sig
    PROVE  Flow'
<1>1. ver \in [Verifs -> Record] /\ ver[v] \in Record /\ Awaiting
  BY DEF Flow
<1> DEFINE new == [ver[v] EXCEPT !.phase = phase]
<1>2. /\ new \in Record /\ new.sig = ver[v].sig
      /\ new.origin = ver[v].origin /\ new.awaited = ver[v].awaited
  BY <1>1 DEF Record
<1>3. ver' = [ver EXCEPT ![v] = new] /\ UNCHANGED <<breaker, pc>>
  BY DEF GoOn
<1> HIDE DEF new
<1>4. /\ ver' \in [Verifs -> Record]
      /\ \A w \in Verifs : /\ ver'[w].phase # "none" => ver[w].phase # "none"
                           /\ ver'[w].sig = ver[w].sig
                           /\ ver'[w].origin = ver[w].origin
                           /\ ver'[w].awaited = ver[w].awaited
  BY <1>1, <1>2, <1>3
<1>5. Awaiting'
  BY <1>1, <1>3, <1>4 DEF Awaiting
<1> QED
  BY <1>3, <1>4, <1>5 DEF Flow

LEMMA SettleFlows ==
    ASSUME Flow, NEW v \in Verifs, NEW verdict, Settle(v, verdict), UNCHANGED sig
    PROVE  Flow'
<1>1. /\ ver \in [Verifs -> Record] /\ pc \in [Slots -> Places]
      /\ breaker \in [Processes -> States] /\ Awaiting
      /\ \A s \in Slots : pc[s] = "idle" <=> sig[s] = NoSig
  BY DEF Flow
<1>2. NoVer \in Record /\ NoVer.phase = "none" /\ ~NoVer.awaited
  BY DEF NoVer, Record
<1>3. /\ ver' \in [Verifs -> Record]
      /\ ver'[v].phase = "none" /\ ~ver'[v].awaited
      /\ \A w \in Verifs \ {v} : ver'[w] = ver[w]
  BY <1>1, <1>2 DEF Settle
<1>4. CASE ~ver[v].awaited
  <2>1. UNCHANGED <<breaker, pc>>
    BY <1>4 DEF Settle
  <2>2. Awaiting'
    BY <1>1, <1>3, <2>1 DEF Awaiting
  <2> QED
    BY <1>1, <1>3, <2>1, <2>2 DEF Flow
<1>5. CASE ver[v].awaited
  <2>1. PICK s \in Slots : s = ver[v].origin
    BY <1>1, <1>5 DEF Awaiting
  <2>2. pc[s] = "verify"
    BY <1>1, <1>5, <2>1 DEF Awaiting
  <2>3. PICK to \in {"clear", "reject"} : pc' = [pc EXCEPT ![s] = to]
    BY <1>5, <2>1 DEF Settle
  <2>4. breaker' \in [Processes -> States]
    <3>1. CASE verdict = "error"
      <4>1. \E state \in Failed(breaker[Home[s]]) :
               breaker' = [breaker EXCEPT ![Home[s]] = state]
        BY <1>5, <2>1, <3>1 DEF Settle
      <4> QED
        BY <1>1, <4>1 DEF Failed, States
    <3>2. CASE verdict # "error"
      <4>1. breaker' = [breaker EXCEPT ![Home[s]] = Succeeded(breaker[Home[s]])]
        BY <1>5, <2>1, <3>2 DEF Settle
      <4> QED
        BY <1>1, <4>1 DEF Succeeded, States
    <3> QED
      BY <3>1, <3>2
  <2>5. /\ pc' \in [Slots -> Places] /\ pc'[s] # "idle"
        /\ \A t \in Slots \ {s} : pc'[t] = pc[t]
    BY <1>1, <2>3 DEF Places
  <2>6. \A w \in Verifs \ {v} : ver[w].awaited => ver[w].origin # s
    BY <1>1, <1>5, <2>1 DEF Awaiting
  <2>7. Awaiting'
    BY <1>1, <1>3, <2>5, <2>6 DEF Awaiting
  <2>8. \A t \in Slots : pc'[t] = "idle" <=> sig'[t] = NoSig
    BY <1>1, <2>2, <2>5
  <2> QED
    BY <1>1, <1>3, <2>4, <2>5, <2>7, <2>8 DEF Flow
<1> QED
  BY <1>4, <1>5

LEMMA ClaimFlows ==
    ASSUME Flow, NEW s \in Slots, Claim(s)
    PROVE  Flow'
<1>1. /\ ver \in [Verifs -> Record] /\ pc \in [Slots -> Places]
      /\ breaker \in [Processes -> States] /\ Awaiting
      /\ sig \in [Slots -> Sigs \cup {NoSig}]
      /\ \A t \in Slots : pc[t] = "idle" <=> sig[t] = NoSig
  BY DEF Flow
<1>2. pc[s] = "claim" /\ sig[s] \in Sigs
  BY <1>1 DEF Claim
<1>3. CASE sig[s] \in locked
  <2>1. /\ pc' = [pc EXCEPT ![s] = "idle"] /\ sig' = [sig EXCEPT ![s] = NoSig]
        /\ UNCHANGED <<breaker, ver>>
    BY <1>3 DEF Claim, Leave
  <2> QED
    BY <1>2, <2>1, RequestMoves DEF Places
<1>4. CASE sig[s] \notin locked /\ ~Admits(breaker[Home[s]])
  <2>1. pc' = [pc EXCEPT ![s] = "clear"] /\ UNCHANGED <<sig, breaker, ver>>
    BY <1>4 DEF Claim
  <2>2. sig' = [sig EXCEPT ![s] = sig[s]]
    BY <1>1, <2>1
  <2> QED
    BY <1>2, <2>1, <2>2, RequestMoves DEF Places
<1>5. CASE sig[s] \notin locked /\ Admits(breaker[Home[s]])
  <2> DEFINE new == [phase |-> "check", sig |-> sig[s], origin |-> s, awaited |-> TRUE]
  <2>1. PICK v \in Verifs : ver' = [ver EXCEPT ![v] = new]
    BY <1>5 DEF Claim
  <2>2. /\ pc' = [pc EXCEPT ![s] = "verify"] /\ UNCHANGED sig
        /\ breaker' = [breaker EXCEPT ![Home[s]] = Called(breaker[Home[s]])]
    BY <1>5 DEF Claim
  <2>3. /\ new \in Record /\ new.sig \in Sigs /\ new.origin = s /\ new.awaited
    BY <1>2 DEF Record
  <2> HIDE DEF new
  <2>4. /\ ver' \in [Verifs -> Record] /\ ver'[v] = new
        /\ \A w \in Verifs \ {v} : ver'[w] = ver[w]
    BY <1>1, <2>1, <2>3
  <2>5. breaker' \in [Processes -> States]
    <3>1. breaker[Home[s]] \in States
      BY <1>1
    <3>2. Called(breaker[Home[s]]) \in States
      BY <3>1 DEF Called, States
    <3> QED
      BY <1>1, <2>2, <3>2
  <2>6. /\ pc' \in [Slots -> Places] /\ pc'[s] = "verify"
        /\ \A t \in Slots \ {s} : pc'[t] = pc[t]
    BY <1>1, <2>2 DEF Places
  <2>7. \A w \in Verifs : ver[w].awaited => ver[w].origin # s
    BY <1>1, <1>2 DEF Awaiting
  <2>8. Awaiting'
    BY <1>1, <2>3, <2>4, <2>6, <2>7 DEF Awaiting
  <2>9. \A t \in Slots : pc'[t] = "idle" <=> sig'[t] = NoSig
    BY <1>1, <1>2, <2>2, <2>6
  <2> QED
    BY <1>1, <2>2, <2>4, <2>5, <2>6, <2>8, <2>9 DEF Flow
<1> QED
  BY <1>3, <1>4, <1>5

LEMMA TimeoutFlows ==
    ASSUME Flow, NEW s \in Slots, Timeout(s)
    PROVE  Flow'
<1>1. /\ ver \in [Verifs -> Record] /\ pc \in [Slots -> Places]
      /\ breaker \in [Processes -> States] /\ Awaiting
      /\ \A t \in Slots : pc[t] = "idle" <=> sig[t] = NoSig
  BY DEF Flow
<1>2. /\ pc[s] = "verify" /\ UNCHANGED sig
      /\ ver' = [v \in Verifs |-> IF ver[v].origin = s
                                    THEN [ver[v] EXCEPT !.awaited = FALSE] ELSE ver[v]]
      /\ \E state \in Failed(breaker[Home[s]]) :
            breaker' = [breaker EXCEPT ![Home[s]] = state]
      /\ pc' = [pc EXCEPT ![s] = "clear"]
  BY DEF Timeout
<1>3. \A v \in Verifs : /\ ver'[v] \in Record
                        /\ ver'[v].phase = ver[v].phase /\ ver'[v].sig = ver[v].sig
                        /\ ver'[v].origin = ver[v].origin
                        /\ ver'[v].awaited => ver[v].awaited /\ ver[v].origin # s
  <2> TAKE v \in Verifs
  <2>1. ver[v] \in Record
    BY <1>1
  <2> DEFINE dropped == [ver[v] EXCEPT !.awaited = FALSE]
  <2>2. /\ dropped \in Record /\ dropped.phase = ver[v].phase /\ dropped.sig = ver[v].sig
        /\ dropped.origin = ver[v].origin /\ dropped.awaited = FALSE
    BY <2>1 DEF Record
  <2>3. ver'[v] = IF ver[v].origin = s THEN dropped ELSE ver[v]
    BY <1>2
  <2> HIDE DEF dropped
  <2> QED
    BY <2>1, <2>2, <2>3
<1>4. ver' \in [Verifs -> Record]
  BY <1>2, <1>3
<1>5. breaker' \in [Processes -> States]
  BY <1>1, <1>2 DEF Failed, States
<1>6. /\ pc' \in [Slots -> Places] /\ pc'[s] = "clear"
      /\ \A t \in Slots \ {s} : pc'[t] = pc[t]
  BY <1>1, <1>2 DEF Places
<1>7. Awaiting'
  BY <1>1, <1>3, <1>6 DEF Awaiting
<1>8. \A t \in Slots : pc'[t] = "idle" <=> sig'[t] = NoSig
  BY <1>1, <1>2, <1>6
<1> QED
  BY <1>2, <1>4, <1>5, <1>6, <1>7, <1>8 DEF Flow

LEMMA CrashFlows ==
    ASSUME Flow, NEW p \in Processes, Crash(p)
    PROVE  Flow'
<1> DEFINE Dead(s) == s \in Slots /\ Home[s] = p
<1>1. /\ ver \in [Verifs -> Record] /\ pc \in [Slots -> Places]
      /\ sig \in [Slots -> Sigs \cup {NoSig}]
      /\ breaker \in [Processes -> States] /\ Awaiting
      /\ \A t \in Slots : pc[t] = "idle" <=> sig[t] = NoSig
  BY DEF Flow
<1>2. /\ pc' = [s \in Slots |-> IF Dead(s) THEN "idle" ELSE pc[s]]
      /\ sig' = [s \in Slots |-> IF Dead(s) THEN NoSig ELSE sig[s]]
      /\ ver' = [v \in Verifs |-> IF Dead(ver[v].origin) THEN NoVer ELSE ver[v]]
      /\ breaker' = [breaker EXCEPT ![p] = "closed"]
  BY DEF Crash
<1>3. NoVer \in Record /\ NoVer.phase = "none" /\ ~NoVer.awaited
  BY DEF NoVer, Record
<1>4. /\ ver' \in [Verifs -> Record]
      /\ \A v \in Verifs : ver'[v].phase # "none" \/ ver'[v].awaited =>
            ~Dead(ver[v].origin) /\ ver'[v] = ver[v]
  BY <1>1, <1>2, <1>3
<1>5. /\ pc' \in [Slots -> Places] /\ sig' \in [Slots -> Sigs \cup {NoSig}]
      /\ breaker' \in [Processes -> States]
  BY <1>1, <1>2 DEF Places, States
<1>6. \A s \in Slots : /\ ~Dead(s) => pc'[s] = pc[s] /\ sig'[s] = sig[s]
                       /\ Dead(s) => pc'[s] = "idle" /\ sig'[s] = NoSig
  BY <1>2
<1> HIDE DEF Dead
<1>7. Awaiting'
  BY <1>1, <1>4, <1>6 DEF Awaiting
<1> QED
  BY <1>1, <1>4, <1>5, <1>6, <1>7 DEF Flow

LEMMA FlowStep ==
    ASSUME Flow, [Next]_vars
    PROVE  Flow'
<1> USE DEF storeVars
<1>q. ASSUME UNCHANGED <<breaker, pc, sig, ver>> PROVE Flow'
  BY <1>q DEF Flow, Awaiting
<1>1. ASSUME NEW s \in Slots, NEW g \in Sigs, Arrive(s, g) PROVE Flow'
  <2>1. /\ pc[s] = "idle" /\ pc' = [pc EXCEPT ![s] = "check"]
        /\ sig' = [sig EXCEPT ![s] = g] /\ UNCHANGED <<breaker, ver>>
    BY <1>1 DEF Arrive
  <2> QED
    BY <2>1, RequestMoves DEF Places
\* A request that moves on with its signature.
<1>m. ASSUME NEW s \in Slots, NEW to \in {"claim", "clear"}, pc[s] \in {"check", "reject"},
             pc' = [pc EXCEPT ![s] = to], UNCHANGED <<sig, breaker, ver>>
      PROVE  Flow'
  <2>1. sig \in [Slots -> Sigs \cup {NoSig}] /\ sig[s] \in Sigs
    BY <1>m DEF Flow
  <2>2. sig' = [sig EXCEPT ![s] = sig[s]]
    BY <1>m, <2>1
  <2> QED
    BY <1>m, <2>1, <2>2, RequestMoves DEF Places
\* A request that leaves.
<1>l. ASSUME NEW s \in Slots, pc[s] # "verify", Leave(s), UNCHANGED <<breaker, ver>>
      PROVE  Flow'
  BY <1>l, RequestMoves DEF Leave, Places
<1>2. ASSUME NEW s \in Slots, CheckKnownBad(s) PROVE Flow'
  <2>1. pc[s] = "check" /\ UNCHANGED <<breaker, ver>>
    BY <1>2 DEF CheckKnownBad
  <2>2. Leave(s) \/ (pc' = [pc EXCEPT ![s] = "claim"] /\ UNCHANGED sig)
    BY <1>2 DEF CheckKnownBad
  <2> QED
    BY <1>l, <1>m, <2>1, <2>2
<1>3. ASSUME NEW s \in Slots, Reject(s) PROVE Flow'
  BY <1>3, <1>m DEF Reject
<1>4. ASSUME NEW s \in Slots, Clear(s) PROVE Flow'
  BY <1>4, <1>l DEF Clear
<1>5. ASSUME NEW s \in Slots, Handle(s) \/ Timeout(s) PROVE Flow'
  BY <1>2, <1>3, <1>4, <1>5, ClaimFlows, TimeoutFlows DEF Handle
<1>6. ASSUME NEW v \in Verifs, Verify(v) \/ Answer(v) \/ RpcError(v) PROVE Flow'
  <2>1. ver[v].phase # "none" /\ UNCHANGED sig
    BY <1>6 DEF Verify, CheckUsed, Mark, AddCredit, Answer, RpcError
  <2>2. \/ \E phase \in {"fetch", "mark", "credit"} : GoOn(v, phase)
        \/ \E verdict \in {"ok", "bad", "error"} : Settle(v, verdict)
    BY <1>6 DEF Verify, CheckUsed, Mark, AddCredit, Answer, RpcError
  <2> QED
    BY <2>1, <2>2, GoOnFlows, SettleFlows
<1>7. ASSUME NEW p \in Processes, BreakerReset(p) PROVE Flow'
  <2>1. breaker' = [breaker EXCEPT ![p] = "half"] /\ UNCHANGED <<pc, sig, ver>>
    BY <1>7 DEF BreakerReset
  <2>2. breaker' \in [Processes -> States]
    BY <2>1 DEF Flow, States
  <2> QED
    BY <2>1, <2>2 DEF Flow, Awaiting
<1>8. ASSUME NEW g \in Sigs, Land(g) \/ LockExpire(g) \/ KnownBadExpire(g) PROVE Flow'
  BY <1>8, <1>q DEF Land, LockExpire, KnownBadExpire
<1>9. CASE UNCHANGED vars
  BY <1>9, <1>q DEF vars
<1> QED
  BY <1>1, <1>5, <1>6, <1>7, <1>8, <1>9, CrashFlows DEF Next

LEMMA KeptStep ==
    ASSUME Flow, Kept, [Next]_vars
    PROVE  Kept'
<1> USE DEF storeVars
<1>q. ASSUME UNCHANGED <<chain, storeVars, crashed>> PROVE Kept'
  BY <1>q DEF Kept
<1>1. ASSUME NEW g \in Sigs, Land(g) \/ LockExpire(g) \/ KnownBadExpire(g) PROVE Kept'
  BY <1>1 DEF Land, LockExpire, KnownBadExpire, Kept
<1>2. ASSUME NEW s \in Slots, NEW g \in Sigs, Arrive(s, g) PROVE Kept'
  BY <1>2, <1>q DEF Arrive
<1>3. ASSUME NEW s \in Slots, Handle(s) PROVE Kept'
  <2>1. sig \in [Slots -> Sigs \cup {NoSig}]
        /\ \A t \in Slots : pc[t] = "idle" <=> sig[t] = NoSig
    BY DEF Flow
  <2>2. CASE CheckKnownBad(s)
    BY <2>2, <1>q DEF CheckKnownBad
  <2>3. CASE Claim(s)
    <3>1. sig[s] \in Sigs /\ UNCHANGED <<chain, used, credited, knownBad, crashed>>
      BY <2>1, <2>3 DEF Claim
    <3>2. locked' = locked \/ locked' = locked \cup {sig[s]}
      BY <2>3 DEF Claim
    <3> QED
      BY <3>1, <3>2 DEF Kept
  <2>4. CASE Reject(s)
    BY <2>1, <2>4 DEF Reject, Kept
  <2>5. CASE Clear(s)
    BY <2>5 DEF Clear, Kept
  <2> QED
    BY <1>3, <2>2, <2>3, <2>4, <2>5 DEF Handle
<1>4. ASSUME NEW s \in Slots, Timeout(s) PROVE Kept'
  BY <1>4, <1>q DEF Timeout
<1>5. ASSUME NEW v \in Verifs, Verify(v) \/ Answer(v) \/ RpcError(v) PROVE Kept'
  <2>1. ver[v].phase # "none" => ver[v].sig \in Sigs
    BY DEF Flow, Awaiting
  <2>2. CASE Mark(v)
    BY <2>1, <2>2 DEF Mark, Kept
  <2>3. CASE AddCredit(v)
    <3>1. /\ ver[v].sig \in Sigs /\ UNCHANGED <<chain, used, locked, knownBad, crashed>>
          /\ credited' = [credited EXCEPT ![ver[v].sig] = credited[ver[v].sig] + 1]
      BY <2>1, <2>3 DEF AddCredit
    <3>2. credited' \in [Sigs -> Nat]
      BY <3>1 DEF Kept
    <3> QED
      BY <3>1, <3>2 DEF Kept
  <2>4. CASE CheckUsed(v) \/ Answer(v) \/ RpcError(v)
    BY <2>4, <1>q DEF CheckUsed, Answer, RpcError
  <2> QED
    BY <1>5, <2>2, <2>3, <2>4 DEF Verify
<1>6. ASSUME NEW p \in Processes, BreakerReset(p) \/ Crash(p) PROVE Kept'
  BY <1>6 DEF BreakerReset, Crash, Kept
<1>7. CASE UNCHANGED vars
  BY <1>7, <1>q DEF vars
<1> QED
  BY <1>1, <1>2, <1>3, <1>4, <1>5, <1>6, <1>7 DEF Next

\* The invariant types, for slow verifications too.
THEOREM TypeCorrect == Spec => []TypeOK
<1>1. Flow /\ Kept => TypeOK
  BY DEF Flow, Kept, TypeOK, Record, Places, States
<1>2. Flow /\ Kept /\ [Next]_vars => Flow' /\ Kept'
  BY FlowStep, KeptStep
<1> QED
  BY <1>1, <1>2, FlowInit, PTL DEF Spec

-----------------------------------------------------------------------------
(* The mark and the credit, with or without slow verifications.            *)

Crediting(g) == \E v \in Verifs : ver[v].phase = "credit" /\ ver[v].sig = g

LEMMA MarkedStep ==
    ASSUME Flow, Kept, MarkedIsCredited, [Next]_vars
    PROVE  MarkedIsCredited'
<1> USE DEF storeVars
<1>0. /\ ver \in [Verifs -> Record] /\ credited \in [Sigs -> Nat] /\ used \subseteq Sigs
      /\ \A v \in Verifs : ver[v].phase # "none" => ver[v].sig \in Sigs
      /\ \A g \in used : credited[g] >= 1 \/ crashed \/ Crediting(g)
  BY DEF Flow, Kept, Awaiting, MarkedIsCredited, Crediting
\* Verifications that are not about to credit come and go.
<1>f. ASSUME UNCHANGED <<used, credited, crashed>>,
             \A v \in Verifs : ver[v].phase = "credit" =>
                 ver'[v].phase = "credit" /\ ver'[v].sig = ver[v].sig
      PROVE  MarkedIsCredited'
  BY <1>0, <1>f DEF MarkedIsCredited, Crediting
<1>1. ASSUME NEW v \in Verifs, CheckUsed(v) \/ Answer(v) \/ RpcError(v)
      PROVE  MarkedIsCredited'
  <2>1. ver[v].phase # "credit" /\ UNCHANGED <<used, credited, crashed>>
    BY <1>1 DEF CheckUsed, Answer, RpcError
  <2>2. \E new : ver' = [ver EXCEPT ![v] = new]
    BY <1>1 DEF CheckUsed, Answer, RpcError, GoOn, Settle
  <2>3. \A w \in Verifs \ {v} : ver'[w] = ver[w]
    BY <1>0, <2>2
  <2> QED
    BY <2>1, <2>3, <1>f
<1>2. ASSUME NEW v \in Verifs, Mark(v)
      PROVE  MarkedIsCredited'
  <2>1. /\ ver[v].phase = "mark" /\ used' = used \cup {ver[v].sig}
        /\ UNCHANGED <<credited, crashed>>
        /\ ver' = [ver EXCEPT ![v] = [ver[v] EXCEPT !.phase = "credit"]]
    BY <1>2 DEF Mark, GoOn
  <2>2. /\ ver'[v].phase = "credit" /\ ver'[v].sig = ver[v].sig
        /\ \A w \in Verifs \ {v} : ver'[w] = ver[w]
    BY <1>0, <2>1 DEF Record
  <2> QED
    BY <1>0, <2>1, <2>2 DEF MarkedIsCredited, Crediting
<1>3. ASSUME NEW v \in Verifs, AddCredit(v)
      PROVE  MarkedIsCredited'
  <2>1. /\ ver[v].phase = "credit" /\ UNCHANGED <<used, crashed>>
        /\ credited' = [credited EXCEPT ![ver[v].sig] = credited[ver[v].sig] + 1]
        /\ ver' = [ver EXCEPT ![v] = NoVer]
    BY <1>3 DEF AddCredit, Settle
  <2>2. /\ credited'[ver[v].sig] >= 1
        /\ \A g \in Sigs : credited[g] >= 1 => credited'[g] >= 1
    BY <1>0, <2>1
  <2>3. \A w \in Verifs \ {v} : ver'[w] = ver[w]
    BY <1>0, <2>1
  <2> QED
    BY <1>0, <2>1, <2>2, <2>3 DEF MarkedIsCredited, Crediting
<1>4. ASSUME NEW s \in Slots, Claim(s)
      PROVE  MarkedIsCredited'
  <2>1. UNCHANGED <<used, credited, crashed>>
    BY <1>4 DEF Claim
  <2>2. UNCHANGED ver \/ \E v \in Verifs \ Busy : \E new : ver' = [ver EXCEPT ![v] = new]
    BY <1>4 DEF Claim
  <2>3. \A w \in Busy : ver'[w] = ver[w]
    BY <1>0, <2>2 DEF Busy
  <2> QED
    BY <2>1, <2>3, <1>f DEF Busy
<1>5. ASSUME NEW s \in Slots, Timeout(s)
      PROVE  MarkedIsCredited'
  <2>1. /\ UNCHANGED <<used, credited, crashed>>
        /\ ver' = [v \in Verifs |-> IF ver[v].origin = s
                                      THEN [ver[v] EXCEPT !.awaited = FALSE] ELSE ver[v]]
    BY <1>5 DEF Timeout
  <2>2. \A v \in Verifs : ver'[v].phase = ver[v].phase /\ ver'[v].sig = ver[v].sig
    BY <1>0, <2>1 DEF Record
  <2> QED
    BY <2>1, <2>2, <1>f
<1>6. ASSUME NEW p \in Processes, Crash(p)
      PROVE  MarkedIsCredited'
  BY <1>6 DEF Crash, MarkedIsCredited
<1>7. ASSUME UNCHANGED <<used, credited, crashed, ver>>
      PROVE  MarkedIsCredited'
  BY <1>7, <1>f
<1>8. ASSUME \/ \E g \in Sigs : Land(g) \/ LockExpire(g) \/ KnownBadExpire(g)
             \/ \E s \in Slots, g \in Sigs : Arrive(s, g)
             \/ \E s \in Slots : CheckKnownBad(s) \/ Reject(s) \/ Clear(s)
             \/ \E p \in Processes : BreakerReset(p)
             \/ UNCHANGED vars
      PROVE  MarkedIsCredited'
  BY <1>7, <1>8 DEF Land, LockExpire, KnownBadExpire, Arrive, CheckKnownBad, Reject,
                    Clear, BreakerReset, vars
<1> QED
  BY <1>1, <1>2, <1>3, <1>4, <1>5, <1>6, <1>8 DEF Next, Handle, Verify

\* A signature is consumed only together with its credit, which only a crash
\* between the two commands loses, however slow verifications are.
THEOREM MarkedIsCreditedHolds == Spec => []MarkedIsCredited
<1>1. Init => MarkedIsCredited
  BY DEF Init, MarkedIsCredited
<1>2. Flow /\ Kept /\ [Next]_vars => Flow' /\ Kept'
  BY FlowStep, KeptStep
<1>3. Flow /\ Kept /\ MarkedIsCredited /\ [Next]_vars => MarkedIsCredited'
  BY MarkedStep
<1> QED
  BY <1>1, <1>2, <1>3, FlowInit, PTL DEF Spec
=============================================================================
