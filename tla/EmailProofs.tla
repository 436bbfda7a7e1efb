---------------------------- MODULE EmailProofs ----------------------------
(***************************************************************************)
(* Proofs about the email sink and its dedup cache, for every set of keys, *)
(* every cooldown and every cap.                                           *)
(*                                                                         *)
(* First the cache, under any calls of should_emit: a cached key carries   *)
(* its latest emission, and a key that is not cached (never let through,   *)
(* or collected) was not let through during the last cooldown.  Then the   *)
(* sink, whose decisions are such calls of the cache and, for the alerts   *)
(* that pass it, calls of the bucket.  Last the emails the cap lets out,   *)
(* which go out any time after the token was taken: AccountedFor keeps     *)
(* the account of tokens, of the email under way and of those sent.        *)
(***************************************************************************)
EXTENDS EmailPolicy, TLAPS

CacheTracks ==
  \A k \in Keys :
    /\ \A t \in Emitted[k] : t <= now
    /\ k \in DOMAIN seen =>
         /\ seen[k] \in Emitted[k]
         /\ \A t \in Emitted[k] : t <= seen[k]
    /\ k \notin DOMAIN seen =>
         \A t \in Emitted[k] : now - t >= DedupCooldown

DedupInv == Dedup!TypeOK /\ CacheTracks /\ CacheSpansOneCooldown

-----------------------------------------------------------------------------
LEMMA DedupInit == Dedup!Init => DedupInv
BY DEF Dedup!Init, DedupInv, Dedup!TypeOK, CacheTracks, CacheSpansOneCooldown,
     Dedup!CacheSpansOneCooldown

LEMMA DedupTick == DedupInv /\ Dedup!Tick => DedupInv'
<1> SUFFICES ASSUME DedupInv, Dedup!Tick PROVE DedupInv'
  OBVIOUS
<1>1. now' = now + 1 /\ seen' = seen /\ Emitted' = Emitted /\ LastVerdict' = LastVerdict
  BY DEF Dedup!Tick
<1>2. /\ now \in Nat /\ DedupCooldown \in Nat
      /\ \A k \in Keys : Emitted[k] \subseteq Nat
  BY DedupAssumption DEF DedupInv, Dedup!TypeOK
<1>3. Dedup!TypeOK' /\ CacheSpansOneCooldown'
  BY <1>1, <1>2 DEF DedupInv, Dedup!TypeOK, CacheSpansOneCooldown,
     Dedup!CacheSpansOneCooldown
<1>4. CacheTracks'
  <2> SUFFICES ASSUME NEW k \in Keys
      PROVE  /\ \A t \in Emitted'[k] : t <= now'
             /\ k \in DOMAIN seen' =>
                  /\ seen'[k] \in Emitted'[k]
                  /\ \A t \in Emitted'[k] : t <= seen'[k]
             /\ k \notin DOMAIN seen' =>
                  \A t \in Emitted'[k] : now' - t >= DedupCooldown
    BY DEF CacheTracks
  <2>1. \A t \in Emitted[k] : t \in Nat /\ t <= now
    BY <1>2 DEF DedupInv, CacheTracks
  <2>2. \A t \in Emitted[k] : t <= now + 1 /\ now - t <= (now + 1) - t
    BY <1>2, <2>1
  <2>3. k \in DOMAIN seen => /\ seen[k] \in Emitted[k]
                             /\ \A t \in Emitted[k] : t <= seen[k]
    BY DEF DedupInv, CacheTracks
  <2>4. k \notin DOMAIN seen =>
          \A t \in Emitted[k] : now - t >= DedupCooldown
    BY DEF DedupInv, CacheTracks
  <2>5. k \notin DOMAIN seen =>
          \A t \in Emitted[k] : (now + 1) - t >= DedupCooldown
    BY <1>2, <2>1, <2>2, <2>4
  <2>6. \A t \in Emitted'[k] : t <= now'
    BY <1>1, <2>2
  <2>7. k \in DOMAIN seen' =>
          /\ seen'[k] \in Emitted'[k]
          /\ \A t \in Emitted'[k] : t <= seen'[k]
    BY <1>1, <2>3
  <2>8. k \notin DOMAIN seen' =>
          \A t \in Emitted'[k] : now' - t >= DedupCooldown
    BY <1>1, <2>5
  <2> QED
    BY <2>6, <2>7, <2>8
<1> QED
  BY <1>3, <1>4 DEF DedupInv

(***************************************************************************)
(* What the cache holds after an emission of k.                            *)
(***************************************************************************)
LEMMA RememberedFacts ==
  ASSUME Dedup!TypeOK, CacheTracks, NEW k \in Keys, Dedup!Emit(k)
  PROVE  /\ DOMAIN seen' \subseteq DOMAIN seen \cup {k}
         /\ \A x \in DOMAIN seen' :
              /\ seen'[x] = IF x = k THEN now ELSE seen[x]
              /\ seen'[x] \in Nat /\ seen'[x] <= now
              /\ now - seen'[x] < DedupCooldown
         /\ \A x \in DOMAIN seen \cup {k} : x \notin DOMAIN seen' =>
              now - (IF x = k THEN now ELSE seen[x]) >= DedupCooldown
         /\ seen' = [x \in DOMAIN seen' |-> seen'[x]]
<1> DEFINE all == [x \in DOMAIN seen \cup {k} |->
                     IF x = k THEN now ELSE seen[x]]
           live == { x \in DOMAIN all : Dedup!Elapsed(now, all[x]) < DedupCooldown }
<1>1. now \in Nat /\ DedupCooldown \in Nat /\ DOMAIN seen \subseteq Keys
  BY DedupAssumption DEF Dedup!TypeOK
<1>2. \A x \in DOMAIN seen : seen[x] \in Nat /\ seen[x] <= now
  BY <1>1 DEF Dedup!TypeOK, CacheTracks
<1>3. \A x \in DOMAIN all : /\ all[x] \in Nat /\ all[x] <= now
                           /\ Dedup!Elapsed(now, all[x]) = now - all[x]
  BY <1>1, <1>2 DEF Dedup!Elapsed
<1>4. seen' = [x \in live |-> all[x]]
  BY DEF Dedup!Emit, Dedup!Remembered
<1>5. DOMAIN seen' = live /\ \A x \in live : seen'[x] = all[x]
  BY <1>4
<1>6. DOMAIN all = DOMAIN seen \cup {k}
  OBVIOUS
<1>7. \A x \in live : now - all[x] < DedupCooldown
  BY <1>3
<1>8. \A x \in DOMAIN all : x \notin live => now - all[x] >= DedupCooldown
  <2> SUFFICES ASSUME NEW x \in DOMAIN all, x \notin live
               PROVE  now - all[x] >= DedupCooldown
    OBVIOUS
  <2>1. ~(Dedup!Elapsed(now, all[x]) < DedupCooldown)
    OBVIOUS
  <2>2. /\ all[x] \in Nat /\ Dedup!Elapsed(now, all[x]) = now - all[x]
    BY <1>3
  <2> HIDE DEF all, live
  <2> QED
    BY <1>1, <2>1, <2>2
<1> QED
  BY <1>3, <1>4, <1>5, <1>6, <1>7, <1>8

LEMMA DedupEmit ==
  ASSUME DedupInv, NEW k \in Keys, Dedup!Emit(k)
  PROVE  DedupInv'
<1>1. /\ now' = now /\ LastVerdict' = {<<k, TRUE>>}
      /\ Emitted' = [Emitted EXCEPT ![k] = @ \cup {now}]
  BY DEF Dedup!Emit
<1>2. /\ now \in Nat /\ DedupCooldown \in Nat
      /\ Emitted \in [Keys -> SUBSET Nat] /\ DOMAIN seen \subseteq Keys
  BY DedupAssumption DEF DedupInv, Dedup!TypeOK
<1>3. Dedup!TypeOK'
  <2>1. seen' \in [DOMAIN seen' -> Nat] /\ DOMAIN seen' \in SUBSET Keys
    BY <1>2, RememberedFacts DEF DedupInv
  <2>2. Emitted' \in [Keys -> SUBSET Nat] /\ LastVerdict' \in SUBSET (Keys \X BOOLEAN)
    <3>1. Emitted' \in [Keys -> SUBSET Nat]
      BY <1>1, <1>2
    <3>2. <<k, TRUE>> \in Keys \X BOOLEAN
      OBVIOUS
    <3> QED
      BY <1>1, <3>1, <3>2
  <2> QED
    BY <1>1, <1>2, <2>1, <2>2 DEF Dedup!TypeOK
<1>4. CacheSpansOneCooldown'
  <2> SUFFICES ASSUME NEW x \in DOMAIN seen', NEW y \in DOMAIN seen'
               PROVE  seen'[x] - seen'[y] < DedupCooldown
    BY DEF CacheSpansOneCooldown, Dedup!CacheSpansOneCooldown
  <2>1. /\ seen'[x] \in Nat /\ seen'[x] <= now
        /\ seen'[y] \in Nat /\ now - seen'[y] < DedupCooldown
    BY RememberedFacts DEF DedupInv
  <2> QED
    BY <1>2, <2>1
<1>5. CacheTracks'
  <2> SUFFICES ASSUME NEW x \in Keys
      PROVE  /\ \A t \in Emitted'[x] : t <= now
             /\ x \in DOMAIN seen' =>
                  /\ seen'[x] \in Emitted'[x]
                  /\ \A t \in Emitted'[x] : t <= seen'[x]
             /\ x \notin DOMAIN seen' =>
                  \A t \in Emitted'[x] : now - t >= DedupCooldown
    BY <1>1 DEF CacheTracks
  <2>1. /\ Emitted[x] \subseteq Nat
        /\ \A t \in Emitted[x] : t <= now
        /\ x \in DOMAIN seen => /\ seen[x] \in Emitted[x]
                                /\ \A t \in Emitted[x] : t <= seen[x]
        /\ x \notin DOMAIN seen =>
             \A t \in Emitted[x] : now - t >= DedupCooldown
    BY <1>2 DEF DedupInv, CacheTracks
  <2>2. CASE x = k
    <3>1. Emitted'[x] = Emitted[x] \cup {now}
      BY <1>1, <1>2, <2>2
    <3>2. x \in DOMAIN seen' => seen'[x] = now
      BY <2>2, RememberedFacts DEF DedupInv
    <3>3. x \notin DOMAIN seen' => now - now >= DedupCooldown
      BY <2>2, RememberedFacts DEF DedupInv
    <3>4. \A t \in Emitted[x] : now - t >= now - now
      BY <1>2, <2>1
    <3>5. \A t \in Emitted[x] : t \in Nat
      BY <2>1
    <3>6. x \notin DOMAIN seen' =>
            \A t \in Emitted[x] \cup {now} : now - t >= DedupCooldown
      BY <1>2, <3>3, <3>4, <3>5
    <3> QED
      BY <1>2, <2>1, <3>1, <3>2, <3>6
  <2>3. CASE x # k
    <3>1. Emitted'[x] = Emitted[x]
      BY <1>1, <1>2, <2>3
    <3>2. CASE x \in DOMAIN seen'
      BY <2>1, <2>3, <3>1, <3>2, RememberedFacts DEF DedupInv
    <3>3. CASE x \notin DOMAIN seen' /\ x \in DOMAIN seen
      <4>1. now - seen[x] >= DedupCooldown /\ seen[x] \in Nat
        BY <2>1, <2>3, <3>3, RememberedFacts DEF DedupInv
      <4>2. \A t \in Emitted[x] : t \in Nat /\ t <= seen[x]
        BY <2>1, <3>3
      <4>3. \A t \in Emitted[x] : now - t >= DedupCooldown
        BY <1>2, <4>1, <4>2
      <4> QED
        BY <2>1, <3>1, <3>3, <4>3
    <3>4. CASE x \notin DOMAIN seen' /\ x \notin DOMAIN seen
      BY <2>1, <3>1, <3>4
    <3> QED
      BY <3>2, <3>3, <3>4
  <2> QED
    BY <2>2, <2>3
<1> QED
  BY <1>3, <1>4, <1>5 DEF DedupInv

LEMMA DedupInvHolds == Dedup!Spec => []DedupInv
<1>1. ASSUME DedupInv, NEW k \in Keys, Dedup!Suppress(k) PROVE DedupInv'
  <2>1. UNCHANGED <<now, seen, Emitted>> /\ LastVerdict' = {<<k, FALSE>>}
    BY <1>1 DEF Dedup!Suppress
  <2>2. <<k, FALSE>> \in Keys \X BOOLEAN
    OBVIOUS
  <2>3. Dedup!TypeOK'
    BY <1>1, <2>1, <2>2 DEF DedupInv, Dedup!TypeOK
  <2>4. CacheTracks' /\ CacheSpansOneCooldown'
    BY <1>1, <2>1 DEF DedupInv, CacheTracks, CacheSpansOneCooldown,
     Dedup!CacheSpansOneCooldown
  <2> QED
    BY <2>3, <2>4 DEF DedupInv
<1>2. DedupInv /\ UNCHANGED Dedup!vars => DedupInv'
  BY DEF Dedup!vars, DedupInv, Dedup!TypeOK, CacheTracks, CacheSpansOneCooldown,
     Dedup!CacheSpansOneCooldown
<1>3. DedupInv /\ [Dedup!Next]_Dedup!vars => DedupInv'
  BY <1>1, <1>2, DedupTick, DedupEmit DEF Dedup!Next
<1> QED
  BY <1>3, DedupInit, PTL DEF Dedup!Spec

(***************************************************************************)
(* The keys in the map were let through within one cooldown of each other. *)
(***************************************************************************)
LEMMA CacheBounded == Dedup!Spec => []CacheSpansOneCooldown
BY DedupInvHolds, PTL DEF DedupInv

-----------------------------------------------------------------------------
(***************************************************************************)
(* The test the cache makes is the one the monitor makes.                  *)
(***************************************************************************)
LEMMA SuppressesIsRecent ==
  ASSUME DedupInv, NEW k \in Keys
  PROVE  Dedup!Suppresses(seen, k, DedupCooldown, now) <=> Dedup!Monitor!Recent(k)
<1>1. /\ now \in Nat /\ DedupCooldown \in Nat /\ Emitted[k] \subseteq Nat
  BY DedupAssumption DEF DedupInv, Dedup!TypeOK
<1>2. CASE k \in DOMAIN seen
  <2>1. /\ seen[k] \in Emitted[k] /\ seen[k] \in Nat /\ seen[k] <= now
        /\ \A t \in Emitted[k] : t \in Nat /\ t <= seen[k]
    BY <1>1, <1>2 DEF DedupInv, CacheTracks
  <2>2. Dedup!Elapsed(now, seen[k]) = now - seen[k]
    BY <1>1, <2>1 DEF Dedup!Elapsed
  <2> QED
    BY <1>1, <1>2, <2>1, <2>2 DEF Dedup!Suppresses, Dedup!Monitor!Recent
<1>3. CASE k \notin DOMAIN seen
  <2>1. \A t \in Emitted[k] : t \in Nat /\ now - t >= DedupCooldown
    BY <1>1, <1>3 DEF DedupInv, CacheTracks
  <2> QED
    BY <1>1, <1>3, <2>1 DEF Dedup!Suppresses, Dedup!Monitor!Recent
<1> QED
  BY <1>2, <1>3

(***************************************************************************)
(* Collecting expired entries never changes an answer: the cache           *)
(* implements the monitor that keeps every emission.                       *)
(***************************************************************************)
LEMMA CacheImplementsMonitor == Dedup!Spec => ImplementsMonitor
<1>1. Dedup!Init => Dedup!Monitor!Init
  BY DEF Dedup!Init, Dedup!Monitor!Init
<1>2. DedupInv /\ [Dedup!Next]_Dedup!vars => [Dedup!Monitor!Next]_Dedup!Monitor!monitorVars
  <2> SUFFICES ASSUME DedupInv, [Dedup!Next]_Dedup!vars
               PROVE  [Dedup!Monitor!Next]_Dedup!Monitor!monitorVars
    OBVIOUS
  <2>1. ASSUME NEW k \in Keys, Dedup!Suppress(k) PROVE Dedup!Monitor!Ask(k)
    BY <2>1, SuppressesIsRecent DEF Dedup!Suppress, Dedup!Monitor!Ask
  <2>2. ASSUME NEW k \in Keys, Dedup!Emit(k) PROVE Dedup!Monitor!Ask(k)
    BY <2>2, SuppressesIsRecent DEF Dedup!Emit, Dedup!Monitor!Ask
  <2>3. CASE Dedup!Tick
    BY <2>3 DEF Dedup!Tick, Dedup!Monitor!Next, Dedup!Monitor!Tick
  <2>4. CASE UNCHANGED Dedup!vars
    BY <2>4 DEF Dedup!vars, Dedup!Monitor!monitorVars
  <2> QED
    BY <2>1, <2>2, <2>3, <2>4 DEF Dedup!Next, Dedup!Monitor!Next
<1> QED
  BY <1>1, <1>2, DedupInvHolds, PTL DEF Dedup!Spec, ImplementsMonitor,
     Dedup!ImplementsMonitor, Dedup!Monitor!Spec

-----------------------------------------------------------------------------
(***************************************************************************)
(* The sink.  While an email is under way the attempt is the last          *)
(* decision, none lies in the future, and mail(1) exits with 0 only after  *)
(* it handed the mail over.                                                *)
(***************************************************************************)
Decision == [key: Keys, at: Nat, verdict: Verdicts]

UnderWay ==
  /\ \A i \in 1..Len(decisions) : decisions[i].at <= now
  /\ phase # "idle" => decisions # <<>>

MailedFor(i) ==
  mails[i].key = current /\ mails[i].at >= decisions[Len(decisions)].at

ExitedOk == mail = "exited_ok" => \E i \in 1..Len(mails) : MailedFor(i)

SinkInv == TypeOK /\ UnderWay /\ ExitedOk

LEMMA RefillTyped ==
  ASSUME TypeOK
  PROVE  /\ Refill \in [tokens: 0..(DailyCap * Day), last_refill: Nat]
         /\ HasToken(Refill, Day) =>
              Spent(Refill, Day) \in [tokens: 0..(DailyCap * Day), last_refill: Nat]
<1> DEFINE full == DailyCap * Day
           added == Elapsed(now, daily_bucket.last_refill) * DailyCap
           sum == daily_bucket.tokens + added
<1>1. /\ now \in Nat /\ DailyCap \in Nat /\ Day \in Nat \ {0}
      /\ daily_bucket \in [tokens: 0..full, last_refill: Nat]
  BY EmailAssumption DEF TypeOK
<1>2. full \in Nat
  BY <1>1
<1>3. Elapsed(now, daily_bucket.last_refill) \in Nat
  BY <1>1 DEF Elapsed
<1>4. added \in Nat
  BY <1>1, <1>3
<1>5. Refill = IF added > 0
               THEN [tokens |-> IF sum < full THEN sum ELSE full,
                     last_refill |-> now]
               ELSE daily_bucket
  BY DEF Refill, Refilled
<1>6. Refill \in [tokens: 0..full, last_refill: Nat]
  <2> HIDE DEF full, added
  <2> QED BY <1>1, <1>2, <1>4, <1>5
<1>7. ASSUME HasToken(Refill, Day)
      PROVE  Spent(Refill, Day) \in [tokens: 0..full, last_refill: Nat]
  <2> HIDE DEF full
  <2>1. Refill.tokens >= Day /\ Refill.tokens - Day \in 0..full
    BY <1>1, <1>2, <1>6, <1>7 DEF HasToken
  <2>2. Spent(Refill, Day) = [Refill EXCEPT !.tokens = Refill.tokens - Day]
    BY DEF Spent
  <2> QED BY <1>6, <2>1, <2>2
<1> QED
  BY <1>6, <1>7

LEMMA RememberedTyped ==
  ASSUME TypeOK, NEW k \in Keys, seen' = Remembered(seen, k, DedupCooldown, now)
  PROVE  DOMAIN seen' \subseteq Keys /\ \A x \in DOMAIN seen' : seen'[x] \in Nat
<1> DEFINE all == [x \in DOMAIN seen \cup {k} |->
                     IF x = k THEN now ELSE seen[x]]
           live == { x \in DOMAIN all : Elapsed(now, all[x]) < DedupCooldown }
<1>1. seen' = [x \in live |-> all[x]]
  BY DEF Remembered
<1>2. \A x \in DOMAIN all : x \in Keys /\ all[x] \in Nat
  BY DEF TypeOK
<1>3. live \subseteq DOMAIN all
  OBVIOUS
<1> HIDE DEF all, live
<1> QED
  BY <1>1, <1>2, <1>3

(* What Decide does to the list of decisions.                              *)
LEMMA DecisionMade ==
  ASSUME TypeOK, NEW k \in Keys, NEW v \in Verdicts, Decide(k, v)
  PROVE  /\ decisions' \in Seq(Decision)
         /\ Len(decisions') = Len(decisions) + 1 /\ Len(decisions) \in Nat
         /\ \A i \in 1..Len(decisions) : decisions'[i] = decisions[i]
         /\ decisions'[Len(decisions) + 1] = [key |-> k, at |-> now, verdict |-> v]
         /\ decisions' # <<>>
         /\ attempts' \in Seq(Nat)
<1> DEFINE d == [key |-> k, at |-> now, verdict |-> v]
<1>1. d \in Decision /\ decisions \in Seq(Decision)
  BY DEF TypeOK, Decision
<1>2. decisions' = Append(decisions, d)
  BY DEF Decide
<1> HIDE DEF d
<1>3. /\ decisions' \in Seq(Decision)
      /\ Len(decisions') = Len(decisions) + 1 /\ Len(decisions) \in Nat
      /\ \A i \in 1..Len(decisions) : decisions'[i] = decisions[i]
      /\ decisions'[Len(decisions) + 1] = d
      /\ decisions' # <<>>
  BY <1>1, <1>2
<1>4. attempts' \in Seq(Nat)
  BY DEF Decide, TypeOK
<1> QED
  BY <1>3, <1>4 DEF d

LEMMA DecidedInTime ==
  ASSUME SinkInv, NEW k \in Keys, NEW v \in Verdicts, Decide(k, v), now' = now
  PROVE  \A i \in 1..Len(decisions') : decisions'[i].at <= now'
<1>1. now \in Nat
  BY DEF SinkInv, TypeOK
<1> SUFFICES ASSUME NEW i \in 1..Len(decisions') PROVE decisions'[i].at <= now
  OBVIOUS
<1>2. TypeOK
  BY DEF SinkInv
<1>3. Len(decisions) \in Nat /\ Len(decisions') = Len(decisions) + 1
  BY <1>2, DecisionMade
<1>4. CASE i = Len(decisions) + 1
  <2>1. decisions'[i] = [key |-> k, at |-> now, verdict |-> v]
    BY <1>2, <1>4, DecisionMade
  <2> QED BY <1>1, <2>1
<1>5. CASE i # Len(decisions) + 1
  <2>1. i \in 1..Len(decisions)
    BY <1>3, <1>5
  <2>2. decisions'[i] = decisions[i]
    BY <1>2, <2>1, DecisionMade
  <2> QED BY <2>1, <2>2 DEF SinkInv, UnderWay
<1> QED BY <1>4, <1>5

LEMMA SinkInit == Init => SinkInv
<1> SUFFICES ASSUME Init PROVE SinkInv
  OBVIOUS
<1>1. DailyCap * Day \in Nat
  BY EmailAssumption
<1>2. daily_bucket \in [tokens: 0..(DailyCap * Day), last_refill: Nat]
  <2> DEFINE full == DailyCap * Day
  <2>1. daily_bucket = [tokens |-> full, last_refill |-> 0]
    BY DEF Init, FullBucket
  <2> HIDE DEF full
  <2>2. full \in Nat => full \in 0..full
    OBVIOUS
  <2>3. daily_bucket \in [tokens: 0..full, last_refill: Nat]
    BY <1>1, <2>1, <2>2 DEF full
  <2> QED BY <2>3 DEF full
<1>3. TypeOK
  BY <1>2 DEF Init, TypeOK
<1>4. UnderWay /\ ExitedOk
  BY DEF Init, UnderWay, ExitedOk
<1> QED
  BY <1>3, <1>4 DEF SinkInv

(***************************************************************************)
(* What a decision does to the type of cache, bucket and list.             *)
(***************************************************************************)
LEMMA DropOverCapTyped ==
  ASSUME TypeOK, NEW sev, NEW k \in Keys, DropOverCap(sev, k)
  PROVE  TypeOK'
<1>1. Decide(k, "capped") /\ "capped" \in Verdicts
  BY DEF DropOverCap, Verdicts
<1>2. /\ decisions' \in Seq([key: Keys, at: Nat, verdict: Verdicts])
      /\ attempts' \in Seq(Nat)
  BY <1>1, DecisionMade DEF Decision
<1>3. DOMAIN seen' \subseteq Keys /\ \A x \in DOMAIN seen' : seen'[x] \in Nat
  BY RememberedTyped DEF DropOverCap
<1>4. daily_bucket' \in [tokens: 0..(DailyCap * Day), last_refill: Nat]
  BY RefillTyped DEF DropOverCap
<1>5. UNCHANGED <<now, phase, current, mail, mails>> /\ outcome' = "ok"
  BY DEF DropOverCap, Return
<1> QED
  BY <1>2, <1>3, <1>4, <1>5, Zenon DEF TypeOK

LEMMA AttemptTyped ==
  ASSUME TypeOK, NEW sev, NEW k \in Keys, Attempt(sev, k)
  PROVE  /\ now' = now /\ now \in Nat /\ mails' = mails
         /\ DOMAIN seen' \subseteq Keys /\ \A x \in DOMAIN seen' : seen'[x] \in Nat
         /\ daily_bucket' \in [tokens: 0..(DailyCap * Day), last_refill: Nat]
         /\ decisions' \in Seq([key: Keys, at: Nat, verdict: Verdicts])
         /\ attempts' \in Seq(Nat)
<1>1. Decide(k, "mailing") /\ "mailing" \in Verdicts
  BY DEF Attempt, Verdicts
<1>2. /\ decisions' \in Seq([key: Keys, at: Nat, verdict: Verdicts])
      /\ attempts' \in Seq(Nat)
  BY <1>1, DecisionMade DEF Decision
<1>3. DOMAIN seen' \subseteq Keys /\ \A x \in DOMAIN seen' : seen'[x] \in Nat
  BY RememberedTyped DEF Attempt
<1>4. daily_bucket' \in [tokens: 0..(DailyCap * Day), last_refill: Nat]
  BY RefillTyped DEF Attempt
<1> QED
  BY <1>2, <1>3, <1>4 DEF Attempt, TypeOK

LEMMA DispatchKeeps ==
  ASSUME SinkInv, NEW sev, NEW k \in Keys, Dispatch(sev, k)
  PROVE  SinkInv'
<1> USE DEF SinkInv
<1>1. CASE DropBelowPage(sev)
  <2>1. /\ UNCHANGED <<now, seen, daily_bucket, phase, current, mail,
                       decisions, attempts, mails>>
        /\ outcome' = "ok"
    BY <1>1 DEF DropBelowPage, Return
  <2>2. TypeOK'
    BY <2>1, Zenon DEF TypeOK
  <2> QED BY <2>1, <2>2 DEF UnderWay, ExitedOk, MailedFor
<1>2. CASE DropDuplicate(sev, k)
  <2>1. /\ UNCHANGED <<now, seen, daily_bucket, phase, current, mail, mails>>
        /\ outcome' = "ok" /\ phase = "idle"
    BY <1>2 DEF DropDuplicate, Return
  <2>2. Decide(k, "deduped") /\ "deduped" \in Verdicts
    BY <1>2 DEF DropDuplicate, Verdicts
  <2>3. /\ decisions' \in Seq([key: Keys, at: Nat, verdict: Verdicts])
        /\ attempts' \in Seq(Nat)
    BY <2>2, DecisionMade DEF Decision
  <2>4. TypeOK'
    BY <2>1, <2>3, Zenon DEF TypeOK
  <2>5. UnderWay'
    BY <2>1, <2>2, DecidedInTime DEF UnderWay
  <2>6. ExitedOk'
    BY <2>1 DEF ExitedOk, TypeOK
  <2> QED BY <2>4, <2>5, <2>6
<1>3. CASE DropOverCap(sev, k)
  <2>1. UNCHANGED <<now, phase, current, mail, mails>> /\ phase = "idle"
    BY <1>3 DEF DropOverCap
  <2>2. Decide(k, "capped") /\ "capped" \in Verdicts
    BY <1>3 DEF DropOverCap, Verdicts
  <2>3. TypeOK'
    BY <1>3, DropOverCapTyped
  <2>4. UnderWay'
    BY <2>1, <2>2, DecidedInTime DEF UnderWay
  <2>5. ExitedOk'
    BY <2>1 DEF ExitedOk, TypeOK
  <2> QED BY <2>3, <2>4, <2>5
<1>4. ASSUME Attempt(sev, k)
      PROVE  /\ \A i \in 1..Len(decisions') : decisions'[i].at <= now'
             /\ decisions' # <<>>
  <2>1. Decide(k, "mailing") /\ "mailing" \in Verdicts /\ now' = now
    BY <1>4 DEF Attempt, Verdicts
  <2> QED BY <2>1, DecidedInTime, DecisionMade
<1>5. CASE SpawnFails(sev, k)
  <2>1. /\ Attempt(sev, k) /\ phase = "idle"
        /\ UNCHANGED <<phase, current, mail>> /\ outcome' = "failed"
    BY <1>5 DEF SpawnFails, Attempt, Return
  <2>2. TypeOK'
    BY <2>1, AttemptTyped, Zenon DEF TypeOK
  <2>3. UnderWay'
    BY <1>4, <2>1 DEF UnderWay
  <2>4. ExitedOk'
    BY <2>1 DEF ExitedOk, TypeOK
  <2> QED BY <2>2, <2>3, <2>4
<1>6. CASE Spawn(sev, k)
  <2>1. /\ Attempt(sev, k)
        /\ phase' = "writing" /\ mail' = "reading" /\ current' = k
        /\ outcome' = outcome
    BY <1>6 DEF Spawn
  <2>2. k # None
    BY EmailAssumption
  <2>3. TypeOK'
    <3>1. phase' # "idle" /\ mail' # "none" /\ current' # None
      BY <2>1, <2>2
    <3> QED BY <2>1, <3>1, AttemptTyped, Zenon DEF TypeOK
  <2>4. UnderWay'
    BY <1>4, <2>1 DEF UnderWay
  <2>5. ExitedOk'
    BY <2>1 DEF ExitedOk
  <2> QED BY <2>3, <2>4, <2>5
<1> QED
  BY <1>1, <1>2, <1>3, <1>5, <1>6 DEF Dispatch

(***************************************************************************)
(* The awaits, mail(1) and the clock take no decision.                     *)
(***************************************************************************)
LEMMA FinishKeeps ==
  ASSUME SinkInv, NEW result \in {"ok", "failed"}, Finish(result)
  PROVE  SinkInv'
<1>1. /\ phase' = "idle" /\ current' = None /\ mail' = "none"
      /\ outcome' \in {"ok", "failed"}
      /\ UNCHANGED <<now, seen, daily_bucket, decisions, attempts, mails>>
  BY DEF Finish, Return
<1>2. TypeOK'
  BY <1>1, Zenon DEF SinkInv, TypeOK
<1> QED
  BY <1>1, <1>2 DEF SinkInv, UnderWay, ExitedOk

LEMMA MailDeliversKeeps == SinkInv /\ MailDelivers => SinkInv'
<1> SUFFICES ASSUME SinkInv, MailDelivers PROVE SinkInv'
  OBVIOUS
<1> DEFINE m == [key |-> current, at |-> now]
<1>1. /\ phase # "idle" /\ mail' = "exited_ok" /\ mails' = Append(mails, m)
      /\ UNCHANGED <<now, seen, daily_bucket, phase, current, outcome,
                     decisions, attempts>>
  BY DEF MailDelivers
<1>2. current \in Keys /\ now \in Nat /\ mails \in Seq([key: Keys, at: Nat])
  BY <1>1 DEF SinkInv, TypeOK
<1>3. m \in [key: Keys, at: Nat] /\ m.key = current /\ m.at = now
  BY <1>2
<1> HIDE DEF m
<1>4. /\ mails' \in Seq([key: Keys, at: Nat]) /\ Len(mails') \in Nat \ {0}
      /\ mails'[Len(mails')] = m
  BY <1>1, <1>2, <1>3
<1>5. TypeOK'
  <2>1. mail' # "none"
    BY <1>1
  <2> QED BY <1>1, <1>4, <2>1, Zenon DEF SinkInv, TypeOK
<1>6. UnderWay'
  BY <1>1 DEF SinkInv, UnderWay
<1>7. ExitedOk'
  <2>1. decisions # <<>> /\ Len(decisions) \in 1..Len(decisions)
    <3>1. decisions # <<>> /\ decisions \in Seq(Decision)
      BY <1>1 DEF SinkInv, UnderWay, TypeOK, Decision
    <3> QED BY <3>1
  <2>2. decisions[Len(decisions)].at <= now
    BY <2>1 DEF SinkInv, UnderWay
  <2>3. decisions[Len(decisions)] \in Decision
    <3>1. decisions \in Seq(Decision)
      BY DEF SinkInv, TypeOK, Decision
    <3> QED BY <2>1, <3>1
  <2>4. decisions[Len(decisions)].at \in Nat
    BY <2>3 DEF Decision
  <2>5. MailedFor(Len(mails))'
    BY <1>1, <1>2, <1>3, <1>4, <2>2, <2>4 DEF MailedFor
  <2> QED BY <1>4, <2>5 DEF ExitedOk
<1> QED
  BY <1>5, <1>6, <1>7 DEF SinkInv

LEMMA QuietKeeps ==
  ASSUME SinkInv, WriteBody \/ MailDies \/ Tick \/ UNCHANGED vars
  PROVE  SinkInv'
<1>1. CASE WriteBody
  <2>1. /\ phase = "writing" /\ phase' = "waiting" /\ mail = "reading"
        /\ UNCHANGED <<now, seen, daily_bucket, current, mail, outcome,
                       decisions, attempts, mails>>
    BY <1>1 DEF WriteBody
  <2>2. phase # "idle" /\ phase' # "idle"
    BY <2>1
  <2>3. TypeOK'
    BY <2>1, <2>2, Zenon DEF SinkInv, TypeOK
  <2> QED BY <2>1, <2>2, <2>3 DEF SinkInv, UnderWay, ExitedOk, MailedFor
<1>2. CASE MailDies
  <2>1. /\ mail = "reading" /\ mail' = "exited_bad"
        /\ UNCHANGED <<now, seen, daily_bucket, phase, current, outcome,
                       decisions, attempts, mails>>
    BY <1>2 DEF MailDies
  <2>2. mail # "none" /\ mail' # "none"
    BY <2>1
  <2>3. TypeOK'
    BY <2>1, <2>2, Zenon DEF SinkInv, TypeOK
  <2> QED BY <2>1, <2>3 DEF SinkInv, UnderWay, ExitedOk
<1>3. CASE Tick
  <2>1. /\ now' = now + 1 /\ now \in Nat
        /\ UNCHANGED <<seen, daily_bucket, phase, current, mail, outcome,
                       decisions, attempts, mails>>
    BY <1>3 DEF Tick, SinkInv, TypeOK
  <2>2. now' \in Nat
    BY <2>1
  <2>3. TypeOK'
    BY <2>1, <2>2, Zenon DEF SinkInv, TypeOK
  <2>4. \A i \in 1..Len(decisions) : decisions[i].at \in Nat
    <3>1. decisions \in Seq(Decision)
      BY DEF SinkInv, TypeOK, Decision
    <3>2. \A i \in 1..Len(decisions) : decisions[i] \in Decision
      BY <3>1
    <3> QED BY <3>2 DEF Decision
  <2>5. UnderWay'
    BY <2>1, <2>4 DEF SinkInv, UnderWay
  <2> QED BY <2>1, <2>3, <2>5 DEF SinkInv, ExitedOk, MailedFor
<1>4. CASE UNCHANGED vars
  <2>1. TypeOK'
    BY <1>4, Zenon DEF vars, SinkInv, TypeOK
  <2> QED BY <1>4, <2>1 DEF vars, SinkInv, UnderWay, ExitedOk, MailedFor
<1> QED
  BY <1>1, <1>2, <1>3, <1>4

LEMMA SinkStep == SinkInv /\ [Next]_vars => SinkInv'
<1> SUFFICES ASSUME SinkInv, [Next]_vars PROVE SinkInv'
  OBVIOUS
<1>1. WriteFails \/ Reap \/ WaitFails =>
        \E result \in {"ok", "failed"} : Finish(result)
  BY DEF WriteFails, Reap, WaitFails
<1> QED
  BY <1>1, DispatchKeeps, FinishKeeps, MailDeliversKeeps, QuietKeeps DEF Next

LEMMA SinkInvHolds == Spec => []SinkInv
BY SinkInit, SinkStep, PTL DEF Spec

(***************************************************************************)
(* The state of the sink keeps its type; mail(1) runs exactly while        *)
(* dispatch waits for it (email.rs:174-213).                               *)
(***************************************************************************)
THEOREM TypeCorrect == Spec => []TypeOK
BY SinkInvHolds, PTL DEF SinkInv

(***************************************************************************)
(* dispatch returns Ok for an attempt only if its email went out           *)
(* (email.rs:200-211).                                                     *)
(***************************************************************************)
THEOREM OkIsMailed == Spec => OkMeansMailed
<1>1. SinkInv /\ [Next]_vars =>
        (phase # "idle" /\ phase' = "idle" /\ outcome' = "ok" =>
           \E i \in 1..Len(mails) :
             /\ mails[i].key = current
             /\ mails[i].at >= decisions[Len(decisions)].at)
  <2> SUFFICES ASSUME SinkInv, Next, phase # "idle", phase' = "idle",
                      outcome' = "ok"
               PROVE  \E i \in 1..Len(mails) : MailedFor(i)
    BY DEF vars, MailedFor
  <2>1. ~\E sev \in Severities, k \in Keys : Dispatch(sev, k)
    BY DEF Dispatch, DropBelowPage, DropDuplicate, DropOverCap, SpawnFails,
           Spawn, Attempt
  <2>2. ~WriteBody /\ ~MailDies /\ ~MailDelivers /\ ~Tick
    BY DEF WriteBody, MailDies, MailDelivers, Tick
  <2>3. ~WriteFails /\ ~WaitFails
    BY DEF WriteFails, WaitFails, Finish, Return
  <2>4. Reap
    BY <2>1, <2>2, <2>3 DEF Next
  <2>5. mail = "exited_ok"
    BY <2>4 DEF Reap, Finish, Return
  <2> QED BY <2>5 DEF SinkInv, ExitedOk
<1> QED
  BY <1>1, SinkInvHolds, PTL DEF Spec, OkMeansMailed

-----------------------------------------------------------------------------
(***************************************************************************)
(* A decision, read as a call of should_emit.                              *)
(***************************************************************************)
LEMMA DecisionRead ==
  ASSUME TypeOK, NEW k \in Keys, NEW v \in Verdicts, Decide(k, v)
  PROVE  /\ LastVerdict' = {<<k, v # "deduped">>}
         /\ Emitted' = IF v = "deduped" THEN Emitted
                       ELSE [Emitted EXCEPT ![k] = @ \cup {now}]
<1> DEFINE n == Len(decisions)
           At(x) == { j \in 1..n : decisions[j].key = x
                                   /\ decisions[j].verdict # "deduped" }
           AtNext(x) == { j \in 1..(n + 1) : decisions'[j].key = x
                                   /\ decisions'[j].verdict # "deduped" }
<1>1. /\ decisions \in Seq(Decision) /\ n \in Nat /\ DOMAIN decisions = 1..n
      /\ decisions' \in Seq(Decision) /\ DOMAIN decisions' = 1..(n + 1)
      /\ Len(decisions') = n + 1 /\ decisions' # <<>>
      /\ \A i \in 1..n : decisions'[i] = decisions[i]
      /\ decisions'[n + 1] = [key |-> k, at |-> now, verdict |-> v]
  <2>1. decisions \in Seq(Decision)
    BY DEF TypeOK, Decision
  <2> QED BY <2>1, DecisionMade
<1>2. LastVerdict' = {<<k, v # "deduped">>}
  BY <1>1 DEF LastVerdict
<1>3. Emitted = [x \in Keys |-> { decisions[i].at : i \in At(x) }]
  BY <1>1 DEF Emitted
<1>4. Emitted' = [x \in Keys |-> { decisions'[i].at : i \in AtNext(x) }]
  BY <1>1 DEF Emitted
<1>5. ASSUME NEW x \in Keys
      PROVE  AtNext(x) = IF v # "deduped" /\ x = k THEN At(x) \cup {n + 1}
                                                  ELSE At(x)
  <2>1. \A j \in 1..(n + 1) : j \in 1..n \/ j = n + 1
    BY <1>1
  <2>2. \A j \in 1..n : j \in 1..(n + 1)
    BY <1>1
  <2>3. n + 1 \in 1..(n + 1)
    BY <1>1
  <2>4. \A j \in 1..n : j \in AtNext(x) <=> j \in At(x)
    BY <1>1, <2>2
  <2>5. n + 1 \in AtNext(x) <=> x = k /\ v # "deduped"
    BY <1>1, <2>3
  <2>6. At(x) \subseteq 1..n /\ AtNext(x) \subseteq 1..(n + 1)
    OBVIOUS
  <2> HIDE DEF At, AtNext, n
  <2> QED BY <2>1, <2>4, <2>5, <2>6
<1>6. ASSUME NEW x \in Keys
      PROVE  { decisions'[i].at : i \in AtNext(x) } =
               IF v # "deduped" /\ x = k THEN { decisions[i].at : i \in At(x) } \cup {now}
               ELSE { decisions[i].at : i \in At(x) }
  <2>1. \A i \in At(x) : decisions'[i].at = decisions[i].at
    BY <1>1
  <2>2. decisions'[n + 1].at = now
    BY <1>1
  <2> HIDE DEF At, AtNext, n
  <2> QED BY <1>5, <2>1, <2>2
<1> HIDE DEF At, AtNext, n
<1>7. Emitted' = IF v = "deduped" THEN Emitted
                 ELSE [Emitted EXCEPT ![k] = @ \cup {now}]
  <2>1. CASE v = "deduped"
    BY <1>3, <1>4, <1>6, <2>1
  <2>2. CASE v # "deduped"
    BY <1>3, <1>4, <1>6, <2>2
  <2> QED BY <2>1, <2>2
<1> QED
  BY <1>2, <1>7

(***************************************************************************)
(* The sink calls its cache as the cache is meant to be called: once for   *)
(* every Page alert, whatever becomes of the mail (email.rs:140-157).      *)
(***************************************************************************)
THEOREM SinkImplementsDedup == Spec => ImplementsDedup
<1>1. Init => Dedup!Init
  BY DEF Init, Dedup!Init, Emitted, LastVerdict
<1>2. SinkInv /\ [Next]_vars => [Dedup!Next]_Dedup!vars
  <2> SUFFICES ASSUME SinkInv, [Next]_vars PROVE [Dedup!Next]_Dedup!vars
    OBVIOUS
  <2>1. ASSUME NEW sev \in Severities, NEW k \in Keys, Dispatch(sev, k)
        PROVE  [Dedup!Next]_Dedup!vars
    <3>1. ASSUME DropDuplicate(sev, k) PROVE Dedup!Suppress(k)
      <4>1. Decide(k, "deduped") /\ "deduped" \in Verdicts
        BY <3>1 DEF DropDuplicate, Verdicts
      <4>2. LastVerdict' = {<<k, FALSE>>} /\ Emitted' = Emitted
        BY <4>1, DecisionRead DEF SinkInv
      <4> QED
        BY <3>1, <4>2 DEF DropDuplicate, Dedup!Suppress, Suppresses,
           Dedup!Suppresses, Elapsed, Dedup!Elapsed
    <3>2. ASSUME NEW v \in {"capped", "mailing"}, Decide(k, v), now' = now,
                 ~Suppresses(seen, k, DedupCooldown, now),
                 seen' = Remembered(seen, k, DedupCooldown, now)
          PROVE  Dedup!Emit(k)
      <4>1. v \in Verdicts /\ v # "deduped"
        BY DEF Verdicts
      <4>2. /\ LastVerdict' = {<<k, TRUE>>}
            /\ Emitted' = [Emitted EXCEPT ![k] = @ \cup {now}]
        BY <3>2, <4>1, DecisionRead DEF SinkInv
      <4> QED
        BY <3>2, <4>2 DEF Dedup!Emit, Suppresses, Dedup!Suppresses,
           Remembered, Dedup!Remembered, Elapsed, Dedup!Elapsed
    <3>3. DropBelowPage(sev) => UNCHANGED Dedup!vars
      BY DEF DropBelowPage, Dedup!vars, Emitted, LastVerdict
    <3>4. DropOverCap(sev, k) => Dedup!Emit(k)
      BY <3>2 DEF DropOverCap
    <3>5. SpawnFails(sev, k) \/ Spawn(sev, k) => Dedup!Emit(k)
      BY <3>2 DEF SpawnFails, Spawn, Attempt
    <3> QED
      BY <2>1, <3>1, <3>3, <3>4, <3>5 DEF Dispatch, Dedup!Next
  <2>2. Tick => Dedup!Tick
    BY DEF Tick, Dedup!Tick, Emitted, LastVerdict
  <2>3. \/ WriteBody \/ WriteFails \/ Reap \/ WaitFails
        \/ MailDies \/ MailDelivers \/ UNCHANGED vars
        => UNCHANGED Dedup!vars
    BY DEF WriteBody, WriteFails, Reap, WaitFails, Finish, MailDies,
       MailDelivers, vars, Dedup!vars, Emitted, LastVerdict
  <2> QED
    BY <2>1, <2>2, <2>3 DEF Next, Dedup!Next
<1> QED
  BY <1>1, <1>2, SinkInvHolds, PTL DEF Spec, ImplementsDedup, Dedup!Spec

(***************************************************************************)
(* The cache of the sink keeps the keys of one cooldown                    *)
(* (rate_limit.rs:92-93) ...                                               *)
(***************************************************************************)
THEOREM SinkCacheBounded == Spec => []CacheSpansOneCooldown
BY SinkImplementsDedup, CacheBounded DEF ImplementsDedup

(***************************************************************************)
(* ... and answers as the monitor that keeps every emission                *)
(* (rate_limit.rs:88-98).                                                  *)
(***************************************************************************)
THEOREM SinkImplementsMonitor == Spec => ImplementsMonitor
BY SinkImplementsDedup, CacheImplementsMonitor DEF ImplementsDedup

-----------------------------------------------------------------------------
(***************************************************************************)
(* A decision, read as a call of try_take.                                 *)
(***************************************************************************)
LEMMA RefusalRead ==
  ASSUME TypeOK, NEW k \in Keys, NEW v \in Verdicts, Decide(k, v)
  PROVE  Refused' = IF v = "capped" THEN Refused \cup {now} ELSE Refused
<1> DEFINE n == Len(decisions)
           Capped == { j \in 1..n : decisions[j].verdict = "capped" }
           CappedNext == { j \in 1..(n + 1) : decisions'[j].verdict = "capped" }
<1>1. /\ n \in Nat /\ DOMAIN decisions = 1..n
      /\ DOMAIN decisions' = 1..(n + 1)
      /\ \A i \in 1..n : decisions'[i] = decisions[i]
      /\ decisions'[n + 1] = [key |-> k, at |-> now, verdict |-> v]
  <2>1. decisions \in Seq(Decision)
    BY DEF TypeOK, Decision
  <2> QED BY <2>1, DecisionMade
<1>2. Refused = { decisions[i].at : i \in Capped }
  BY <1>1 DEF Refused
<1>3. Refused' = { decisions'[i].at : i \in CappedNext }
  BY <1>1 DEF Refused
<1>4. CappedNext = IF v = "capped" THEN Capped \cup {n + 1} ELSE Capped
  <2>1. \A j \in 1..(n + 1) : j \in 1..n \/ j = n + 1
    BY <1>1
  <2>2. (\A j \in 1..n : j \in 1..(n + 1)) /\ n + 1 \in 1..(n + 1)
    BY <1>1
  <2>3. \A j \in 1..n : j \in CappedNext <=> j \in Capped
    BY <1>1, <2>2
  <2>4. n + 1 \in CappedNext <=> v = "capped"
    BY <1>1, <2>2
  <2>5. Capped \subseteq 1..n /\ CappedNext \subseteq 1..(n + 1)
    OBVIOUS
  <2> HIDE DEF Capped, CappedNext, n
  <2>6. CASE v = "capped"
    <3>1. \A j \in CappedNext : j \in Capped \cup {n + 1}
      BY <2>1, <2>3, <2>5
    <3>2. \A j \in Capped \cup {n + 1} : j \in CappedNext
      BY <2>3, <2>4, <2>5, <2>6
    <3> QED BY <2>6, <3>1, <3>2
  <2>7. CASE v # "capped"
    <3>1. \A j \in CappedNext : j \in Capped
      BY <2>1, <2>3, <2>4, <2>5, <2>7
    <3>2. \A j \in Capped : j \in CappedNext
      BY <2>3, <2>5
    <3> QED BY <2>7, <3>1, <3>2
  <2> QED BY <2>6, <2>7
<1>5. \A i \in Capped : decisions'[i].at = decisions[i].at
  BY <1>1
<1> HIDE DEF Capped, CappedNext, n
<1> QED
  BY <1>1, <1>2, <1>3, <1>4, <1>5

(***************************************************************************)
(* The sink calls its bucket as a bucket is meant to be called: once for   *)
(* every alert that passes the dedup, and for no other; an attempt costs   *)
(* one token even if mail(1) fails (email.rs:159-172).                     *)
(***************************************************************************)
THEOREM SinkImplementsBucket == Spec => ImplementsBucket
<1>1. Init => Bucket!Init
  BY DEF Init, Bucket!Init, Refused, FullBucket, Bucket!FullBucket
<1>2. SinkInv /\ [Next]_vars => [Bucket!Next]_Bucket!vars
  <2> SUFFICES ASSUME SinkInv, [Next]_vars PROVE [Bucket!Next]_Bucket!vars
    OBVIOUS
  <2>1. Refill = Bucket!Refill
    BY DEF Refill, Refilled, Elapsed, Bucket!Refill, Bucket!Refilled,
       Bucket!Elapsed
  <2>2. ASSUME NEW sev \in Severities, NEW k \in Keys, Dispatch(sev, k)
        PROVE  [Bucket!Next]_Bucket!vars
    <3>1. DropBelowPage(sev) => UNCHANGED Bucket!vars
      BY DEF DropBelowPage, Bucket!vars, Refused
    <3>2. ASSUME DropDuplicate(sev, k) PROVE UNCHANGED Bucket!vars
      <4>1. Decide(k, "deduped") /\ "deduped" \in Verdicts
        BY <3>2 DEF DropDuplicate, Verdicts
      <4>2. Refused' = Refused /\ attempts' = attempts
        BY <4>1, RefusalRead DEF SinkInv, Decide
      <4> QED BY <3>2, <4>2 DEF DropDuplicate, Bucket!vars
    <3>3. ASSUME DropOverCap(sev, k) PROVE Bucket!Refuse
      <4>1. Decide(k, "capped") /\ "capped" \in Verdicts
        BY <3>3 DEF DropOverCap, Verdicts
      <4>2. Refused' = Refused \cup {now} /\ attempts' = attempts
        BY <4>1, RefusalRead DEF SinkInv, Decide
      <4> QED
        BY <2>1, <3>3, <4>2 DEF DropOverCap, Bucket!Refuse, HasToken,
           Bucket!HasToken
    <3>4. ASSUME Attempt(sev, k) PROVE Bucket!Grant
      <4>1. Decide(k, "mailing") /\ "mailing" \in Verdicts
        BY <3>4 DEF Attempt, Verdicts
      <4>2. Refused' = Refused /\ attempts' = Append(attempts, now)
        BY <4>1, RefusalRead DEF SinkInv, Decide
      <4> QED
        BY <2>1, <3>4, <4>2 DEF Attempt, Bucket!Grant, HasToken,
           Bucket!HasToken, Spent, Bucket!Spent
    <3> QED
      BY <2>2, <3>1, <3>2, <3>3, <3>4 DEF Dispatch, SpawnFails, Spawn, Bucket!Next
  <2>3. Tick => Bucket!Tick
    BY DEF Tick, Bucket!Tick, Refused
  <2>4. \/ WriteBody \/ WriteFails \/ Reap \/ WaitFails
        \/ MailDies \/ MailDelivers \/ UNCHANGED vars
        => UNCHANGED Bucket!vars
    BY DEF WriteBody, WriteFails, Reap, WaitFails, Finish, MailDies,
       MailDelivers, vars, Bucket!vars, Refused
  <2> QED
    BY <2>2, <2>3, <2>4 DEF Next, Bucket!Next
<1> QED
  BY <1>1, <1>2, SinkInvHolds, PTL DEF Spec, ImplementsBucket, Bucket!Spec

-----------------------------------------------------------------------------
(***************************************************************************)
(* What TokenBucketProofs says of the bucket under any caller holds of the *)
(* sink's.  The ntfy sink those proofs also speak of plays no part.        *)
(***************************************************************************)
TB == INSTANCE TokenBucketProofs
  WITH Capacity <- DailyCap, Interval <- Day, bucket <- daily_bucket,
       granted <- attempts, refused <- Refused,
       Messages <- {}, Uncuttable <- {}, Timeout <- 0,
       phase <- "idle", sent_at <- 0, server <- "none", outcome <- "ok"

LEMMA BucketAssumed == TB!BucketAssumption /\ TB!NtfyAssumption
BY EmailAssumption DEF TB!BucketAssumption, TB!NtfyAssumption

LEMMA BucketSame ==
  /\ Bucket!Init => TB!Init
  /\ [Bucket!Next]_Bucket!vars => [TB!Next]_(TB!vars)
  /\ TB!RefusalJustified => Bucket!RefusalJustified
<1>1. Bucket!Init => TB!Init
  BY Zenon DEF Bucket!Init, TB!Init, Bucket!FullBucket, TB!FullBucket
<1>2. Bucket!Refill = TB!Refill
  BY Zenon DEF Bucket!Refill, TB!Refill, Bucket!Refilled, TB!Refilled,
               Bucket!Elapsed, TB!Elapsed
<1>3. [Bucket!Next]_Bucket!vars => [TB!Next]_(TB!vars)
  BY <1>2, Zenon
  DEF Bucket!Next, TB!Next, Bucket!vars, TB!vars, Bucket!Grant, TB!Grant,
      Bucket!Refuse, TB!Refuse, Bucket!Tick, TB!Tick, Bucket!HasToken,
      TB!HasToken, Bucket!Spent, TB!Spent
<1>4. \A S : Bucket!Cardinality(S) = TB!Cardinality(S)
  BY Zenon DEF Bucket!Cardinality, TB!Cardinality
<1>5. TB!RefusalJustified => Bucket!RefusalJustified
  BY <1>4, Zenon DEF Bucket!RefusalJustified, TB!RefusalJustified
<1> QED BY <1>1, <1>3, <1>5

(***************************************************************************)
(* An alert is dropped over the cap only if DailyCap attempts were made    *)
(* within the last Day, for every cap, set of keys and cooldown.           *)
(***************************************************************************)
THEOREM CapRefusesOnlyUsedUp == Spec => []CapRefusalsJustified
<1>1. Bucket!Spec => TB!Spec
  BY BucketSame, PTL DEF Bucket!Spec, TB!Spec
<1>2. TB!Spec => []TB!RefusalJustified
  BY TB!BucketRefusalsJustified, BucketAssumed
<1>3. Spec => Bucket!Spec
  BY SinkImplementsBucket DEF ImplementsBucket
<1>4. TB!RefusalJustified => CapRefusalsJustified
  BY BucketSame DEF CapRefusalsJustified
<1> QED BY <1>1, <1>2, <1>3, <1>4, PTL

-----------------------------------------------------------------------------
(***************************************************************************)
(* The emails the cap lets out.  A token pays for each email: tokens left, *)
(* the one of the attempt under way and those of the emails sent since a   *)
(* given one never exceed a full bucket plus what was earned since.  Only  *)
(* the last email can be younger than the last refill, and then nothing is *)
(* under way.                                                              *)
(***************************************************************************)
Pending == IF mail = "reading" THEN 1 ELSE 0

AccountedFor(b, pending) ==
  /\ b.last_refill <= now
  /\ \A i \in 1..Len(mails) :
       /\ mails[i].at <= now
       /\ mails[i].at > b.last_refill => i = Len(mails) /\ pending = 0
       /\ mails[i].at <= b.last_refill =>
            (Len(mails) - i + pending) * Day + b.tokens
              <= DailyCap * Day + DailyCap * (b.last_refill - mails[i].at)

MailInv == SinkInv /\ AccountedFor(daily_bucket, Pending) /\ MailsBounded

LEMMA MailTyped ==
  ASSUME TypeOK
  PROVE  /\ now \in Nat /\ DailyCap \in Nat /\ Day \in Nat \ {0}
         /\ DailyCap * Day \in Nat
         /\ daily_bucket.tokens \in 0..(DailyCap * Day)
         /\ daily_bucket.last_refill \in Nat
         /\ Len(mails) \in Nat
         /\ \A i \in 1..Len(mails) : mails[i].at \in Nat
<1> DEFINE full == DailyCap * Day
<1>1. /\ now \in Nat /\ DailyCap \in Nat /\ Day \in Nat \ {0}
      /\ daily_bucket \in [tokens: 0..full, last_refill: Nat]
      /\ mails \in Seq([key: Keys, at: Nat])
  BY EmailAssumption DEF TypeOK
<1>2. full \in Nat
  BY <1>1
<1> DEFINE Mail == [key: Keys, at: Nat]
<1>3. \A i \in 1..Len(mails) : mails[i] \in Mail
  <2>1. mails \in Seq(Mail)
    BY <1>1
  <2> HIDE DEF Mail
  <2> QED BY <2>1
<1> HIDE DEF full
<1>4. daily_bucket.tokens \in 0..full /\ daily_bucket.last_refill \in Nat
  BY <1>1
<1>5. \A i \in 1..Len(mails) : mails[i].at \in Nat
  BY <1>3
<1> QED
  BY <1>1, <1>2, <1>4, <1>5 DEF full

(***************************************************************************)
(* What a refill leaves: the bucket as it was, if no time has passed or    *)
(* the cap is 0; else one stamped now that gained what was earned.         *)
(***************************************************************************)
LEMMA RefillEarns ==
  ASSUME TypeOK, daily_bucket.last_refill <= now
  PROVE  \/ /\ Refill = daily_bucket
            /\ now = daily_bucket.last_refill \/ DailyCap * Day = 0
         \/ /\ Refill.last_refill = now
            /\ Refill.tokens \in Nat /\ Refill.tokens <= DailyCap * Day
            /\ Refill.tokens <= daily_bucket.tokens
                                  + DailyCap * (now - daily_bucket.last_refill)
<1> DEFINE full == DailyCap * Day
           gap == now - daily_bucket.last_refill
           added == gap * DailyCap
           sum == daily_bucket.tokens + added
<1>1. /\ now \in Nat /\ DailyCap \in Nat /\ full \in Nat
      /\ daily_bucket.tokens \in 0..full /\ daily_bucket.last_refill \in Nat
  BY MailTyped
<1>2. gap \in Nat /\ Elapsed(now, daily_bucket.last_refill) = gap
  BY <1>1 DEF Elapsed
<1>3. added \in Nat /\ added = DailyCap * gap
  BY <1>1, <1>2
<1>4. Refill = IF added > 0
               THEN [tokens |-> IF sum < full THEN sum ELSE full,
                     last_refill |-> now]
               ELSE daily_bucket
  BY <1>2 DEF Refill, Refilled
<1>5. CASE added > 0
  <2> HIDE DEF full, added
  <2>1. /\ Refill.last_refill = now
        /\ Refill.tokens = IF sum < full THEN sum ELSE full
    BY <1>4, <1>5
  <2>2. /\ Refill.tokens \in Nat /\ Refill.tokens <= full
        /\ Refill.tokens <= daily_bucket.tokens + added
    BY <1>1, <1>3, <2>1
  <2> QED BY <1>3, <2>1, <2>2 DEF full
<1>6. CASE ~(added > 0)
  <2>1. Refill = daily_bucket /\ gap * DailyCap = 0
    BY <1>3, <1>4, <1>6
  <2>2. \A a, b \in Nat : a * b = 0 => a = 0 \/ b = 0
    OBVIOUS
  <2>3. gap = 0 \/ DailyCap = 0
    BY <1>1, <1>2, <2>1, <2>2
  <2>4. gap = 0 => now = daily_bucket.last_refill
    BY <1>1
  <2>5. DailyCap = 0 => full = 0
    BY EmailAssumption
  <2> QED BY <2>1, <2>3, <2>4, <2>5
<1> QED BY <1>5, <1>6

(***************************************************************************)
(* The accounts stay balanced when the bucket is refilled ...              *)
(***************************************************************************)
LEMMA RefillAccounted ==
  ASSUME TypeOK, AccountedFor(daily_bucket, 0)
  PROVE  AccountedFor(Refill, 0)
<1> DEFINE L == daily_bucket.last_refill
           full == DailyCap * Day
<1>1. /\ now \in Nat /\ DailyCap \in Nat /\ Day \in Nat /\ full \in Nat
      /\ daily_bucket.tokens \in Nat /\ L \in Nat /\ L <= now
      /\ Len(mails) \in Nat
      /\ \A i \in 1..Len(mails) : mails[i].at \in Nat /\ mails[i].at <= now
  BY MailTyped DEF AccountedFor
<1>2. CASE Refill = daily_bucket
  BY <1>2
<1>3. CASE /\ Refill.last_refill = now
           /\ Refill.tokens \in Nat /\ Refill.tokens <= full
           /\ Refill.tokens <= daily_bucket.tokens + DailyCap * (now - L)
  <2> SUFFICES ASSUME NEW i \in 1..Len(mails)
               PROVE  (Len(mails) - i + 0) * Day + Refill.tokens
                        <= full + DailyCap * (now - mails[i].at)
    BY <1>1, <1>3 DEF AccountedFor
  <2>1. mails[i].at \in Nat /\ mails[i].at <= now
    BY <1>1
  <2>2. CASE mails[i].at > L
    <3>1. i = Len(mails)
      BY <2>2 DEF AccountedFor
    <3>2. (Len(mails) - i + 0) * Day = 0
      BY <1>1, <3>1
    <3>3. \A a, b \in Nat : a * b \in Nat
      OBVIOUS
    <3>4. DailyCap * (now - mails[i].at) \in Nat
      BY <1>1, <2>1, <3>3
    <3> DEFINE earned == DailyCap * (now - mails[i].at)
               paid == (Len(mails) - i + 0) * Day
    <3>5. /\ paid = 0 /\ earned \in Nat /\ full \in Nat
          /\ Refill.tokens \in Nat /\ Refill.tokens <= full
      BY <1>1, <1>3, <3>2, <3>4
    <3> HIDE DEF full, earned, paid
    <3>6. paid + Refill.tokens <= full + earned
      BY <3>5
    <3> QED BY <3>6 DEF paid, earned
  <2>3. CASE mails[i].at <= L
    <3> DEFINE paid == (Len(mails) - i + 0) * Day
               before == DailyCap * (L - mails[i].at)
               since == DailyCap * (now - L)
    <3>1. paid + daily_bucket.tokens <= full + before
      BY <2>3 DEF AccountedFor
    <3>2. \A a, b, c \in Int : a * (b - c) \in Int
      OBVIOUS
    <3>3. \A a, x, y, z \in Int : a * (x - z) = a * (x - y) + a * (y - z)
      OBVIOUS
    <3>4. before \in Int /\ since \in Int
      BY <1>1, <2>1, <3>2
    <3>5. DailyCap * (now - mails[i].at) = since + before
      BY <1>1, <2>1, <3>3
    <3>6. /\ paid \in Int /\ full \in Int
          /\ daily_bucket.tokens \in Int /\ Refill.tokens \in Int
          /\ Refill.tokens <= daily_bucket.tokens + since
      BY <1>1, <1>3
    <3> HIDE DEF full, paid, before, since
    <3>7. paid + Refill.tokens <= full + (since + before)
      BY <3>1, <3>4, <3>6
    <3> QED BY <3>5, <3>7 DEF paid
  <2> QED BY <1>1, <2>1, <2>2, <2>3
<1> QED BY <1>1, <1>2, <1>3, RefillEarns

(***************************************************************************)
(* ... and when the token of an attempt, which may lead to one more email, *)
(* is taken from it.                                                       *)
(***************************************************************************)
LEMMA SpentAccounted ==
  ASSUME TypeOK, AccountedFor(daily_bucket, 0), HasToken(Refill, Day),
         NEW pending \in {0, 1}
  PROVE  AccountedFor(Spent(Refill, Day), pending)
<1> DEFINE full == DailyCap * Day
           spent == Spent(Refill, Day)
<1>1. /\ now \in Nat /\ DailyCap \in Nat /\ Day \in Nat \ {0} /\ full \in Nat
      /\ Len(mails) \in Nat
      /\ \A i \in 1..Len(mails) : mails[i].at \in Nat /\ mails[i].at <= now
  BY MailTyped DEF AccountedFor
<1>2. AccountedFor(Refill, 0)
  BY RefillAccounted
<1>3. Refill \in [tokens: 0..full, last_refill: Nat]
  BY RefillTyped
<1>4. Refill.tokens >= Day /\ Refill.tokens \in Nat /\ Refill.tokens <= full
  <2> HIDE DEF full
  <2> QED BY <1>1, <1>3 DEF HasToken
<1>5. spent.tokens = Refill.tokens - Day /\ spent.last_refill = Refill.last_refill
  BY <1>3 DEF Spent
<1>6. Refill.last_refill = now
  <2>1. full # 0
    BY <1>1, <1>4
  <2> QED BY <2>1, RefillEarns DEF AccountedFor
<1> SUFFICES ASSUME NEW i \in 1..Len(mails)
             PROVE  (Len(mails) - i + pending) * Day + (Refill.tokens - Day)
                      <= full + DailyCap * (now - mails[i].at)
  BY <1>1, <1>5, <1>6 DEF AccountedFor
<1> DEFINE earned == DailyCap * (now - mails[i].at)
           paid == (Len(mails) - i + 0) * Day
<1>7. paid + Refill.tokens <= full + earned
  BY <1>1, <1>2, <1>6 DEF AccountedFor
<1>8. (Len(mails) - i + pending) * Day = paid + pending * Day
  <2>1. \A a, b, c \in Int : (a + b) * c = (a + 0) * c + b * c
    OBVIOUS
  <2> QED BY <1>1, <2>1
<1>9. pending * Day <= Day /\ pending * Day \in Int
  BY <1>1
<1>10. paid \in Int /\ earned \in Int
  BY <1>1
<1> HIDE DEF full, earned, paid
<1>11. (paid + pending * Day) + (Refill.tokens - Day) <= full + earned
  <2> DEFINE one == pending * Day
  <2>1. one <= Day /\ one \in Int
    BY <1>9
  <2> HIDE DEF one
  <2>2. (paid + one) + (Refill.tokens - Day) <= full + earned
    BY <1>1, <1>4, <1>7, <1>10, <2>1
  <2> QED BY <2>2 DEF one
<1> QED BY <1>8, <1>11 DEF earned

LEMMA MailInit == Init => MailInv
<1> SUFFICES ASSUME Init PROVE MailInv
  OBVIOUS
<1>1. mails = <<>> /\ now = 0 /\ daily_bucket.last_refill = 0
  BY DEF Init, FullBucket
<1>2. MailsBounded /\ AccountedFor(daily_bucket, Pending)
  BY <1>1 DEF MailsBounded, AccountedFor
<1> QED BY <1>2, SinkInit DEF MailInv

(***************************************************************************)
(* Steps that send nothing, take no token and leave the clock alone.       *)
(***************************************************************************)
LEMMA MailUnmoved ==
  ASSUME MailInv, UNCHANGED <<now, daily_bucket, mails>>, Pending' <= Pending,
         Pending' \in {0, 1}
  PROVE  AccountedFor(daily_bucket, Pending)' /\ MailsBounded'
<1>1. MailsBounded'
  BY DEF MailInv, MailsBounded
<1>2. Pending' = Pending \/ Pending' = 0
  BY DEF Pending
<1>3. CASE Pending' = Pending
  BY <1>1, <1>3 DEF MailInv, AccountedFor
<1>4. CASE Pending' = 0 /\ Pending = 1
  <2> DEFINE L == daily_bucket.last_refill
             full == DailyCap * Day
  <2>1. /\ now \in Nat /\ DailyCap \in Nat /\ Day \in Nat /\ full \in Nat
        /\ daily_bucket.tokens \in Nat /\ L \in Nat /\ L <= now
        /\ Len(mails) \in Nat
        /\ \A i \in 1..Len(mails) : mails[i].at \in Nat /\ mails[i].at <= now
    BY MailTyped DEF MailInv, SinkInv, AccountedFor
  <2> SUFFICES ASSUME NEW i \in 1..Len(mails)
               PROVE  /\ mails[i].at <= L
                      /\ (Len(mails) - i + 0) * Day + daily_bucket.tokens
                           <= full + DailyCap * (L - mails[i].at)
    BY <1>1, <1>4, <2>1 DEF AccountedFor
  <2>2. mails[i].at <= L
    BY <1>4, <2>1 DEF MailInv, AccountedFor
  <2> DEFINE earned == DailyCap * (L - mails[i].at)
             paid == (Len(mails) - i + 0) * Day
  <2>3. (Len(mails) - i + 1) * Day + daily_bucket.tokens <= full + earned
    BY <1>4, <2>2 DEF MailInv, AccountedFor
  <2>4. (Len(mails) - i + 1) * Day = paid + Day
    <3>1. \A a, c \in Int : (a + 1) * c = (a + 0) * c + c
      OBVIOUS
    <3> QED BY <2>1, <3>1
  <2>5. earned \in Int /\ paid \in Int
    BY <2>1
  <2>6. paid + daily_bucket.tokens <= full + earned
    <3>1. full \in Int /\ Day \in Nat /\ daily_bucket.tokens \in Int
      BY <2>1
    <3> HIDE DEF full, earned, paid
    <3> QED BY <2>3, <2>4, <2>5, <3>1
  <2> QED BY <2>2, <2>6
<1> QED BY <1>2, <1>3, <1>4 DEF Pending

LEMMA DispatchAccounted ==
  ASSUME MailInv, NEW sev, NEW k \in Keys, Dispatch(sev, k)
  PROVE  AccountedFor(daily_bucket, Pending)' /\ MailsBounded'
<1>1. TypeOK /\ AccountedFor(daily_bucket, Pending) /\ MailsBounded
  BY DEF MailInv, SinkInv
<1>2. phase = "idle" /\ mail = "none" /\ Pending = 0
  BY <1>1 DEF Dispatch, DropBelowPage, DropDuplicate, DropOverCap, SpawnFails,
     Spawn, Attempt, TypeOK, Pending
<1>3. mails' = mails /\ now' = now
  BY DEF Dispatch, DropBelowPage, DropDuplicate, DropOverCap, SpawnFails,
     Spawn, Attempt
<1>4. MailsBounded'
  BY <1>1, <1>3 DEF MailsBounded
<1>5. ASSUME AccountedFor(daily_bucket', Pending')
      PROVE  AccountedFor(daily_bucket, Pending)'
  BY <1>3, <1>5 DEF AccountedFor
<1>6. CASE DropBelowPage(sev) \/ DropDuplicate(sev, k)
  <2>1. daily_bucket' = daily_bucket /\ Pending' = Pending
    BY <1>6 DEF DropBelowPage, DropDuplicate, Pending
  <2> QED BY <1>1, <1>4, <1>5, <2>1
<1>7. CASE DropOverCap(sev, k)
  <2>1. daily_bucket' = Refill /\ Pending' = 0
    BY <1>2, <1>7 DEF DropOverCap, Pending
  <2> QED BY <1>1, <1>2, <1>4, <1>5, <2>1, RefillAccounted
<1>8. CASE SpawnFails(sev, k) \/ Spawn(sev, k)
  <2>1. HasToken(Refill, Day) /\ daily_bucket' = Spent(Refill, Day)
    BY <1>8 DEF SpawnFails, Spawn, Attempt
  <2>2. Pending' \in {0, 1}
    BY DEF Pending
  <2> QED BY <1>1, <1>2, <1>4, <1>5, <2>1, <2>2, SpentAccounted
<1> QED BY <1>6, <1>7, <1>8 DEF Dispatch

(***************************************************************************)
(* The email goes out: what was pending is now sent.                       *)
(***************************************************************************)
LEMMA MailDeliversAccounted ==
  ASSUME MailInv, MailDelivers
  PROVE  AccountedFor(daily_bucket, Pending)' /\ MailsBounded'
<1> DEFINE L == daily_bucket.last_refill
           full == DailyCap * Day
           n == Len(mails)
<1>1. /\ now \in Nat /\ DailyCap \in Nat /\ Day \in Nat /\ full \in Nat
      /\ daily_bucket.tokens \in Nat /\ daily_bucket.tokens <= full
      /\ L \in Nat /\ L <= now /\ n \in Nat
      /\ \A i \in 1..n : mails[i].at \in Nat /\ mails[i].at <= now
  <2> HIDE DEF full
  <2> QED BY MailTyped DEF MailInv, SinkInv, AccountedFor, full
<1>2. /\ Pending = 1 /\ Pending' = 0 /\ now' = now
      /\ daily_bucket' = daily_bucket
  BY DEF MailDelivers, Pending
<1>3. /\ Len(mails') = n + 1 /\ mails'[n + 1].at = now
      /\ \A i \in 1..n : mails'[i] = mails[i]
  <2> DEFINE m == [key |-> current, at |-> now]
             Mail == [key: Keys, at: Nat]
  <2>1. current \in Keys /\ now \in Nat /\ mails \in Seq(Mail)
    BY DEF MailDelivers, MailInv, SinkInv, TypeOK
  <2>2. m \in Mail /\ m.at = now /\ mails' = Append(mails, m)
    BY <2>1 DEF MailDelivers
  <2> HIDE DEF m, Mail
  <2> QED BY <2>1, <2>2
<1>4. ASSUME NEW i \in 1..n
      PROVE  /\ mails[i].at <= L
             /\ (n + 1 - i) * Day + daily_bucket.tokens
                  <= full + DailyCap * (L - mails[i].at)
  <2>1. mails[i].at <= L
    BY <1>1, <1>2 DEF MailInv, AccountedFor
  <2>2. (n - i + 1) * Day + daily_bucket.tokens
          <= full + DailyCap * (L - mails[i].at)
    BY <1>2, <2>1 DEF MailInv, AccountedFor
  <2>3. n - i + 1 = n + 1 - i
    BY <1>1
  <2> QED BY <2>1, <2>2, <2>3
<1>5. AccountedFor(daily_bucket, Pending)'
  <2> SUFFICES ASSUME NEW i \in 1..(n + 1)
               PROVE  /\ mails'[i].at <= now
                      /\ mails'[i].at > L => i = n + 1
                      /\ mails'[i].at <= L =>
                           (n + 1 - i + 0) * Day + daily_bucket.tokens
                             <= full + DailyCap * (L - mails'[i].at)
    BY <1>1, <1>2, <1>3 DEF AccountedFor
  <2>1. CASE i \in 1..n
    <3>1. n + 1 - i + 0 = n + 1 - i
      BY <1>1
    <3>2. mails'[i].at = mails[i].at
      BY <1>3, <2>1
    <3>3. mails[i].at \in Nat /\ mails[i].at <= now /\ mails[i].at <= L
      BY <1>1, <1>4, <2>1
    <3>4. ~(mails[i].at > L)
      BY <1>1, <3>3
    <3>5. (n + 1 - i) * Day + daily_bucket.tokens
             <= full + DailyCap * (L - mails[i].at)
      BY <1>4, <2>1
    <3> HIDE DEF full, L, n
    <3> QED BY <3>1, <3>2, <3>3, <3>4, <3>5, Zenon
  <2>2. CASE i = n + 1
    <3>1. mails'[i].at = now /\ (n + 1 - i + 0) * Day = 0
      BY <1>1, <1>3, <2>2
    <3>2. now <= L => DailyCap * (L - now) = 0
      BY <1>1
    <3>3. now <= now /\ 0 + daily_bucket.tokens <= full + 0
      <4> HIDE DEF full
      <4> QED BY <1>1
    <3> HIDE DEF full, L, n
    <3> QED BY <2>2, <3>1, <3>2, <3>3, Zenon
  <2> QED BY <1>1, <2>1, <2>2
<1>6. ASSUME NEW i \in 1..n
      PROVE  (n + 1 - i) * Day <= full + DailyCap * (now - mails[i].at)
  <2> DEFINE paid == (n + 1 - i) * Day
             before == DailyCap * (L - mails[i].at)
             since == DailyCap * (now - L)
  <2>1. paid + daily_bucket.tokens <= full + before
    BY <1>4, <1>6
  <2>2. \A a, x, y \in Int : a * (x + y) = a * x + a * y
    OBVIOUS
  <2>3. mails[i].at \in Nat
    BY <1>1
  <2>4. DailyCap * (now - mails[i].at) = since + before
    <3>1. /\ DailyCap \in Int /\ now - L \in Int /\ L - mails[i].at \in Int
      BY <1>1, <2>3
    <3>2. now - mails[i].at = (now - L) + (L - mails[i].at)
      BY <1>1, <2>3
    <3>3. DailyCap * ((now - L) + (L - mails[i].at))
            = DailyCap * (now - L) + DailyCap * (L - mails[i].at)
      BY <2>2, <3>1, Zenon
    <3> HIDE DEF L
    <3> QED BY <3>2, <3>3, Zenon
  <2>5. \A a, b \in Nat : a * b \in Nat
    OBVIOUS
  <2>6. since \in Nat /\ before \in Int /\ paid \in Int
    BY <1>1, <2>3, <2>5
  <2>7. paid <= full + (since + before)
    <3>1. full \in Int /\ daily_bucket.tokens \in Nat
      BY <1>1
    <3> HIDE DEF full, paid, before, since
    <3> QED BY <2>1, <2>6, <3>1
  <2> QED BY <2>4, <2>7
<1>7. MailsBounded'
  <2> SUFFICES ASSUME NEW i \in 1..(n + 1), NEW j \in 1..(n + 1), i < j
               PROVE  (j - i) * Day
                        <= full + DailyCap * (mails'[j].at - mails'[i].at)
    BY <1>3 DEF MailsBounded
  <2>1. i \in 1..n /\ mails'[i] = mails[i]
    BY <1>1, <1>3
  <2>2. CASE j \in 1..n
    <3>1. mails'[j].at = mails[j].at /\ mails'[i].at = mails[i].at
      BY <1>3, <2>1, <2>2
    <3>2. (j - i) * Day <= full + DailyCap * (mails[j].at - mails[i].at)
      BY <2>1, <2>2 DEF MailInv, MailsBounded
    <3> HIDE DEF full, n
    <3> QED BY <3>1, <3>2, Zenon
  <2>3. CASE j = n + 1
    <3>1. mails'[j].at = now /\ mails'[i].at = mails[i].at
      BY <1>3, <2>1, <2>3
    <3>2. (n + 1 - i) * Day <= full + DailyCap * (now - mails[i].at)
      BY <1>6, <2>1
    <3>3. j - i = n + 1 - i
      BY <2>3
    <3> HIDE DEF full, n
    <3> QED BY <3>1, <3>2, <3>3, Zenon
  <2>4. j \in 1..n \/ j = n + 1
    <3>1. n \in Nat
      BY <1>1
    <3> HIDE DEF n
    <3> QED BY <3>1
  <2> QED BY <2>2, <2>3, <2>4, Zenon
<1> QED BY <1>5, <1>7

LEMMA MailStep == MailInv /\ [Next]_vars => MailInv'
<1> SUFFICES ASSUME MailInv, [Next]_vars PROVE MailInv'
  OBVIOUS
<1>1. SinkInv'
  BY SinkStep DEF MailInv
<1>2. \/ WriteBody \/ WriteFails \/ Reap \/ WaitFails \/ MailDies \/ UNCHANGED vars
      => /\ UNCHANGED <<now, daily_bucket, mails>>
         /\ Pending' <= Pending /\ Pending' \in {0, 1}
  BY DEF WriteBody, WriteFails, Reap, WaitFails, Finish, MailDies, vars, Pending
<1>3. ASSUME Tick PROVE AccountedFor(daily_bucket, Pending)' /\ MailsBounded'
  <2>1. /\ now' = now + 1 /\ Pending' = Pending
        /\ UNCHANGED <<daily_bucket, mails>>
    BY <1>3 DEF Tick, Pending
  <2>2. /\ now \in Nat /\ daily_bucket.last_refill \in Nat
        /\ \A i \in 1..Len(mails) : mails[i].at \in Nat
    BY MailTyped DEF MailInv, SinkInv
  <2>3. /\ daily_bucket.last_refill <= now'
        /\ \A i \in 1..Len(mails) : mails[i].at <= now'
    BY <2>1, <2>2 DEF MailInv, AccountedFor
  <2>4. AccountedFor(daily_bucket, Pending)'
    BY <2>1, <2>3 DEF MailInv, AccountedFor
  <2> QED BY <2>1, <2>4 DEF MailInv, MailsBounded
<1> QED
  BY <1>1, <1>2, <1>3, MailUnmoved, DispatchAccounted, MailDeliversAccounted
  DEF Next, MailInv

(***************************************************************************)
(* What the daily cap bounds: the emails that follow a given one are at    *)
(* most a full bucket plus what the time since then has earned             *)
(* (email.rs:159-189).                                                     *)
(***************************************************************************)
THEOREM SinkMailsBounded == Spec => []MailsBounded
BY MailInit, MailStep, PTL DEF Spec, MailInv
=============================================================================
