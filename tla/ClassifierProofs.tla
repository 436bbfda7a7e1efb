-------------------------- MODULE ClassifierProofs --------------------------
(***************************************************************************)
(* Proofs about the classifier, for every set of events and every table of *)
(* windows, thresholds and cooldowns.                                      *)
(*                                                                         *)
(* The argument: arrivals are sorted and not in the future (ArrivalsPast), *)
(* so the front-popping loop removes exactly the arrivals the window has   *)
(* left (DequeIsWindow); last_fired is the latest alarm (LastAlarm), so    *)
(* the cooldown test looks back far enough.  Together: ingest() decides as *)
(* the monitor that forgets nothing does.                                  *)
(***************************************************************************)
EXTENDS ClassifierHistory, TLAPS, FiniteSetTheorems

(***************************************************************************)
(* Arrivals are recorded in time order, none of them in the future, and a  *)
(* slot without arrivals has an empty deque.  False once the wall clock is *)
(* set back.                                                               *)
(***************************************************************************)
ArrivalsPast ==
  \A s \in Slots :
    /\ \A i \in 1..Len(arrivals[s]) : arrivals[s][i] <= now
    /\ \A i, j \in 1..Len(arrivals[s]) :
         i <= j => arrivals[s][i] <= arrivals[s][j]
    /\ Len(arrivals[s]) = 0 => Len(events[s]) = 0

(***************************************************************************)
(* last_fired is the latest alarm of its slot.  No clock is mentioned: it  *)
(* survives a clock set back.                                              *)
(***************************************************************************)
LastAlarm ==
  \A s \in Slots :
    /\ last_fired[s] = None => alarms[s] = {}
    /\ last_fired[s] # None =>
         /\ last_fired[s] \in alarms[s]
         /\ \A t \in alarms[s] : t <= last_fired[s]

(***************************************************************************)
(* No alarm is in the future.  False once the wall clock is set back.      *)
(***************************************************************************)
AlarmsPast == \A s \in Slots : \A t \in alarms[s] : t <= now

-----------------------------------------------------------------------------
(***************************************************************************)
(* Facts about slots.                                                      *)
(***************************************************************************)
LEMMA SlotRule ==
  ASSUME NEW s \in Slots
  PROVE  /\ s.rule \in Rules
         /\ Window[s.rule] \in Nat
         /\ Threshold[s.rule] \in Nat \ {0}
         /\ Cooldown[s.rule] \in Nat \ {0}
<1>1. PICK e \in Events : s \in SlotsOf(e)
  BY DEF Slots
<1>2. s.rule \in Rules
  BY <1>1 DEF SlotsOf, MatchingRules
<1> QED
  BY <1>2, RulesAssumption

LEMMA SlotsOfEvent ==
  ASSUME NEW e \in Events
  PROVE  SlotsOf(e) \subseteq Slots
BY DEF Slots

-----------------------------------------------------------------------------
(***************************************************************************)
(* A set of indices closed downwards is an initial segment.                *)
(***************************************************************************)
LEMMA DownwardClosedIsPrefix ==
  ASSUME NEW L \in Nat, NEW E \in SUBSET (1..L),
         \A i \in E : 1..i \subseteq E
  PROVE  Cardinality(E) \in 0..L /\ E = 1..Cardinality(E)
<1>1. \A m \in Nat : IsFiniteSet(1..m) /\ Cardinality(1..m) = m
  BY FS_Interval
<1>2. IsFiniteSet(E) /\ Cardinality(E) \in Nat /\ Cardinality(E) <= L
  <2>1. IsFiniteSet(1..L) /\ Cardinality(1..L) = L
    BY <1>1
  <2>2. IsFiniteSet(E) /\ Cardinality(E) <= Cardinality(1..L)
    BY <2>1, FS_Subset
  <2>3. Cardinality(E) \in Nat
    BY <2>2, FS_CardinalityType
  <2> QED
    BY <2>1, <2>2, <2>3
<1>3. PICK n \in 0..L : n = Cardinality(E)
  BY <1>2
<1>4. n + 1 \notin E
  <2> SUFFICES ASSUME n + 1 \in E PROVE FALSE
    OBVIOUS
  <2>1. Cardinality(1..(n + 1)) <= Cardinality(E)
    BY <1>2, FS_Subset
  <2> QED
    BY <2>1, <1>1, <1>3
<1>5. ASSUME NEW i \in 1..n, i \notin E PROVE FALSE
  <2>1. \A j \in E : j \in 1..(i - 1)
    <3> SUFFICES ASSUME NEW j \in E, j \notin 1..(i - 1) PROVE FALSE
      OBVIOUS
    <3>1. i \in 1..j
      OBVIOUS
    <3> QED
      BY <3>1, <1>5
  <2>2. i - 1 \in Nat /\ E \in SUBSET (1..(i - 1))
    BY <2>1
  <2>3. IsFiniteSet(1..(i - 1)) /\ Cardinality(1..(i - 1)) = i - 1
    BY <2>2, <1>1
  <2>4. Cardinality(E) <= Cardinality(1..(i - 1))
    BY <2>2, <2>3, FS_Subset
  <2> QED
    BY <2>3, <2>4, <1>3
<1>6. ASSUME NEW i \in E PROVE i \in 1..n
  <2>1. n + 1 \notin 1..i
    BY <1>4
  <2> QED
    BY <2>1
<1> QED
  BY <1>3, <1>5, <1>6

(***************************************************************************)
(* What the front-popping loop does: it removes the first n entries, all   *)
(* of them older than the cutoff, and stops at the first that is not.      *)
(***************************************************************************)
LEMMA ExpiredIsPrefix ==
  ASSUME NEW evs \in Seq(Nat), NEW cutoff \in Int
  PROVE  /\ Cardinality(Expired(evs, cutoff)) \in 0..Len(evs)
         /\ Expired(evs, cutoff) = 1..Cardinality(Expired(evs, cutoff))
<1>1. Expired(evs, cutoff) \in SUBSET (1..Len(evs))
  BY DEF Expired
<1>2. \A i \in Expired(evs, cutoff) : 1..i \subseteq Expired(evs, cutoff)
  BY DEF Expired
<1> QED
  BY <1>1, <1>2, DownwardClosedIsPrefix

LEMMA DropExpiredSuffix ==
  ASSUME NEW evs \in Seq(Nat), NEW cutoff \in Int
  PROVE  \E n \in 0..Len(evs) :
           /\ DropExpired(evs, cutoff) \in Seq(Nat)
           /\ Len(DropExpired(evs, cutoff)) = Len(evs) - n
           /\ \A i \in 1..(Len(evs) - n) :
                DropExpired(evs, cutoff)[i] = evs[n + i]
           /\ \A i \in 1..n : evs[i] < cutoff
           /\ n < Len(evs) => evs[n + 1] >= cutoff
<1> DEFINE n == Cardinality(Expired(evs, cutoff))
<1>1. n \in 0..Len(evs) /\ Expired(evs, cutoff) = 1..n
  BY ExpiredIsPrefix
<1>2. \A i \in 1..n : evs[i] < cutoff
  BY <1>1 DEF Expired
<1>3. n < Len(evs) => evs[n + 1] >= cutoff
  <2> SUFFICES ASSUME n < Len(evs), evs[n + 1] < cutoff PROVE FALSE
    BY <1>1
  <2>1. n + 1 \in Expired(evs, cutoff)
    <3>1. n \in Nat /\ n + 1 \in 1..Len(evs)
      BY <1>1
    <3>2. \A j \in 1..(n + 1) : j \in 1..n \/ j = n + 1
      BY <3>1
    <3> HIDE DEF n
    <3>3. \A j \in 1..(n + 1) : evs[j] < cutoff
      BY <1>2, <3>2, Zenon
    <3> QED
      BY <3>1, <3>3, Zenon DEF Expired
  <2> QED
    BY <1>1, <2>1
<1>4. DropExpired(evs, cutoff) = SubSeq(evs, n + 1, Len(evs))
  BY DEF DropExpired
<1> HIDE DEF n
<1>5. /\ SubSeq(evs, n + 1, Len(evs)) \in Seq(Nat)
      /\ Len(SubSeq(evs, n + 1, Len(evs))) = Len(evs) - n
      /\ \A i \in 1..(Len(evs) - n) :
           SubSeq(evs, n + 1, Len(evs))[i] = evs[n + i]
  BY <1>1
<1> QED
  BY <1>1, <1>2, <1>3, <1>4, <1>5

-----------------------------------------------------------------------------
(***************************************************************************)
(* Type correctness, with the wall clock free to be set back.              *)
(***************************************************************************)
LEMMA TypeInit == HInit => HTypeOK
BY DEF HInit, Init, HTypeOK, TypeOK

LEMMA PushedType ==
  ASSUME TypeOK, NEW s \in Slots
  PROVE  /\ Pushed(s) \in Seq(Nat)
         /\ Len(Pushed(s)) \in Nat \ {0}
<1> DEFINE d == DropExpired(events[s], now - Window[s.rule])
<1>1. events[s] \in Seq(Nat) /\ now - Window[s.rule] \in Int /\ now \in Nat
  BY SlotRule DEF TypeOK
<1>2. d \in Seq(Nat)
  BY <1>1, DropExpiredSuffix
<1> HIDE DEF d
<1>3. Append(d, now) \in Seq(Nat) /\ Len(Append(d, now)) \in Nat \ {0}
  BY <1>1, <1>2
<1> QED
  BY <1>3 DEF Pushed, d

LEMMA IngestTyped ==
  ASSUME TypeOK, NEW e \in Events, Ingest(e)
  PROVE  TypeOK'
<1>1. now \in Nat /\ now' = now
  BY DEF Ingest, TypeOK
<1>2. events' \in [Slots -> Seq(Nat)]
  BY PushedType DEF Ingest, TypeOK
<1>3. last_fired' \in [Slots -> Nat \cup {None}]
  BY <1>1 DEF Ingest, TypeOK
<1>4. fired' \in SUBSET Alert
  <2>1. SUFFICES ASSUME NEW s \in SlotsOf(e)
                 PROVE  MakeAlert(s, Len(Pushed(s)), e, now) \in Alert
    BY <2>1 DEF Ingest
  <2>2. s \in Slots /\ s.rule \in Rules
    BY SlotsOfEvent, SlotRule
  <2>3. Len(Pushed(s)) \in Nat /\ now \in Int
    BY <1>1, <2>2, PushedType
  <2>4. e.chain \in Chains \cup {None}
    BY RulesAssumption DEF StructuredEvent
  <2>5. Severity[s.rule] \in {"Info", "Warn", "Page"}
    BY <2>2 DEF Severity
  <2>6. s.key \in {x.key : x \in Slots}
    BY <2>2
  <2> QED
    BY <2>2, <2>3, <2>4, <2>5, <2>6 DEF MakeAlert, Alert
<1> QED
  BY <1>1, <1>2, <1>3, <1>4 DEF TypeOK

LEMMA IngestType ==
  ASSUME HTypeOK, NEW e \in Events, HIngest(e)
  PROVE  HTypeOK'
<1>1. TypeOK' /\ now \in Nat
  BY IngestTyped DEF HIngest, HTypeOK, TypeOK
<1>2. arrivals' \in [Slots -> Seq(Nat)]
  BY <1>1 DEF HIngest, HTypeOK
<1>3. alarms' \in [Slots -> SUBSET Nat]
  BY <1>1 DEF HIngest, HTypeOK
<1> QED
  BY <1>1, <1>2, <1>3 DEF HTypeOK

LEMMA TypeStep == HTypeOK /\ [HNextStepped]_historyVars => HTypeOK'
<1> SUFFICES ASSUME HTypeOK, [HNextStepped]_historyVars
             PROVE  HTypeOK'
  OBVIOUS
<1>1. ASSUME NEW e \in Events, HIngest(e) PROVE HTypeOK'
  BY <1>1, IngestType
<1>2. CASE HOther(IngestUnstructured)
  BY <1>2 DEF HOther, IngestUnstructured, HTypeOK, TypeOK
<1>3. CASE HOther(Tick)
  BY <1>3 DEF HOther, Tick, HTypeOK, TypeOK
<1>4. CASE HOther(SetClockBack)
  BY <1>4 DEF HOther, SetClockBack, HTypeOK, TypeOK
<1>5. CASE UNCHANGED historyVars
  BY <1>5 DEF historyVars, HTypeOK, TypeOK
<1> QED
  BY <1>1, <1>2, <1>3, <1>4, <1>5 DEF HNextStepped, HNext

LEMMA StepIsStepped == [HNext]_historyVars => [HNextStepped]_historyVars
BY DEF HNextStepped

(***************************************************************************)
(* Every state of the classifier is well typed, whatever the wall clock    *)
(* does between two calls.                                                 *)
(***************************************************************************)
THEOREM TypeCorrect == HSpecStepped => []HTypeOK
BY TypeInit, TypeStep, PTL DEF HSpecStepped

-----------------------------------------------------------------------------
(***************************************************************************)
(* The cooldown.                                                           *)
(***************************************************************************)
LEMMA LastAlarmStep ==
  HTypeOK /\ LastAlarm /\ [HNextStepped]_historyVars => LastAlarm'
<1> SUFFICES ASSUME HTypeOK, LastAlarm, [HNextStepped]_historyVars
             PROVE  LastAlarm'
  OBVIOUS
<1>1. ASSUME NEW e \in Events, HIngest(e) PROVE LastAlarm'
  <2> SUFFICES ASSUME NEW s \in Slots
               PROVE  /\ last_fired'[s] = None => alarms'[s] = {}
                      /\ last_fired'[s] # None =>
                           /\ last_fired'[s] \in alarms'[s]
                           /\ \A t \in alarms'[s] : t <= last_fired'[s]
    BY DEF LastAlarm
  <2>1. now \in Nat /\ None \notin Nat
    BY RulesAssumption DEF HTypeOK, TypeOK
  <2>2. CASE s \in SlotsOf(e) /\ Fires(s)
    <3>1. last_fired'[s] = now /\ alarms'[s] = alarms[s] \cup {now}
      BY <1>1, <2>2 DEF HIngest, Ingest, HTypeOK, TypeOK
    <3>2. last_fired[s] # None =>
            /\ last_fired[s] \in Nat
            /\ now - last_fired[s] >= Cooldown[s.rule]
            /\ \A t \in alarms[s] : t \in Nat /\ t <= last_fired[s]
      BY <2>1, <2>2, SlotRule
         DEF Fires, InCooldown, LastAlarm, HTypeOK, TypeOK
    <3>3. \A t \in alarms[s] : t <= now
      BY <2>1, <3>2, SlotRule DEF LastAlarm
    <3> QED
      BY <2>1, <3>1, <3>3
  <2>3. CASE ~(s \in SlotsOf(e) /\ Fires(s))
    <3>1. last_fired'[s] = last_fired[s] /\ alarms'[s] = alarms[s]
      BY <1>1, <2>3 DEF HIngest, Ingest, HTypeOK, TypeOK
    <3> QED
      BY <3>1 DEF LastAlarm
  <2> QED
    BY <2>2, <2>3
<1>2. CASE UNCHANGED <<last_fired, alarms>>
  BY <1>2 DEF LastAlarm
<1> QED
  BY <1>1, <1>2 DEF HNextStepped, HNext, HOther, IngestUnstructured, Tick,
                    SetClockBack, historyVars

LEMMA AlarmsSpacedStep ==
  /\ HTypeOK /\ LastAlarm /\ AlarmsSpaced
  /\ [HNextStepped]_historyVars
  => AlarmsSpaced'
<1> SUFFICES ASSUME HTypeOK, LastAlarm, AlarmsSpaced,
                    [HNextStepped]_historyVars
             PROVE  AlarmsSpaced'
  OBVIOUS
<1>1. ASSUME NEW e \in Events, HIngest(e) PROVE AlarmsSpaced'
  <2> SUFFICES ASSUME NEW s \in Slots, NEW t \in alarms'[s],
                      NEW u \in alarms'[s], t < u
               PROVE  u - t >= Cooldown[s.rule]
    BY DEF AlarmsSpaced
  <2>1. now \in Nat /\ None \notin Nat
    BY RulesAssumption DEF HTypeOK, TypeOK
  <2>2. CASE s \in SlotsOf(e) /\ Fires(s)
    <3>1. alarms'[s] = alarms[s] \cup {now}
      BY <1>1, <2>2 DEF HIngest, HTypeOK
    <3>2. \A x \in alarms[s] : x \in Nat /\ now - x >= Cooldown[s.rule]
      <4>1. CASE last_fired[s] = None
        BY <4>1 DEF LastAlarm
      <4>2. CASE last_fired[s] # None
        <5>1. last_fired[s] \in Nat /\ now - last_fired[s] >= Cooldown[s.rule]
          BY <2>1, <2>2, <4>2, SlotRule
             DEF Fires, InCooldown, HTypeOK, TypeOK
        <5>2. \A x \in alarms[s] : x \in Nat /\ x <= last_fired[s]
          BY <4>2 DEF LastAlarm, HTypeOK
        <5> QED
          BY <2>1, <5>1, <5>2, SlotRule
      <4> QED
        BY <4>1, <4>2
    <3>3. CASE t \in alarms[s] /\ u \in alarms[s]
      BY <3>3 DEF AlarmsSpaced
    <3>4. CASE t \in alarms[s] /\ u = now
      BY <3>2, <3>4
    <3>5. CASE t = now /\ u \in alarms[s]
      <4>1. u \in Nat /\ now - u >= Cooldown[s.rule]
        BY <3>2, <3>5
      <4> QED
        BY <2>1, <3>5, <4>1, SlotRule
    <3>6. CASE t = now /\ u = now
      BY <2>1, <3>6
    <3> QED
      BY <3>1, <3>3, <3>4, <3>5, <3>6
  <2>3. CASE ~(s \in SlotsOf(e) /\ Fires(s))
    <3>1. alarms'[s] = alarms[s]
      BY <1>1, <2>3 DEF HIngest, HTypeOK
    <3> QED
      BY <3>1 DEF AlarmsSpaced
  <2> QED
    BY <2>2, <2>3
<1>2. CASE UNCHANGED alarms
  BY <1>2 DEF AlarmsSpaced
<1> QED
  BY <1>1, <1>2 DEF HNextStepped, HNext, HOther, historyVars

(***************************************************************************)
(* Two alarms of a slot are never closer than its cooldown, even if the    *)
(* wall clock is set back any number of times.                             *)
(***************************************************************************)
THEOREM CooldownHolds == HSpecStepped => []AlarmsSpaced
<1>1. HInit => LastAlarm /\ AlarmsSpaced
  BY DEF HInit, Init, LastAlarm, AlarmsSpaced
<1> QED
  BY <1>1, TypeInit, TypeStep, LastAlarmStep, AlarmsSpacedStep, PTL
     DEF HSpecStepped

-----------------------------------------------------------------------------
(***************************************************************************)
(* The window, while the wall clock does not go back.                      *)
(***************************************************************************)
LEMMA AppendFacts ==
  ASSUME NEW q \in Seq(Nat), NEW x \in Nat
  PROVE  /\ Append(q, x) \in Seq(Nat)
         /\ Len(Append(q, x)) = Len(q) + 1
         /\ Append(q, x)[Len(q) + 1] = x
         /\ \A i \in 1..Len(q) : Append(q, x)[i] = q[i]
OBVIOUS

LEMMA ArrivalsPastStep ==
  HTypeOK /\ ArrivalsPast /\ [HNext]_historyVars => ArrivalsPast'
<1> SUFFICES ASSUME HTypeOK, ArrivalsPast, [HNext]_historyVars
             PROVE  ArrivalsPast'
  OBVIOUS
<1>1. ASSUME NEW e \in Events, HIngest(e) PROVE ArrivalsPast'
  <2> SUFFICES ASSUME NEW s \in Slots
      PROVE  /\ \A i \in 1..Len(arrivals'[s]) : arrivals'[s][i] <= now'
             /\ \A i, j \in 1..Len(arrivals'[s]) :
                  i <= j => arrivals'[s][i] <= arrivals'[s][j]
             /\ Len(arrivals'[s]) = 0 => Len(events'[s]) = 0
    BY DEF ArrivalsPast
  <2>1. now' = now /\ now \in Nat /\ arrivals[s] \in Seq(Nat)
    BY <1>1 DEF HIngest, Ingest, HTypeOK, TypeOK
  <2>2. CASE s \in SlotsOf(e)
    <3>1. arrivals'[s] = Append(arrivals[s], now)
      BY <1>1, <2>2 DEF HIngest, HTypeOK
    <3>2. PICK a \in Seq(Nat), n \in Nat : a = arrivals[s] /\ n = Len(a)
      BY <2>1
    <3>3. PICK b \in Seq(Nat) : b = Append(a, now)
      BY <2>1, AppendFacts
    <3>4. Len(b) = n + 1 /\ b[n + 1] = now /\ \A i \in 1..n : b[i] = a[i]
      BY <2>1, <3>2, <3>3, AppendFacts
    <3>5. /\ \A i \in 1..n : a[i] \in Nat /\ a[i] <= now
          /\ \A i, j \in 1..n : i <= j => a[i] <= a[j]
      <4>1. \A i \in 1..n : a[i] \in Nat
        BY <3>2
      <4>2. /\ \A i \in 1..Len(arrivals[s]) : arrivals[s][i] <= now
            /\ \A i, j \in 1..Len(arrivals[s]) :
                 i <= j => arrivals[s][i] <= arrivals[s][j]
        BY DEF ArrivalsPast
      <4> QED
        BY <3>2, <4>1, <4>2
    <3>6. \A i \in 1..(n + 1) : i \in 1..n \/ i = n + 1
      OBVIOUS
    <3>7. \A i \in 1..(n + 1) : b[i] <= now
      BY <2>1, <3>4, <3>5, <3>6
    <3>8. \A i, j \in 1..(n + 1) : i <= j => b[i] <= b[j]
      BY <2>1, <3>4, <3>5, <3>6
    <3>9. arrivals'[s] = b
      BY <3>1, <3>2, <3>3
    <3> QED
      BY <2>1, <3>4, <3>7, <3>8, <3>9
  <2>3. CASE s \notin SlotsOf(e)
    <3>1. arrivals'[s] = arrivals[s] /\ events'[s] = events[s]
      BY <1>1, <2>3 DEF HIngest, Ingest, HTypeOK, TypeOK
    <3> QED
      BY <2>1, <3>1 DEF ArrivalsPast
  <2> QED
    BY <2>2, <2>3
<1>2. CASE HOther(Tick)
  <2> SUFFICES ASSUME NEW s \in Slots, NEW i \in 1..Len(arrivals[s])
               PROVE  arrivals[s][i] <= now'
    BY <1>2 DEF HOther, Tick, ArrivalsPast
  <2>1. arrivals[s] \in Seq(Nat) /\ now \in Nat
    BY DEF HTypeOK, TypeOK
  <2>2. arrivals[s][i] \in Nat /\ arrivals[s][i] <= now /\ now' = now + 1
    BY <1>2, <2>1 DEF HOther, Tick, ArrivalsPast
  <2> QED
    BY <2>1, <2>2
<1>3. CASE HOther(IngestUnstructured) \/ UNCHANGED historyVars
  BY <1>3 DEF HOther, IngestUnstructured, historyVars, ArrivalsPast
<1> QED
  BY <1>1, <1>2, <1>3 DEF HNext

(***************************************************************************)
(* One call of ingest() seen by a slot with window W: the deque d (length  *)
(* ld) of the arrivals a (length la) loses its first n entries and gets t, *)
(* which makes p; b is a with t.                                           *)
(***************************************************************************)
PruneAndPush(la, ld, n, t, W, a, d, b, p) ==
  /\ la \in Nat /\ ld \in Nat /\ n \in 0..ld /\ t \in Nat /\ W \in Nat
  /\ a \in [1..la -> Nat] /\ d \in [1..ld -> Nat]
  /\ b \in [1..(la + 1) -> Nat] /\ p \in [1..(ld - n + 1) -> Nat]
  /\ la = 0 => ld = 0
  /\ la > 0 => ld \in 1..la
  /\ la > 0 => \A i \in 1..ld : d[i] = a[la - ld + i]
  /\ la > 0 => \A i \in 1..la : (a[i] >= a[la] - W) <=> (i > la - ld)
  /\ \A i \in 1..la : a[i] <= t
  /\ \A i, j \in 1..la : i <= j => a[i] <= a[j]
  /\ \A i \in 1..n : d[i] < t - W
  /\ n < ld => d[n + 1] >= t - W
  /\ \A i \in 1..la : b[i] = a[i]
  /\ b[la + 1] = t
  /\ \A i \in 1..(ld - n) : p[i] = d[n + i]
  /\ p[ld - n + 1] = t

(***************************************************************************)
(* Pruning and pushing turn the window of a into the window of b.          *)
(***************************************************************************)
LEMMA WindowExtends ==
  ASSUME NEW la, NEW ld, NEW n, NEW t, NEW W,
         NEW a, NEW d, NEW b, NEW p,
         PruneAndPush(la, ld, n, t, W, a, d, b, p)
  PROVE  /\ ld - n + 1 \in 1..(la + 1)
         /\ \A i \in 1..(ld - n + 1) : p[i] = b[la - ld + n + i]
         /\ \A i \in 1..(la + 1) :
              (b[i] >= t - W) <=> (i > la - ld + n)
<1> USE DEF PruneAndPush
<1>1. CASE la = 0
  BY <1>1
<1>2. CASE la > 0
  <2>1. ld \in 1..la
    BY <1>2
  <2>2. ASSUME NEW i \in 1..(ld - n + 1)
        PROVE  p[i] = b[la - ld + n + i]
    <3>1. CASE i = ld - n + 1
      BY <3>1, <2>1
    <3>2. CASE i \in 1..(ld - n)
      <4>1. n + i \in 1..ld /\ la - ld + (n + i) \in 1..la
        BY <3>2, <2>1
      <4>2. p[i] = d[n + i] /\ d[n + i] = a[la - ld + (n + i)]
        BY <3>2, <4>1, <1>2
      <4>3. b[la - ld + (n + i)] = a[la - ld + (n + i)]
        BY <4>1
      <4>4. la - ld + (n + i) = la - ld + n + i
        BY <3>2, <2>1
      <4> QED
        BY <4>2, <4>3, <4>4
    <3> QED
      BY <3>1, <3>2, <2>1
  <2>3. ASSUME NEW i \in 1..(la + 1)
        PROVE  (b[i] >= t - W) <=> (i > la - ld + n)
    <3>1. CASE i = la + 1
      BY <3>1, <2>1
    <3>2. CASE i \in 1..la /\ i <= la - ld
      <4>1. ~(a[i] >= a[la] - W) /\ a[la] <= t
        BY <3>2, <2>1, <1>2
      <4>2. a[i] \in Nat /\ a[la] \in Nat /\ b[i] = a[i]
        BY <3>2, <1>2
      <4> QED
        BY <3>2, <4>1, <4>2, <2>1
    <3>3. CASE i \in 1..la /\ i > la - ld /\ i <= la - ld + n
      <4>1. PICK j \in 1..n : i = la - ld + j
        <5>1. i - (la - ld) \in 1..n /\ i = la - ld + (i - (la - ld))
          BY <3>3, <2>1
        <5> QED
          BY <5>1
      <4>2. d[j] = a[i] /\ d[j] < t - W /\ b[i] = a[i]
        BY <3>3, <4>1, <2>1, <1>2
      <4>3. a[i] \in Nat
        BY <3>3
      <4> QED
        BY <3>3, <4>2, <4>3, <2>1
    <3>4. CASE i \in 1..la /\ i > la - ld + n
      <4>1. n < ld /\ n + 1 \in 1..ld /\ la - ld + (n + 1) \in 1..la
        BY <3>4, <2>1
      <4>2. d[n + 1] = a[la - ld + (n + 1)] /\ d[n + 1] >= t - W
        BY <4>1, <1>2
      <4>3. a[la - ld + (n + 1)] <= a[i]
        BY <3>4, <4>1, <2>1
      <4>4. a[i] \in Nat /\ a[la - ld + (n + 1)] \in Nat /\ b[i] = a[i]
        BY <3>4, <4>1
      <4> QED
        BY <3>4, <4>2, <4>3, <4>4
    <3> QED
      BY <3>1, <3>2, <3>3, <3>4, <2>1
  <2> QED
    BY <2>1, <2>2, <2>3
<1> QED
  BY <1>1, <1>2

LEMMA PushedIsWindow ==
  ASSUME HTypeOK, ArrivalsPast, DequeIsWindow, NEW s \in Slots
  PROVE  IsWindow(s, Pushed(s), Append(arrivals[s], now))
<1>1. PICK d \in Seq(Nat), a \in Seq(Nat), W \in Nat :
        d = events[s] /\ a = arrivals[s] /\ W = Window[s.rule]
  BY SlotRule DEF HTypeOK, TypeOK
<1>2. now \in Nat /\ now - W \in Int
  BY DEF HTypeOK, TypeOK
<1>3. PICK n \in 0..Len(d) :
           /\ DropExpired(d, now - W) \in Seq(Nat)
           /\ Len(DropExpired(d, now - W)) = Len(d) - n
           /\ \A i \in 1..(Len(d) - n) : DropExpired(d, now - W)[i] = d[n + i]
           /\ \A i \in 1..n : d[i] < now - W
           /\ n < Len(d) => d[n + 1] >= now - W
  BY <1>2, DropExpiredSuffix
<1>4. PICK rest \in Seq(Nat) : rest = DropExpired(d, now - W)
  BY <1>3
<1>5. PICK p \in Seq(Nat), b \in Seq(Nat) :
        p = Append(rest, now) /\ b = Append(a, now)
  BY <1>2, AppendFacts
<1>6. PICK la \in Nat, ld \in Nat : la = Len(a) /\ ld = Len(d)
  OBVIOUS
<1>7. /\ Len(p) = ld - n + 1 /\ p[ld - n + 1] = now
      /\ \A i \in 1..(ld - n) : p[i] = d[n + i]
  <2>1. /\ Len(p) = Len(rest) + 1 /\ p[Len(rest) + 1] = now
        /\ \A i \in 1..Len(rest) : p[i] = rest[i]
    BY <1>2, <1>5, AppendFacts
  <2> QED
    BY <1>3, <1>4, <1>6, <2>1
<1>8. Len(b) = la + 1 /\ b[la + 1] = now /\ \A i \in 1..la : b[i] = a[i]
  BY <1>2, <1>5, <1>6, AppendFacts
<1>9. /\ a \in [1..la -> Nat] /\ d \in [1..ld -> Nat]
      /\ b \in [1..(la + 1) -> Nat] /\ p \in [1..(ld - n + 1) -> Nat]
  <2>1. \A q \in Seq(Nat) : q \in [1..Len(q) -> Nat]
    OBVIOUS
  <2> QED
    BY <2>1, <1>6, <1>7, <1>8
<1>10. /\ \A i \in 1..la : a[i] <= now
       /\ \A i, j \in 1..la : i <= j => a[i] <= a[j]
       /\ la = 0 => ld = 0
  BY <1>1, <1>6 DEF ArrivalsPast
<1>11. la > 0 =>
         /\ ld \in 1..la
         /\ \A i \in 1..ld : d[i] = a[la - ld + i]
         /\ \A i \in 1..la : (a[i] >= a[la] - W) <=> (i > la - ld)
  <2> SUFFICES ASSUME la > 0 PROVE IsWindow(s, d, a)
    BY <1>1, <1>6 DEF IsWindow
  <2>1. a # <<>>
    BY <1>6
  <2> QED
    BY <2>1, <1>1 DEF DequeIsWindow
<1>12. /\ ld - n + 1 \in 1..(la + 1)
       /\ \A i \in 1..(ld - n + 1) : p[i] = b[la - ld + n + i]
       /\ \A i \in 1..(la + 1) : (b[i] >= now - W) <=> (i > la - ld + n)
  <2>1. n \in 0..ld /\ (\A i \in 1..n : d[i] < now - W)
        /\ (n < ld => d[n + 1] >= now - W)
    BY <1>3, <1>6
  <2>2. PruneAndPush(la, ld, n, now, W, a, d, b, p)
    BY <1>2, <1>7, <1>8, <1>9, <1>10, <1>11, <2>1 DEF PruneAndPush
  <2> QED
    BY <2>2, WindowExtends
<1>13. (la + 1) - (ld - n + 1) = la - ld + n
  BY <1>6, <1>3
<1>14. IsWindow(s, p, b)
  BY <1>1, <1>7, <1>8, <1>12, <1>13 DEF IsWindow
<1> QED
  BY <1>14, <1>1, <1>4, <1>5 DEF Pushed

LEMMA AlarmsPastStep ==
  HTypeOK /\ AlarmsPast /\ [HNext]_historyVars => AlarmsPast'
<1> SUFFICES ASSUME HTypeOK, AlarmsPast, [HNext]_historyVars
             PROVE  AlarmsPast'
  OBVIOUS
<1>1. now \in Nat /\ \A s \in Slots : alarms[s] \subseteq Nat
  BY DEF HTypeOK, TypeOK
<1>2. ASSUME NEW e \in Events, HIngest(e) PROVE AlarmsPast'
  <2>1. now' = now /\ \A s \in Slots : alarms'[s] \subseteq alarms[s] \cup {now}
    BY <1>2 DEF HIngest, Ingest, HTypeOK
  <2> QED
    BY <1>1, <2>1 DEF AlarmsPast
<1>3. CASE HOther(Tick)
  <2>1. now' = now + 1 /\ alarms' = alarms
    BY <1>3 DEF HOther, Tick
  <2>2. \A x \in Nat : x <= now => x <= now + 1
    BY <1>1
  <2> QED
    BY <1>1, <2>1, <2>2 DEF AlarmsPast
<1>4. CASE HOther(IngestUnstructured) \/ UNCHANGED historyVars
  BY <1>4 DEF HOther, IngestUnstructured, historyVars, AlarmsPast
<1> QED
  BY <1>2, <1>3, <1>4 DEF HNext

LEMMA DequeIsWindowStep ==
  /\ HTypeOK /\ ArrivalsPast /\ DequeIsWindow
  /\ [HNext]_historyVars
  => DequeIsWindow'
<1> SUFFICES ASSUME HTypeOK, ArrivalsPast, DequeIsWindow,
                    [HNext]_historyVars
             PROVE  DequeIsWindow'
  OBVIOUS
<1>1. ASSUME NEW e \in Events, HIngest(e) PROVE DequeIsWindow'
  <2> SUFFICES ASSUME NEW s \in Slots, arrivals'[s] # <<>>
               PROVE  IsWindow(s, events'[s], arrivals'[s])
    BY DEF DequeIsWindow, IsWindow
  <2>1. CASE s \in SlotsOf(e)
    <3>1. /\ events'[s] = Pushed(s)
          /\ arrivals'[s] = Append(arrivals[s], now)
      BY <1>1, <2>1 DEF HIngest, Ingest, HTypeOK, TypeOK
    <3> QED
      BY <3>1, PushedIsWindow
  <2>2. CASE s \notin SlotsOf(e)
    <3>1. events'[s] = events[s] /\ arrivals'[s] = arrivals[s]
      BY <1>1, <2>2 DEF HIngest, Ingest, HTypeOK, TypeOK
    <3> QED
      BY <3>1 DEF DequeIsWindow
  <2> QED
    BY <2>1, <2>2
<1>2. CASE UNCHANGED <<events, arrivals>>
  BY <1>2 DEF DequeIsWindow, IsWindow
<1> QED
  BY <1>1, <1>2 DEF HNext, HOther, IngestUnstructured, Tick, historyVars

(***************************************************************************)
(* The inductive invariant of the classifier under a clock that does not   *)
(* go back.                                                                *)
(***************************************************************************)
ClassifierInv ==
  HTypeOK /\ LastAlarm /\ AlarmsPast /\ ArrivalsPast /\ DequeIsWindow

LEMMA ClassifierInvHolds == HSpec => []ClassifierInv
<1>1. HInit => ClassifierInv
  <2> SUFFICES ASSUME HInit PROVE ClassifierInv
    OBVIOUS
  <2>1. \A s \in Slots : /\ arrivals[s] = <<>> /\ events[s] = <<>>
                         /\ last_fired[s] = None /\ alarms[s] = {}
    BY DEF HInit, Init
  <2>2. LastAlarm /\ AlarmsPast /\ DequeIsWindow
    BY <2>1 DEF LastAlarm, AlarmsPast, DequeIsWindow
  <2>3. ArrivalsPast
    BY <2>1 DEF ArrivalsPast
  <2> QED
    BY <2>2, <2>3, TypeInit DEF ClassifierInv
<1>2. ClassifierInv /\ [HNext]_historyVars => ClassifierInv'
  BY StepIsStepped, TypeStep, LastAlarmStep, AlarmsPastStep,
     ArrivalsPastStep, DequeIsWindowStep DEF ClassifierInv
<1> QED
  BY <1>1, <1>2, PTL DEF HSpec

(***************************************************************************)
(* Under a clock that does not go back, the deque of a slot is exactly the *)
(* window of its arrivals: nothing is pruned early, nothing is kept late.  *)
(***************************************************************************)
THEOREM WindowExact == HSpec => []DequeIsWindow
BY ClassifierInvHolds, PTL DEF ClassifierInv

-----------------------------------------------------------------------------
(***************************************************************************)
(* Bursts, and the monitor that forgets nothing.                           *)
(***************************************************************************)
LEMMA WindowCount ==
  ASSUME NEW s \in Slots, NEW d \in Seq(Nat), NEW a \in Seq(Nat),
         IsWindow(s, d, a)
  PROVE  Cardinality(Monitor!InWindow(s, a, a[Len(a)])) = Len(d)
<1>1. PICK n \in Nat, k \in Nat : n = Len(a) /\ k = Len(d)
  OBVIOUS
<1>2. k \in 1..n /\ \A i \in 1..n :
                     (a[i] >= a[n] - Window[s.rule]) <=> (i > n - k)
  BY <1>1 DEF IsWindow
<1>3. Monitor!InWindow(s, a, a[Len(a)]) = (n - k + 1)..n
  BY <1>1, <1>2 DEF Monitor!InWindow
<1>4. Cardinality((n - k + 1)..n) = k
  <2>1. n - k + 1 \in Int /\ n \in Int
    OBVIOUS
  <2>2. Cardinality((n - k + 1)..n) =
          IF n - k + 1 > n THEN 0 ELSE n - (n - k + 1) + 1
    BY <2>1, FS_Interval
  <2> QED
    BY <1>2, <2>2
<1> QED
  BY <1>1, <1>3, <1>4

LEMMA NoSilentBurstStep ==
  /\ ClassifierInv /\ NoSilentBurst
  /\ [HNext]_historyVars
  => NoSilentBurst'
<1> SUFFICES ASSUME ClassifierInv, NoSilentBurst, [HNext]_historyVars
             PROVE  NoSilentBurst'
  OBVIOUS
<1>1. ASSUME NEW e \in Events, HIngest(e) PROVE NoSilentBurst'
  <2> SUFFICES
        ASSUME NEW s \in Slots, arrivals'[s] # <<>>,
               Cardinality(Monitor!InWindow(s, arrivals'[s],
                             arrivals'[s][Len(arrivals'[s])]))
                 >= Threshold[s.rule]
        PROVE  \E t \in alarms'[s] :
                 /\ t <= arrivals'[s][Len(arrivals'[s])]
                 /\ arrivals'[s][Len(arrivals'[s])] - t < Cooldown[s.rule]
    BY DEF NoSilentBurst, Monitor!InWindow
  <2>1. CASE s \in SlotsOf(e)
    <3>1. PICK b \in Seq(Nat) : b = Append(arrivals[s], now)
      BY AppendFacts DEF ClassifierInv, HTypeOK, TypeOK
    <3>2. arrivals'[s] = b /\ b[Len(b)] = now /\ now \in Nat
      BY <1>1, <2>1, <3>1, AppendFacts
         DEF HIngest, ClassifierInv, HTypeOK, TypeOK
    <3>3. Cardinality(Monitor!InWindow(s, b, b[Len(b)])) = Len(Pushed(s))
      BY <3>1, PushedIsWindow, PushedType, WindowCount
         DEF ClassifierInv, HTypeOK
    <3>4. Len(Pushed(s)) >= Threshold[s.rule]
      BY <3>2, <3>3
    <3>5. CASE InCooldown(s)
      <4>1. last_fired[s] \in alarms[s] /\ last_fired[s] <= now
        BY <3>5 DEF InCooldown, ClassifierInv, LastAlarm, AlarmsPast
      <4>2. now - last_fired[s] < Cooldown[s.rule]
        BY <3>5 DEF InCooldown
      <4>3. alarms[s] \subseteq alarms'[s]
        BY <1>1 DEF HIngest, ClassifierInv, HTypeOK
      <4> QED
        BY <3>2, <4>1, <4>2, <4>3
    <3>6. CASE ~InCooldown(s)
      <4>1. now \in alarms'[s]
        BY <1>1, <2>1, <3>4, <3>6 DEF HIngest, Fires, ClassifierInv, HTypeOK
      <4>2. now - now < Cooldown[s.rule]
        BY <3>2, SlotRule
      <4> QED
        BY <3>2, <4>1, <4>2
    <3> QED
      BY <3>5, <3>6
  <2>2. CASE s \notin SlotsOf(e)
    <3>1. arrivals'[s] = arrivals[s] /\ alarms'[s] = alarms[s]
      BY <1>1, <2>2 DEF HIngest, ClassifierInv, HTypeOK
    <3> QED
      BY <3>1 DEF NoSilentBurst
  <2> QED
    BY <2>1, <2>2
<1>2. CASE UNCHANGED <<arrivals, alarms>>
  BY <1>2 DEF NoSilentBurst, Monitor!InWindow
<1> QED
  BY <1>1, <1>2 DEF HNext, HOther, historyVars

(***************************************************************************)
(* Under a clock that does not go back no burst passes in silence: an      *)
(* arrival that completes Threshold arrivals in the window fires, or comes *)
(* less than Cooldown after an alarm of the slot.                          *)
(***************************************************************************)
THEOREM EveryBurstAlarms == HSpec => []NoSilentBurst
<1>1. HInit => NoSilentBurst
  BY DEF HInit, Init, NoSilentBurst
<1> QED
  BY <1>1, ClassifierInvHolds, NoSilentBurstStep, PTL DEF HSpec

LEMMA SameRules ==
  /\ Monitor!Slots = Slots
  /\ \A e : Monitor!SlotsOf(e) = SlotsOf(e)
  /\ \A s, n, e, t : Monitor!MakeAlert(s, n, e, t) = MakeAlert(s, n, e, t)
<1>1. \A e : Monitor!SlotsOf(e) = SlotsOf(e)
  BY DEF Monitor!SlotsOf, SlotsOf, Monitor!MatchingRules, MatchingRules,
         Monitor!Rules, Rules, Monitor!KeyOf, KeyOf,
         Monitor!UnwrapOr, UnwrapOr
<1>2. Monitor!Slots = Slots
  BY <1>1 DEF Monitor!Slots, Slots
<1>3. \A s, n, e, t : Monitor!MakeAlert(s, n, e, t) = MakeAlert(s, n, e, t)
  BY DEF Monitor!MakeAlert, MakeAlert, Monitor!Severity, Severity,
         Monitor!Rules, Rules
<1> QED
  BY <1>1, <1>2, <1>3

LEMMA MonitorCount ==
  ASSUME ClassifierInv, NEW s \in Slots
  PROVE  Monitor!Count(s) = Len(Pushed(s))
<1>1. now \in Nat /\ arrivals[s] \in Seq(Nat)
  BY DEF ClassifierInv, HTypeOK, TypeOK
<1>2. PICK b \in Seq(Nat) : b = Append(arrivals[s], now)
  BY <1>1, AppendFacts
<1>3. b[Len(b)] = now
  BY <1>1, <1>2, AppendFacts
<1>4. Cardinality(Monitor!InWindow(s, b, b[Len(b)])) = Len(Pushed(s))
  BY <1>2, PushedIsWindow, PushedType, WindowCount
  DEF ClassifierInv, HTypeOK
<1>5. \A S : Monitor!Cardinality(S) = Cardinality(S)
  BY Zenon DEF Monitor!Cardinality, Cardinality, Monitor!IsFiniteSet,
               IsFiniteSet
<1> QED
  BY <1>2, <1>3, <1>4, <1>5 DEF Monitor!Count

LEMMA MonitorQuiet ==
  ASSUME ClassifierInv, NEW s \in Slots
  PROVE  Monitor!Quiet(s) <=> ~InCooldown(s)
<1>1. now \in Nat /\ Cooldown[s.rule] \in Nat
  BY SlotRule DEF ClassifierInv, HTypeOK, TypeOK
<1>2. CASE last_fired[s] = None
  BY <1>1, <1>2 DEF Monitor!Quiet, InCooldown, ClassifierInv, LastAlarm
<1>3. CASE last_fired[s] # None
  <2>1. /\ last_fired[s] \in alarms[s] /\ last_fired[s] \in Nat
        /\ \A t \in alarms[s] : t \in Nat /\ t <= last_fired[s]
    BY <1>3 DEF ClassifierInv, LastAlarm, HTypeOK, TypeOK
  <2>2. Monitor!Quiet(s) <=> now - last_fired[s] >= Cooldown[s.rule]
    BY <1>1, <2>1 DEF Monitor!Quiet
  <2> QED
    BY <1>1, <1>3, <2>1, <2>2 DEF InCooldown
<1> QED
  BY <1>2, <1>3

LEMMA IngestIsObserve ==
  ASSUME ClassifierInv, NEW e \in Events, HIngest(e)
  PROVE  Monitor!Observe(e)
<1>1. \A s \in SlotsOf(e) : s \in Slots
  BY SlotsOfEvent
<1>2. \A s \in SlotsOf(e) : Monitor!Count(s) = Len(Pushed(s))
  BY <1>1, MonitorCount
<1>3. \A s \in SlotsOf(e) : Monitor!Rings(s) <=> Fires(s)
  BY <1>1, <1>2, MonitorQuiet DEF Monitor!Rings, Fires
<1>4. Monitor!SlotsOf(e) = SlotsOf(e) /\ Monitor!Slots = Slots
  BY SameRules
<1>5. fired' = { Monitor!MakeAlert(s, Monitor!Count(s), e, now)
                  : s \in { x \in SlotsOf(e) : Monitor!Rings(x) } }
  <2>1. { x \in SlotsOf(e) : Monitor!Rings(x) }
          = { x \in SlotsOf(e) : Fires(x) }
    BY <1>3
  <2>2. fired' = { MakeAlert(s, Len(Pushed(s)), e, now)
                    : s \in { x \in SlotsOf(e) : Fires(x) } }
    BY DEF HIngest, Ingest
  <2>3. \A s \in SlotsOf(e) : Monitor!MakeAlert(s, Monitor!Count(s), e, now)
                              = MakeAlert(s, Len(Pushed(s)), e, now)
    BY <1>2, SameRules
  <2> QED
    BY <2>1, <2>2, <2>3
<1>6. alarms' = [s \in Slots |-> IF s \in SlotsOf(e) /\ Monitor!Rings(s)
                                THEN alarms[s] \cup {now} ELSE alarms[s]]
  BY <1>3 DEF HIngest
<1>7. now' = now /\ arrivals' = [s \in Slots |-> IF s \in SlotsOf(e)
                                                 THEN Append(arrivals[s], now)
                                                 ELSE arrivals[s]]
  BY DEF HIngest, Ingest
<1> QED
  BY <1>4, <1>5, <1>6, <1>7 DEF Monitor!Observe

(***************************************************************************)
(* Under a clock that does not go back the classifier, with its pruned     *)
(* deques and its one last_fired, fires exactly the alerts of the monitor  *)
(* that keeps every arrival and every alarm.                               *)
(***************************************************************************)
THEOREM ClassifierImplementsMonitor == HSpec => ImplementsMonitor
<1>1. HInit => Monitor!Init
  BY SameRules DEF HInit, Init, Monitor!Init
<1>2. ClassifierInv /\ [HNext]_historyVars
        => [Monitor!Next]_Monitor!monitorVars
  <2> SUFFICES ASSUME ClassifierInv, [HNext]_historyVars
               PROVE  [Monitor!Next]_Monitor!monitorVars
    OBVIOUS
  <2>1. ASSUME NEW e \in Events, HIngest(e) PROVE Monitor!Next
    BY <2>1, IngestIsObserve DEF Monitor!Next
  <2>2. CASE HOther(IngestUnstructured)
    BY <2>2 DEF HOther, IngestUnstructured, Monitor!Next,
                Monitor!IgnoreUnstructured
  <2>3. CASE HOther(Tick)
    BY <2>3 DEF HOther, Tick, Monitor!Next, Monitor!Tick
  <2>4. CASE UNCHANGED historyVars
    BY <2>4 DEF historyVars, Monitor!monitorVars
  <2> QED
    BY <2>1, <2>2, <2>3, <2>4 DEF HNext
<1> QED
  BY <1>1, <1>2, ClassifierInvHolds, PTL
     DEF HSpec, ImplementsMonitor, Monitor!Spec
=============================================================================
