-------------------------- MODULE StalenessProofs --------------------------
(***************************************************************************)
(* Proofs about the heartbeat and its check, for every set of environments *)
(* and every value of the intervals, thresholds and periods.               *)
(***************************************************************************)
EXTENDS StalenessPolicy, TLAPS

-----------------------------------------------------------------------------
(***************************************************************************)
(* Arithmetic of the interval.                                             *)
(***************************************************************************)
LEMMA DivMod ==
  ASSUME NEW a \in Nat, NEW k \in Nat \ {0}
  PROVE  /\ a \div k \in Nat
         /\ a % k \in 0..(k - 1)
         /\ a = k * (a \div k) + (a % k)
BY SMT

LEMMA DivBelow ==
  ASSUME NEW a \in Nat, NEW k \in Nat \ {0}, NEW n \in Nat, a < k * n
  PROVE  a \div k < n
<1>1. a \div k \in Nat /\ k * (a \div k) <= a
  BY DivMod
<1>2. SUFFICES ASSUME a \div k >= n PROVE FALSE
  BY <1>1
<1>3. PICK d \in Nat : a \div k = n + d
  <2>1. (a \div k) - n \in Nat
    BY <1>1, <1>2
  <2> QED BY <2>1, <1>1
<1>4. k * (n + d) = k * n + k * d /\ k * d >= 0
  BY SMT
<1> QED BY <1>1, <1>3, <1>4

LEMMA DivAbove ==
  ASSUME NEW a \in Nat, NEW k \in Nat \ {0}, NEW n \in Nat, a >= k * n
  PROVE  a \div k >= n
<1>1. a \div k \in Nat /\ a < k * (a \div k) + k
  BY DivMod
<1>2. SUFFICES ASSUME a \div k < n PROVE FALSE
  BY <1>1
<1>3. PICK d \in Nat : n = (a \div k) + 1 + d
  <2>1. n - (a \div k) - 1 \in Nat
    BY <1>1, <1>2
  <2> QED BY <2>1, <1>1
<1>4. k * ((a \div k) + 1 + d) = k * (a \div k) + k + k * d /\ k * d >= 0
  BY <1>1, SMT
<1> QED BY <1>1, <1>3, <1>4

LEMMA IntervalPositive == ASSUME SelfMonitorTypeOK PROVE Interval \in Nat \ {0}
BY IntervalAssumption, SelfMonitorAssumption
   DEF SelfMonitorTypeOK, Interval, HeartbeatInterval

(* A tick that is due moves the deadline past now, by at most an interval, *)
(* and keeps it a whole number of intervals away from where it was.        *)
LEMMA NextDeadlineBounds ==
  ASSUME SelfMonitorTypeOK, deadline <= now
  PROVE  /\ NextDeadline \in Nat
         /\ NextDeadline > now /\ NextDeadline <= now + Interval
         /\ \E n \in Nat : NextDeadline = deadline + Interval * n
<1>1. Interval \in Nat \ {0} /\ now \in Nat /\ deadline \in Nat
  BY IntervalPositive DEF SelfMonitorTypeOK
<1> DEFINE late == now - deadline
<1>2. late \in Nat
  BY <1>1
<1>3. /\ late \div Interval \in Nat
      /\ late % Interval \in 0..(Interval - 1)
      /\ late = Interval * (late \div Interval) + (late % Interval)
  BY <1>1, <1>2, DivMod
<1>4. NextDeadline = now + Interval - (late % Interval)
  BY DEF NextDeadline
<1>5. Interval * ((late \div Interval) + 1)
        = Interval * (late \div Interval) + Interval
  BY <1>1, <1>3, SMT
<1>6. NextDeadline = deadline + Interval * ((late \div Interval) + 1)
  BY <1>1, <1>3, <1>4, <1>5
<1>7. NextDeadline > now /\ NextDeadline <= now + Interval
  <2> HIDE DEF late
  <2> QED BY <1>1, <1>3, <1>4
<1>8. (late \div Interval) + 1 \in Nat
  BY <1>3
<1>9. NextDeadline \in Nat
  <2>1. NextDeadline \in Int
    <3> HIDE DEF late
    <3> QED BY <1>1, <1>3, <1>4
  <2> QED BY <1>1, <1>7, <2>1
<1> QED
  BY <1>6, <1>7, <1>8, <1>9

-----------------------------------------------------------------------------
(***************************************************************************)
(* Types, and an environment that stays.                                   *)
(***************************************************************************)
LEMMA EnvStays ==
  ASSUME [Next]_vars
  PROVE  env' = env /\ Interval' = Interval /\ Threshold' = Threshold
<1>1. env' = env
  BY DEF Next, DaemonStep, CheckStep, Tick, Refuse, Start, SpawnHeartbeat,
         Follow, SpawnFails, Panics, Returns, Killed, Ends, Freezes, Thaws,
         OpenFails, Truncate, WriteBody, Misconfigured, Look, Healthy, Post,
         Posted, vars, daemonVars
<1> QED
  BY <1>1 DEF Interval, HeartbeatInterval, Threshold

LEMMA TypeInit == Init => TypeOK
<1> SUFFICES ASSUME Init PROVE TypeOK
  OBVIOUS
<1>1. ~Alive /\ beat = "off" /\ frozen = FALSE /\ ~able.is
  BY DEF Init, SelfMonitorInit, Alive
<1>2. /\ env \in Environments /\ now \in Nat
      /\ daemon \in {"down", "starting", "receiving", "exited"}
      /\ restart_at \in Nat
      /\ start \in Nat /\ deadline \in Nat /\ mtime \in Nat \cup {None}
  BY DEF Init, SelfMonitorInit
<1>4. ticked \in Seq(Nat) /\ able \in [is: BOOLEAN, since: Nat]
  BY DEF Init, SelfMonitorInit
<1>3. /\ check \in {"idle", "looked", "posting"} /\ due \in Nat
      /\ seen \in Nat \cup {None} /\ alerted \in Nat \cup {None}
  BY StalenessAssumption DEF Init
<1> QED
  BY <1>1, <1>2, <1>3, <1>4 DEF TypeOK, SelfMonitorTypeOK

(* The part of TypeOK that concerns the check.                             *)
LEMMA CheckTypeStep ==
  ASSUME TypeOK, [Next]_vars
  PROVE  /\ check' \in {"idle", "looked", "posting"} /\ due' \in Nat
         /\ seen' \in Nat \cup {None} /\ alerted' \in Nat \cup {None}
<1> USE StalenessAssumption DEF TypeOK, SelfMonitorTypeOK
<1>1. CASE UNCHANGED checkVars
  BY <1>1 DEF checkVars
<1>2. CASE Misconfigured \/ Look
  BY <1>2 DEF Misconfigured, Look
<1>3. CASE Healthy \/ Post \/ Posted
  BY <1>3 DEF Healthy, Post, Posted
<1> QED
  BY <1>1, <1>2, <1>3 DEF Next, CheckStep, Tick, vars

LEMMA TypeStep == TypeOK /\ [Next]_vars => TypeOK'
<1> SUFFICES ASSUME TypeOK, [Next]_vars PROVE SelfMonitorTypeOK'
  BY CheckTypeStep DEF TypeOK
<1> USE SelfMonitorAssumption DEF TypeOK, SelfMonitorTypeOK
<1>1. CASE Refuse \/ Follow
  BY <1>1 DEF Refuse, Follow, Alive
<1>2. CASE Start
  <2>1. ~frozen /\ frozen' = FALSE
    BY <1>2 DEF Start, SpawnHeartbeat, StartDue, Alive
  <2>2. Alive' /\ beat' = "waiting" /\ able'.is
    BY <1>2 DEF Start, SpawnHeartbeat, Alive
  <2>3. able' \in [is: BOOLEAN, since: Nat]
    BY <1>2 DEF Start, SpawnHeartbeat
  <2> QED BY <1>2, <2>1, <2>2, <2>3 DEF Start, SpawnHeartbeat
<1>3. ASSUME NEW how \in {"down", "exited"}, Ends(how)
      PROVE  SelfMonitorTypeOK'
  <2>1. ~Alive' /\ ~able'.is /\ able' \in [is: BOOLEAN, since: Nat]
    <3>1. CASE able.is
      BY <1>3, <3>1 DEF Ends, Alive
    <3>2. CASE ~able.is
      BY <1>3, <3>2 DEF Ends, Alive
    <3> QED BY <3>1, <3>2
  <2>2. /\ env' \in Environments /\ now' \in Nat /\ restart_at' \in Nat
        /\ daemon' \in {"down", "starting", "receiving", "exited"}
        /\ start' \in Nat /\ deadline' \in Nat /\ mtime' \in Nat \cup {None}
    BY <1>3 DEF Ends
  <2>3. frozen' = FALSE /\ beat' = "off" /\ ticked' = <<>>
    BY <1>3 DEF Ends
  <2>4. ticked' \in Seq(Nat)
    BY <2>3
  <2> QED BY <2>1, <2>2, <2>3, <2>4
<1>4. CASE Freezes
  <2>1. Alive /\ Alive' /\ frozen' = TRUE /\ ~able'.is
    BY <1>4 DEF Freezes, Alive
  <2>2. able' \in [is: BOOLEAN, since: Nat]
    BY <1>4 DEF Freezes
  <2>3. (Alive' <=> beat' # "off") /\ ~(Alive' /\ ~frozen')
    BY <1>4, <2>1 DEF Freezes
  <2>4. frozen' \in BOOLEAN /\ (frozen' => Alive')
    BY <2>1
  <2> QED BY <1>4, <2>1, <2>2, <2>3, <2>4 DEF Freezes
<1>5. CASE Thaws
  <2>1. Alive /\ Alive' /\ frozen' = FALSE /\ able'.is
    BY <1>5 DEF Thaws, Alive
  <2>2. able' \in [is: BOOLEAN, since: Nat]
    BY <1>5 DEF Thaws
  <2> QED BY <1>5, <2>1, <2>2 DEF Thaws
<1>6. ASSUME Ticks
      PROVE  deadline' \in Nat /\ ticked' \in Seq(Nat) /\ beat = "waiting"
  BY <1>6, NextDeadlineBounds DEF Ticks, BeatDue
<1>7. CASE OpenFails
  <2>1. Alive' = Alive /\ able'.is = able.is /\ able' \in [is: BOOLEAN, since: Nat]
    BY <1>7 DEF OpenFails, Alive
  <2> QED BY <1>6, <1>7, <2>1 DEF OpenFails
<1>8. CASE Truncate
  <2>1. Alive' = Alive
    BY <1>8 DEF Truncate, Alive
  <2> QED BY <1>6, <1>8, <2>1 DEF Truncate
<1>9. CASE WriteBody
  <2>1. Alive' = Alive
    BY <1>9 DEF WriteBody, Alive
  <2> QED BY <1>9, <2>1 DEF WriteBody
<1>10. CASE Tick
  BY <1>10 DEF Tick, Alive
<1>11. CASE UNCHANGED daemonVars
  BY <1>11 DEF daemonVars, Alive
<1> QED
  BY <1>1, <1>2, <1>3, <1>4, <1>5, <1>7, <1>8, <1>9, <1>10, <1>11
     DEF Next, DaemonStep, SpawnFails, Panics, Returns, Killed, CheckStep,
         Misconfigured, Look, Healthy, Post, Posted, vars

(***************************************************************************)
(* The state of daemon, heartbeat and check keeps its type: in particular  *)
(* the heartbeat task runs exactly while the daemon does (main.rs:113).    *)
(***************************************************************************)
THEOREM TypeCorrect == Spec => []TypeOK
BY TypeInit, TypeStep, PTL DEF Spec

-----------------------------------------------------------------------------
(***************************************************************************)
(* What time has to do with it.  The clock does not overtake a deadline,   *)
(* as long as the heartbeat can be written; and then the deadline lies at  *)
(* most an interval behind the last write, or behind the time since when   *)
(* it can be written.                                                      *)
(***************************************************************************)
Timing ==
  /\ able.since <= now
  /\ mtime # None => mtime <= now
  /\ Alive => deadline <= now + Interval
  /\ ~able.is => mtime = None \/ mtime <= able.since
  /\ able.is => deadline >= now \/ able.since = now
  /\ able.is => \/ deadline <= able.since + Interval
                \/ mtime # None /\ deadline <= mtime + Interval

LEMMA TimingInit == Init => Timing
BY DEF Init, SelfMonitorInit, Timing, Alive

LEMMA TimingStep == TypeOK /\ Timing /\ [Next]_vars => Timing'
<1> SUFFICES ASSUME TypeOK, Timing, [Next]_vars PROVE Timing'
  OBVIOUS
<1>0. Interval \in Nat \ {0} /\ Interval' = Interval
  BY IntervalPositive, EnvStays DEF TypeOK
<1> USE <1>0, IntervalAssumption DEF TypeOK, SelfMonitorTypeOK, Timing
<1>1. CASE Refuse \/ Follow
  BY <1>1 DEF Refuse, Follow, Alive
<1>2. CASE Start
  <2>1. able'.is /\ able'.since = now /\ now' = now /\ mtime' = mtime
          /\ deadline' = now
    BY <1>2 DEF Start, SpawnHeartbeat
  <2> QED BY <2>1
<1>3. ASSUME NEW how \in {"down", "exited"}, Ends(how) PROVE Timing'
  <2>1. now' = now /\ mtime' = mtime /\ ~Alive' /\ ~able'.is
    <3>1. CASE able.is
      BY <1>3, <3>1 DEF Ends, Alive
    <3>2. CASE ~able.is
      BY <1>3, <3>2 DEF Ends, Alive
    <3> QED BY <3>1, <3>2
  <2>2. IF able.is THEN able'.since = now ELSE able' = able
    BY <1>3 DEF Ends
  <2> QED BY <2>1, <2>2
<1>4. CASE Freezes
  <2>1. ~able'.is /\ able'.since = now /\ now' = now /\ mtime' = mtime
          /\ deadline' = deadline /\ Alive
    BY <1>4 DEF Freezes
  <2> QED BY <2>1
<1>5. CASE Thaws
  <2>1. able'.is /\ able'.since = now /\ now' = now /\ mtime' = mtime
          /\ deadline' = deadline /\ Alive
    BY <1>5 DEF Thaws
  <2> QED BY <2>1
<1>6. ASSUME Ticks
      PROVE  able.is /\ deadline' \in Nat /\ deadline' > now
               /\ deadline' <= now + Interval
  BY <1>6, NextDeadlineBounds DEF Ticks, BeatDue
<1>7. CASE OpenFails
  <2>1. deadline' > now /\ deadline' <= now + Interval /\ able'.is
          /\ able'.since = now /\ now' = now /\ mtime' = mtime
    BY <1>6, <1>7 DEF OpenFails
  <2> QED BY <2>1
<1>8. CASE Truncate
  <2>1. deadline' \in Nat /\ deadline' > now /\ deadline' <= now + Interval
          /\ able' = able
          /\ now' = now /\ mtime' = now /\ now # None
    BY <1>6, <1>8 DEF Truncate
  <2>2. deadline' <= now' + Interval' /\ deadline' >= now'
          /\ mtime' # None /\ mtime' <= now'
    BY <2>1
  <2>3. able.is /\ able.since <= now /\ Ticks
    BY <1>6, <1>8 DEF Truncate
  <2>4. able'.is /\ able'.since <= now'
    BY <2>1, <2>3
  <2>5. deadline' <= mtime' + Interval'
    BY <2>1
  <2> QED BY <2>2, <2>4, <2>5
<1>9. CASE WriteBody
  <2>1. /\ deadline' = deadline /\ able' = able /\ now' = now
        /\ mtime' \in {mtime, now} /\ now # None /\ able.is /\ Alive
    BY <1>9 DEF WriteBody
  <2>2. CASE mtime' = mtime
    <3>1. deadline' <= now' + Interval' /\ (mtime' # None => mtime' <= now')
      BY <2>1, <2>2
    <3>2. \/ deadline' <= able'.since + Interval'
          \/ mtime' # None /\ deadline' <= mtime' + Interval'
      BY <2>1, <2>2
    <3> QED BY <2>1, <2>2, <3>1, <3>2
  <2>3. CASE mtime' = now
    <3>1. deadline' <= now' + Interval' /\ mtime' # None /\ mtime' <= now'
            /\ deadline' <= mtime' + Interval'
      BY <2>1, <2>3
    <3> QED BY <2>1, <2>3, <3>1
  <2> QED BY <2>1, <2>2, <2>3
<1>10. CASE Tick
  <2>1. able.is => deadline > now
    BY <1>10 DEF Tick, DaemonUrgent, BeatDue
  <2>2. /\ deadline' = deadline /\ able' = able /\ now' = now + 1
        /\ mtime' = mtime /\ Alive' = Alive
    BY <1>10 DEF Tick, Alive
  <2>3. able'.since <= now' /\ (mtime' # None => mtime' <= now')
    BY <2>2
  <2>4. Alive' => deadline' <= now' + Interval'
    BY <2>2
  <2>5. able'.is => deadline' >= now' \/ able'.since = now'
    BY <2>1, <2>2
  <2>6. /\ ~able'.is => mtime' = None \/ mtime' <= able'.since
        /\ able'.is => \/ deadline' <= able'.since + Interval'
                       \/ mtime' # None /\ deadline' <= mtime' + Interval'
    BY <2>2
  <2> QED BY <2>3, <2>4, <2>5, <2>6
<1>11. CASE UNCHANGED daemonVars
  BY <1>11 DEF daemonVars, Alive
<1> QED
  BY <1>1, <1>2, <1>3, <1>4, <1>5, <1>7, <1>8, <1>9, <1>10, <1>11
     DEF Next, DaemonStep, SpawnFails, Panics, Returns, Killed, CheckStep,
         Misconfigured, Look, Healthy, Post, Posted, vars

-----------------------------------------------------------------------------
(***************************************************************************)
(* The daemon leaves the clock alone, and what it does to able happens now.*)
(***************************************************************************)
LEMMA AbleStep ==
  ASSUME TypeOK, DaemonStep
  PROVE  now' = now /\ (able' = able \/ able'.since = now)
<1>1. ASSUME NEW how, Ends(how)
      PROVE  now' = now /\ (able' = able \/ able'.since = now)
  BY <1>1 DEF Ends
<1>2. CASE Refuse \/ Start \/ Follow \/ Freezes \/ Thaws
  BY <1>2 DEF Refuse, Start, SpawnHeartbeat, Follow, Freezes, Thaws
<1>3. CASE OpenFails
  BY <1>3 DEF OpenFails, TypeOK, SelfMonitorTypeOK
<1>4. CASE Truncate \/ WriteBody
  BY <1>4 DEF Truncate, WriteBody
<1> QED
  BY <1>1, <1>2, <1>3, <1>4
     DEF DaemonStep, SpawnFails, Panics, Returns, Killed

LEMMA ThresholdPositive ==
  ASSUME TypeOK
  PROVE  Threshold \in Nat /\ (CheckConfigured => Threshold >= 1)
BY StalenessAssumption
   DEF TypeOK, SelfMonitorTypeOK, Threshold, CheckConfigured

(***************************************************************************)
(* A check that was started a threshold after the heartbeat had become     *)
(* impossible has seen a file no younger than that, and has reported it or *)
(* is about to.                                                            *)
(***************************************************************************)
LastLook ==
  /\ due >= FirstCheck
  /\ due > FirstCheck => due <= now + CheckPeriod
  /\ /\ CheckConfigured /\ due > FirstCheck /\ ~able.is
     /\ due - CheckPeriod >= able.since + Threshold
     => IF check = "looked" THEN seen = None \/ seen <= able.since
        ELSE alerted # None /\ alerted >= able.since

LEMMA LastLookInit == Init => LastLook
BY StalenessAssumption DEF Init, LastLook

LEMMA LastLookStep == TypeOK /\ Timing /\ LastLook /\ [Next]_vars => LastLook'
<1> SUFFICES ASSUME TypeOK, Timing, LastLook, [Next]_vars PROVE LastLook'
  OBVIOUS
<1>0. /\ Threshold \in Nat /\ (CheckConfigured => Threshold >= 1)
      /\ Threshold' = Threshold /\ CheckConfigured' = CheckConfigured
  BY ThresholdPositive, EnvStays DEF CheckConfigured
<1> USE StalenessAssumption, IntervalAssumption DEF TypeOK, SelfMonitorTypeOK
<1>1. CASE DaemonStep /\ UNCHANGED checkVars
  <2>1. now' = now /\ (able' = able \/ able'.since = now)
    BY <1>1, AbleStep
  <2>2. CASE able' = able
    BY <1>0, <1>1, <2>1, <2>2 DEF LastLook, checkVars
  <2>3. CASE able'.since = now
    BY <1>0, <1>1, <2>1, <2>3 DEF LastLook, checkVars
  <2> QED BY <2>1, <2>2, <2>3
<1>2. CASE Misconfigured
  BY <1>0, <1>2 DEF LastLook, Misconfigured, CheckDue, daemonVars
<1>3. CASE Look
  BY <1>0, <1>3 DEF LastLook, Timing, Look, CheckDue, daemonVars
<1>4. CASE Healthy
  <2>1. able' = able /\ now' = now /\ due' = due /\ check = "looked" /\ Fresh
    BY <1>4 DEF Healthy, daemonVars
  <2>2. ~(/\ CheckConfigured /\ due > FirstCheck /\ ~able.is
          /\ due - CheckPeriod >= able.since + Threshold)
    BY <1>0, <2>1 DEF LastLook, Fresh
  <2> QED BY <1>0, <2>1, <2>2 DEF LastLook
<1>5. CASE Post
  BY <1>0, <1>5 DEF LastLook, Timing, Post, daemonVars
<1>6. CASE Posted
  BY <1>0, <1>6 DEF LastLook, Posted, daemonVars
<1>7. CASE Tick
  BY <1>0, <1>7 DEF LastLook, Tick, checkVars
<1>8. CASE UNCHANGED vars
  BY <1>0, <1>8 DEF LastLook, vars, daemonVars, checkVars
<1> QED
  BY <1>1, <1>2, <1>3, <1>4, <1>5, <1>6, <1>7, <1>8 DEF Next, CheckStep

LEMMA LastLookReports == TypeOK /\ LastLook => SilenceReported
BY StalenessAssumption, IntervalAssumption, ThresholdPositive
   DEF TypeOK, SelfMonitorTypeOK, LastLook, SilenceReported, Resting

(***************************************************************************)
(* "a real crash pages within 5min" (self_monitor.rs:39-40): silence that  *)
(* lasts a threshold and a period of the timer is reported, whatever the   *)
(* daemon and the check were doing when it fell silent.                    *)
(***************************************************************************)
THEOREM SilenceIsReported == Spec => []SilenceReported
<1>1. Init => TypeOK /\ Timing /\ LastLook
  BY TypeInit, TimingInit, LastLookInit
<1>2. TypeOK /\ Timing /\ LastLook /\ [Next]_vars
      => (TypeOK /\ Timing /\ LastLook)'
  BY TypeStep, TimingStep, LastLookStep
<1> QED
  BY <1>1, <1>2, LastLookReports, PTL DEF Spec

-----------------------------------------------------------------------------
(***************************************************************************)
(* A daemon that is refused never gets to spawn its heartbeat.             *)
(***************************************************************************)
Refused ==
  Refuses(env) => daemon = "down" /\ ~able.is /\ able.since = 0

LEMMA RefusedStep == TypeOK /\ Refused /\ [Next]_vars => Refused'
<1> SUFFICES ASSUME TypeOK, Refused, [Next]_vars, Refuses(env') PROVE Refused'
  BY DEF Refused
<1>1. Refuses(env) /\ ~Alive /\ beat = "off" /\ frozen = FALSE
  BY EnvStays DEF Refused, Alive, TypeOK, SelfMonitorTypeOK
<1>2. daemon' = daemon /\ able' = able
  BY <1>1
     DEF Next, DaemonStep, CheckStep, Tick, Refuse, Start, SpawnHeartbeat,
         Follow, SpawnFails, Panics, Returns, Killed, Freezes, Thaws,
         OpenFails, Truncate, Ticks, BeatDue, WriteBody, Misconfigured, Look,
         Healthy, Post, Posted, vars, daemonVars, Alive
<1> QED
  BY <1>1, <1>2 DEF Refused

(***************************************************************************)
(* A daemon that refuses its configuration is reported, although systemd   *)
(* keeps starting it (main.rs:46-105).                                     *)
(***************************************************************************)
THEOREM RefusalIsReported == Spec => []RefusalReported
<1>1. Init => TypeOK /\ Refused
  BY TypeInit DEF Init, SelfMonitorInit, Refused
<1>2. TypeOK /\ Refused /\ [Next]_vars => (TypeOK /\ Refused)'
  BY TypeStep, RefusedStep
<1>3. TypeOK /\ Refused /\ SilenceReported => RefusalReported
  BY ThresholdPositive
     DEF Refused, SilenceReported, RefusalReported, TypeOK, SelfMonitorTypeOK
<1> QED
  BY <1>1, <1>2, <1>3, SilenceIsReported, PTL DEF Spec

-----------------------------------------------------------------------------
(***************************************************************************)
(* While the heartbeat can be written, the script's idea of its age is at  *)
(* most an interval: it reads the clock within the instant of its look.    *)
(***************************************************************************)
SeenFresh ==
  check = "looked" /\ able.is /\ now - able.since > Interval
    => seen # None /\ now - seen <= Interval

LEMMA SeenFreshStep == TypeOK /\ Timing /\ SeenFresh /\ [Next]_vars => SeenFresh'
<1> SUFFICES ASSUME TypeOK, Timing, SeenFresh, [Next]_vars PROVE SeenFresh'
  OBVIOUS
<1>0. Interval \in Nat \ {0} /\ Interval' = Interval
  BY IntervalPositive, EnvStays DEF TypeOK
<1> USE <1>0, IntervalAssumption DEF TypeOK, SelfMonitorTypeOK
<1>1. CASE DaemonStep /\ UNCHANGED checkVars
  <2>1. now' = now /\ (able' = able \/ able'.since = now)
    BY <1>1, AbleStep
  <2> QED BY <1>1, <2>1 DEF SeenFresh, checkVars
<1>2. CASE Look
  BY <1>2 DEF Look, SeenFresh, Timing, daemonVars
<1>3. CASE Misconfigured \/ Healthy \/ Post \/ Posted
  BY <1>3 DEF Misconfigured, Healthy, Post, Posted, CheckDue, SeenFresh
<1>4. CASE Tick
  BY <1>4 DEF Tick, CheckUrgent, SeenFresh, checkVars
<1>5. CASE UNCHANGED vars
  BY <1>5 DEF SeenFresh, vars, daemonVars, checkVars
<1> QED
  BY <1>1, <1>2, <1>3, <1>4, <1>5 DEF Next, CheckStep

(***************************************************************************)
(* No false alarm (self_monitor.rs:37-39): a heartbeat that could be       *)
(* written for longer than its interval is not reported, provided that the *)
(* interval is shorter than the threshold.                                 *)
(***************************************************************************)
THEOREM HealthyIsNotReported == Spec => HealthyNotReported
<1>1. Init => TypeOK /\ Timing /\ SeenFresh
  BY TypeInit, TimingInit DEF Init, SeenFresh
<1>2. TypeOK /\ Timing /\ SeenFresh /\ [Next]_vars
      => (TypeOK /\ Timing /\ SeenFresh)'
  BY TypeStep, TimingStep, SeenFreshStep
<1>3. TypeOK /\ SeenFresh /\ [Next]_vars
      => [ alerted' # alerted =>
             ~(/\ able.is /\ now - able.since > Interval
               /\ Interval < Threshold) ]_vars
  <2> SUFFICES ASSUME TypeOK, SeenFresh, [Next]_vars, alerted' # alerted
               PROVE  ~(/\ able.is /\ now - able.since > Interval
                        /\ Interval < Threshold)
    OBVIOUS
  <2>1. Post
    BY DEF Next, CheckStep, Misconfigured, Look, Healthy, Posted, Tick, vars,
           checkVars
  <2>2. check = "looked" /\ ~Fresh
    BY <2>1 DEF Post
  <2>3. Interval \in Nat /\ Threshold \in Nat
    BY IntervalPositive, ThresholdPositive DEF TypeOK
  <2> QED
    BY <2>2, <2>3 DEF SeenFresh, Fresh, TypeOK, SelfMonitorTypeOK
<1> QED
  BY <1>1, <1>2, <1>3, PTL DEF Spec, HealthyNotReported

-----------------------------------------------------------------------------
(***************************************************************************)
(* A deadline is a whole number of intervals from the start, and all ticks *)
(* so far lie before it.                                                   *)
(***************************************************************************)
TicksInSlots ==
  /\ Alive => start <= now
  /\ Alive => \E n \in Nat : deadline = start + Interval * n
  /\ ~Alive => ticked = <<>>
  /\ \A i \in DOMAIN ticked : start <= ticked[i] /\ ticked[i] < deadline
  /\ OneBeatPerSlot

LEMMA TicksInSlotsInit == Init => TicksInSlots
BY DEF Init, SelfMonitorInit, TicksInSlots, OneBeatPerSlot, Alive

LEMMA TickInSlot ==
  ASSUME TypeOK, TicksInSlots, Ticks,
         start' = start, now' = now, Interval' = Interval, Alive' = Alive
  PROVE  TicksInSlots'
<1> USE DEF TypeOK, SelfMonitorTypeOK
<1>1. Alive /\ deadline <= now /\ Interval \in Nat \ {0}
  BY IntervalPositive DEF Ticks, BeatDue
<1>2. PICK n \in Nat : deadline = start + Interval * n
  BY <1>1 DEF TicksInSlots
<1>3. /\ deadline' \in Nat /\ deadline' > now
      /\ \E k \in Nat : deadline' = deadline + Interval * k
  BY <1>1, NextDeadlineBounds DEF Ticks
<1>4. \E k \in Nat : deadline' = start' + Interval' * k
  <2>1. PICK k \in Nat : deadline' = deadline + Interval * k
    BY <1>3
  <2>2. /\ Interval * (n + k) = Interval * n + Interval * k
        /\ Interval * n \in Nat /\ Interval * k \in Nat
    BY <1>1, SMT
  <2>3. deadline' = start' + Interval' * (n + k)
    BY <1>2, <2>1, <2>2
  <2> QED BY <2>3
<1>5. /\ DOMAIN ticked' = 1..(Len(ticked) + 1)
      /\ \A i \in DOMAIN ticked : ticked'[i] = ticked[i]
      /\ ticked'[Len(ticked) + 1] = now
      /\ DOMAIN ticked = 1..Len(ticked) /\ Len(ticked) \in Nat
      /\ \A i \in DOMAIN ticked : ticked[i] \in Nat
  BY DEF Ticks
<1>6. \A i \in DOMAIN ticked' : start' <= ticked'[i] /\ ticked'[i] < deadline'
  <2> TAKE i \in DOMAIN ticked'
  <2>1. CASE i \in DOMAIN ticked
    BY <1>1, <1>3, <1>5, <2>1 DEF TicksInSlots
  <2>2. CASE i = Len(ticked) + 1
    BY <1>1, <1>3, <1>5, <2>2 DEF TicksInSlots
  <2> QED BY <1>5, <2>1, <2>2
<1>7. Slot(now) >= n /\ Slot(now) \in Int
  <2>1. now - start \in Nat /\ now - start >= Interval * n
    BY <1>1, <1>2 DEF TicksInSlots
  <2> QED BY <1>1, <2>1, DivAbove, DivMod DEF Slot
<1>8. \A i \in DOMAIN ticked : Slot(ticked[i]) < n /\ Slot(ticked[i]) \in Int
  <2> TAKE i \in DOMAIN ticked
  <2>1. ticked[i] - start \in Nat /\ ticked[i] - start < Interval * n
    <3>1. Interval * n \in Nat
      BY <1>1, SMT
    <3> QED BY <1>2, <1>5, <3>1 DEF TicksInSlots
  <2>2. (ticked[i] - start) \div Interval < n
    BY <1>1, <2>1, DivBelow
  <2>3. (ticked[i] - start) \div Interval \in Nat
    BY <1>1, <2>1, DivMod
  <2> QED BY <2>2, <2>3 DEF Slot
<1>9. OneBeatPerSlot'
  <2> SUFFICES ASSUME NEW i \in DOMAIN ticked', NEW j \in DOMAIN ticked', i < j
               PROVE  (ticked'[i] - start) \div Interval
                        < (ticked'[j] - start) \div Interval
    BY DEF OneBeatPerSlot, Slot
  <2>1. i \in DOMAIN ticked
    BY <1>5
  <2>2. CASE j \in DOMAIN ticked
    BY <1>5, <2>1, <2>2 DEF TicksInSlots, OneBeatPerSlot, Slot
  <2>3. CASE j = Len(ticked) + 1
    BY <1>5, <1>7, <1>8, <2>1, <2>3 DEF Slot
  <2> QED BY <1>5, <2>2, <2>3
<1> QED
  BY <1>1, <1>4, <1>6, <1>9 DEF TicksInSlots

LEMMA TicksInSlotsStep == TypeOK /\ TicksInSlots /\ [Next]_vars => TicksInSlots'
<1> SUFFICES ASSUME TypeOK, TicksInSlots, [Next]_vars PROVE TicksInSlots'
  OBVIOUS
<1>0. Interval \in Nat \ {0} /\ Interval' = Interval
  BY IntervalPositive, EnvStays DEF TypeOK
<1> USE <1>0 DEF TypeOK, SelfMonitorTypeOK
<1>1. CASE Start
  <2>1. Alive' /\ ticked' = <<>> /\ start' = now /\ deadline' = now /\ now' = now
    BY <1>1 DEF Start, SpawnHeartbeat, StartDue, Alive, TicksInSlots
  <2>2. deadline' = start' + Interval' * 0
    BY <2>1
  <2> QED BY <2>1, <2>2 DEF TicksInSlots, OneBeatPerSlot
<1>2. ASSUME NEW how \in {"down", "exited"}, Ends(how) PROVE TicksInSlots'
  <2>1. ~Alive' /\ ticked' = <<>>
    BY <1>2 DEF Ends, Alive
  <2> QED BY <2>1 DEF TicksInSlots, OneBeatPerSlot
<1>3. CASE OpenFails \/ Truncate
  <2>1. Ticks /\ start' = start /\ now' = now /\ Alive' = Alive
    BY <1>3 DEF OpenFails, Truncate, Alive
  <2> QED BY <2>1, TickInSlot
<1>4. ASSUME start' = start, deadline' = deadline, ticked' = ticked,
             Alive' = Alive, now' = now \/ now' = now + 1
      PROVE  TicksInSlots'
  <2>1. OneBeatPerSlot'
    BY <1>4 DEF TicksInSlots, OneBeatPerSlot, Slot
  <2>2. Alive' => start' <= now'
    BY <1>4 DEF TicksInSlots
  <2> QED BY <1>4, <2>1, <2>2 DEF TicksInSlots
<1>5. CASE Refuse \/ Follow \/ Freezes \/ Thaws \/ WriteBody
  BY <1>4, <1>5 DEF Refuse, Follow, Freezes, Thaws, WriteBody, Alive
<1>6. CASE CheckStep \/ Tick \/ UNCHANGED vars
  BY <1>4, <1>6
     DEF CheckStep, Misconfigured, Look, Healthy, Post, Posted, Tick, vars,
         daemonVars, Alive
<1> QED
  BY <1>1, <1>2, <1>3, <1>5, <1>6
     DEF Next, DaemonStep, SpawnFails, Panics, Returns, Killed

(***************************************************************************)
(* No burst of catch-up writes (self_monitor.rs:135-138): in each interval *)
(* counted from its start the heartbeat ticks at most once, however long   *)
(* it was held up.                                                         *)
(***************************************************************************)
THEOREM NoBurst == Spec => []OneBeatPerSlot
<1>1. Init => TypeOK /\ TicksInSlots
  BY TypeInit, TicksInSlotsInit
<1>2. TypeOK /\ TicksInSlots /\ [Next]_vars => (TypeOK /\ TicksInSlots)'
  BY TypeStep, TicksInSlotsStep
<1>3. TicksInSlots => OneBeatPerSlot
  BY DEF TicksInSlots
<1> QED
  BY <1>1, <1>2, <1>3, PTL DEF Spec
=============================================================================
