--------------------------- MODULE StalenessCheck ---------------------------
(***************************************************************************)
(* scripts/watchtower-staleness-check.sh, run by a systemd timer beside    *)
(* the daemon of SelfMonitor.  It reads the file's mtime, and the clock a  *)
(* step later; nothing bounds the time curl takes, and the timer does not  *)
(* start a unit that is still running.                                     *)
(***************************************************************************)
EXTENDS SelfMonitor

CONSTANTS
  Stale,         \* environment |-> WATCHTOWER_HEARTBEAT_STALE_SECS: None if
                 \* unset, 0 (which is refused as well) if not a number
  DefaultStale,  \* 300 s
  MinStale,      \* 60 s
  FirstCheck,    \* OnBootSec of the timer, 2 min
  CheckPeriod    \* OnUnitActiveSec of the timer, 1 min

ASSUME StalenessAssumption ==
  /\ DefaultStale \in Nat /\ MinStale \in Nat \ {0} /\ FirstCheck \in Nat
  /\ CheckPeriod \in Nat \ {0}
  /\ \A e \in Environments : Stale[e] \in Nat \cup {None}

VARIABLES
  check,    \* the script: "idle", "looked", "posting"
  due,      \* when the timer starts it next
  seen,     \* the mtime it read, None if the file is missing or it is idle
  alerted   \* history: when it last began to post an alert, None if never

checkVars == <<check, due, seen, alerted>>

vars == <<daemonVars, checkVars>>

Threshold == IF Stale[env] = None THEN DefaultStale ELSE Stale[env]

(* Otherwise the script exits with 2 before it looks at the file.          *)
CheckConfigured ==
  /\ env.ntfy_url \notin {None, "empty"}
  /\ Threshold >= MinStale

TypeOK ==
  /\ SelfMonitorTypeOK
  /\ check \in {"idle", "looked", "posting"}
  /\ due \in Nat
  /\ seen \in Nat \cup {None}
  /\ alerted \in Nat \cup {None}

Init ==
  /\ SelfMonitorInit
  /\ check = "idle"
  /\ due = FirstCheck
  /\ seen = None
  /\ alerted = None

-----------------------------------------------------------------------------
CheckDue == check = "idle" /\ due <= now

Misconfigured ==
  /\ CheckDue
  /\ ~CheckConfigured
  /\ due' = now + CheckPeriod
  /\ UNCHANGED <<daemonVars, check, seen, alerted>>

Look ==
  /\ CheckDue
  /\ CheckConfigured
  /\ due' = now + CheckPeriod
  /\ check' = "looked"
  /\ seen' = mtime
  /\ UNCHANGED <<daemonVars, alerted>>

(* Mutant of Fresh: a missing file counts as fresh.                        *)
FreshOrMissing == seen # None => now - seen < Threshold

Fresh == seen # None /\ now - seen < Threshold

Healthy ==
  /\ check = "looked"
  /\ Fresh
  /\ check' = "idle"
  /\ seen' = None
  /\ UNCHANGED <<daemonVars, due, alerted>>

Post ==
  /\ check = "looked"
  /\ ~Fresh
  /\ check' = "posting"
  /\ seen' = None
  /\ alerted' = now
  /\ UNCHANGED <<daemonVars, due>>

(* curl succeeds or fails; the exit code says which, and that is all.      *)
Posted ==
  /\ check = "posting"
  /\ check' = "idle"
  /\ UNCHANGED <<daemonVars, due, seen, alerted>>

CheckUrgent == CheckDue \/ check = "looked"

CheckStep == Misconfigured \/ Look \/ Healthy \/ Post \/ Posted

Tick ==
  /\ ~DaemonUrgent
  /\ ~CheckUrgent
  /\ now' = now + 1
  /\ UNCHANGED <<env, daemon, restart_at, frozen, beat, start, deadline,
                 mtime, ticked, able, checkVars>>

Next == (DaemonStep /\ UNCHANGED checkVars) \/ CheckStep \/ Tick

Spec == Init /\ [][Next]_vars
=============================================================================
