---------------------------- MODULE SelfMonitor ----------------------------
(***************************************************************************)
(* The heartbeat (src/src/self_monitor.rs) of a daemon that starts, fails  *)
(* and is started again (src/src/main.rs and its systemd unit), on a       *)
(* discrete clock.  What is due at an instant happens before the clock     *)
(* moves on, unless the daemon is frozen: stopped, or stuck in a write.    *)
(***************************************************************************)
EXTENDS StartUp

CONSTANTS
  Environments,  \* the environments the units may be started with
  RestartSec     \* RestartSec of the service, 5 s

ASSUME SelfMonitorAssumption ==
  /\ \A e \in Environments : e.interval \in Nat \cup {None}
  /\ RestartSec \in Nat \ {0}

VARIABLES
  env,         \* the EnvironmentFile both units read
  now,
  daemon,      \* "down" (systemd will start it), "starting", "receiving",
               \* "exited" (with 0, which systemd leaves alone)
  restart_at,  \* when systemd starts a daemon that is down, else 0
  frozen,      \* none of the daemon's threads gets anywhere
  beat,        \* the heartbeat task: "off", "waiting", "writing"
  start,       \* when its Interval was created, 0 if there is none
  deadline,    \* when its Interval is due, 0 if there is none
  mtime,       \* of the heartbeat file, None if there is none
  ticked,      \* history: when this boot's Interval ticked
  able         \* history: [is, since]: whether the heartbeat can be written,
               \* and since when it can or cannot

daemonVars == <<env, now, daemon, restart_at, frozen, beat, start, deadline,
                mtime, ticked, able>>

Interval == HeartbeatInterval(env)

Alive == daemon \in {"starting", "receiving"}

SelfMonitorTypeOK ==
  /\ env \in Environments
  /\ now \in Nat
  /\ daemon \in {"down", "starting", "receiving", "exited"}
  /\ restart_at \in Nat
  /\ frozen \in BOOLEAN /\ (frozen => Alive)
  /\ beat \in {"off", "waiting", "writing"}
  /\ Alive <=> beat # "off"
  /\ start \in Nat /\ deadline \in Nat
  /\ mtime \in Nat \cup {None}
  /\ ticked \in Seq(Nat)
  /\ able \in [is: BOOLEAN, since: Nat]
  /\ able.is <=> Alive /\ ~frozen

SelfMonitorInit ==
  /\ env \in Environments
  /\ now = 0
  /\ daemon = "down"
  /\ restart_at = 0
  /\ frozen = FALSE
  /\ beat = "off"
  /\ start = 0
  /\ deadline = 0
  /\ mtime \in {None, 0}
  /\ ticked = <<>>
  /\ able = [is |-> FALSE, since |-> 0]

-----------------------------------------------------------------------------
(***************************************************************************)
(* main, up to the receive loop.  The heartbeat is spawned once the sinks  *)
(* are built and before journalctl is.                                     *)
(***************************************************************************)
StartDue == daemon = "down" /\ restart_at <= now

Refuse ==
  /\ StartDue
  /\ Refuses(env)
  /\ restart_at' = now + RestartSec
  /\ UNCHANGED <<env, now, daemon, frozen, beat, start, deadline, mtime,
                 ticked, able>>

SpawnHeartbeat ==
  /\ StartDue
  /\ daemon' = "starting"
  /\ beat' = "waiting"
  /\ restart_at' = 0
  /\ start' = now
  /\ deadline' = now
  /\ able' = [is |-> TRUE, since |-> now]
  /\ UNCHANGED <<env, now, frozen, mtime, ticked>>

(* Mutants of Start: the sinks are built after the heartbeat is spawned;   *)
(* the heartbeat is not spawned at all.                                    *)
StartUnchecked == SpawnHeartbeat

StartWithoutHeartbeat ==
  /\ ~Refuses(env)
  /\ StartDue
  /\ daemon' = "starting"
  /\ restart_at' = 0
  /\ able' = [is |-> TRUE, since |-> now]
  /\ UNCHANGED <<env, now, frozen, beat, start, deadline, mtime, ticked>>

Start == ~Refuses(env) /\ SpawnHeartbeat

Follow ==
  /\ daemon = "starting"
  /\ ~frozen
  /\ daemon' = "receiving"
  /\ UNCHANGED <<env, now, restart_at, frozen, beat, start, deadline, mtime,
                 ticked, able>>

-----------------------------------------------------------------------------
(***************************************************************************)
(* The end of the daemon.  When main returns or panics the heartbeat task  *)
(* is cancelled where it awaits, but the runtime waits for a write that a  *)
(* blocking thread has begun.  A kill waits for nothing.                   *)
(***************************************************************************)
Ends(how) ==
  /\ daemon' = how
  /\ restart_at' = IF how = "down" THEN now + RestartSec ELSE 0
  /\ frozen' = FALSE
  /\ beat' = "off"
  /\ start' = 0
  /\ deadline' = 0
  /\ ticked' = <<>>
  /\ able' = IF able.is THEN [is |-> FALSE, since |-> now] ELSE able
  /\ UNCHANGED <<env, now, mtime>>

CanReturn == ~frozen /\ beat # "writing"

(* journalctl cannot be spawned.                                           *)
SpawnFails == daemon = "starting" /\ CanReturn /\ Ends("down")

Panics == daemon = "receiving" /\ CanReturn /\ Ends("down")

(* The channel has closed.                                                 *)
Returns == daemon = "receiving" /\ CanReturn /\ Ends("exited")

Killed == Alive /\ Ends("down")

Freezes ==
  /\ Alive /\ ~frozen
  /\ frozen' = TRUE
  /\ able' = [is |-> FALSE, since |-> now]
  /\ UNCHANGED <<env, now, daemon, restart_at, beat, start, deadline, mtime,
                 ticked>>

Thaws ==
  /\ frozen
  /\ frozen' = FALSE
  /\ able' = [is |-> TRUE, since |-> now]
  /\ UNCHANGED <<env, now, daemon, restart_at, beat, start, deadline, mtime,
                 ticked>>

-----------------------------------------------------------------------------
(***************************************************************************)
(* The loop of self_monitor::run.                                          *)
(***************************************************************************)
BeatDue == beat = "waiting" /\ ~frozen /\ deadline <= now

(* Mutants of NextDeadline: MissedTickBehavior::Burst, tokio's default; a  *)
(* tick that is not late either is pushed back by a period.                *)
NextDeadlineBurst == deadline + Interval

NextDeadlineSkippingOne == now + 2 * Interval - ((now - deadline) % Interval)

(* tokio's Interval with MissedTickBehavior::Skip: the next multiple of    *)
(* the period, counted from its start, that lies in the future.            *)
NextDeadline == now + Interval - ((now - deadline) % Interval)

Ticks ==
  /\ BeatDue
  /\ deadline' = NextDeadline
  /\ ticked' = Append(ticked, now)

(* create_dir_all or the open fails: nothing happens to the file.          *)
OpenFails ==
  /\ Ticks
  /\ able' = [able EXCEPT !.since = now]
  /\ UNCHANGED <<env, now, daemon, restart_at, frozen, beat, start, mtime>>

(* fs::write opens with O_TRUNC: the file is there, empty and fresh.       *)
Truncate ==
  /\ Ticks
  /\ beat' = "writing"
  /\ mtime' = now
  /\ UNCHANGED <<env, now, daemon, restart_at, frozen, start, able>>

(* The body is written, or the write fails and the file stays empty.       *)
WriteBody ==
  /\ beat = "writing" /\ ~frozen
  /\ beat' = "waiting"
  /\ mtime' \in {mtime, now}
  /\ UNCHANGED <<env, now, daemon, restart_at, frozen, start, deadline,
                 ticked, able>>

-----------------------------------------------------------------------------
(* What does not wait for the clock.                                       *)
DaemonUrgent ==
  \/ StartDue
  \/ ~frozen /\ (daemon = "starting" \/ beat = "writing" \/ BeatDue)

DaemonStep ==
  \/ Refuse \/ Start \/ Follow
  \/ SpawnFails \/ Panics \/ Returns \/ Killed \/ Freezes \/ Thaws
  \/ OpenFails \/ Truncate \/ WriteBody
=============================================================================
