-------------------------- MODULE StalenessPolicy --------------------------
(***************************************************************************)
(* What the heartbeat and its check promise the operator together.         *)
(***************************************************************************)
EXTENDS StalenessCheck

Slot(t) == (t - start) \div Interval

(***************************************************************************)
(* "a long pause doesn't trigger a burst of catch-up writes"               *)
(* (self_monitor.rs:135-138): however the task is held up, it ticks at     *)
(* most once in each interval counted from its start.                      *)
(***************************************************************************)
OneBeatPerSlot ==
  \A i, j \in DOMAIN ticked : i < j => Slot(ticked[i]) < Slot(ticked[j])

(***************************************************************************)
(* No false alarm (self_monitor.rs:37-39): a heartbeat that could be       *)
(* written for longer than an interval is not reported, if the interval   *)
(* is shorter than the threshold.  Neither program checks that it is.      *)
(***************************************************************************)
HealthyNotReported ==
  [][ alerted' # alerted =>
        ~(/\ able.is /\ now - able.since > Interval
          /\ Interval < Threshold) ]_vars

(* The script is neither at work nor about to be started.                  *)
Resting == check = "idle" /\ now < due

(***************************************************************************)
(* "a real crash pages within 5min" (self_monitor.rs:39-40): a daemon that *)
(* has been dead, refused or frozen for a threshold and a period of the    *)
(* timer has been reported since, if the check is configured and not stuck *)
(* in an earlier curl.  It holds of a daemon that stays down: a start      *)
(* resets it, whether or not the daemon gets any further.                  *)
(***************************************************************************)
SilenceReported ==
  /\ CheckConfigured /\ Resting
  /\ ~able.is
  /\ now >= FirstCheck
  /\ now >= able.since + Threshold + CheckPeriod
  => alerted # None /\ alerted >= able.since

(***************************************************************************)
(* A daemon that refuses its configuration is reported: systemd starts it  *)
(* again and again, and none of these starts may freshen the heartbeat     *)
(* (main.rs:46-105 before 111-116).                                        *)
(***************************************************************************)
RefusalReported ==
  /\ CheckConfigured /\ Resting
  /\ Refuses(env)
  /\ now >= FirstCheck
  /\ now >= Threshold + CheckPeriod
  => alerted # None
=============================================================================
