---------------------------- MODULE AlertMonitor ----------------------------
(***************************************************************************)
(* What the classifier promises (classify.rs:3-8): a slot fires at an      *)
(* event exactly when at least Threshold events of the slot arrived in the *)
(* Window that ends there and no alert of the slot fired during the last   *)
(* Cooldown.  The monitor forgets nothing: it keeps every arrival and      *)
(* every alarm, and has no deque to prune and no last_fired to maintain.   *)
(***************************************************************************)
EXTENDS AlertRules

VARIABLES
  now,       \* the clock
  arrivals,  \* slot |-> times of all matching events, in order of arrival
  alarms,    \* slot |-> times at which the slot fired
  fired      \* the alerts fired by the last event

monitorVars == <<now, arrivals, alarms, fired>>

Init ==
  /\ now = 0
  /\ arrivals = [s \in Slots |-> <<>>]
  /\ alarms = [s \in Slots |-> {}]
  /\ fired = {}

(***************************************************************************)
(* The indices of the times that the window of s ending at t still counts. *)
(***************************************************************************)
InWindow(s, times, t) ==
  { i \in 1..Len(times) : times[i] >= t - Window[s.rule] }

Quiet(s) == \A t \in alarms[s] : now - t >= Cooldown[s.rule]

(***************************************************************************)
(* How many arrivals the window of s holds if one more arrives now, and    *)
(* whether that rings the alarm of s.                                      *)
(***************************************************************************)
Count(s) == Cardinality(InWindow(s, Append(arrivals[s], now), now))

Rings(s) == Count(s) >= Threshold[s.rule] /\ Quiet(s)

Observe(e) ==
  /\ arrivals' = [s \in Slots |-> IF s \in SlotsOf(e)
                                  THEN Append(arrivals[s], now)
                                  ELSE arrivals[s]]
  /\ alarms' = [s \in Slots |-> IF s \in SlotsOf(e) /\ Rings(s)
                                THEN alarms[s] \cup {now} ELSE alarms[s]]
  /\ fired' = { MakeAlert(s, Count(s), e, now)
                  : s \in { x \in SlotsOf(e) : Rings(x) } }
  /\ now' = now

IgnoreUnstructured ==
  /\ fired' = {}
  /\ UNCHANGED <<now, arrivals, alarms>>

Tick ==
  /\ now' = now + 1
  /\ UNCHANGED <<arrivals, alarms, fired>>

Next ==
  \/ \E e \in Events : Observe(e)
  \/ IgnoreUnstructured
  \/ Tick

Spec == Init /\ [][Next]_monitorVars
=============================================================================
