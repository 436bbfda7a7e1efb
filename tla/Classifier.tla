----------------------------- MODULE Classifier -----------------------------
(***************************************************************************)
(* The sliding-window threshold engine of src/src/classify.rs.             *)
(*                                                                         *)
(* Classifier::states is a HashMap from (rule name, key) to a WindowState; *)
(* an absent entry behaves as WindowState::new(), so it is modelled by two *)
(* total functions over Slots.  ingest() is synchronous and takes &mut     *)
(* self: one call is one step, whatever the number of rules it visits.     *)
(* now is the DateTime<Utc> the daemon passes (Utc::now()): a wall clock.  *)
(***************************************************************************)
EXTENDS AlertRules

VARIABLES
  now,         \* wall clock, in clock units
  events,      \* slot |-> timestamps in the slot's VecDeque
  last_fired,  \* slot |-> time of the slot's last alert, or None
  fired        \* the alerts returned by the last call of ingest

vars == <<now, events, last_fired, fired>>

TypeOK ==
  /\ now \in Nat
  /\ events \in [Slots -> Seq(Nat)]
  /\ last_fired \in [Slots -> Nat \cup {None}]
  /\ fired \in SUBSET Alert

Init ==
  /\ now = 0
  /\ events = [s \in Slots |-> <<>>]
  /\ last_fired = [s \in Slots |-> None]
  /\ fired = {}

-----------------------------------------------------------------------------
(* Mutant of Expired: the loop compares with <= and pops the boundary.     *)
ExpiredOffByOne(evs, cutoff) ==
  { i \in 1..Len(evs) : \A j \in 1..i : evs[j] <= cutoff }

(***************************************************************************)
(* The indices the front-popping loop removes: it stops at the first       *)
(* timestamp that is not older than the cutoff.                            *)
(***************************************************************************)
Expired(evs, cutoff) ==
  { i \in 1..Len(evs) : \A j \in 1..i : evs[j] < cutoff }

DropExpired(evs, cutoff) ==
  SubSeq(evs, Cardinality(Expired(evs, cutoff)) + 1, Len(evs))

(* Mutant of Pushed: the cutoff is pushed instead of now.                  *)
PushedCutoff(s) ==
  Append(DropExpired(events[s], now - Window[s.rule]), now - Window[s.rule])

(***************************************************************************)
(* The slot's deque once the event is in: expired entries popped, now      *)
(* pushed at the back.                                                     *)
(***************************************************************************)
Pushed(s) == Append(DropExpired(events[s], now - Window[s.rule]), now)

(* Mutants of InCooldown: the boundary is inclusive; the distance to the   *)
(* last alarm is taken whatever its sign, so a clock set back ends it.     *)
InCooldownInclusive(s) ==
  last_fired[s] # None /\ now - last_fired[s] <= Cooldown[s.rule]

InCooldownAbs(s) ==
  /\ last_fired[s] # None
  /\ now - last_fired[s] < Cooldown[s.rule]
  /\ last_fired[s] - now < Cooldown[s.rule]

InCooldown(s) ==
  last_fired[s] # None /\ now - last_fired[s] < Cooldown[s.rule]

Fires(s) == Len(Pushed(s)) >= Threshold[s.rule] /\ ~InCooldown(s)

(* Mutant of Ingest: every event at the threshold restarts the cooldown,   *)
(* fired or not.                                                           *)
IngestRestartingCooldown(e) ==
  LET hit == SlotsOf(e)
      atThreshold == { s \in hit : Len(Pushed(s)) >= Threshold[s.rule] }
  IN /\ events' = [s \in Slots |-> IF s \in hit THEN Pushed(s) ELSE events[s]]
     /\ last_fired' =
          [s \in Slots |-> IF s \in atThreshold THEN now ELSE last_fired[s]]
     /\ fired' = { MakeAlert(s, Len(Pushed(s)), e, now)
                     : s \in { x \in atThreshold : Fires(x) } }
     /\ now' = now

(***************************************************************************)
(* ingest() of a structured event: every matching rule prunes and extends  *)
(* its window, and fires when the threshold is met outside the cooldown.   *)
(***************************************************************************)
Ingest(e) ==
  LET hit == SlotsOf(e)
      firing == { s \in hit : Fires(s) }
  IN /\ events' = [s \in Slots |-> IF s \in hit THEN Pushed(s) ELSE events[s]]
     /\ last_fired' =
          [s \in Slots |-> IF s \in firing THEN now ELSE last_fired[s]]
     /\ fired' = { MakeAlert(s, Len(Pushed(s)), e, now) : s \in firing }
     /\ now' = now

(***************************************************************************)
(* ingest() of LogEvent::Unstructured returns before it looks at a rule.   *)
(***************************************************************************)
IngestUnstructured ==
  /\ fired' = {}
  /\ UNCHANGED <<now, events, last_fired>>

-----------------------------------------------------------------------------
(***************************************************************************)
(* The environment: the wall clock moves on between two calls, and, under  *)
(* NextStepped, may be set back (NTP correction, operator, VM resume).     *)
(***************************************************************************)
Tick ==
  /\ now' = now + 1
  /\ UNCHANGED <<events, last_fired, fired>>

SetClockBack ==
  /\ \E t \in 0..(now - 1) : now' = t
  /\ UNCHANGED <<events, last_fired, fired>>

Next ==
  \/ \E e \in Events : Ingest(e)
  \/ IngestUnstructured
  \/ Tick

NextStepped == Next \/ SetClockBack

Spec == Init /\ [][Next]_vars
=============================================================================
