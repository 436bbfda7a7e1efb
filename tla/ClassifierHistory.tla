-------------------------- MODULE ClassifierHistory --------------------------
(***************************************************************************)
(* The classifier with two history variables: every arrival and every      *)
(* alarm of a slot since the daemon started.  They influence nothing; the  *)
(* properties below and the refinement of AlertMonitor are stated with     *)
(* them.                                                                   *)
(***************************************************************************)
EXTENDS Classifier

VARIABLES
  arrivals,  \* slot |-> times of all events the slot matched, in order
  alarms     \* slot |-> times at which the slot fired

historyVars == <<now, events, last_fired, fired, arrivals, alarms>>

HTypeOK ==
  /\ TypeOK
  /\ arrivals \in [Slots -> Seq(Nat)]
  /\ alarms \in [Slots -> SUBSET Nat]

HInit ==
  /\ Init
  /\ arrivals = [s \in Slots |-> <<>>]
  /\ alarms = [s \in Slots |-> {}]

HIngest(e) ==
  /\ Ingest(e)
  /\ arrivals' = [s \in Slots |-> IF s \in SlotsOf(e)
                                  THEN Append(arrivals[s], now)
                                  ELSE arrivals[s]]
  /\ alarms' = [s \in Slots |-> IF s \in SlotsOf(e) /\ Fires(s)
                                THEN alarms[s] \cup {now} ELSE alarms[s]]

HOther(A) == A /\ UNCHANGED <<arrivals, alarms>>

HNext ==
  \/ \E e \in Events : HIngest(e)
  \/ HOther(IngestUnstructured)
  \/ HOther(Tick)

HNextStepped == HNext \/ HOther(SetClockBack)

HSpec == HInit /\ [][HNext]_historyVars

HSpecStepped == HInit /\ [][HNextStepped]_historyVars

-----------------------------------------------------------------------------
Monitor == INSTANCE AlertMonitor

(***************************************************************************)
(* d is the suffix of the arrivals a that the window of slot s ending at   *)
(* the latest of them covers.                                              *)
(***************************************************************************)
IsWindow(s, d, a) ==
  LET n == Len(a)
      k == Len(d)
  IN /\ k \in 1..n
     /\ \A i \in 1..k : d[i] = a[n - k + i]
     /\ \A i \in 1..n : (a[i] >= a[n] - Window[s.rule]) <=> (i > n - k)

(***************************************************************************)
(* Pruning is exact: a slot's deque is the suffix of its arrivals that the *)
(* window ending at its latest arrival still covers (classify.rs:188-198). *)
(* An arrival dropped early would silence a burst; one kept too long would *)
(* invent one.                                                             *)
(***************************************************************************)
DequeIsWindow ==
  \A s \in Slots : arrivals[s] # <<>> => IsWindow(s, events[s], arrivals[s])

(***************************************************************************)
(* No burst passes in silence: if the window ending at a slot's latest     *)
(* arrival holds Threshold arrivals, the slot fired at that arrival or     *)
(* less than Cooldown before it (classify.rs:200-217).                     *)
(***************************************************************************)
NoSilentBurst ==
  \A s \in Slots :
    LET a == arrivals[s]
        latest == a[Len(a)]
    IN /\ a # <<>>
       /\ Cardinality(Monitor!InWindow(s, a, latest)) >= Threshold[s.rule]
       => \E t \in alarms[s] : t <= latest /\ latest - t < Cooldown[s.rule]

(***************************************************************************)
(* A sustained burst does not storm the pager: two alarms of one slot are  *)
(* never closer than the cooldown, even when the wall clock is set back    *)
(* between them (classify.rs:202-204).                                     *)
(***************************************************************************)
AlarmsSpaced ==
  \A s \in Slots : \A t, u \in alarms[s] :
    t < u => u - t >= Cooldown[s.rule]

(***************************************************************************)
(* The classifier implements the monitor that forgets nothing: with the    *)
(* same arrivals it fires the same alerts, with the same counts.           *)
(***************************************************************************)
ImplementsMonitor == Monitor!Spec
=============================================================================
