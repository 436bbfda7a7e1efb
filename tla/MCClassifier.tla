---------------------------- MODULE MCClassifier ----------------------------
(***************************************************************************)
(* Small instance of the classifier with its history variables.            *)
(* The scaled durations keep the order the code's have: fatal_any has a    *)
(* window longer than its cooldown, the two cluster rules a window shorter *)
(* than it, the two baselines a window equal to it.                        *)
(***************************************************************************)
EXTENDS ClassifierHistory

CONSTANTS
  MaxTime,      \* bound on the clock
  MaxArrivals   \* bound on the number of events ingested

MCWindow == [r \in Rules |->
  CASE r = "fatal_any" -> 3
    [] r \in {"error_burst_per_chain", "reject_cluster_per_step"} -> 1
    [] OTHER -> 2]

MCThreshold == [r \in Rules |->
  IF r \in {"fatal_any", "error_baseline_per_chain"} THEN 1
  ELSE 2]

MCCooldown == [r \in Rules |-> 2]

(***************************************************************************)
(* The inputs: one event per rule and, for the rules that key by chain or  *)
(* step, one that lacks it.  A Warn line with REJECT counts in two rules,  *)
(* an Error line in two rules.                                             *)
(***************************************************************************)
Line(l, c, st, rej) == [level |-> l, chain |-> c, step |-> st, reject |-> rej]

MCEvents ==
  { Line("Fatal", "reg", None, FALSE), Line("Error", "reg", None, FALSE),
    Line("Error", None, None, FALSE), Line("Warn", "reg", "s1", TRUE),
    Line("Info", None, None, TRUE) }

(***************************************************************************)
(* Bounds: the clock, and the arrivals counted over all slots (an event    *)
(* counts once for every rule it matches).                                 *)
(***************************************************************************)
ArrivalCount ==
  Cardinality(UNION { { <<s, i>> : i \in DOMAIN arrivals[s] } : s \in Slots })

Bounded == now' <= MaxTime /\ ArrivalCount' <= MaxArrivals

MCSpec == HInit /\ [][HNext /\ Bounded]_historyVars
=============================================================================
