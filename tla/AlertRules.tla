----------------------------- MODULE AlertRules -----------------------------
(***************************************************************************)
(* The rule table of the classifier (src/src/classify.rs, builtin_rules):  *)
(* which structured events a rule matches, under which key it counts them, *)
(* and the window, threshold and cooldown it applies.  Durations and       *)
(* thresholds are constants: the code's values are                         *)
(*                                                                         *)
(*   rule                       window   threshold   cooldown   severity   *)
(*   fatal_any                  86400s           1       300s   Page       *)
(*   error_burst_per_chain         60s           5       300s   Page       *)
(*   error_baseline_per_chain     600s           1       600s   Warn       *)
(*   reject_cluster_per_step       60s          10       300s   Warn       *)
(*   warn_baseline_global         600s          50       600s   Info       *)
(***************************************************************************)
EXTENDS Integers, Sequences, FiniteSets

CONSTANTS
  Chains,     \* chain names a structured line may carry
  Steps,      \* step strings a structured line may carry
  None,       \* Rust's None
  Events,     \* the structured events the tailed services emit
  Window,     \* rule |-> window, in clock units
  Threshold,  \* rule |-> number of events that fires the rule
  Cooldown    \* rule |-> silence after firing, in clock units

Rules == {"fatal_any", "error_burst_per_chain", "error_baseline_per_chain",
          "reject_cluster_per_step", "warn_baseline_global"}

Level == {"Debug", "Info", "Warn", "Error", "Fatal", "Other"}

Severity == [r \in Rules |->
  IF r \in {"fatal_any", "error_burst_per_chain"} THEN "Page"
  ELSE IF r = "warn_baseline_global" THEN "Info" ELSE "Warn"]

(***************************************************************************)
(* A structured event, reduced to what the rules read.  reject stands for  *)
(* message.contains("REJECT"); rid, source and raw are read by no rule.    *)
(***************************************************************************)
StructuredEvent ==
  [level: Level, chain: Chains \cup {None}, step: Steps \cup {None},
   reject: BOOLEAN]

ASSUME RulesAssumption ==
  /\ Window \in [Rules -> Nat]
  /\ Threshold \in [Rules -> Nat \ {0}]
  /\ Cooldown \in [Rules -> Nat \ {0}]
  /\ None \notin Nat
  /\ Events \subseteq StructuredEvent

UnwrapOr(opt, default) == IF opt = None THEN default ELSE opt

MatchingRules(e) ==
  { r \in Rules :
      \/ r = "fatal_any" /\ e.level = "Fatal"
      \/ r \in {"error_burst_per_chain", "error_baseline_per_chain"}
           /\ e.level = "Error"
      \/ r = "reject_cluster_per_step" /\ e.reject
      \/ r = "warn_baseline_global" /\ e.level = "Warn" }

(***************************************************************************)
(* The key a matching rule extracts: a chain part and a step part.  Only   *)
(* the reject rule fills the step part (the code formats "chain::step").   *)
(* A missing chain counts under "any" there and under "unspecified" in the *)
(* error rules.                                                            *)
(***************************************************************************)
KeyOf(r, e) ==
  CASE r = "fatal_any" -> <<"any", "">>
    [] r \in {"error_burst_per_chain", "error_baseline_per_chain"} ->
         <<UnwrapOr(e.chain, "unspecified"), "">>
    [] r = "reject_cluster_per_step" ->
         <<UnwrapOr(e.chain, "any"), UnwrapOr(e.step, "unspecified")>>
    [] r = "warn_baseline_global" -> <<"global", "">>

(***************************************************************************)
(* A slot is a key of Classifier::states: a rule and one of its keys.      *)
(***************************************************************************)
SlotsOf(e) == { [rule |-> r, key |-> KeyOf(r, e)] : r \in MatchingRules(e) }

Slots == UNION { SlotsOf(e) : e \in Events }

(***************************************************************************)
(* The alert a slot fires.  sample_event is always the event just          *)
(* ingested, since the code reads events.back() after pushing it; the sink *)
(* modules read only its chain.  window_secs is Window[rule].              *)
(***************************************************************************)
MakeAlert(s, n, e, t) ==
  [severity |-> Severity[s.rule], rule |-> s.rule, key |-> s.key,
   count |-> n, sample_chain |-> e.chain, fired_at |-> t]

Alert ==
  [severity: {"Info", "Warn", "Page"}, rule: Rules,
   key: {s.key : s \in Slots}, count: Nat, sample_chain: Chains \cup {None},
   fired_at: Int]
=============================================================================
