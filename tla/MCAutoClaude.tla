---------------------------- MODULE MCAutoClaude ----------------------------
(***************************************************************************)
(* A small auto-claude sink, with two sets of alerts.  MCColliding: two    *)
(* keys that differ in one character that is not alphanumeric.  MCMixed:   *)
(* two alerts that pass the preflight under slugs of their own, one that   *)
(* has no chain, one of a chain without a project, and one of a rule that  *)
(* is not whitelisted.  There is one incident more than permits.           *)
(***************************************************************************)
EXTENDS AutoClaudePolicy

CONSTANTS
  MaxSecond,     \* bound on the clock
  MaxIncidents   \* bound on the incidents of all boots

Reject(k) == [rule |-> "reject_cluster_per_step", key |-> k, chain |-> "Reg"]

MCColliding == { Reject("reg::a-1"), Reject("reg::a_1") }

MCMixed ==
  { Reject("reg::a-1"), Reject("reg::b"),
    [rule |-> "reject_cluster_per_step", key |-> "any::a_1", chain |-> None],
    [rule |-> "error_burst_per_chain", key |-> "mdl", chain |-> "mdl"],
    [rule |-> "error_baseline_per_chain", key |-> "Reg", chain |-> "Reg"] }

MCAllowedRules == {"reject_cluster_per_step", "error_burst_per_chain"}

MCLowerCase == [c \in {"Reg", "mdl"} |-> IF c = "Reg" THEN "reg" ELSE c]

MCProjects == [c \in {"reg"} |-> "/srv/reg"]

MCSafeKey == [k \in { a.key : a \in MCColliding \cup MCMixed } |->
  CASE k \in {"reg::a-1", "reg::a_1"} -> "reg__a_1"
    [] k = "reg::b" -> "reg__b"
    [] k = "any::a_1" -> "any__a_1"
    [] OTHER -> k]

Bounded == second' <= MaxSecond /\ Len(incidents') <= MaxIncidents

MCSpec == Init /\ [][Next /\ Bounded]_vars

MCLiveSpec == MCSpec /\ \A i \in 1..MaxIncidents : TaskFairness(i)

(***************************************************************************)
(* PermitComesBack for every incident of the instance: claude gone and its *)
(* pipes closed, the task returns the permit (auto_claude.rs:401-407).     *)
(***************************************************************************)
MCPermitComesBack == PermitComesBack(MaxIncidents)
=============================================================================
