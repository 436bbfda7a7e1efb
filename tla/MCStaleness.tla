---------------------------- MODULE MCStaleness ----------------------------
(***************************************************************************)
(* Heartbeats of 2 to 4 time units beside thresholds of 4 and 5, so that a *)
(* beat or two may be missed; and environments that are refused by the     *)
(* daemon, by the check, or by both.                                       *)
(***************************************************************************)
EXTENDS StalenessPolicy

CONSTANTS MaxTime

MCGood ==
  [units |-> None, ntfy_url |-> "http", ntfy_topic |-> None,
   email_to |-> None, claude_enabled |-> FALSE, claude_rules |-> "blank",
   claude_cap |-> None, claude_projects |-> "none", interval |-> 2]

MCEnvironments ==
  { MCGood, [MCGood EXCEPT !.interval = 1],
    [MCGood EXCEPT !.units = "blank"],
    [MCGood EXCEPT !.claude_enabled = TRUE],
    [MCGood EXCEPT !.ntfy_url = "other", !.interval = 4],
    [MCGood EXCEPT !.ntfy_url = None] }

MCStale ==
  [e \in MCEnvironments |->
     IF e.claude_enabled THEN None
     ELSE IF e.interval = 1 THEN 5 ELSE 4]

Bounded == now' <= MaxTime

MCSpec == Init /\ [][Next /\ Bounded]_vars
=============================================================================
