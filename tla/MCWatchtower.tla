---------------------------- MODULE MCWatchtower ----------------------------
(***************************************************************************)
(* A small daemon with three sinks: all but e-mail are configured.  The    *)
(* channel and the pipe hold one entry each.  An error raises the baseline *)
(* alert and the burst alert at once, and the burst alert again one time   *)
(* unit later, so that one or two alerts come of it.                       *)
(* "long" is an error whose 240th byte lies inside a character, where the  *)
(* body for ntfy cannot be cut.                                            *)
(***************************************************************************)
EXTENDS WatchtowerPolicy

CONSTANTS MaxTime, MaxEntries

MCError == [level |-> "Error", chain |-> "reg", step |-> None, reject |-> FALSE]

MCEvents == { MCError }

MCRuleOrder ==
  <<"fatal_any", "error_burst_per_chain", "error_baseline_per_chain",
    "reject_cluster_per_step", "warn_baseline_global">>

MCOnce == [r \in Range(MCRuleOrder) |-> 1]

MCWindow ==
  [r \in Range(MCRuleOrder) |-> IF r = "error_burst_per_chain" THEN 1 ELSE 3]

MCParseLine == [m \in {"error", "long"} |-> MCError]

MCEntries ==
  { [deserializes |-> TRUE, message |-> m, unit |-> "u"] :
      m \in {"error", "long"} }

MCEnv ==
  [units |-> None, ntfy_url |-> "http", ntfy_topic |-> None,
   email_to |-> None, claude_enabled |-> TRUE, claude_rules |-> "named",
   claude_cap |-> None, claude_projects |-> "named", interval |-> None]

MCMayFail == {"logger", "ntfy", "auto_claude"}

MCMayPanic == { <<"ntfy", "long">> }

MCInit == J!StartAt(<<>>, 0) /\ C!Init /\ FreshMain

Bounded == now' <= MaxTime /\ Len(journal') <= MaxEntries

MCSpec == MCInit /\ [][Next /\ Bounded]_vars

MCLiveSpec == MCSpec /\ Fairness

(***************************************************************************)
(* EntryIsHandled for every entry of the instance: what was printed is     *)
(* classified and its alerts reach every sink (main.rs:130-146).           *)
(***************************************************************************)
MCEntryIsHandled == EntryIsHandled(MaxEntries)
=============================================================================
