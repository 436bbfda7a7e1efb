------------------------------ MODULE StartUp ------------------------------
(***************************************************************************)
(* What main (src/src/main.rs) makes of the environment before it follows  *)
(* the journal: it refuses to start, or it has a list of sinks and an      *)
(* interval for its heartbeat.  A variable of the environment is reduced   *)
(* to the cases the code tells apart.  "blank" is nothing but white space  *)
(* or, in a list, separators; the empty string is blank.                   *)
(***************************************************************************)
EXTENDS Integers, Sequences

CONSTANTS
  None,  \* a variable that is unset
  MinInterval, MaxInterval, DefaultInterval  \* 10 s, 600 s, 60 s

ASSUME IntervalAssumption ==
  /\ MinInterval \in Nat \ {0} /\ MaxInterval \in Nat /\ None \notin Nat
  /\ DefaultInterval \in MinInterval..MaxInterval

Environment ==
  [units: {None, "blank", "named"},          \* WATCHTOWER_UNITS
   ntfy_url: {None, "empty", "http", "other"},
   ntfy_topic: {None, "empty", "named"},
   email_to: {None, "blank", "named"},
   claude_enabled: BOOLEAN,                  \* one of "1", "true", "yes", "on"
   claude_rules: {"blank", "named"},
   claude_cap: {None, "zero", "positive"},   \* None also if it does not parse
   claude_projects: {"none", "unnamed", "named"},
   interval: Nat \cup {None}]                \* None also if it does not parse

(***************************************************************************)
(* The from_env of each sink: "on", "off" (Ok(None)) or "refused" (Err).   *)
(* An empty topic turns ntfy off before the URL is looked at.              *)
(***************************************************************************)
Ntfy(env) ==
  IF env.ntfy_url = None \/ env.ntfy_topic = "empty" THEN "off"
  ELSE IF env.ntfy_url = "http" THEN "on" ELSE "refused"

Email(env) == IF env.email_to = "named" THEN "on" ELSE "off"

AutoClaudeCoherent(env) ==
  /\ env.claude_rules = "named"
  /\ env.claude_cap # "zero"
  /\ env.claude_projects = "named"

AutoClaude(env) ==
  IF ~env.claude_enabled THEN "off"
  ELSE IF AutoClaudeCoherent(env) THEN "on" ELSE "refused"

(* Unset units are the built-in list of services.                          *)
Refuses(env) ==
  \/ env.units = "blank"
  \/ Ntfy(env) = "refused"
  \/ AutoClaude(env) = "refused"

(* The Vec main hands to MultiSink; the logger is always in it, so the     *)
(* check for an empty list never decides.                                  *)
SinkList(env) ==
  LET IfOn(outcome, name) == IF outcome = "on" THEN <<name>> ELSE <<>>
  IN <<"logger">> \o IfOn(Ntfy(env), "ntfy") \o IfOn(Email(env), "email")
       \o IfOn(AutoClaude(env), "auto_claude")

(* HeartbeatConfig::from_env: what is out of range is replaced, not        *)
(* clamped.                                                                *)
HeartbeatInterval(env) ==
  IF env.interval # None /\ env.interval \in MinInterval..MaxInterval
  THEN env.interval ELSE DefaultInterval
=============================================================================
