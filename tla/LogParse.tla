------------------------------ MODULE LogParse ------------------------------
(***************************************************************************)
(* parse_line (src/src/parse.rs).  A line is cut at white space: the level *)
(* of its bracket prefix, None if it has no such prefix or is blank, and   *)
(* the tokens behind it.  A token is known by the field it assigns, "word" *)
(* if none, and by its text: the value, "" if the regex would take none.   *)
(***************************************************************************)
EXTENDS AlertRules, FiniteSetsExt, TLC

CONSTANTS
  Fragments,     \* the words that are an "N/M" fragment
  Rejecting,     \* the texts that contain "REJECT"
  Unstructured   \* LogEvent::Unstructured

Token == [field: {"chain", "rid", "step", "word"}, text: STRING]

(* The level of a word that is already in upper case.                      *)
LevelOf(word) ==
  CASE word = "DEBUG" -> "Debug"
    [] word = "INFO" -> "Info"
    [] word \in {"WARN", "WARNING"} -> "Warn"
    [] word \in {"ERROR", "ERR"} -> "Error"
    [] word \in {"FATAL", "CRITICAL", "CRIT"} -> "Fatal"
    [] OTHER -> "Other"

Gives(token, field) == token.field = field /\ token.text # ""

(* Where the field is given a value.                                       *)
Assigns(field, rest) == { i \in DOMAIN rest : Gives(rest[i], field) }

Chain(rest) ==
  LET at == Assigns("chain", rest)
  IN IF at = {} THEN None ELSE rest[Min(at)].text

IsFragment(token) == token.field = "word" /\ token.text \in Fragments

(* The fragments that can end a step that begins at i.                     *)
Ends(i, rest) == { k \in DOMAIN rest : i < k /\ IsFragment(rest[k]) }

(* The text of a run of tokens, of which only its identity matters.        *)
Text(tokens) == ToString(tokens)

(* Mutant of StepSpan: the repetition is greedy.                           *)
StepSpanGreedy(i, rest) == SubSeq(rest, i, Max(Ends(i, rest)))

(* The repetition is lazy: the step ends with the first fragment.          *)
StepSpan(i, rest) == SubSeq(rest, i, Min(Ends(i, rest)))

Step(rest) ==
  LET at == { i \in Assigns("step", rest) : Ends(i, rest) # {} }
  IN IF at = {} THEN None ELSE Text(StepSpan(Min(at), rest))

(* message.contains("REJECT"), the message being the whole rest.           *)
Rejects(rest) == \E i \in DOMAIN rest : rest[i].text \in Rejecting

(* Reduced to what the rules of AlertRules read.                           *)
ParseLine(line) ==
  IF line.level = None THEN Unstructured
  ELSE [level |-> LevelOf(line.level), chain |-> Chain(line.rest),
        step |-> Step(line.rest), reject |-> Rejects(line.rest)]
=============================================================================
