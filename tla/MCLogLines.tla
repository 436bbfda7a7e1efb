----------------------------- MODULE MCLogLines -----------------------------
(***************************************************************************)
(* Records that differ where the parser may go wrong: complete ones whose  *)
(* message mentions another chain, another step and more fragments, one    *)
(* with the N/M of its step in front, ones that lack a field or all of     *)
(* them, a level by its alias, raw output.                                 *)
(***************************************************************************)
EXTENDS LogLines

CONSTANTS MaxTime, MaxLines

Word(t) == [field |-> "word", text |-> t]

MCStep == << [field |-> "step", text |-> "POST"], Word("/api/register"),
             Word("5/8") >>

MCStepNumberFirst == << [field |-> "step", text |-> "5/8"], Word("POST") >>

MCLoud == << Word("REJECT"), [field |-> "chain", text |-> "other"],
             [field |-> "step", text |-> "GET"], Word("3/4") >>

MCRecord(l, c, st, msg) ==
  [level |-> l, chain |-> c, rid |-> "r1", step |-> st, message |-> msg]

MCRecords ==
  { MCRecord("WARNING", "reg", MCStep, MCLoud),
    MCRecord("ERR", "reg", None, <<Word("3/4")>>),
    MCRecord("INFO", "reg", None, MCLoud),
    MCRecord("INFO", None, MCStep, <<Word("REJECTED")>>),
    MCRecord("INFO", "reg", MCStepNumberFirst, <<Word("REJECT")>>),
    MCRecord("CRIT", None, None, <<>>),
    MCRecord(None, None, None, <<Word("panic")>>) }

MCEvents ==
  { ParseLine(WrittenLine(w)) : w \in MCRecords } \ {Unstructured}

MCSteps == { e.step : e \in MCEvents } \ {None}

MCWindow == [r \in Rules |-> IF r = "fatal_any" THEN 3 ELSE 1]

MCThreshold == [r \in Rules |-> IF r = "reject_cluster_per_step" THEN 2 ELSE 1]

MCCooldown == [r \in Rules |-> 2]

Bounded == now' <= MaxTime /\ heard' <= MaxLines

MCSpec == LInit /\ [][LNext /\ Bounded]_lineVars
=============================================================================
