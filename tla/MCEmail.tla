------------------------------ MODULE MCEmail ------------------------------
(***************************************************************************)
(* A small email sink.  The durations keep the proportions of the code:    *)
(* the dedup cooldown is the time in which the bucket earns one token      *)
(* (6 h = 24 h / 4), and there are more keys than tokens.                  *)
(***************************************************************************)
EXTENDS EmailPolicy, TLC

CONSTANTS MaxTime, MaxDecisions

Bounded == now' <= MaxTime /\ Len(decisions') <= MaxDecisions

MCSpec == Init /\ [][Next /\ Bounded]_vars

KeySymmetry == Permutations(Keys)
=============================================================================
