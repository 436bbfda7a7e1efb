------------------------------- MODULE MCNtfy -------------------------------
(***************************************************************************)
(* A sink whose bucket is drained, refilled in part and in full, and idle  *)
(* past a full Interval, within MaxTakes calls over MaxTime time units.    *)
(***************************************************************************)
EXTENDS NtfySink

CONSTANTS MaxTime, MaxTakes

Bounded ==
  /\ now' <= MaxTime
  /\ Len(granted') + Cardinality(refused') <= MaxTakes

MCSpec == NtfyInit /\ [][NtfyNext /\ Bounded]_ntfyVars
=============================================================================
