---------------------------- MODULE DedupMonitor ----------------------------
(***************************************************************************)
(* What DedupCache promises (rate_limit.rs:66-68): a key is let through    *)
(* exactly when it was not let through during the last DedupCooldown.  The *)
(* monitor keeps every emission: it has nothing to collect.                *)
(***************************************************************************)
EXTENDS DedupKeys

VARIABLES
  now,      \* the clock
  emitted,  \* key |-> times at which it was let through
  verdict   \* the key of the last call and the answer it got

monitorVars == <<now, emitted, verdict>>

Init ==
  /\ now = 0
  /\ emitted = [k \in Keys |-> {}]
  /\ verdict = {}

Recent(k) == \E t \in emitted[k] : now - t < DedupCooldown

Ask(k) ==
  /\ verdict' = {<<k, ~Recent(k)>>}
  /\ emitted' = IF Recent(k) THEN emitted
                ELSE [emitted EXCEPT ![k] = @ \cup {now}]
  /\ now' = now

Tick ==
  /\ now' = now + 1
  /\ UNCHANGED <<emitted, verdict>>

Next == (\E k \in Keys : Ask(k)) \/ Tick

Spec == Init /\ [][Next]_monitorVars
=============================================================================
