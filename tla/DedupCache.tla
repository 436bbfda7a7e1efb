----------------------------- MODULE DedupCache -----------------------------
(***************************************************************************)
(* DedupCache of src/src/alert/rate_limit.rs driven by an arbitrary        *)
(* caller, with the history of what it let through.                        *)
(***************************************************************************)
EXTENDS RateLimit, DedupKeys

VARIABLES
  now,      \* Instant::now()
  seen,     \* the HashMap: key |-> time of its last emission
  emitted,  \* key |-> all times at which it was let through
  verdict   \* the key of the last call and the answer it got

vars == <<now, seen, emitted, verdict>>

TypeOK ==
  /\ now \in Nat
  /\ DOMAIN seen \in SUBSET Keys
  /\ seen \in [DOMAIN seen -> Nat]
  /\ emitted \in [Keys -> SUBSET Nat]
  /\ verdict \in SUBSET (Keys \X BOOLEAN)

Init ==
  /\ now = 0
  /\ seen = [k \in {} |-> 0]
  /\ emitted = [k \in Keys |-> {}]
  /\ verdict = {}

Suppress(k) ==
  /\ Suppresses(seen, k, DedupCooldown, now)
  /\ verdict' = {<<k, FALSE>>}
  /\ UNCHANGED <<now, seen, emitted>>

Emit(k) ==
  /\ ~Suppresses(seen, k, DedupCooldown, now)
  /\ seen' = Remembered(seen, k, DedupCooldown, now)
  /\ emitted' = [emitted EXCEPT ![k] = @ \cup {now}]
  /\ verdict' = {<<k, TRUE>>}
  /\ now' = now

Tick ==
  /\ now' = now + 1
  /\ UNCHANGED <<seen, emitted, verdict>>

Next == (\E k \in Keys : Suppress(k) \/ Emit(k)) \/ Tick

Spec == Init /\ [][Next]_vars

-----------------------------------------------------------------------------
(***************************************************************************)
(* The GC forgets nothing that matters: the cache answers every call as    *)
(* the monitor that keeps every emission does (rate_limit.rs:88-98).       *)
(***************************************************************************)
Monitor == INSTANCE DedupMonitor

ImplementsMonitor == Monitor!Spec

(***************************************************************************)
(* "so the map doesn't grow unbounded across long runs" (rate_limit.rs:92- *)
(* 93): the cached keys were all let through within one cooldown of each   *)
(* other, so there are never more of them than keys let through in it.     *)
(***************************************************************************)
CacheSpansOneCooldown ==
  \A k, l \in DOMAIN seen : seen[k] - seen[l] < DedupCooldown
=============================================================================
