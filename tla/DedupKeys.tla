----------------------------- MODULE DedupKeys -----------------------------
(***************************************************************************)
(* The parameters of the dedup cache (src/src/alert/rate_limit.rs), shared *)
(* by the cache, its abstract monitor and the e-mail sink that has one.    *)
(***************************************************************************)
EXTENDS Integers

CONSTANTS
  Keys,          \* the "rule::key" strings callers ask about
  DedupCooldown  \* 6 h in the email sink

ASSUME DedupAssumption == DedupCooldown \in Nat
=============================================================================
