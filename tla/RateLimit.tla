----------------------------- MODULE RateLimit -----------------------------
(***************************************************************************)
(* The two guards of the outbound sinks (src/src/alert/rate_limit.rs) as   *)
(* operators on values: a token bucket and a per-key dedup cache.  Both    *)
(* are driven by Instant, a clock that does not go back.                   *)
(*                                                                         *)
(* The code keeps the token count in an f64.  Here it is an integer, in    *)
(* units of 1/interval token: a full bucket holds cap * interval units, a  *)
(* token is interval units, and one time unit earns cap units.  The        *)
(* arithmetic is exact; the rounding of the f64 is abstracted.  interval   *)
(* is positive, as it is at both call sites (60 s, 24 h).                  *)
(***************************************************************************)
EXTENDS Integers

(* Instant::saturating_duration_since *)
Elapsed(t, since) == IF t > since THEN t - since ELSE 0

-----------------------------------------------------------------------------
FullBucket(cap, interval, t) == [tokens |-> cap * interval, last_refill |-> t]

(* Mutant of Refilled: only whole tokens are credited, the fraction earned *)
(* so far being thrown away.                                               *)
RefilledWholeTokens(b, cap, interval, t) ==
  LET added == ((Elapsed(t, b.last_refill) * cap) \div interval) * interval
      sum == b.tokens + added
  IN [tokens |-> IF sum < cap * interval THEN sum ELSE cap * interval,
      last_refill |-> t]

(***************************************************************************)
(* try_take_at, first half: credit what was earned since last_refill, up   *)
(* to a full bucket.  Nothing earned leaves last_refill alone.             *)
(***************************************************************************)
Refilled(b, cap, interval, t) ==
  LET added == Elapsed(t, b.last_refill) * cap
      sum == b.tokens + added
  IN IF added > 0
     THEN [tokens |-> IF sum < cap * interval THEN sum ELSE cap * interval,
           last_refill |-> t]
     ELSE b

(* Mutant of HasToken: any fraction of a token will do.                    *)
HasFraction(b, interval) == b.tokens > 0

HasToken(b, interval) == b.tokens >= interval

Spent(b, interval) == [b EXCEPT !.tokens = @ - interval]

-----------------------------------------------------------------------------
(***************************************************************************)
(* DedupCache: seen maps a key to the time of its last emission.           *)
(***************************************************************************)
Suppresses(seen, key, cooldown, t) ==
  key \in DOMAIN seen /\ Elapsed(t, seen[key]) < cooldown

(* Mutants of Remembered: the GC never runs; it keeps the expired entries  *)
(* and drops the live ones.                                                *)
RememberedForever(seen, key, cooldown, t) ==
  [k \in DOMAIN seen \cup {key} |-> IF k = key THEN t ELSE seen[k]]

RememberedSwapped(seen, key, cooldown, t) ==
  LET all == [k \in DOMAIN seen \cup {key} |-> IF k = key THEN t ELSE seen[k]]
  IN [k \in { x \in DOMAIN all : Elapsed(t, all[x]) >= cooldown } |-> all[k]]

(***************************************************************************)
(* should_emit_at when it emits: the key is stamped, then every entry past *)
(* the cooldown is dropped (all of them, the new one too, if the cooldown  *)
(* is zero).                                                               *)
(***************************************************************************)
Remembered(seen, key, cooldown, t) ==
  LET all == [k \in DOMAIN seen \cup {key} |-> IF k = key THEN t ELSE seen[k]]
  IN [k \in { x \in DOMAIN all : Elapsed(t, all[x]) < cooldown } |-> all[k]]
=============================================================================
