---------------------------- MODULE TokenBucket ----------------------------
(***************************************************************************)
(* TokenBucket of src/src/alert/rate_limit.rs driven by an arbitrary       *)
(* caller, with the history of what it granted and refused.  The sink's    *)
(* Mutex makes try_take one atomic step.                                   *)
(***************************************************************************)
EXTENDS RateLimit, Sequences, FiniteSets

CONSTANTS
  Capacity,  \* tokens in a full bucket: 4 for email, 10 by default for ntfy
  Interval   \* time units in which an empty bucket fills

ASSUME BucketAssumption == Capacity \in Nat /\ Interval \in Nat \ {0}

VARIABLES
  now,      \* Instant::now()
  bucket,   \* the struct: tokens (in units of 1/Interval) and last_refill
  granted,  \* times at which try_take returned true, in order
  refused   \* times at which it returned false

vars == <<now, bucket, granted, refused>>

TypeOK ==
  /\ now \in Nat
  /\ bucket \in [tokens: 0..(Capacity * Interval), last_refill: Nat]
  /\ granted \in Seq(Nat)
  /\ refused \in SUBSET Nat

Init ==
  /\ now = 0
  /\ bucket = FullBucket(Capacity, Interval, now)
  /\ granted = <<>>
  /\ refused = {}

Refill == Refilled(bucket, Capacity, Interval, now)

Grant ==
  /\ HasToken(Refill, Interval)
  /\ bucket' = Spent(Refill, Interval)
  /\ granted' = Append(granted, now)
  /\ UNCHANGED <<now, refused>>

Refuse ==
  /\ ~HasToken(Refill, Interval)
  /\ bucket' = Refill
  /\ refused' = refused \cup {now}
  /\ UNCHANGED <<now, granted>>

Tick ==
  /\ now' = now + 1
  /\ UNCHANGED <<bucket, granted, refused>>

Next == Grant \/ Refuse \/ Tick

Spec == Init /\ [][Next]_vars

-----------------------------------------------------------------------------
(***************************************************************************)
(* What the bucket really caps: between any two grants, the number granted *)
(* is at most a full bucket plus what the time between them earns.  Over a *)
(* window of one Interval that is up to twice the capacity, not capacity.  *)
(***************************************************************************)
RateBound ==
  \A i, j \in 1..Len(granted) : i <= j =>
    (j - i + 1) * Interval
      <= Capacity * Interval + Capacity * (granted[j] - granted[i])

(***************************************************************************)
(* The bucket never throttles a caller that keeps its rate: a refusal      *)
(* means Capacity tokens were taken within the last Interval.              *)
(***************************************************************************)
RefusalJustified ==
  \A t \in refused :
    Cardinality({ i \in 1..Len(granted) :
                    granted[i] <= t /\ granted[i] > t - Interval }) >= Capacity
=============================================================================
