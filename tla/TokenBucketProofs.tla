------------------------- MODULE TokenBucketProofs -------------------------
(***************************************************************************)
(* Proofs about the token bucket for every capacity and interval, and      *)
(* about the ntfy sink, which calls it and starts again with a full one.   *)
(*                                                                         *)
(* RateBound relates two grants and says nothing of the tokens left, so it *)
(* is not inductive.  Credit is: counted from any past grant, what was     *)
(* granted since plus what is left is at most a full bucket plus what was  *)
(* earned since.  Debit, at the end, is the same account from the other    *)
(* side; it shows that a refusal was earned.                               *)
(***************************************************************************)
EXTENDS NtfySink, FiniteSetTheorems, TLAPS

Credit ==
  /\ bucket.last_refill <= now
  /\ \A i \in 1..Len(granted) :
       /\ granted[i] <= bucket.last_refill
       /\ (Len(granted) - i + 1) * Interval + bucket.tokens
            <= Capacity * Interval
               + Capacity * (bucket.last_refill - granted[i])

BucketInv == TypeOK /\ Credit /\ RateBound

-----------------------------------------------------------------------------
(***************************************************************************)
(* What try_take_at leaves in the bucket before it takes a token.          *)
(***************************************************************************)
LEMMA RefillFacts ==
  ASSUME TypeOK, bucket.last_refill <= now
  PROVE  /\ Refill \in [tokens: 0..(Capacity * Interval), last_refill: Nat]
         /\ Refill.last_refill >= bucket.last_refill
         /\ Refill.last_refill <= now
         /\ Capacity > 0 => Refill.last_refill = now
         /\ Refill.tokens <= bucket.tokens
              + Capacity * (Refill.last_refill - bucket.last_refill)
<1> DEFINE C == Capacity
           I == Interval
           T == bucket.tokens
           L == bucket.last_refill
           added == Elapsed(now, L) * C
<1>1. /\ C \in Nat /\ I \in Nat /\ C * I \in Nat /\ now \in Nat
      /\ T \in 0..(C * I) /\ L \in Nat /\ L <= now /\ now - L \in Nat
  BY BucketAssumption DEF TypeOK
<1>2. Elapsed(now, L) = now - L
  BY <1>1 DEF Elapsed
<1>3. added = C * (now - L) /\ added \in Nat
  BY <1>1, <1>2
<1>4. CASE added > 0
  <2>1. Refill = [tokens |-> IF T + added < C * I THEN T + added ELSE C * I,
                  last_refill |-> now]
    BY <1>4 DEF Refill, Refilled
  <2>2. /\ Refill.last_refill = now
        /\ Refill.tokens = IF T + added < C * I THEN T + added ELSE C * I
    BY <2>1
  <2>3. Refill.tokens \in 0..(C * I) /\ Refill.tokens <= T + added
    BY <1>1, <1>3, <2>2
  <2>4. Refill \in [tokens: 0..(C * I), last_refill: Nat]
    BY <1>1, <2>1, <2>2, <2>3
  <2> QED
    BY <1>1, <1>3, <2>2, <2>3, <2>4
<1>5. CASE ~(added > 0)
  <2>1. Refill = bucket
    BY <1>5 DEF Refill, Refilled
  <2>2. C > 0 => L = now
    <3> SUFFICES ASSUME C > 0, L # now PROVE FALSE
      OBVIOUS
    <3>1. now - L \in Nat /\ now - L > 0
      <4> HIDE DEF L
      <4> QED
        BY <1>1
    <3>2. C * (now - L) > 0
      BY <1>1, <3>1
    <3> QED
      BY <1>3, <1>5, <3>2
  <2>3. C * (L - L) = 0
    BY <1>1
  <2>4. Refill.last_refill = L /\ Refill.tokens = T
    BY <2>1
  <2>5. Refill \in [tokens: 0..(C * I), last_refill: Nat]
    BY <2>1 DEF TypeOK
  <2>6. T <= T + C * (L - L)
    BY <1>1, <2>3
  <2> QED
    BY <1>1, <2>2, <2>4, <2>5, <2>6
<1> QED
  BY <1>4, <1>5

LEMMA BucketInit == Init => BucketInv
BY BucketAssumption DEF Init, BucketInv, TypeOK, Credit, RateBound, FullBucket

LEMMA BucketTick == BucketInv /\ Tick => BucketInv'
<1> SUFFICES ASSUME BucketInv, Tick PROVE BucketInv'
  OBVIOUS
<1>1. TypeOK'
  BY DEF BucketInv, TypeOK, Tick
<1>2. Credit'
  BY DEF BucketInv, TypeOK, Tick, Credit
<1>3. RateBound'
  BY DEF BucketInv, Tick, RateBound
<1> QED
  BY <1>1, <1>2, <1>3 DEF BucketInv

(***************************************************************************)
(* Crediting the bucket keeps the account balanced.                        *)
(***************************************************************************)
LEMMA CreditAfterRefill ==
  ASSUME TypeOK, Credit, NEW i \in 1..Len(granted)
  PROVE  /\ granted[i] \in Nat
         /\ granted[i] <= Refill.last_refill
         /\ (Len(granted) - i + 1) * Interval + Refill.tokens
              <= Capacity * Interval
                 + Capacity * (Refill.last_refill - granted[i])
<1> DEFINE g == granted[i]
           L == bucket.last_refill
           R == Refill.last_refill
           spent == (Len(granted) - i + 1) * Interval
<1>1. /\ Capacity \in Nat /\ Interval \in Nat /\ g \in Nat /\ L \in Nat
      /\ bucket.tokens \in Nat /\ Len(granted) \in Nat
      /\ Capacity * Interval \in Nat /\ spent \in Int
  BY BucketAssumption DEF TypeOK
<1>2. g <= L /\ spent + bucket.tokens <= Capacity * Interval + Capacity * (L - g)
  BY DEF Credit
<1>3. /\ R \in Nat /\ L <= R /\ Refill.tokens \in Nat
      /\ Refill.tokens <= bucket.tokens + Capacity * (R - L)
  BY <1>1, RefillFacts DEF Credit
<1> HIDE DEF g, L, R, spent
<1>4. PICK x \in Int, y \in Int, z \in Int, full \in Int :
        /\ x = Capacity * (L - g) /\ y = Capacity * (R - L)
        /\ z = Capacity * (R - g) /\ full = Capacity * Interval
  BY <1>1, <1>3
<1>5. x + y = z
  BY <1>1, <1>3, <1>4
<1>6. spent + Refill.tokens <= full + z
  BY <1>1, <1>2, <1>3, <1>4, <1>5
<1>7. g <= R
  BY <1>1, <1>2, <1>3
<1> QED
  BY <1>1, <1>4, <1>6, <1>7 DEF g, R, spent

LEMMA BucketRefuse == BucketInv /\ Refuse => BucketInv'
<1> SUFFICES ASSUME BucketInv, Refuse PROVE BucketInv'
  OBVIOUS
<1>1. TypeOK'
  BY RefillFacts DEF BucketInv, TypeOK, Refuse, Credit
<1>2. Credit'
  BY RefillFacts, CreditAfterRefill DEF BucketInv, Refuse, Credit
<1>3. RateBound'
  BY DEF BucketInv, Refuse, RateBound
<1> QED
  BY <1>1, <1>2, <1>3 DEF BucketInv

LEMMA BucketGrant == BucketInv /\ Grant => BucketInv'
<1> SUFFICES ASSUME BucketInv, Grant PROVE BucketInv'
  OBVIOUS
<1> DEFINE n == Len(granted)
           r == Refill
<1>1. /\ Capacity \in Nat /\ Interval \in Nat \ {0} /\ now \in Nat
      /\ Capacity * Interval \in Nat /\ granted \in Seq(Nat) /\ n \in Nat
  BY BucketAssumption DEF BucketInv, TypeOK
<1>2. /\ r \in [tokens: 0..(Capacity * Interval), last_refill: Nat]
      /\ r.tokens >= Interval
  BY RefillFacts DEF BucketInv, Credit, Grant, HasToken
<1>3. Capacity > 0
  <2> SUFFICES ASSUME Capacity = 0 PROVE FALSE
    BY <1>1
  <2>1. Capacity * Interval = 0
    BY <1>1
  <2> QED
    BY <1>1, <1>2, <2>1
<1>4. r.last_refill = now
  BY <1>3, RefillFacts DEF BucketInv, Credit
<1>5. /\ bucket' = [tokens |-> r.tokens - Interval, last_refill |-> now]
      /\ now' = now /\ granted' = Append(granted, now) /\ refused' = refused
  BY <1>2, <1>4 DEF Grant, Spent
<1>6. /\ granted' \in Seq(Nat) /\ Len(granted') = n + 1
      /\ granted'[n + 1] = now
      /\ \A i \in 1..n : granted'[i] = granted[i]
  BY <1>1, <1>5
<1>7. bucket'.tokens = r.tokens - Interval /\ bucket'.last_refill = now
  BY <1>5
<1>8. TypeOK'
  BY <1>1, <1>2, <1>5, <1>6 DEF BucketInv, TypeOK
<1>9. ASSUME NEW i \in 1..n
      PROVE  /\ granted[i] \in Nat /\ granted[i] <= now
             /\ (n + 1 - i + 1) * Interval + (r.tokens - Interval)
                  <= Capacity * Interval + Capacity * (now - granted[i])
  <2>1. /\ granted[i] \in Nat /\ granted[i] <= now
        /\ (n - i + 1) * Interval + r.tokens
             <= Capacity * Interval + Capacity * (now - granted[i])
    BY <1>4, CreditAfterRefill DEF BucketInv
  <2>2. (n + 1 - i + 1) * Interval = (n - i + 1) * Interval + Interval
    BY <1>1
  <2>6. \A a, b \in Int : a * b \in Int
    OBVIOUS
  <2>7. /\ (n - i) + 1 \in Int /\ (n + 1 - i) + 1 \in Int
        /\ now - granted[i] \in Int /\ Interval \in Int /\ Capacity \in Int
    BY <1>1, <2>1
  <2>8. /\ (n - i + 1) * Interval \in Int /\ (n + 1 - i + 1) * Interval \in Int
        /\ Capacity * (now - granted[i]) \in Int /\ Capacity * Interval \in Int
    BY <2>6, <2>7
  <2>9. r.tokens \in Int
    BY <1>2
  <2>3. PICK x \in Int, y \in Int, z \in Int, k \in Int, full \in Int :
          /\ x = (n - i + 1) * Interval /\ y = (n + 1 - i + 1) * Interval
          /\ z = Capacity * (now - granted[i])
          /\ k = r.tokens /\ full = Capacity * Interval
    BY <2>8, <2>9, Zenon
  <2>4. x + k <= full + z /\ y = x + Interval
    BY <2>1, <2>2, <2>3
  <2>5. y + (k - Interval) <= full + z
    BY <1>1, <2>3, <2>4
  <2> QED
    BY <2>1, <2>3, <2>5
<1>10. Credit'
  <2> SUFFICES ASSUME NEW i \in 1..(n + 1)
      PROVE  /\ granted'[i] <= now
             /\ (n + 1 - i + 1) * Interval + (r.tokens - Interval)
                  <= Capacity * Interval + Capacity * (now - granted'[i])
    BY <1>1, <1>5, <1>6, <1>7 DEF Credit
  <2>1. CASE i \in 1..n
    BY <2>1, <1>6, <1>9
  <2>2. CASE i = n + 1
    <3>1. (n + 1 - i + 1) * Interval = Interval
      BY <2>2, <1>1
    <3>2. Capacity * (now - granted'[i]) = 0
      BY <2>2, <1>1, <1>6
    <3> QED
      BY <2>2, <3>1, <3>2, <1>1, <1>2, <1>6
  <2> QED
    BY <2>1, <2>2, <1>1
<1>11. RateBound'
  <2> SUFFICES ASSUME NEW i \in 1..(n + 1), NEW j \in 1..(n + 1), i <= j
      PROVE  (j - i + 1) * Interval
               <= Capacity * Interval + Capacity * (granted'[j] - granted'[i])
    BY <1>6 DEF RateBound
  <2>1. CASE j \in 1..n
    <3>1. i \in 1..n
      BY <2>1
    <3> QED
      BY <2>1, <3>1, <1>6 DEF BucketInv, RateBound
  <2>2. CASE j = n + 1
    <3>1. /\ granted'[i] \in Nat
          /\ (n + 1 - i + 1) * Interval + (r.tokens - Interval)
               <= Capacity * Interval + Capacity * (now - granted'[i])
      BY <1>6, <1>7, <1>10 DEF Credit
    <3> DEFINE spent == (n + 1 - i + 1) * Interval
               earned == Capacity * (now - granted'[i])
               full == Capacity * Interval
               left == r.tokens - Interval
    <3>2. spent + left <= full + earned
      BY <3>1
    <3>3. left \in Int /\ left >= 0 /\ full \in Int
      BY <1>1, <1>2
    <3>4. \A a, b \in Int : a * b \in Int
      OBVIOUS
    <3>5. n + 1 - i + 1 \in Int /\ now - granted'[i] \in Int
          /\ Interval \in Int /\ Capacity \in Int
      BY <1>1, <3>1
    <3>6. spent \in Int /\ earned \in Int
      BY <3>4, <3>5, Zenon
    <3>7. spent <= full + earned
      <4> HIDE DEF spent, earned, full, left
      <4> QED
        BY <3>2, <3>3, <3>6
    <3>8. j - i + 1 = n + 1 - i + 1 /\ granted'[j] = now
      BY <2>2, <1>1, <1>6
    <3> HIDE DEF n, r
    <3> QED
      BY <3>7, <3>8, Zenon
  <2> QED
    BY <2>1, <2>2, <1>1
<1> QED
  BY <1>8, <1>10, <1>11 DEF BucketInv

LEMMA BucketInvHolds == Spec => []BucketInv
<1>1. BucketInv /\ UNCHANGED vars => BucketInv'
  BY DEF BucketInv, TypeOK, Credit, RateBound, vars
<1>2. BucketInv /\ [Next]_vars => BucketInv'
  BY <1>1, BucketTick, BucketGrant, BucketRefuse DEF Next
<1> QED
  BY <1>2, BucketInit, PTL DEF Spec

(***************************************************************************)
(* The bucket never holds more than a full bucket nor less than nothing,   *)
(* for every capacity, interval and pattern of calls.                      *)
(***************************************************************************)
THEOREM TokensInRange == Spec => []TypeOK
BY BucketInvHolds, PTL DEF BucketInv

(***************************************************************************)
(* Over any span of time the bucket grants at most a full bucket plus what *)
(* the span earns.                                                         *)
(***************************************************************************)
THEOREM RateBounded == Spec => []RateBound
BY BucketInvHolds, PTL DEF BucketInv

-----------------------------------------------------------------------------
(***************************************************************************)
(* The sink.  Every step of it is a step of the bucket, a step that leaves *)
(* the bucket alone, or the restart.                                       *)
(***************************************************************************)
SinkInv == BucketInv /\ RequestTypeOK

LEMMA SinkInit == NtfyInit => SinkInv
<1> SUFFICES ASSUME NtfyInit PROVE SinkInv
  OBVIOUS
<1>1. BucketInv
  BY BucketInit DEF NtfyInit
<1>2. RequestTypeOK
  BY DEF NtfyInit, Init, RequestTypeOK
<1> QED
  BY <1>1, <1>2 DEF SinkInv

LEMMA BucketRestart == BucketInv /\ Restart => BucketInv'
<1> SUFFICES ASSUME BucketInv, Restart PROVE BucketInv'
  OBVIOUS
<1>1. /\ now' = now /\ now \in Nat /\ granted' = <<>> /\ refused' = {}
      /\ bucket' = [tokens |-> Capacity * Interval, last_refill |-> now]
  BY DEF Restart, FullBucket, BucketInv, TypeOK
<1>2. Capacity * Interval \in Nat
  BY BucketAssumption
<1>3. TypeOK'
  BY <1>1, <1>2 DEF TypeOK
<1>4. Credit' /\ RateBound'
  BY <1>1 DEF Credit, RateBound
<1> QED
  BY <1>3, <1>4 DEF BucketInv

LEMMA SinkStep == SinkInv /\ [NtfyNext]_ntfyVars => SinkInv'
<1> SUFFICES ASSUME BucketInv, RequestTypeOK, [NtfyNext]_ntfyVars
             PROVE  BucketInv' /\ RequestTypeOK'
  BY DEF SinkInv
<1>1. BucketInv /\ UNCHANGED vars => BucketInv'
  BY DEF BucketInv, TypeOK, Credit, RateBound, vars
<1>2. now \in Nat
  BY DEF BucketInv, TypeOK
<1>3. CASE Throttle
  <2>1. BucketInv'
    BY <1>3, BucketRefuse DEF Throttle
  <2>2. RequestTypeOK'
    BY <1>3 DEF Throttle, Refuse, RequestTypeOK
  <2> QED BY <2>1, <2>2
<1>4. ASSUME NEW m \in Messages, Send(m) \/ BodyPanics(m)
      PROVE  BucketInv' /\ RequestTypeOK'
  <2>1. BucketInv'
    BY <1>4, BucketGrant DEF Send, BodyPanics
  <2>2. RequestTypeOK'
    BY <1>2, <1>4 DEF Send, BodyPanics, Grant, RequestTypeOK
  <2> QED BY <2>1, <2>2
<1>5. CASE Respond \/ RequestFails
  <2>1. UNCHANGED vars /\ \E result \in {"ok", "failed"} : Finish(result)
    BY <1>5 DEF Respond, RequestFails
  <2>2. RequestTypeOK'
    BY <1>2, <2>1 DEF Finish, vars, RequestTypeOK
  <2> QED BY <1>1, <2>1, <2>2
<1>6. CASE Serve
  <2>1. RequestTypeOK'
    BY <1>6 DEF Serve, vars, RequestTypeOK
  <2> QED BY <1>1, <1>6, <2>1 DEF Serve
<1>7. CASE Die
  <2>1. RequestTypeOK'
    BY <1>2, <1>7 DEF Die, vars, RequestTypeOK
  <2> QED BY <1>1, <1>7, <2>1 DEF Die
<1>8. CASE Restart
  <2>1. RequestTypeOK'
    BY <1>8 DEF Restart, RequestTypeOK
  <2> QED BY <1>8, <2>1, BucketRestart
<1>9. CASE Pass
  <2>1. RequestTypeOK'
    BY <1>2, <1>9 DEF Pass, Tick, RequestTypeOK
  <2> QED BY <1>9, <2>1, BucketTick DEF Pass
<1>10. CASE UNCHANGED ntfyVars
  <2>1. RequestTypeOK'
    BY <1>10 DEF ntfyVars, vars, RequestTypeOK
  <2> QED BY <1>1, <1>10, <2>1 DEF ntfyVars
<1> QED
  BY <1>3, <1>4, <1>5, <1>6, <1>7, <1>8, <1>9, <1>10 DEF NtfyNext

(***************************************************************************)
(* The sink is well typed: a request is counted as sent exactly while one  *)
(* is under way.                                                           *)
(***************************************************************************)
THEOREM SinkTyped == NtfySpec => []NtfyTypeOK
<1>1. SinkInv => NtfyTypeOK
  BY DEF SinkInv, BucketInv, NtfyTypeOK
<1> QED BY <1>1, SinkInit, SinkStep, PTL DEF NtfySpec

(***************************************************************************)
(* The pushes of one run of the daemon stay within the rate, for every     *)
(* rate, message and outcome of the requests (ntfy.rs:152-169).            *)
(***************************************************************************)
THEOREM PushesRateBounded == NtfySpec => []RateBound
BY SinkInit, SinkStep, PTL DEF NtfySpec, SinkInv, BucketInv

(***************************************************************************)
(* Ok after a request means that the server took the push.                 *)
(***************************************************************************)
THEOREM OkIsPushed == NtfySpec => OkMeansPushed
<1>1. [NtfyNext]_ntfyVars =>
        (phase = "posting" /\ phase' = "idle" /\ outcome' = "ok"
           => server = "accepted")
  <2> SUFFICES ASSUME [NtfyNext]_ntfyVars, phase = "posting",
                      phase' = "idle", outcome' = "ok"
               PROVE  server = "accepted"
    OBVIOUS
  <2>1. Respond
    BY DEF NtfyNext, Throttle, Send, BodyPanics, RequestFails, Finish, Serve,
           Die, Restart, Pass, ntfyVars
  <2> QED BY <2>1 DEF Respond, Finish
<1> QED
  BY <1>1, PTL DEF NtfySpec, OkMeansPushed

-----------------------------------------------------------------------------
(***************************************************************************)
(* The other side of the account.  Counted from the start of the boot, or  *)
(* from any past grant, what was granted since plus what is left is at     *)
(* least a full bucket, or at least what was earned since.                 *)
(***************************************************************************)
Debit ==
  /\ \A i, j \in 1..Len(granted) : i <= j => granted[i] <= granted[j]
  /\ bucket.tokens + Len(granted) * Interval >= Capacity * Interval
  /\ \A i \in 1..Len(granted) :
       \/ bucket.tokens + (Len(granted) - i) * Interval >= Capacity * Interval
       \/ bucket.tokens + (Len(granted) - i) * Interval
            >= Capacity * (bucket.last_refill - granted[i])

(* Two facts of arithmetic.                                                *)
LEMMA Monotone ==
  \A a, b, c \in Nat : a <= b => c * a <= c * b /\ a * c <= b * c
OBVIOUS

LEMMA Product == \A a, b \in Int : a * b \in Int
OBVIOUS

(***************************************************************************)
(* Crediting the bucket keeps it.                                          *)
(***************************************************************************)
LEMMA DebitAfterRefill ==
  ASSUME TypeOK, Credit, Debit
  PROVE  /\ Refill.tokens + Len(granted) * Interval >= Capacity * Interval
         /\ \A i \in 1..Len(granted) :
              \/ Refill.tokens + (Len(granted) - i) * Interval
                   >= Capacity * Interval
              \/ Refill.tokens + (Len(granted) - i) * Interval
                   >= Capacity * (Refill.last_refill - granted[i])
<1> DEFINE n == Len(granted)
           L == bucket.last_refill
           T == bucket.tokens
           added == Elapsed(now, L) * Capacity
           full == Capacity * Interval
<1>1. /\ Capacity \in Nat /\ Interval \in Nat /\ now \in Nat /\ L \in Nat
      /\ T \in Nat /\ n \in Nat /\ full \in Nat /\ L <= now
      /\ granted \in Seq(Nat)
  BY BucketAssumption DEF TypeOK, Credit
<1>2. added = Capacity * (now - L) /\ added \in Nat
  BY <1>1 DEF Elapsed
<1>3. CASE ~(added > 0)
  BY <1>3 DEF Refill, Refilled, Debit
<1>4. CASE added > 0
  <2>1. Refill = [tokens |-> IF T + added < full THEN T + added ELSE full,
                  last_refill |-> now]
    BY <1>4 DEF Refill, Refilled
  <2>2. /\ Refill.last_refill = now
        /\ Refill.tokens = IF T + added < full THEN T + added ELSE full
    BY <2>1
  <2>3. n * Interval \in Nat /\ T + n * Interval >= full
    BY <1>1 DEF Debit
  <2>4. Refill.tokens + n * Interval >= full
    <3> HIDE DEF n, L, T, added, full
    <3> QED BY <1>1, <1>2, <2>2, <2>3
  <2>5. ASSUME NEW i \in 1..n
        PROVE  \/ Refill.tokens + (n - i) * Interval >= full
               \/ Refill.tokens + (n - i) * Interval
                    >= Capacity * (now - granted[i])
    <3>1. /\ n - i \in Nat /\ granted[i] \in Nat /\ granted[i] <= L
      <4>1. granted[i] <= L
        BY Zenon DEF Credit
      <4> HIDE DEF L, full
      <4> QED BY <1>1, <4>1
    <3>2. (n - i) * Interval \in Nat
      BY <1>1, <3>1
    <3> DEFINE x == Capacity * (L - granted[i])
               y == Capacity * (now - granted[i])
    <3>3. \/ T + (n - i) * Interval >= full
          \/ T + (n - i) * Interval >= x
      BY DEF Debit
    <3>4. x + added = y /\ x \in Int /\ y \in Int
      <4> DEFINE a == L - granted[i]
                 b == now - L
      <4>1. a \in Int /\ b \in Int /\ a + b = now - granted[i]
        BY <1>1, <3>1
      <4>2. x = Capacity * a /\ y = Capacity * (a + b) /\ added = Capacity * b
        BY <1>2, <4>1
      <4> HIDE DEF a, b, x, y, added
      <4>3. Capacity * a + Capacity * b = Capacity * (a + b)
        <5>1. \A p, q \in Int, c \in Nat : c * p + c * q = c * (p + q)
          OBVIOUS
        <5> QED BY <1>1, <4>1, <5>1
      <4>4. Capacity * a \in Int /\ Capacity * (a + b) \in Int
        BY <1>1, <4>1, Product
      <4> QED BY <4>2, <4>3, <4>4
    <3> HIDE DEF n, L, T, added, full, x, y
    <3>5. \/ Refill.tokens + (n - i) * Interval >= full
          \/ Refill.tokens + (n - i) * Interval >= y
      BY <1>1, <1>2, <2>2, <3>2, <3>3, <3>4
    <3> QED BY <3>5 DEF y
  <2> QED BY <2>2, <2>4, <2>5
<1> QED BY <1>3, <1>4

(* So do a grant, a refusal and a restart.                                 *)
LEMMA DebitGrant == BucketInv /\ Debit /\ Grant => Debit'
<1> SUFFICES ASSUME BucketInv, Debit, Grant PROVE Debit'
  OBVIOUS
<1> DEFINE n == Len(granted)
           full == Capacity * Interval
<1>1. /\ Capacity \in Nat /\ Interval \in Nat \ {0} /\ now \in Nat
      /\ full \in Nat /\ granted \in Seq(Nat) /\ n \in Nat
      /\ TypeOK /\ Credit /\ bucket.last_refill <= now
  BY BucketAssumption DEF BucketInv, TypeOK, Credit
<1>2. /\ Refill \in [tokens: 0..full, last_refill: Nat]
      /\ Refill.tokens >= Interval
      /\ Refill.last_refill <= now
      /\ Refill.last_refill >= bucket.last_refill
  BY <1>1, RefillFacts DEF Grant, HasToken
<1>3. /\ bucket'.tokens = Refill.tokens - Interval
      /\ bucket'.last_refill = Refill.last_refill
  BY <1>2 DEF Grant, Spent
<1>4. /\ granted' \in Seq(Nat) /\ Len(granted') = n + 1
      /\ granted'[n + 1] = now
      /\ \A i \in 1..n : granted'[i] = granted[i]
  BY <1>1 DEF Grant
<1>5. ASSUME NEW i \in 1..n PROVE granted[i] \in Nat /\ granted[i] <= now
  <2>1. granted[i] \in Nat /\ bucket.last_refill \in Nat
    BY <1>1 DEF TypeOK
  <2>2. granted[i] <= bucket.last_refill
    BY <1>1 DEF Credit
  <2> QED BY <1>1, <2>1, <2>2
<1>6. \A i, j \in 1..(n + 1) : i <= j => granted'[i] <= granted'[j]
  <2> SUFFICES ASSUME NEW i \in 1..(n + 1), NEW j \in 1..(n + 1), i <= j
               PROVE  granted'[i] <= granted'[j]
    OBVIOUS
  <2>1. CASE j = n + 1
    BY <1>1, <1>4, <1>5, <2>1
  <2>2. CASE j # n + 1
    <3>1. i \in 1..n /\ j \in 1..n
      BY <1>1, <2>2
    <3> QED BY <1>4, <3>1 DEF Debit
  <2> QED BY <2>1, <2>2
<1>7. bucket'.tokens + (n + 1) * Interval >= full
  <2>1. (n + 1) * Interval = n * Interval + Interval /\ n * Interval \in Int
    BY <1>1
  <2>2. Refill.tokens + n * Interval >= full
    BY <1>1, DebitAfterRefill
  <2> HIDE DEF n, full
  <2> QED BY <1>1, <1>2, <1>3, <2>1, <2>2
<1>8. ASSUME NEW i \in 1..(n + 1)
      PROVE  \/ bucket'.tokens + (n + 1 - i) * Interval >= full
             \/ bucket'.tokens + (n + 1 - i) * Interval
                  >= Capacity * (bucket'.last_refill - granted'[i])
  <2>1. CASE i = n + 1
    <3>1. (n + 1 - i) * Interval = 0
      BY <1>1, <2>1
    <3>2. bucket'.last_refill - granted'[i] <= 0
      BY <1>1, <1>2, <1>3, <1>4, <2>1
    <3>3. Capacity * (bucket'.last_refill - granted'[i]) <= 0
      <4>1. \A a \in Nat, b \in Int : b <= 0 => a * b <= 0
        OBVIOUS
      <4> QED BY <1>1, <1>2, <1>3, <1>4, <2>1, <3>2, <4>1
    <3>4. Capacity * (bucket'.last_refill - granted'[i]) \in Int
      BY <1>1, <1>2, <1>3, <1>4, <2>1
    <3> QED BY <1>1, <1>2, <1>3, <3>1, <3>3, <3>4
  <2>2. CASE i # n + 1
    <3>1. i \in 1..n /\ n - i \in Nat
      BY <1>1, <2>2
    <3>2. /\ (n + 1 - i) * Interval = (n - i) * Interval + Interval
          /\ (n - i) * Interval \in Int
      BY <1>1, <3>1
    <3>3. \/ Refill.tokens + (n - i) * Interval >= full
          \/ Refill.tokens + (n - i) * Interval
               >= Capacity * (Refill.last_refill - granted[i])
      BY <1>1, <3>1, DebitAfterRefill
    <3>4. Refill.tokens + (n - i) * Interval
            = bucket'.tokens + (n + 1 - i) * Interval
      BY <1>1, <1>2, <1>3, <3>2
    <3> QED BY <1>3, <1>4, <3>1, <3>3, <3>4
  <2> QED BY <2>1, <2>2
<1> QED
  BY <1>4, <1>6, <1>7, <1>8 DEF Debit

LEMMA DebitRefuse == BucketInv /\ Debit /\ Refuse => Debit'
<1> SUFFICES ASSUME BucketInv, Debit, Refuse PROVE Debit'
  OBVIOUS
<1>1. bucket' = Refill /\ granted' = granted
  BY DEF Refuse
<1>2. /\ Refill.tokens + Len(granted) * Interval >= Capacity * Interval
      /\ \A i \in 1..Len(granted) :
           \/ Refill.tokens + (Len(granted) - i) * Interval
                >= Capacity * Interval
           \/ Refill.tokens + (Len(granted) - i) * Interval
                >= Capacity * (Refill.last_refill - granted[i])
  BY DebitAfterRefill DEF BucketInv
<1> QED BY <1>1, <1>2, Zenon DEF Debit

LEMMA DebitFull ==
  ASSUME granted' = <<>>, bucket'.tokens = Capacity * Interval
  PROVE  Debit'
<1>1. Capacity * Interval \in Nat /\ Interval \in Nat
  BY BucketAssumption
<1>2. Len(granted') = 0 /\ 0 * Interval = 0
  BY <1>1
<1> QED BY <1>1, <1>2 DEF Debit

(***************************************************************************)
(* The calls granted within the last Interval.                             *)
(***************************************************************************)
Recent(t) == { i \in 1..Len(granted) :
                 granted[i] <= t /\ granted[i] > t - Interval }

LEMMA RecentFinite ==
  ASSUME granted \in Seq(Nat), NEW t
  PROVE  IsFiniteSet(Recent(t)) /\ Cardinality(Recent(t)) \in Nat
<1>1. IsFiniteSet(1..Len(granted))
  BY FS_Interval
<1>2. Recent(t) \subseteq 1..Len(granted)
  BY DEF Recent
<1> QED BY <1>1, <1>2, FS_Subset, FS_CardinalityType

(***************************************************************************)
(* When the bucket refuses, the grant that lies Capacity back is recent,   *)
(* and with it all later ones.                                             *)
(***************************************************************************)
LEMMA RefusalEarned ==
  ASSUME BucketInv, Debit, Refuse
  PROVE  Cardinality(Recent(now)) >= Capacity
<1> DEFINE n == Len(granted)
           full == Capacity * Interval
           T == Refill.tokens
           i == n - Capacity + 1
<1>1. /\ Capacity \in Nat /\ Interval \in Nat \ {0} /\ now \in Nat
      /\ full \in Nat /\ granted \in Seq(Nat) /\ n \in Nat
      /\ TypeOK /\ Credit /\ bucket.last_refill <= now
      /\ bucket.last_refill \in Nat
  BY BucketAssumption DEF BucketInv, TypeOK, Credit
<1>2. CASE Capacity = 0
  BY <1>1, <1>2, RecentFinite
<1>3. CASE Capacity > 0
  <2>1. /\ T \in Nat /\ T < Interval /\ Refill.last_refill = now
    BY <1>1, <1>3, RefillFacts DEF Refuse, HasToken
  <2>2. /\ Capacity - 1 \in Nat
        /\ (Capacity - 1) * Interval = full - Interval
    BY <1>1, <1>3
  <2>3. n >= Capacity
    <3> SUFFICES ASSUME n < Capacity PROVE FALSE
      BY <1>1
    <3>1. n <= Capacity - 1
      BY <1>1, <1>3
    <3>2. n * Interval <= (Capacity - 1) * Interval
      BY <1>1, <2>2, <3>1, Monotone
    <3>3. n * Interval \in Nat /\ T + n * Interval >= full
      BY <1>1, DebitAfterRefill
    <3> HIDE DEF n, full, T
    <3> QED BY <1>1, <2>1, <2>2, <3>2, <3>3
  <2>4. i \in 1..n /\ n - i = Capacity - 1
    BY <1>1, <1>3, <2>3
  <2>5. granted[i] \in Nat
    BY <1>1, <2>4
  <2>6. granted[i] > now - Interval
    <3>1. \/ T + (n - i) * Interval >= full
          \/ T + (n - i) * Interval >= Capacity * (now - granted[i])
      BY <1>1, <2>1, <2>4, DebitAfterRefill
    <3>2. T + (n - i) * Interval < full
      <4> HIDE DEF n, full, T, i
      <4> QED BY <1>1, <2>1, <2>2, <2>4
    <3>3. Capacity * (now - granted[i]) < full
      <4> DEFINE spent == (n - i) * Interval
                 earned == Capacity * (now - granted[i])
      <4>1. spent \in Int /\ full \in Int /\ T \in Int
        BY <1>1, <2>1, <2>2, <2>4
      <4>2. earned \in Int
        BY <1>1, <2>5
      <4>3. T + spent >= full \/ T + spent >= earned
        BY <3>1
      <4>4. T + spent < full
        BY <3>2
      <4> HIDE DEF n, full, T, i, spent, earned
      <4>5. earned < full
        BY <4>1, <4>2, <4>3, <4>4
      <4> QED BY <4>5 DEF earned
    <3>4. SUFFICES ASSUME granted[i] <= now - Interval PROVE FALSE
      BY <1>1, <2>5
    <3>5. now - granted[i] \in Nat /\ Interval <= now - granted[i]
      BY <1>1, <2>5, <3>4
    <3>6. Capacity * Interval <= Capacity * (now - granted[i])
      BY <1>1, <3>5, Monotone
    <3>7. Capacity * (now - granted[i]) \in Int
      BY <1>1, <2>5
    <3> QED BY <1>1, <3>3, <3>6, <3>7
  <2>7. i..n \subseteq Recent(now)
    <3> SUFFICES ASSUME NEW j \in i..n PROVE j \in Recent(now)
      OBVIOUS
    <3>1. j \in 1..n /\ i <= j
      BY <1>1, <2>4
    <3>2. granted[j] \in Nat /\ granted[j] <= bucket.last_refill
      BY <1>1, <3>1 DEF Credit
    <3>3. granted[i] <= granted[j]
      BY <2>4, <3>1 DEF Debit
    <3> HIDE DEF i
    <3> QED BY <1>1, <2>5, <2>6, <3>1, <3>2, <3>3 DEF Recent
  <2>8. Cardinality(i..n) = Capacity
    <3>1. i \in Int /\ n \in Int /\ i <= n
      BY <1>1, <2>4
    <3>2. Cardinality(i..n) = n - i + 1
      BY <3>1, FS_Interval
    <3> QED BY <1>1, <2>4, <3>2
  <2>9. Cardinality(i..n) <= Cardinality(Recent(now))
    BY <1>1, <2>7, RecentFinite, FS_Subset
  <2> QED BY <2>8, <2>9
<1> QED BY <1>1, <1>2, <1>3

(***************************************************************************)
(* A refusal stays justified: the calls granted before it are not undone,  *)
(* and no later one is counted at an earlier time.                         *)
(***************************************************************************)
LEMMA JustifiedGrant ==
  BucketInv /\ RefusalJustified /\ Grant => RefusalJustified'
<1> SUFFICES ASSUME BucketInv, RefusalJustified, Grant, NEW t \in refused
             PROVE  Cardinality(Recent(t)') >= Capacity
  BY DEF Grant, RefusalJustified, Recent
<1>1. granted \in Seq(Nat) /\ now \in Nat /\ Capacity \in Nat
  BY BucketAssumption DEF BucketInv, TypeOK
<1>2. /\ granted' \in Seq(Nat) /\ Len(granted') = Len(granted) + 1
      /\ \A i \in 1..Len(granted) : granted'[i] = granted[i]
  BY <1>1 DEF Grant
<1>3. Recent(t) \subseteq Recent(t)'
  BY <1>1, <1>2 DEF Recent
<1>4. IsFiniteSet(Recent(t)') /\ Cardinality(Recent(t)') \in Nat
  <2>1. IsFiniteSet(1..Len(granted'))
    BY <1>2, FS_Interval
  <2>2. Recent(t)' \subseteq 1..Len(granted')
    BY DEF Recent
  <2> QED BY <2>1, <2>2, FS_Subset, FS_CardinalityType
<1>5. Cardinality(Recent(t)) >= Capacity
  BY DEF RefusalJustified, Recent
<1> QED BY <1>1, <1>3, <1>4, <1>5, FS_Subset, RecentFinite

LEMMA JustifiedRefuse ==
  BucketInv /\ Debit /\ RefusalJustified /\ Refuse => RefusalJustified'
<1> SUFFICES ASSUME BucketInv, Debit, RefusalJustified, Refuse
             PROVE  RefusalJustified'
  OBVIOUS
<1>1. granted' = granted /\ refused' = refused \cup {now}
  BY DEF Refuse
<1>2. Cardinality(Recent(now)) >= Capacity
  BY RefusalEarned
<1> QED BY <1>1, <1>2 DEF RefusalJustified, Recent

(***************************************************************************)
(* The steps of the sink.                                                  *)
(***************************************************************************)
SinkRefusalInv == SinkInv /\ Debit /\ RefusalJustified

LEMMA RefusalInit == NtfyInit => SinkRefusalInv
<1> SUFFICES ASSUME NtfyInit PROVE SinkRefusalInv
  OBVIOUS
<1>1. Capacity * Interval \in Nat /\ Interval \in Nat
  BY BucketAssumption
<1>2. /\ granted = <<>> /\ refused = {}
      /\ bucket.tokens = Capacity * Interval
  BY DEF NtfyInit, Init, FullBucket
<1>3. Len(granted) = 0 /\ 0 * Interval = 0
  BY <1>1, <1>2
<1>4. Debit
  BY <1>1, <1>2, <1>3 DEF Debit
<1> QED BY <1>2, <1>4, SinkInit DEF SinkRefusalInv, RefusalJustified

LEMMA RefusalStep == SinkRefusalInv /\ [NtfyNext]_ntfyVars => SinkRefusalInv'
<1> SUFFICES ASSUME SinkInv, BucketInv, Debit, RefusalJustified,
                    [NtfyNext]_ntfyVars
             PROVE  Debit' /\ RefusalJustified'
  BY SinkStep DEF SinkRefusalInv, SinkInv
<1>1. CASE UNCHANGED <<bucket, granted, refused>>
  BY <1>1 DEF Debit, RefusalJustified
<1>2. CASE Throttle
  BY <1>2, DebitRefuse, JustifiedRefuse DEF Throttle
<1>3. CASE \E m \in Messages : Send(m) \/ BodyPanics(m)
  BY <1>3, DebitGrant, JustifiedGrant DEF Send, BodyPanics
<1>4. CASE Restart
  <2>1. /\ granted' = <<>> /\ refused' = {}
        /\ bucket'.tokens = Capacity * Interval
    BY <1>4 DEF Restart, FullBucket
  <2> QED BY <2>1, DebitFull DEF RefusalJustified
<1> QED
  BY <1>1, <1>2, <1>3, <1>4
  DEF NtfyNext, Respond, RequestFails, Finish, Serve, Die, Pass, Tick,
      ntfyVars, vars

(***************************************************************************)
(* The sink throttles only a caller that took a full bucket within the     *)
(* last Interval of this run of the daemon (ntfy.rs:152-157).              *)
(***************************************************************************)
THEOREM RefusalsJustified == NtfySpec => []RefusalJustified
BY RefusalInit, RefusalStep, PTL DEF NtfySpec, SinkRefusalInv

-----------------------------------------------------------------------------
(***************************************************************************)
(* And the bucket of any other caller that does not restart.               *)
(***************************************************************************)
BucketRefusalInv == BucketInv /\ Debit /\ RefusalJustified

LEMMA BucketRefusalInit == Init => BucketRefusalInv
<1> SUFFICES ASSUME Init PROVE BucketRefusalInv
  OBVIOUS
<1>1. Capacity * Interval \in Nat /\ Interval \in Nat
  BY BucketAssumption
<1>2. /\ granted = <<>> /\ refused = {}
      /\ bucket.tokens = Capacity * Interval
  BY DEF Init, FullBucket
<1>3. Len(granted) = 0 /\ 0 * Interval = 0
  BY <1>1, <1>2
<1>4. Debit
  BY <1>1, <1>2, <1>3 DEF Debit
<1> QED BY <1>2, <1>4, BucketInit DEF BucketRefusalInv, RefusalJustified

LEMMA BucketRefusalStep == BucketRefusalInv /\ [Next]_vars => BucketRefusalInv'
<1> SUFFICES ASSUME BucketInv, Debit, RefusalJustified, [Next]_vars
             PROVE  BucketInv' /\ Debit' /\ RefusalJustified'
  BY DEF BucketRefusalInv
<1>1. CASE Grant
  BY <1>1, BucketGrant, DebitGrant, JustifiedGrant
<1>2. CASE Refuse
  BY <1>2, BucketRefuse, DebitRefuse, JustifiedRefuse
<1>3. CASE Tick \/ UNCHANGED vars
  <2>1. UNCHANGED <<bucket, granted, refused>>
    BY <1>3 DEF Tick, vars
  <2>2. Debit' /\ RefusalJustified'
    BY <2>1 DEF Debit, RefusalJustified
  <2>3. BucketInv'
    <3>1. BucketInv /\ UNCHANGED vars => BucketInv'
      BY DEF BucketInv, TypeOK, Credit, RateBound, vars
    <3> QED BY <1>3, <3>1, BucketTick
  <2> QED BY <2>2, <2>3
<1> QED BY <1>1, <1>2, <1>3 DEF Next

(***************************************************************************)
(* try_take refuses only who took a full bucket within the last Interval,  *)
(* for every capacity, interval and pattern of calls (rate_limit.rs:45-63).*)
(***************************************************************************)
THEOREM BucketRefusalsJustified == Spec => []RefusalJustified
BY BucketRefusalInit, BucketRefusalStep, PTL DEF Spec, BucketRefusalInv
=============================================================================
