--------------------------- MODULE Services_proofs ---------------------------
(***************************************************************************)
(* Proofs about the services around the engine, each a component of its    *)
(* own: the rate limiter, the audit chain, the intent registry, the        *)
(* circuit breaker, the cluster, the metrics and the table registry; and   *)
(* about the composition of several queries into one.  There, every query  *)
(* is in the combined one, behind those that produce what it consumes, and *)
(* only a knot of queries that need one another is refused.                *)
(***************************************************************************)
EXTENDS MCServices, Composition, DataInduction, FiniteSetTheorems, TLAPS

(***************************************************************************)
(* The rate limiter.  What a bucket has admitted since an admission, with  *)
(* the tokens it still holds, is paid for by its capacity and by what it   *)
(* has been refilled since.                                                *)
(***************************************************************************)
Bucket == [tokens : Nat, last_refill : Nat]
Places == {"start", "lock", "create", "return", "done"}

\* What the proofs use of the product of numbers.
LEMMA ProductType ==
    /\ \A a, b \in Int : a * b \in Int
    /\ \A a, b \in Nat : a * b \in Nat
    /\ \A a \in Nat, b \in Nat \ {0} : a <= b * a
<1>1. ASSUME NEW a \in Int, NEW b \in Int PROVE a * b \in Int
  OBVIOUS
<1>2. ASSUME NEW a \in Nat, NEW b \in Nat PROVE a * b \in Nat
  OBVIOUS
<1>3. ASSUME NEW a \in Nat, NEW b \in Nat \ {0} PROVE a <= b * a
  OBVIOUS
<1>. QED
  BY <1>1, <1>2, <1>3

LEMMA ProductAdds ==
    ASSUME NEW a \in Int, NEW b \in Int, NEW c \in Int, NEW q \in Int
    PROVE  /\ (a - b) * q + (b - c) * q = (a - c) * q
           /\ (a + 1) * q = a * q + q
           /\ 1 * q = q /\ (a - a) * q = 0
OBVIOUS

\* n admissions since time a, and tokens left, against a full bucket and the
\* refill up to time t.
Affords(n, left, a, t) == n * Unit + left <= Burst * Unit + (t - a) * Qps

LEMMA UnitsType ==
    /\ Unit \in Nat /\ Unit > 0 /\ Qps \in Nat /\ Burst \in Nat /\ Burst > 0
    /\ Burst * Unit \in Nat /\ Unit <= Burst * Unit
<1>1. Unit \in Nat \ {0} /\ Qps \in Nat /\ Burst \in Nat \ {0}
  BY LimiterAssumption
<1>. QED
  BY <1>1, ProductType

\* Refilling up to the present keeps what the admissions since time a may be.
LEMMA RefillAffords ==
    ASSUME NEW n \in Int, NEW left \in Nat, NEW a \in Nat, NEW last \in Nat, NEW t \in Nat,
           NEW filled \in Nat,
           Affords(n, left, a, last), filled <= left + (t - last) * Qps
    PROVE  Affords(n, filled, a, t)
<1>1. PICK x, y, z, full :
        x = n * Unit /\ y = (last - a) * Qps /\ z = (t - last) * Qps /\ full = Burst * Unit
  OBVIOUS
<1>2. last - a \in Int /\ t - last \in Int /\ Unit \in Int /\ Qps \in Int
  BY UnitsType
<1>3. x \in Int /\ y \in Int /\ z \in Int /\ full \in Int
  BY <1>1, <1>2, ProductType, UnitsType
<1>4. z + y = (t - a) * Qps
  BY <1>1, <1>2, ProductAdds
<1>5. x + left <= full + y /\ filled <= left + z
  BY <1>1 DEF Affords
<1>6. x + filled <= full + (z + y)
  BY <1>3, <1>5
<1>. QED
  BY <1>1, <1>4, <1>6 DEF Affords

\* A token paid for an admission is a unit among the admissions.
LEMMA AdmissionAffords ==
    ASSUME NEW n \in Int, NEW filled \in Nat, NEW a \in Nat, NEW t \in Nat,
           Affords(n, filled, a, t), filled >= Unit
    PROVE  Affords(n + 1, filled - Unit, a, t)
<1>1. PICK x, y, full : x = n * Unit /\ y = (t - a) * Qps /\ full = Burst * Unit
  OBVIOUS
<1>2. t - a \in Int /\ Unit \in Nat /\ Qps \in Int
  BY UnitsType
<1>3. x \in Int /\ y \in Int /\ full \in Int /\ (n + 1) * Unit = x + Unit
  BY <1>1, <1>2, ProductType, ProductAdds, UnitsType
<1>4. x + filled <= full + y
  BY <1>1 DEF Affords
<1>5. (x + Unit) + (filled - Unit) <= full + y
  BY <1>2, <1>3, <1>4
<1>. QED
  BY <1>1, <1>3, <1>5 DEF Affords

\* Tokens that are left are not needed for the bound.
LEMMA AffordsAlone ==
    ASSUME NEW n \in Int, NEW left \in Nat, NEW a \in Nat, NEW t \in Nat, Affords(n, left, a, t)
    PROVE  Affords(n, 0, a, t)
<1>1. PICK x, y, full : x = n * Unit /\ y = (t - a) * Qps /\ full = Burst * Unit
  OBVIOUS
<1>2. t - a \in Int /\ Unit \in Int /\ Qps \in Int
  BY UnitsType
<1>3. x \in Int /\ y \in Int /\ full \in Int
  BY <1>1, <1>2, ProductType, UnitsType
<1>4. x + left <= full + y
  BY <1>1 DEF Affords
<1>5. x + 0 <= full + y
  BY <1>3, <1>4
<1>. QED
  BY <1>1, <1>5 DEF Affords

\* An admission at the present out of a bucket that is at most full.
LEMMA FirstAffords ==
    ASSUME NEW filled \in Nat, NEW t \in Nat, filled <= Burst * Unit, filled >= Unit
    PROVE  Affords(1, filled - Unit, t, t)
<1>1. 1 * Unit = Unit /\ (t - t) * Qps = 0
  BY ProductAdds, UnitsType
<1>2. PICK full \in Nat : full = Burst * Unit
  BY UnitsType
<1>3. Unit + (filled - Unit) <= full + 0
  BY <1>2, UnitsType
<1>. QED
  BY <1>1, <1>2, <1>3 DEF Affords

Paid(b, times) ==
    \A i \in DOMAIN times :
      times[i] <= b.last_refill /\ Affords(Len(times) - i + 1, b.tokens, times[i], b.last_refill)

Bounded(times) ==
    \A i, j \in DOMAIN times : i <= j => Affords(j - i + 1, 0, times[i], times[j])

BucketOK(b, times, t) ==
    /\ times \in Seq(Nat)
    /\ Bounded(times)
    /\ b = NoBucket => times = <<>>
    /\ b # NoBucket =>
         /\ b \in Bucket
         /\ b.tokens <= Burst * Unit /\ b.last_refill <= t
         /\ Paid(b, times)

BucketsInv ==
    /\ now \in Nat
    /\ per_caller \in BOOLEAN
    /\ buckets \in [Keys -> Bucket \union {NoBucket}]
    /\ admitted \in [Keys -> Seq(Nat)]
    /\ request \in [Requesters -> Keys \union {NotCalling}]
    /\ \A r \in Requesters : request[r] # NotCalling => buckets[request[r]] # NoBucket
    /\ \A k \in Keys : BucketOK(buckets[k], admitted[k], now)

\* Without a reset, a thread past the creation has seen the limiter that exists.
GlobalInv ==
    /\ created \in Nat /\ limiter_resets \in Nat
    /\ global_limiter \in Nat \union {NoLimiter}
    /\ getter \in [Requesters -> [at : Places, got : Nat \union {NoLimiter}]]
    /\ created <= limiter_resets + (IF global_limiter = NoLimiter THEN 0 ELSE 1)
    /\ limiter_resets = 0 =>
         \A r \in Requesters :
           /\ getter[r].at \in {"return", "done"} => global_limiter # NoLimiter
           /\ getter[r].at = "done" => getter[r].got = global_limiter

LimiterInv == BucketsInv /\ GlobalInv

\* A bucket refilled to the present without an admission.
LEMMA RefusalKeeps ==
    ASSUME NEW t \in Nat, NEW last \in Nat, NEW left \in Nat, NEW times \in Seq(Nat),
           NEW filled \in Nat, last <= t,
           Paid([tokens |-> left, last_refill |-> last], times),
           filled <= left + (t - last) * Qps
    PROVE  Paid([tokens |-> filled, last_refill |-> t], times)
<1>. SUFFICES ASSUME NEW i \in DOMAIN times
              PROVE  times[i] <= t /\ Affords(Len(times) - i + 1, filled, times[i], t)
  BY DEF Paid
<1>1. times[i] \in Nat /\ Len(times) - i + 1 \in Int
  OBVIOUS
<1>2. times[i] <= last /\ Affords(Len(times) - i + 1, left, times[i], last)
  BY DEF Paid
<1>3. Affords(Len(times) - i + 1, filled, times[i], t)
  BY <1>1, <1>2, RefillAffords
<1>. QED
  BY <1>1, <1>2, <1>3

\* An admission at the present from a bucket that is refilled to it.
LEMMA AdmissionKeeps ==
    ASSUME NEW t \in Nat, NEW times \in Seq(Nat), NEW filled \in Nat,
           filled >= Unit, filled <= Burst * Unit, Bounded(times),
           Paid([tokens |-> filled, last_refill |-> t], times)
    PROVE  /\ Paid([tokens |-> filled - Unit, last_refill |-> t], Append(times, t))
           /\ Bounded(Append(times, t))
           /\ Append(times, t) \in Seq(Nat)
<1>1. PICK new : new = Append(times, t)
  OBVIOUS
<1>2. /\ Len(times) \in Nat /\ Len(new) = Len(times) + 1
      /\ DOMAIN times = 1 .. Len(times) /\ DOMAIN new = 1 .. Len(times) + 1
      /\ \A i \in 1 .. Len(times) : new[i] = times[i]
      /\ new[Len(times) + 1] = t
  BY <1>1, AppendShape
<1>3. Unit \in Nat /\ Unit > 0 /\ filled - Unit \in Nat
  BY UnitsType
<1>4. ASSUME NEW i \in 1 .. Len(times)
      PROVE  new[i] \in Nat /\ new[i] <= t /\ Affords(Len(new) - i + 1, filled - Unit, new[i], t)
  <2>1. new[i] = times[i] /\ times[i] \in Nat
    BY <1>2
  <2>2. new[i] <= t /\ Affords(Len(times) - i + 1, filled, new[i], t)
    BY <1>2, <2>1 DEF Paid
  <2>3. Affords((Len(times) - i + 1) + 1, filled - Unit, new[i], t)
    BY <1>2, <2>1, <2>2, AdmissionAffords
  <2>4. (Len(times) - i + 1) + 1 = Len(new) - i + 1
    BY <1>2
  <2>. QED
    BY <2>1, <2>2, <2>3, <2>4
<1>5. new[Len(new)] = t /\ Len(new) - Len(new) + 1 = 1 /\ Affords(1, filled - Unit, t, t)
  BY <1>2, FirstAffords
<1>6. Paid([tokens |-> filled - Unit, last_refill |-> t], new)
  <2>. SUFFICES ASSUME NEW i \in DOMAIN new
                PROVE  new[i] <= t /\ Affords(Len(new) - i + 1, filled - Unit, new[i], t)
    BY DEF Paid
  <2>1. CASE i \in 1 .. Len(times)
    BY <2>1, <1>4
  <2>2. CASE i = Len(new)
    <3>1. new[i] = t /\ Len(new) - i + 1 = 1
      BY <2>2, <1>5
    <3>. QED
      BY <3>1, <1>5
  <2>. QED
    BY <2>1, <2>2, <1>2
<1>7. Bounded(new)
  <2>. SUFFICES ASSUME NEW i \in DOMAIN new, NEW j \in DOMAIN new, i <= j
                PROVE  Affords(j - i + 1, 0, new[i], new[j])
    BY DEF Bounded
  <2>1. CASE j \in 1 .. Len(times)
    <3>1. i \in 1 .. Len(times)
      BY <2>1, <1>2
    <3>2. Affords(j - i + 1, 0, times[i], times[j])
      BY <2>1, <3>1, <1>2 DEF Bounded
    <3>. QED
      BY <2>1, <3>1, <3>2, <1>2
  <2>2. CASE j = Len(new) /\ i \in 1 .. Len(times)
    <3>1. new[j] = t /\ Affords(j - i + 1, filled - Unit, new[i], t) /\ new[i] \in Nat
      BY <2>2, <1>4, <1>5
    <3>2. j - i + 1 \in Int
      BY <2>2, <1>2
    <3>3. Affords(j - i + 1, 0, new[i], t)
      BY <3>1, <3>2, <1>3, AffordsAlone
    <3>. QED
      BY <3>1, <3>3
  <2>3. CASE j = Len(new) /\ i = Len(new)
    <3>1. new[j] = t /\ new[i] = t /\ j - i + 1 = 1
      BY <2>3, <1>5
    <3>2. Affords(1, 0, t, t)
      BY <1>3, <1>5, AffordsAlone
    <3>. QED
      BY <3>1, <3>2
  <2>. QED
    BY <2>1, <2>2, <2>3, <1>2
<1>. QED
  BY <1>1, <1>6, <1>7, AppendShape

\* A call of consume() keeps a bucket within its rate.
LEMMA ConsumePays ==
    ASSUME NEW k \in Keys, BucketsInv, buckets[k] # NoBucket,
           NEW times,
           times = IF Refilled(buckets[k]) >= Unit THEN Append(admitted[k], now) ELSE admitted[k]
    PROVE  BucketOK(Consumed(k), times, now) /\ Consumed(k) \in Bucket
<1>1. PICK left, last, old :
        left = buckets[k].tokens /\ last = buckets[k].last_refill /\ old = admitted[k]
  OBVIOUS
<1>2. buckets[k] \in Bucket /\ BucketOK(buckets[k], admitted[k], now) /\ now \in Nat
  BY DEF BucketsInv
<1>3. /\ buckets[k] = [tokens |-> left, last_refill |-> last]
      /\ left \in Nat /\ last \in Nat
  BY <1>1, <1>2 DEF Bucket
<1>4. /\ last <= now /\ left <= Burst * Unit /\ old \in Seq(Nat) /\ Bounded(old)
      /\ Paid([tokens |-> left, last_refill |-> last], old)
  BY <1>1, <1>2, <1>3 DEF BucketOK
<1>5. (now - last) * Qps \in Nat
  <2>1. now - last \in Nat
    BY <1>2, <1>3, <1>4
  <2>. QED
    BY <2>1, UnitsType, ProductType
<1>6. PICK filled : filled = Refilled(buckets[k])
  OBVIOUS
<1>7. /\ filled \in Nat /\ filled <= Burst * Unit
      /\ filled <= left + (now - last) * Qps
  <2>1. PICK x, full : x = (now - last) * Qps /\ full = Burst * Unit
    OBVIOUS
  <2>2. filled = IF left + x > full THEN full ELSE left + x
    BY <1>1, <1>6, <2>1 DEF Refilled
  <2>3. x \in Nat /\ full \in Nat
    BY <2>1, <1>5, UnitsType
  <2>. QED
    BY <2>1, <2>2, <2>3, <1>3
<1>8. Paid([tokens |-> filled, last_refill |-> now], old)
  BY <1>2, <1>3, <1>4, <1>7, RefusalKeeps
<1>9. /\ times = IF filled >= Unit THEN Append(old, now) ELSE old
      /\ Consumed(k) = [tokens |-> IF filled >= Unit THEN filled - Unit ELSE filled,
                        last_refill |-> now]
  BY <1>1, <1>6 DEF Consumed
<1>10. CASE ~(filled >= Unit)
  <2>1. Consumed(k) = [tokens |-> filled, last_refill |-> now] /\ times = old
    BY <1>9, <1>10
  <2>2. /\ Consumed(k) \in Bucket /\ Consumed(k) # NoBucket
        /\ Consumed(k).tokens = filled /\ Consumed(k).last_refill = now
    BY <2>1, <1>2, <1>7, LimiterAssumption DEF Bucket
  <2>3. Paid(Consumed(k), times) /\ Bounded(times) /\ times \in Seq(Nat)
    BY <2>1, <1>4, <1>8
  <2>4. now <= now
    BY <1>2
  <2>. QED
    BY <2>2, <2>3, <2>4, <1>7 DEF BucketOK
<1>11. CASE filled >= Unit
  <2>1. Consumed(k) = [tokens |-> filled - Unit, last_refill |-> now] /\ times = Append(old, now)
    BY <1>9, <1>11
  <2>2. filled - Unit \in Nat /\ filled - Unit <= filled
    BY <1>7, <1>11, UnitsType
  <2>3. /\ Consumed(k) \in Bucket /\ Consumed(k) # NoBucket
        /\ Consumed(k).tokens = filled - Unit /\ Consumed(k).last_refill = now
    BY <2>1, <2>2, <1>2, LimiterAssumption DEF Bucket
  <2>4. Paid(Consumed(k), times) /\ Bounded(times)
    BY <2>1, <1>2, <1>4, <1>7, <1>8, <1>11, AdmissionKeeps
  <2>5. times \in Seq(Nat)
    <3>1. Append(old, now) \in Seq(Nat)
      BY <1>2, <1>4, <1>7, <1>8, <1>11, AdmissionKeeps
    <3>. QED
      BY <3>1, <2>1
  <2>6. filled - Unit <= Burst * Unit
    <3>1. PICK full \in Nat : full = Burst * Unit
      BY UnitsType
    <3>. QED
      BY <3>1, <2>2, <1>7, UnitsType
  <2>7. now <= now
    BY <1>2
  <2>. QED
    BY <2>3, <2>4, <2>5, <2>6, <2>7 DEF BucketOK
<1>. QED
  BY <1>10, <1>11

\* A full bucket with a fresh history.
LEMMA FullPays ==
    ASSUME now \in Nat
    PROVE  BucketOK(Full, <<>>, now) /\ Full \in Bucket /\ Full # NoBucket
<1>1. Burst * Unit \in Nat
  BY UnitsType
<1>2. Full \in Bucket /\ Full.tokens = Burst * Unit /\ Full.last_refill = now
  BY <1>1 DEF Full, Bucket
<1>3. Full # NoBucket
  BY <1>2, LimiterAssumption DEF Bucket
<1>4. <<>> \in Seq(Nat) /\ Bounded(<<>>) /\ Paid(Full, <<>>)
  BY DEF Bounded, Paid
<1>. QED
  BY <1>1, <1>2, <1>3, <1>4 DEF BucketOK

\* Time passing asks nothing of a bucket.
LEMMA LaterOK ==
    ASSUME NEW b, NEW times, NEW t \in Nat, NEW u \in Nat, BucketOK(b, times, t), t <= u
    PROVE  BucketOK(b, times, u)
<1>1. CASE b = NoBucket
  BY <1>1 DEF BucketOK
<1>2. CASE b # NoBucket
  <2>1. b \in Bucket /\ b.last_refill <= t
    BY <1>2 DEF BucketOK
  <2>2. b.last_refill \in Nat
    BY <2>1 DEF Bucket
  <2>3. b.last_refill <= u
    BY <2>1, <2>2
  <2>. QED
    BY <1>2, <2>3 DEF BucketOK
<1>. QED
  BY <1>1, <1>2

LEMMA LimiterInvAtFirst == ClockInit /\ LimiterInit => LimiterInv
<1>. SUFFICES ASSUME ClockInit, LimiterInit PROVE LimiterInv
  OBVIOUS
<1>1. now = 0 /\ now \in Nat
  BY DEF ClockInit
<1>2. BucketOK(Full, <<>>, now) /\ Full \in Bucket
  BY <1>1, FullPays
<1>3. BucketOK(NoBucket, <<>>, now)
  BY DEF BucketOK, Bounded
<1>4. buckets = [k \in Keys |-> IF k = "shared" /\ ~per_caller THEN Full ELSE NoBucket]
      /\ admitted = [k \in Keys |-> <<>>] /\ request = [r \in Requesters |-> NotCalling]
      /\ per_caller \in BOOLEAN
  BY DEF LimiterInit
<1>5. BucketsInv
  BY <1>1, <1>2, <1>3, <1>4 DEF BucketsInv
<1>6. GlobalInv
  BY DEF LimiterInit, GlobalInv, Places
<1>. QED
  BY <1>5, <1>6 DEF LimiterInv

LEMMA BucketStepKeeps == LimiterInv /\ BucketNext => LimiterInv'
<1>. SUFFICES ASSUME LimiterInv, BucketNext PROVE LimiterInv'
  OBVIOUS
<1>1. BucketsInv
  BY DEF LimiterInv
<1>2. GlobalInv'
  <2>1. UNCHANGED globalVars
    BY DEF BucketNext, GetBucket, Consume, ResetBucket
  <2>2. UNCHANGED <<global_limiter, getter, created, limiter_resets>>
    BY <2>1 DEF globalVars
  <2>. QED
    BY <2>2 DEF LimiterInv, GlobalInv
<1>3. CASE \E r \in Requesters, c \in Callers : GetBucket(r, c)
  <2>1. PICK r \in Requesters, c \in Callers : GetBucket(r, c)
    BY <1>3
  <2>2. PICK k : k = KeyOf(c)
    OBVIOUS
  <2>3. k \in Keys
    BY <2>2 DEF KeyOf, Keys
  <2>4. /\ request' = [request EXCEPT ![r] = k]
        /\ buckets' = IF buckets[k] = NoBucket THEN [buckets EXCEPT ![k] = Full] ELSE buckets
        /\ UNCHANGED <<now, per_caller, admitted>>
    BY <2>1, <2>2 DEF GetBucket
  <2>5. BucketOK(Full, <<>>, now) /\ Full \in Bucket /\ Full # NoBucket
    BY <1>1, FullPays DEF BucketsInv
  <2>6. /\ buckets' \in [Keys -> Bucket \union {NoBucket}] /\ buckets'[k] # NoBucket
        /\ \A l \in Keys : buckets[l] # NoBucket => buckets'[l] = buckets[l]
        /\ \A l \in Keys : buckets'[l] # buckets[l] =>
             l = k /\ buckets[k] = NoBucket /\ buckets'[k] = Full
    BY <2>3, <2>4, <2>5, <1>1 DEF BucketsInv
  <2>7. ASSUME NEW l \in Keys PROVE BucketOK(buckets'[l], admitted[l], now)
    <3>1. BucketOK(buckets[l], admitted[l], now)
      BY <1>1 DEF BucketsInv
    <3>2. CASE buckets'[l] = buckets[l]
      BY <3>1, <3>2 DEF BucketOK
    <3>3. CASE buckets'[l] # buckets[l]
      <4>1. buckets[l] = NoBucket /\ buckets'[l] = Full
        BY <2>6, <3>3
      <4>2. BucketOK(NoBucket, admitted[l], now)
        BY <3>1, <4>1
      <4>3. admitted[l] = <<>>
        BY <4>2 DEF BucketOK
      <4>. QED
        BY <4>1, <4>3, <2>5
    <3>. QED
      BY <3>2, <3>3
  <2>8. /\ request' \in [Requesters -> Keys \union {NotCalling}]
        /\ \A s \in Requesters : request'[s] # NotCalling => buckets'[request'[s]] # NoBucket
    <3>1. request' \in [Requesters -> Keys \union {NotCalling}]
      BY <1>1, <2>3, <2>4 DEF BucketsInv
    <3>2. ASSUME NEW s \in Requesters, request'[s] # NotCalling
          PROVE  buckets'[request'[s]] # NoBucket
      <4>1. CASE s = r
        BY <4>1, <1>1, <2>4, <2>6 DEF BucketsInv
      <4>2. CASE s # r
        <5>1. request'[s] = request[s] /\ request[s] \in Keys
          BY <4>2, <3>2, <1>1, <2>4 DEF BucketsInv
        <5>2. buckets[request[s]] # NoBucket
          BY <5>1, <3>2, <1>1 DEF BucketsInv
        <5>. QED
          BY <5>1, <5>2, <2>6
      <4>. QED
        BY <4>1, <4>2
    <3>. QED
      BY <3>1, <3>2
  <2>9. BucketsInv'
    BY <1>1, <2>4, <2>6, <2>7, <2>8 DEF BucketsInv
  <2>. QED
    BY <2>9, <1>2 DEF LimiterInv
<1>4. CASE \E r \in Requesters : Consume(r)
  <2>1. PICK r \in Requesters : Consume(r)
    BY <1>4
  <2>2. PICK k : k = request[r]
    OBVIOUS
  <2>3. k \in Keys /\ buckets[k] # NoBucket
    BY <1>1, <2>1, <2>2 DEF Consume, BucketsInv
  <2>4. PICK times :
          times = IF Refilled(buckets[k]) >= Unit THEN Append(admitted[k], now) ELSE admitted[k]
    OBVIOUS
  <2>5. /\ buckets' = [buckets EXCEPT ![k] = Consumed(k)]
        /\ request' = [request EXCEPT ![r] = NotCalling]
        /\ UNCHANGED <<now, per_caller>>
    BY <2>1, <2>2 DEF Consume
  <2>6. admitted' = [admitted EXCEPT ![k] = times]
    <3>1. admitted' = IF Refilled(buckets[k]) >= Unit
                      THEN [admitted EXCEPT ![k] = Append(admitted[k], now)] ELSE admitted
      BY <2>1, <2>2 DEF Consume
    <3>2. admitted = [admitted EXCEPT ![k] = admitted[k]]
      BY <1>1, <2>3 DEF BucketsInv
    <3>. QED
      BY <3>1, <3>2, <2>4
  <2>7. BucketOK(Consumed(k), times, now) /\ Consumed(k) \in Bucket
    BY <1>1, <2>3, <2>4, ConsumePays
  <2>8. Consumed(k) # NoBucket /\ times \in Seq(Nat)
    BY <2>7, LimiterAssumption DEF BucketOK, Bucket
  <2>9. PICK full : full = Consumed(k)
    OBVIOUS
  <2>10. BucketsInv'
    BY <1>1, <2>3, <2>5, <2>6, <2>7, <2>8, <2>9 DEF BucketsInv
  <2>. QED
    BY <2>10, <1>2 DEF LimiterInv
<1>5. CASE \E c \in Callers : ResetBucket(c)
  <2>1. PICK c \in Callers : ResetBucket(c)
    BY <1>5
  <2>2. PICK k : k = IF per_caller /\ c # NoCaller THEN c ELSE "shared"
    OBVIOUS
  <2>3. k \in Keys
    BY <2>2 DEF Keys
  <2>4. /\ buckets' = [buckets EXCEPT ![k] = Full]
        /\ admitted' = [admitted EXCEPT ![k] = <<>>]
        /\ UNCHANGED <<now, per_caller, request>>
    BY <2>1, <2>2 DEF ResetBucket
  <2>5. BucketOK(Full, <<>>, now) /\ Full \in Bucket /\ Full # NoBucket
    BY <1>1, FullPays DEF BucketsInv
  <2>6. BucketsInv'
    BY <1>1, <2>3, <2>4, <2>5 DEF BucketsInv
  <2>. QED
    BY <2>6, <1>2 DEF LimiterInv
<1>6. CASE Tick /\ UNCHANGED <<bucketVars, globalVars>>
  <2>1. /\ now' = now + 1 /\ UNCHANGED <<per_caller, buckets, request, admitted>>
    BY <1>6 DEF Tick, bucketVars
  <2>2. now \in Nat /\ now' \in Nat /\ now <= now'
    BY <1>1, <2>1 DEF BucketsInv
  <2>3. \A k \in Keys : BucketOK(buckets[k], admitted[k], now')
    BY <1>1, <2>2, LaterOK DEF BucketsInv
  <2>4. BucketsInv'
    BY <1>1, <2>1, <2>2, <2>3 DEF BucketsInv
  <2>. QED
    BY <2>4, <1>2 DEF LimiterInv
<1>. QED
  BY <1>3, <1>4, <1>5, <1>6 DEF BucketNext

LEMMA GlobalStepKeeps == LimiterInv /\ GlobalNext => LimiterInv'
<1>. SUFFICES ASSUME LimiterInv, GlobalNext PROVE LimiterInv'
  OBVIOUS
<1>1. BucketsInv'
  <2>1. UNCHANGED <<now, bucketVars>>
    BY DEF GlobalNext, PeekGlobal, LockGlobal, CreateGlobal, ReturnGlobal, ResetGlobal
  <2>2. UNCHANGED <<now, per_caller, buckets, request, admitted>>
    BY <2>1 DEF bucketVars
  <2>. QED
    BY <2>2 DEF LimiterInv, BucketsInv
<1>2. GlobalInv /\ NoLimiter \notin Nat
  BY LimiterAssumption DEF LimiterInv
<1>3. ASSUME NEW r \in Requesters, PeekGlobal(r) PROVE GlobalInv'
  BY <1>2, <1>3 DEF PeekGlobal, Goto, GlobalInv, Places
<1>4. ASSUME NEW r \in Requesters, LockGlobal(r) PROVE GlobalInv'
  BY <1>2, <1>4 DEF LockGlobal, Goto, GlobalInv, Places
<1>5. ASSUME NEW r \in Requesters, CreateGlobal(r) PROVE GlobalInv'
  <2>1. getter' = [getter EXCEPT ![r].at = "return"] /\ UNCHANGED limiter_resets
        /\ getter[r].at = "create"
    BY <1>5 DEF CreateGlobal, Goto
  <2>2. \/ global_limiter = NoLimiter /\ created' = created + 1 /\ global_limiter' = created + 1
        \/ global_limiter # NoLimiter /\ UNCHANGED <<created, global_limiter>>
    BY <1>5 DEF CreateGlobal
  <2>3. CASE global_limiter = NoLimiter /\ created' = created + 1 /\ global_limiter' = created + 1
    BY <1>2, <2>1, <2>3 DEF GlobalInv, Places
  <2>4. CASE global_limiter # NoLimiter /\ UNCHANGED <<created, global_limiter>>
    BY <1>2, <2>1, <2>4 DEF GlobalInv, Places
  <2>. QED
    BY <2>2, <2>3, <2>4
<1>6. ASSUME NEW r \in Requesters, ReturnGlobal(r) PROVE GlobalInv'
  BY <1>2, <1>6 DEF ReturnGlobal, GlobalInv, Places
<1>7. ASSUME ResetGlobal PROVE GlobalInv'
  BY <1>2, <1>7 DEF ResetGlobal, GlobalInv
<1>8. GlobalInv'
  BY <1>3, <1>4, <1>5, <1>6, <1>7 DEF GlobalNext
<1>. QED
  BY <1>1, <1>8 DEF LimiterInv

LEMMA LimiterStill == LimiterInv /\ UNCHANGED limiterVars => LimiterInv'
  BY DEF LimiterInv, BucketsInv, GlobalInv, limiterVars, bucketVars, globalVars

\* The invariant says what the rate limiter promises.
LEMMA LimiterInvSuffices == LimiterInv => AdmissionExact
<1>. SUFFICES ASSUME LimiterInv PROVE AdmissionExact
  OBVIOUS
<1>1. AdmissionBounded
  <2>. SUFFICES ASSUME NEW k \in Keys, NEW i \in DOMAIN admitted[k], NEW j \in DOMAIN admitted[k],
                       i <= j
                PROVE  (j - i + 1) * Unit
                         <= Burst * Unit + (admitted[k][j] - admitted[k][i]) * Qps
    BY DEF AdmissionBounded
  <2>1. BucketOK(buckets[k], admitted[k], now)
    BY DEF LimiterInv, BucketsInv
  <2>2. admitted[k] \in Seq(Nat) /\ Affords(j - i + 1, 0, admitted[k][i], admitted[k][j])
    BY <2>1 DEF BucketOK, Bounded
  <2>3. i \in Int /\ j \in Int /\ Unit \in Int
    BY <2>2, UnitsType
  <2>4. (j - i + 1) * Unit \in Int
    BY <2>3, ProductType
  <2>5. PICK x \in Int : x = (j - i + 1) * Unit
    BY <2>4
  <2>. QED
    BY <2>2, <2>5 DEF Affords
<1>2. OneGlobalLimiter
  <2>1. GlobalInv /\ NoLimiter \notin Nat
    BY LimiterAssumption DEF LimiterInv
  <2>2. created <= 1 + limiter_resets
    BY <2>1 DEF GlobalInv
  <2>3. ASSUME limiter_resets = 0, NEW r \in Requesters, NEW s \in Requesters,
               getter[r].at = "done", getter[s].at = "done"
        PROVE  getter[r].got = getter[s].got /\ getter[r].got # NoLimiter
    BY <2>1, <2>3 DEF GlobalInv
  <2>. QED
    BY <2>2, <2>3 DEF OneGlobalLimiter
<1>. QED
  BY <1>1, <1>2 DEF AdmissionExact

\* No bucket admits more than its burst and its refill, and the process has one
\* global limiter (rate_limiter.py).
THEOREM AdmissionCorrect == LimiterSpec => []AdmissionExact
<1>1. LimiterInv /\ [LimiterNext]_limiterVars => LimiterInv'
  BY BucketStepKeeps, GlobalStepKeeps, LimiterStill DEF LimiterNext
<1>. QED
  BY <1>1, LimiterInvAtFirst, LimiterInvSuffices, PTL DEF LimiterSpec
-----------------------------------------------------------------------------
(***************************************************************************)
(* The audit chain.  The archive is the history of all records; what the   *)
(* log keeps of it is its end, and the rotation records know the rest.     *)
(***************************************************************************)
IsSeq(s) == s \in Seq(Range(s))

LEMMA AppendAny ==
    ASSUME NEW s, IsSeq(s), NEW x
    PROVE  /\ IsSeq(Append(s, x))
           /\ Len(s) \in Nat /\ Len(Append(s, x)) = Len(s) + 1
           /\ DOMAIN s = 1 .. Len(s)
           /\ DOMAIN Append(s, x) = 1 .. Len(s) + 1
           /\ \A i \in 1 .. Len(s) : Append(s, x)[i] = s[i]
           /\ Append(s, x)[Len(s) + 1] = x
<1>1. PICK S : S = Range(s) \union {x}
  OBVIOUS
<1>2. s \in Seq(S) /\ x \in S
  <2>1. Range(s) \subseteq S /\ s \in Seq(Range(s))
    BY <1>1 DEF IsSeq
  <2>2. Len(s) \in Nat /\ s = [i \in 1 .. Len(s) |-> s[i]] /\ \A i \in 1 .. Len(s) : s[i] \in S
    BY <2>1
  <2>. QED
    BY <1>1, <2>2
<1>3. PICK new : new = Append(s, x)
  OBVIOUS
<1>4. /\ new \in Seq(S)
      /\ Len(s) \in Nat /\ Len(new) = Len(s) + 1
      /\ DOMAIN s = 1 .. Len(s) /\ DOMAIN new = 1 .. Len(s) + 1
      /\ \A i \in 1 .. Len(s) : new[i] = s[i]
      /\ new[Len(s) + 1] = x
  BY <1>2, <1>3, AppendShape
<1>5. new \in Seq(Range(new))
  <2>1. Len(new) \in Nat /\ new = [i \in 1 .. Len(new) |-> new[i]]
    BY <1>4
  <2>2. \A i \in 1 .. Len(new) : new[i] \in Range(new)
    BY <1>4 DEF Range
  <2>. QED
    BY <2>1, <2>2
<1>. QED
  BY <1>3, <1>4, <1>5 DEF IsSeq

LEMMA NothingIsSeq == IsSeq(<<>>) /\ Len(<<>>) = 0
<1>1. <<>> \in Seq(Range(<<>>))
  OBVIOUS
<1>. QED
  BY <1>1 DEF IsSeq

\* The record at place i of an archive.
RecordOK(arch, i) ==
    /\ arch[i].sequence = i - 1
    /\ arch[i].previous_hmac = IF i = 1 THEN NoSignature ELSE arch[i - 1].hmac
    /\ arch[i].hmac = Sign(arch[i].sequence, arch[i].event, arch[i].previous_hmac)

\* The records that a sequence of rotations has taken away.
Away(rots) == IF rots = <<>> THEN 0 ELSE rots[Len(rots)].last_sequence + 1

RotationOK(rots, arch, k) ==
    /\ rots[k].last_sequence \in Nat /\ rots[k].last_sequence < Len(arch)
    /\ rots[k].last_hmac = arch[rots[k].last_sequence + 1].hmac
    /\ rots[k].first_sequence = IF k = 1 THEN 0 ELSE rots[k - 1].last_sequence + 1
    /\ rots[k].record_count = rots[k].last_sequence - rots[k].first_sequence + 1

ArchiveOK(arch) == IsSeq(arch) /\ \A i \in 1 .. Len(arch) : RecordOK(arch, i)
RotationsOK(rots, arch) == IsSeq(rots) /\ \A k \in 1 .. Len(rots) : RotationOK(rots, arch, k)
SegmentOK(recs, rots, arch) ==
    /\ IsSeq(recs)
    /\ Away(rots) + Len(recs) = Len(arch)
    /\ \A i \in 1 .. Len(recs) : recs[i] = arch[Away(rots) + i]

AuditInv ==
    /\ max_records \in Nat
    /\ ArchiveOK(archive) /\ RotationsOK(rotations, archive)
    /\ SegmentOK(records, rotations, archive)
    /\ sequence = Len(archive)
    /\ max_records > 0 => Len(records) <= max_records

LEMMA AwayType ==
    ASSUME NEW rots, NEW arch, RotationsOK(rots, arch)
    PROVE  /\ Away(rots) \in Nat /\ Len(rots) \in Nat
           /\ rots # <<>> => Len(rots) > 0 /\ RotationOK(rots, arch, Len(rots))
                             /\ Away(rots) = rots[Len(rots)].last_sequence + 1
           /\ rots = <<>> => Len(rots) = 0 /\ Away(rots) = 0
<1>1. Len(rots) \in Nat /\ (rots # <<>> => Len(rots) > 0) /\ (rots = <<>> => Len(rots) = 0)
  BY DEF RotationsOK, IsSeq
<1>2. rots # <<>> => RotationOK(rots, arch, Len(rots))
  BY <1>1 DEF RotationsOK
<1>. QED
  BY <1>1, <1>2 DEF Away, RotationOK

\* The signature that the next record is chained to is that of the record
\* before it in the archive, in the log or rotated away.
LEMMA PreviousIsLast ==
    ASSUME NEW recs, NEW rots, NEW arch,
           ArchiveOK(arch), RotationsOK(rots, arch), SegmentOK(recs, rots, arch)
    PROVE  Previous(recs, rots) = IF Len(arch) = 0 THEN NoSignature ELSE arch[Len(arch)].hmac
<1>1. /\ Len(recs) \in Nat /\ Len(arch) \in Nat
      /\ recs # <<>> => Len(recs) > 0
      /\ recs = <<>> => Len(recs) = 0
  BY DEF SegmentOK, ArchiveOK, IsSeq
<1>2. Away(rots) \in Nat /\ Away(rots) + Len(recs) = Len(arch)
  BY AwayType DEF SegmentOK
<1>3. CASE recs # <<>>
  <2>1. recs[Len(recs)] = arch[Away(rots) + Len(recs)] /\ Len(arch) # 0
    BY <1>1, <1>2, <1>3 DEF SegmentOK
  <2>. QED
    BY <2>1, <1>2, <1>3 DEF Previous, Last
<1>4. CASE recs = <<>> /\ rots # <<>>
  <2>1. /\ Away(rots) = Len(arch) /\ Away(rots) = rots[Len(rots)].last_sequence + 1
        /\ rots[Len(rots)].last_hmac = arch[rots[Len(rots)].last_sequence + 1].hmac
        /\ rots[Len(rots)].last_sequence \in Nat
    BY <1>1, <1>2, <1>4, AwayType DEF RotationOK
  <2>. QED
    BY <2>1, <1>4 DEF Previous, Last
<1>5. CASE recs = <<>> /\ rots = <<>>
  BY <1>1, <1>2, <1>5, AwayType DEF Previous
<1>. QED
  BY <1>3, <1>4, <1>5

\* rotate() keeps the books: the records taken away are those up to the archive's end.
LEMMA RotationKeeps ==
    ASSUME ArchiveOK(archive), RotationsOK(rotations, archive),
           SegmentOK(records, rotations, archive), records # <<>>
    PROVE  /\ RotationsOK(Append(rotations, RotationRecord), archive)
           /\ SegmentOK(<<>>, Append(rotations, RotationRecord), archive)
<1>1. PICK arch, recs, rots, r, new :
        /\ arch = archive /\ recs = records /\ rots = rotations /\ r = RotationRecord
        /\ new = Append(rots, r)
  OBVIOUS
<1>2. /\ ArchiveOK(arch) /\ RotationsOK(rots, arch) /\ SegmentOK(recs, rots, arch)
      /\ recs # <<>>
  BY <1>1
<1>3. /\ r.record_count = Len(recs) /\ r.first_sequence = recs[1].sequence
      /\ r.last_sequence = recs[Len(recs)].sequence /\ r.last_hmac = recs[Len(recs)].hmac
  BY <1>1, <1>2 DEF RotationRecord, Last, SegmentOK, IsSeq
<1>4. /\ Len(recs) \in Nat /\ Len(recs) > 0 /\ Len(arch) \in Nat
      /\ Away(rots) \in Nat /\ Away(rots) + Len(recs) = Len(arch)
  BY <1>2, AwayType DEF SegmentOK, ArchiveOK, IsSeq
<1>5. /\ recs[1] = arch[Away(rots) + 1] /\ recs[Len(recs)] = arch[Len(arch)]
      /\ RecordOK(arch, Away(rots) + 1) /\ RecordOK(arch, Len(arch))
  BY <1>2, <1>4 DEF SegmentOK, ArchiveOK
<1>6. /\ r.first_sequence = Away(rots) /\ r.last_sequence = Len(arch) - 1
      /\ r.last_hmac = arch[Len(arch)].hmac
  BY <1>3, <1>4, <1>5 DEF RecordOK
<1>7. /\ IsSeq(new) /\ Len(rots) \in Nat /\ Len(new) = Len(rots) + 1
      /\ \A k \in 1 .. Len(rots) : new[k] = rots[k]
      /\ new[Len(rots) + 1] = r
  BY <1>1, <1>2, AppendAny DEF RotationsOK
<1>8. RotationOK(new, arch, Len(new))
  <2>1. /\ r.last_sequence \in Nat /\ r.last_sequence < Len(arch)
        /\ r.last_sequence + 1 = Len(arch)
        /\ r.record_count = r.last_sequence - r.first_sequence + 1
    BY <1>3, <1>4, <1>6
  <2>2. r.first_sequence = IF Len(new) = 1 THEN 0 ELSE new[Len(new) - 1].last_sequence + 1
    <3>1. CASE rots = <<>>
      BY <3>1, <1>2, <1>6, <1>7, AwayType
    <3>2. CASE rots # <<>>
      <4>1. Len(rots) > 0 /\ Away(rots) = rots[Len(rots)].last_sequence + 1
        BY <3>2, <1>2, AwayType
      <4>2. new[Len(new) - 1] = rots[Len(rots)] /\ Len(new) # 1
        BY <4>1, <1>7
      <4>. QED
        BY <4>1, <4>2, <1>6
    <3>. QED
      BY <3>1, <3>2
  <2>3. new[Len(new)] = r
    BY <1>7
  <2>. QED
    BY <2>1, <2>2, <2>3, <1>6 DEF RotationOK
<1>9. RotationsOK(new, arch)
  <2>1. ASSUME NEW k \in 1 .. Len(rots) PROVE RotationOK(new, arch, k)
    <3>1. RotationOK(rots, arch, k) /\ new[k] = rots[k]
      BY <1>2, <1>7 DEF RotationsOK
    <3>2. k # 1 => new[k - 1] = rots[k - 1]
      BY <1>7
    <3>. QED
      BY <3>1, <3>2 DEF RotationOK
  <2>2. ASSUME NEW k \in 1 .. Len(new) PROVE RotationOK(new, arch, k)
    BY <2>1, <1>7, <1>8
  <2>. QED
    BY <2>2, <1>7 DEF RotationsOK
<1>10. SegmentOK(<<>>, new, arch)
  <2>1. new # <<>> /\ Away(new) = Len(arch)
    BY <1>4, <1>6, <1>7 DEF Away
  <2>. QED
    BY <2>1, <1>4, NothingIsSeq DEF SegmentOK
<1>. QED
  BY <1>1, <1>9, <1>10

\* Appending a record keeps them.
LEMMA RecordKeeps ==
    ASSUME NEW recs, NEW rots, NEW arch, NEW event, NEW record,
           ArchiveOK(arch), RotationsOK(rots, arch), SegmentOK(recs, rots, arch),
           record.sequence = Len(arch), record.event = event,
           record.previous_hmac = Previous(recs, rots),
           record.hmac = Sign(Len(arch), event, Previous(recs, rots))
    PROVE  /\ ArchiveOK(Append(arch, record))
           /\ RotationsOK(rots, Append(arch, record))
           /\ SegmentOK(Append(recs, record), rots, Append(arch, record))
<1>1. PICK new, kept : new = Append(arch, record) /\ kept = Append(recs, record)
  OBVIOUS
<1>2. /\ IsSeq(new) /\ Len(arch) \in Nat /\ Len(new) = Len(arch) + 1
      /\ \A i \in 1 .. Len(arch) : new[i] = arch[i]
      /\ new[Len(arch) + 1] = record
  BY <1>1, AppendAny DEF ArchiveOK
<1>3. RecordOK(new, Len(new))
  <2>1. record.previous_hmac = IF Len(arch) = 0 THEN NoSignature ELSE arch[Len(arch)].hmac
    BY PreviousIsLast
  <2>2. new[Len(new)] = record /\ Len(new) - 1 = Len(arch)
    BY <1>2
  <2>3. Len(arch) # 0 => new[Len(new) - 1] = arch[Len(arch)]
    BY <1>2
  <2>. QED
    BY <2>1, <2>2, <2>3, <1>2 DEF RecordOK
<1>4. ArchiveOK(new)
  <2>1. ASSUME NEW i \in 1 .. Len(arch) PROVE RecordOK(new, i)
    <3>1. RecordOK(arch, i) /\ new[i] = arch[i]
      BY <1>2 DEF ArchiveOK
    <3>2. i # 1 => new[i - 1] = arch[i - 1]
      BY <1>2
    <3>. QED
      BY <3>1, <3>2 DEF RecordOK
  <2>2. ASSUME NEW i \in 1 .. Len(new) PROVE RecordOK(new, i)
    BY <2>1, <1>2, <1>3
  <2>. QED
    BY <2>2, <1>2 DEF ArchiveOK
<1>5. RotationsOK(rots, new)
  <2>1. ASSUME NEW k \in 1 .. Len(rots) PROVE RotationOK(rots, new, k)
    <3>1. RotationOK(rots, arch, k)
      BY DEF RotationsOK
    <3>2. rots[k].last_sequence \in Nat /\ rots[k].last_sequence < Len(arch)
      BY <3>1 DEF RotationOK
    <3>3. new[rots[k].last_sequence + 1] = arch[rots[k].last_sequence + 1]
          /\ rots[k].last_sequence < Len(new)
      BY <3>2, <1>2
    <3>. QED
      BY <3>1, <3>3 DEF RotationOK
  <2>. QED
    BY <2>1 DEF RotationsOK
<1>6. SegmentOK(kept, rots, new)
  <2>1. /\ IsSeq(kept) /\ Len(recs) \in Nat /\ Len(kept) = Len(recs) + 1
        /\ \A i \in 1 .. Len(recs) : kept[i] = recs[i]
        /\ kept[Len(recs) + 1] = record
    BY <1>1, AppendAny DEF SegmentOK
  <2>2. Away(rots) \in Nat /\ Away(rots) + Len(recs) = Len(arch)
    BY AwayType DEF SegmentOK
  <2>3. ASSUME NEW i \in 1 .. Len(recs) PROVE kept[i] = new[Away(rots) + i]
    <3>1. recs[i] = arch[Away(rots) + i] /\ Away(rots) + i \in 1 .. Len(arch)
      BY <2>1, <2>2 DEF SegmentOK
    <3>. QED
      BY <3>1, <2>1, <1>2
  <2>4. kept[Len(kept)] = new[Away(rots) + Len(kept)]
    BY <2>1, <2>2, <1>2
  <2>5. ASSUME NEW i \in 1 .. Len(kept) PROVE kept[i] = new[Away(rots) + i]
    BY <2>1, <2>3, <2>4
  <2>. QED
    BY <2>1, <2>2, <2>5, <1>2 DEF SegmentOK
<1>. QED
  BY <1>1, <1>4, <1>5, <1>6

LEMMA AuditInvAtFirst == AuditInit => AuditInv
<1>. SUFFICES ASSUME AuditInit PROVE AuditInv
  OBVIOUS
<1>1. /\ max_records \in Nat /\ records = <<>> /\ rotations = <<>> /\ archive = <<>>
      /\ sequence = 0
  BY AuditAssumption DEF AuditInit
<1>2. IsSeq(<<>>) /\ Len(<<>>) = 0 /\ Away(<<>>) = 0
  BY NothingIsSeq DEF Away
<1>3. ArchiveOK(<<>>) /\ RotationsOK(<<>>, <<>>) /\ SegmentOK(<<>>, <<>>, <<>>)
  BY <1>2 DEF ArchiveOK, RotationsOK, SegmentOK
<1>4. max_records > 0 => 0 <= max_records
  BY <1>1
<1>. QED
  BY <1>1, <1>2, <1>3, <1>4 DEF AuditInv

LEMMA AuditNextKeeps == AuditInv /\ [AuditNext]_auditVars => AuditInv'
<1>. SUFFICES ASSUME AuditInv, [AuditNext]_auditVars PROVE AuditInv'
  OBVIOUS
<1>1. /\ ArchiveOK(archive) /\ RotationsOK(rotations, archive)
      /\ SegmentOK(records, rotations, archive)
      /\ max_records \in Nat /\ sequence = Len(archive)
      /\ max_records > 0 => Len(records) <= max_records
  BY DEF AuditInv
<1>2. CASE Rotate
  <2>1. /\ records # <<>> /\ rotations' = Append(rotations, RotationRecord)
        /\ records' = <<>> /\ UNCHANGED <<max_records, sequence, archive>>
    BY <1>2 DEF Rotate
  <2>2. RotationsOK(rotations', archive) /\ SegmentOK(records', rotations', archive)
    BY <1>1, <2>1, RotationKeeps
  <2>3. max_records > 0 => Len(records') <= max_records
    BY <1>1, <2>1
  <2>. QED
    BY <1>1, <2>1, <2>2, <2>3 DEF AuditInv
<1>3. ASSUME NEW event \in Events, AppendRecord(event) PROVE AuditInv'
  <2>0. PICK full \in BOOLEAN : full <=> max_records > 0 /\ Len(records) >= max_records
    OBVIOUS
  <2>1. PICK recs, rots, previous, record :
          /\ recs = IF full THEN <<>> ELSE records
          /\ rots = IF full THEN Append(rotations, RotationRecord) ELSE rotations
          /\ previous = Previous(recs, rots)
          /\ record = [sequence |-> sequence, event |-> event, previous_hmac |-> previous,
                       hmac |-> Sign(sequence, event, previous)]
          /\ records' = Append(recs, record) /\ rotations' = rots
          /\ archive' = Append(archive, record)
          /\ sequence' = sequence + 1 /\ UNCHANGED max_records
    BY <1>3, <2>0 DEF AppendRecord
  <2>2. RotationsOK(rots, archive) /\ SegmentOK(recs, rots, archive)
    <3>1. CASE full
      <4>1. Len(records) > 0
        BY <1>1, <2>0, <3>1 DEF SegmentOK, IsSeq
      <4>2. records # <<>>
        BY <4>1
      <4>. QED
        BY <4>2, <1>1, <2>1, <3>1, RotationKeeps
    <3>2. CASE ~full
      BY <1>1, <2>1, <3>2
    <3>. QED
      BY <3>1, <3>2
  <2>3. /\ record.sequence = Len(archive) /\ record.event = event
        /\ record.previous_hmac = Previous(recs, rots)
        /\ record.hmac = Sign(Len(archive), event, Previous(recs, rots))
    BY <1>1, <2>1
  <2>4. /\ ArchiveOK(archive') /\ RotationsOK(rotations', archive')
        /\ SegmentOK(records', rotations', archive')
    BY <1>1, <2>1, <2>2, <2>3, RecordKeeps
  <2>5. sequence' = Len(archive')
    BY <1>1, <2>1, AppendAny DEF ArchiveOK
  <2>6. max_records > 0 => Len(records') <= max_records
    <3>1. Len(records') = Len(recs) + 1 /\ Len(recs) \in Nat
      BY <2>1, <2>2, AppendAny DEF SegmentOK
    <3>2. CASE full
      BY <1>1, <2>1, <3>1, <3>2, NothingIsSeq
    <3>3. CASE ~full
      BY <1>1, <2>0, <2>1, <3>1, <3>3
    <3>. QED
      BY <3>2, <3>3
  <2>. QED
    BY <1>1, <2>1, <2>4, <2>5, <2>6 DEF AuditInv
<1>4. CASE UNCHANGED auditVars
  BY <1>1, <1>4 DEF AuditInv, auditVars
<1>. QED
  BY <1>2, <1>3, <1>4 DEF AuditNext

LEMMA AuditInvSuffices == AuditInv => ChainUnbroken
<1>. SUFFICES ASSUME AuditInv PROVE ChainUnbroken
  OBVIOUS
<1>1. /\ ArchiveOK(archive) /\ RotationsOK(rotations, archive)
      /\ SegmentOK(records, rotations, archive)
      /\ sequence = Len(archive)
      /\ max_records > 0 => Len(records) <= max_records
  BY DEF AuditInv
<1>2. /\ DOMAIN records = 1 .. Len(records) /\ DOMAIN rotations = 1 .. Len(rotations)
      /\ DOMAIN archive = 1 .. Len(archive)
      /\ Len(records) \in Nat /\ Len(rotations) \in Nat /\ Len(archive) \in Nat
  BY <1>1 DEF ArchiveOK, RotationsOK, SegmentOK, IsSeq
<1>3. /\ RotatedAway = Away(rotations) /\ RotatedAway \in Nat
      /\ RotatedAway + Len(records) = Len(archive)
  BY <1>1, AwayType DEF RotatedAway, Away, Last, SegmentOK
<1>4. \A i \in DOMAIN records : records[i] = archive[RotatedAway + i]
  BY <1>1, <1>2, <1>3 DEF SegmentOK
<1>5. ASSUME NEW i \in DOMAIN records
      PROVE  LET r == records[i]
                 expected == IF i = 1 THEN Previous(<<>>, rotations) ELSE records[i - 1].hmac
             IN  r.previous_hmac = expected /\ r.hmac = Sign(r.sequence, r.event, r.previous_hmac)
  <2>1. PICK away \in Nat : away = RotatedAway
    BY <1>3
  <2>2. PICK p : p = away + i
    OBVIOUS
  <2>3. i \in 1 .. Len(records) /\ p \in 1 .. Len(archive) /\ records[i] = archive[p]
    BY <2>1, <2>2, <1>2, <1>3, <1>4
  <2>4. /\ records[i].previous_hmac = IF p = 1 THEN NoSignature ELSE archive[p - 1].hmac
        /\ records[i].hmac = Sign(records[i].sequence, records[i].event, records[i].previous_hmac)
    BY <2>3, <1>1 DEF ArchiveOK, RecordOK
  <2>5. CASE i = 1 /\ rotations = <<>>
    <3>1. RotatedAway = 0 /\ Previous(<<>>, rotations) = NoSignature
      BY <2>5, <1>1, <1>3, AwayType DEF Previous
    <3>2. p = 1
      BY <3>1, <2>1, <2>2, <2>5
    <3>. QED
      BY <3>1, <3>2, <2>4, <2>5
  <2>6. CASE i = 1 /\ rotations # <<>>
    <3>1. /\ away = rotations[Len(rotations)].last_sequence + 1
          /\ RotationOK(rotations, archive, Len(rotations))
      BY <2>6, <2>1, <1>1, <1>3, AwayType
    <3>2. Previous(<<>>, rotations) = archive[away].hmac
      BY <3>1, <2>6 DEF Previous, Last, RotationOK
    <3>3. rotations[Len(rotations)].last_sequence \in Nat
      BY <3>1 DEF RotationOK
    <3>4. p # 1 /\ p - 1 = away
      BY <3>1, <3>3, <2>2, <2>6
    <3>. QED
      BY <3>2, <3>4, <2>4, <2>6
  <2>7. CASE i # 1
    <3>1. i - 1 \in DOMAIN records /\ p # 1 /\ away + (i - 1) = p - 1
      BY <2>1, <2>2, <2>3, <2>7, <1>2
    <3>2. records[i - 1] = archive[p - 1]
      BY <3>1, <2>1, <1>4
    <3>. QED
      BY <3>1, <3>2, <2>4, <2>7
  <2>. QED
    BY <2>5, <2>6, <2>7
<1>6. Verifies
  BY <1>5 DEF Verifies
<1>7. \A i \in DOMAIN archive : RecordOK(archive, i)
  BY <1>1, <1>2 DEF ArchiveOK
<1>8. \A k \in DOMAIN rotations : RotationOK(rotations, archive, k)
  BY <1>1, <1>2 DEF RotationsOK
<1>. QED
  BY <1>1, <1>3, <1>4, <1>6, <1>7, <1>8 DEF ChainUnbroken, RecordOK, RotationOK

\* The audit chain verifies over every rotation (audit_chain.py).
THEOREM ChainCorrect == AuditSpec => []ChainUnbroken
  BY AuditInvAtFirst, AuditNextKeeps, AuditInvSuffices, PTL DEF AuditSpec
-----------------------------------------------------------------------------
(***************************************************************************)
(* The intent registry.  Every intent that is held has the number of its   *)
(* registration, and the registration was told of the earlier ones of      *)
(* other agents that are still held; paths are as the registry spells them.*)
(***************************************************************************)
Intent == [agent : Agents, number : Nat]

\* The intents held on one file, as far as n registrations and what they were told.
HeldOK(held, n, tellings) ==
    /\ held # {} /\ IsFiniteSet(held)
    /\ held \subseteq Intent
    /\ \A i \in held : 1 <= i.number /\ i.number <= n
    /\ \A i, j \in held :
         /\ i.number = j.number => i = j
         /\ i.number < j.number /\ i.agent # j.agent => i.number \in tellings[j.number]

IntentInv ==
    /\ announced \in Nat
    /\ IsSeq(told) /\ Len(told) = announced
    /\ \A f \in DOMAIN intents :
         HeldOK(intents[f], announced, told) /\ f \in Spellings /\ (rooted => f[2] = "relative")

\* Releasing intents leaves the rest as it was.
LEMMA ReleaseKeeps ==
    ASSUME NEW held, NEW n, NEW tellings, NEW rest, HeldOK(held, n, tellings),
           rest \subseteq held, rest # {}
    PROVE  HeldOK(rest, n, tellings)
<1>1. IsFiniteSet(rest)
  BY FS_Subset DEF HeldOK
<1>. QED
  BY <1>1 DEF HeldOK

\* A registration adds an intent that was told of all it conflicts with.
LEMMA RegisterKeeps ==
    ASSUME NEW held, NEW n \in Nat, NEW tellings, NEW a \in Agents,
           held = {} \/ HeldOK(held, n, tellings), IsSeq(tellings), Len(tellings) = n
    PROVE  HeldOK(held \union {[agent |-> a, number |-> n + 1]}, n + 1,
                  Append(tellings, {i.number : i \in Conflicts(a, held)}))
<1>1. PICK intent, more, numbers, after :
        /\ intent = [agent |-> a, number |-> n + 1] /\ more = held \union {intent}
        /\ numbers = {i.number : i \in Conflicts(a, held)} /\ after = Append(tellings, numbers)
  OBVIOUS
<1>2. /\ IsFiniteSet(held) /\ held \subseteq Intent
      /\ \A i \in held : 1 <= i.number /\ i.number <= n /\ i.number \in Nat
      /\ \A i, j \in held :
           /\ i.number = j.number => i = j
           /\ i.number < j.number /\ i.agent # j.agent => i.number \in tellings[j.number]
  BY FS_EmptySet DEF HeldOK, Intent
<1>3. /\ \A k \in 1 .. n : after[k] = tellings[k]
      /\ after[n + 1] = numbers
  BY <1>1, AppendAny
<1>4. intent \in Intent /\ intent.number = n + 1 /\ intent.agent = a
  BY <1>1 DEF Intent
<1>5. more # {} /\ IsFiniteSet(more) /\ more \subseteq Intent
  BY <1>1, <1>2, <1>4, FS_AddElement
<1>6. ASSUME NEW i \in more PROVE 1 <= i.number /\ i.number <= n + 1 /\ i.number \in Nat
  BY <1>1, <1>2, <1>4
<1>7. ASSUME NEW i \in more, NEW j \in more
      PROVE  /\ i.number = j.number => i = j
             /\ i.number < j.number /\ i.agent # j.agent => i.number \in after[j.number]
  <2>1. CASE i \in held /\ j \in held
    <3>1. j.number \in 1 .. n
      BY <2>1, <1>2
    <3>. QED
      BY <3>1, <2>1, <1>2, <1>3
  <2>2. CASE i \in held /\ j = intent
    <3>1. i.number # j.number /\ after[j.number] = numbers /\ j.agent = a
      BY <2>2, <1>2, <1>3, <1>4
    <3>2. i.agent # a => i.number \in numbers
      BY <2>2, <1>1 DEF Conflicts
    <3>. QED
      BY <3>1, <3>2
  <2>3. CASE i = intent /\ j \in held
    <3>1. j.number < i.number /\ j.number \in Nat /\ i.number \in Nat
      BY <2>3, <1>2, <1>4
    <3>. QED
      BY <3>1
  <2>4. CASE i = intent /\ j = intent
    BY <2>4, <1>4
  <2>. QED
    BY <2>1, <2>2, <2>3, <2>4, <1>1
<1>8. HeldOK(more, n + 1, after)
  BY <1>5, <1>6, <1>7 DEF HeldOK
<1>. QED
  BY <1>1, <1>8

\* What was told to others before does not change.
LEMMA OthersToldAsBefore ==
    ASSUME NEW held, NEW n \in Nat, NEW tellings, NEW numbers, HeldOK(held, n, tellings),
           IsSeq(tellings), Len(tellings) = n
    PROVE  HeldOK(held, n + 1, Append(tellings, numbers))
<1>1. PICK after : after = Append(tellings, numbers)
  OBVIOUS
<1>2. \A k \in 1 .. n : after[k] = tellings[k]
  BY <1>1, AppendAny
<1>3. \A i \in held : i.number \in 1 .. n /\ i.number <= n + 1
  BY DEF HeldOK, Intent
<1>4. HeldOK(held, n + 1, after)
  BY <1>2, <1>3 DEF HeldOK
<1>. QED
  BY <1>1, <1>4

LEMMA IntentInvAtFirst == IntentInit => IntentInv
  BY NothingIsSeq DEF IntentInit, IntentInv, NoIntents

LEMMA WithoutAgentKeeps ==
    ASSUME IntentInv, NEW a, NEW fs, intents' = WithoutAgent(a, fs),
           UNCHANGED <<rooted, announced, told>>
    PROVE  IntentInv'
<1>1. ASSUME NEW f \in DOMAIN intents'
      PROVE  HeldOK(intents'[f], announced, told) /\ f \in Spellings /\ (rooted => f[2] = "relative")
  <2>1. PICK rest : rest = IF f \in fs THEN Conflicts(a, intents[f]) ELSE intents[f]
    OBVIOUS
  <2>2. f \in DOMAIN intents /\ intents'[f] = rest /\ rest # {}
    BY <2>1 DEF WithoutAgent
  <2>3. rest \subseteq intents[f]
    BY <2>1 DEF Conflicts
  <2>4. HeldOK(intents[f], announced, told) /\ f \in Spellings /\ (rooted => f[2] = "relative")
    BY <2>2 DEF IntentInv
  <2>. QED
    BY <2>2, <2>3, <2>4, ReleaseKeeps
<1>. QED
  BY <1>1 DEF IntentInv

LEMMA IntentNextKeeps == IntentInv /\ [IntentNext]_intentVars => IntentInv'
<1>. SUFFICES ASSUME IntentInv, [IntentNext]_intentVars PROVE IntentInv'
  OBVIOUS
<1>1. /\ announced \in Nat /\ IsSeq(told) /\ Len(told) = announced
      /\ \A f \in DOMAIN intents :
           HeldOK(intents[f], announced, told) /\ f \in Spellings /\ (rooted => f[2] = "relative")
  BY DEF IntentInv
<1>2. ASSUME NEW a \in Agents, NEW path \in Spellings, Register(a, path) PROVE IntentInv'
  <2>1. PICK f, intent, held, numbers :
          /\ f = Normalize(path) /\ intent = [agent |-> a, number |-> announced + 1]
          /\ held = IntentsOf(f) /\ numbers = {i.number : i \in Conflicts(a, held)}
          /\ told' = Append(told, numbers)
          /\ intents' = WithPath(f, held \union {intent})
          /\ announced' = announced + 1 /\ rooted' = rooted
    BY <1>2 DEF Register
  <2>2. f \in Spellings /\ (rooted => f[2] = "relative")
    BY <2>1 DEF Normalize, Spellings
  <2>3. held = {} \/ HeldOK(held, announced, told)
    BY <1>1, <2>1 DEF IntentsOf
  <2>4. HeldOK(held \union {intent}, announced', told')
    BY <1>1, <2>1, <2>3, RegisterKeeps
  <2>5. ASSUME NEW g \in DOMAIN intents'
        PROVE  HeldOK(intents'[g], announced', told') /\ g \in Spellings /\ (rooted => g[2] = "relative")
    <3>1. CASE g = f
      <4>1. intents'[g] = held \union {intent}
        BY <2>1, <3>1 DEF WithPath
      <4>. QED
        BY <4>1, <2>4, <2>2, <3>1
    <3>2. CASE g # f
      <4>1. g \in DOMAIN intents /\ intents'[g] = intents[g]
        BY <2>1, <3>2 DEF WithPath
      <4>2. HeldOK(intents[g], announced + 1, Append(told, numbers))
        BY <4>1, <1>1, OthersToldAsBefore
      <4>. QED
        BY <1>1, <4>1, <4>2, <2>1
    <3>. QED
      BY <3>1, <3>2
  <2>6. announced' \in Nat /\ IsSeq(told') /\ Len(told') = announced'
    BY <1>1, <2>1, AppendAny
  <2>. QED
    BY <2>1, <2>5, <2>6 DEF IntentInv
<1>3. ASSUME NEW a \in Agents, NEW path \in Spellings, Release(a, path) PROVE IntentInv'
  BY <1>3, WithoutAgentKeeps DEF Release
<1>4. ASSUME NEW a \in Agents, ReleaseAll(a) PROVE IntentInv'
  BY <1>4, WithoutAgentKeeps DEF ReleaseAll
<1>5. CASE ClearIntents
  BY <1>1, <1>5 DEF ClearIntents, NoIntents, IntentInv
<1>6. CASE UNCHANGED intentVars
  BY <1>1, <1>6 DEF IntentInv, intentVars
<1>. QED
  BY <1>2, <1>3, <1>4, <1>5, <1>6 DEF IntentNext

\* Two agents on a file make it one that get_conflicts shows.
LEMMA TwoAgents ==
    ASSUME NEW held, IsFiniteSet(held), NEW i \in held, NEW j \in held, i.agent # j.agent
    PROVE  Cardinality({x.agent : x \in held}) > 1
<1>1. PICK agents, who : agents = {x.agent : x \in held} /\ who = [x \in held |-> x.agent]
  OBVIOUS
<1>2. who \in Surjection(held, agents)
  BY <1>1 DEF Surjection
<1>3. IsFiniteSet(agents)
  BY <1>2, FS_Surjection
<1>4. IsFiniteSet({i.agent}) /\ Cardinality({i.agent}) = 1
  BY FS_Singleton
<1>5. {i.agent} \in SUBSET agents /\ {i.agent} # agents
  BY <1>1
<1>6. Cardinality(agents) \in Nat /\ 1 <= Cardinality(agents) /\ Cardinality(agents) # 1
  BY <1>3, <1>4, <1>5, FS_Subset, FS_CardinalityType
<1>. QED
  BY <1>1, <1>6

LEMMA IntentInvSuffices == IntentInv => EveryConflictTold
<1>. SUFFICES ASSUME IntentInv, NEW f \in DOMAIN intents
              PROVE  /\ intents[f] # {}
                     /\ rooted => \A g \in DOMAIN intents : f[1] = g[1] => f = g
                     /\ \A i, j \in intents[f] :
                          /\ i.number = j.number => i = j
                          /\ i.number < j.number /\ i.agent # j.agent =>
                               i.number \in told[j.number] /\ f \in ConflictedPaths
  BY DEF EveryConflictTold
<1>1. HeldOK(intents[f], announced, told)
  BY DEF IntentInv
<1>2. ASSUME NEW i \in intents[f], NEW j \in intents[f], i.agent # j.agent
      PROVE  f \in ConflictedPaths
  BY <1>1, <1>2, TwoAgents DEF HeldOK, ConflictedPaths
<1>3. ASSUME rooted, NEW g \in DOMAIN intents, f[1] = g[1] PROVE f = g
  BY <1>3 DEF IntentInv, Spellings
<1>. QED
  BY <1>1, <1>2, <1>3 DEF HeldOK

\* Nobody registers a file that another holds without being told (file_intent.py).
THEOREM ConflictsCorrect == IntentSpec => []EveryConflictTold
  BY IntentInvAtFirst, IntentNextKeeps, IntentInvSuffices, PTL DEF IntentSpec

\* The two ledgers, which share no state, lose nothing.
THEOREM LedgersCorrect == AuditSpec /\ IntentSpec => []LedgersExact
<1>1. ChainUnbroken /\ EveryConflictTold => LedgersExact
  BY DEF LedgersExact
<1>. QED
  BY <1>1, ChainCorrect, ConflictsCorrect, PTL
-----------------------------------------------------------------------------
(***************************************************************************)
(* The circuit breaker.  As long as recordings of an engine have not       *)
(* overlapped there is at most one thread recording an outcome of it, and  *)
(* how far it got says how the breaker and the history differ; nobody is   *)
(* about to half-open a breaker meanwhile, nor one that is closed.         *)
(***************************************************************************)
SelectionPlaces == {"idle", "ask", "look", "promote", "try"} \union Recording

IsSelection(s) ==
    /\ s \in [at : SelectionPlaces, asks : {s.asks}, candidates : {s.candidates}, checked : BOOLEAN,
              hinted : BOOLEAN, query : BOOLEAN, count : Nat]
    /\ s.at \in Recording => Head(s.candidates) \in Backends

\* The breaker of an engine: its state, its count, and the failures there were.
Agrees(st, n, d) == n = d /\ (st = "closed" <=> d < Threshold)

Midway(s, st, n, d) ==
    /\ s.at \in {"zero", "close"} => d = 0
    /\ s.at = "close" => n = 0
    /\ s.at \in {"read", "write"} => d = CappedInc(n) /\ (st = "closed" <=> n < Threshold)
    /\ s.at = "write" => s.count = n
    /\ s.at \in {"stamp", "open"} => n = d /\ (n < Threshold => st = "closed")

BreakerTypeOK ==
    /\ state \in [Backends -> {"closed", "open", "half_open"}]
    /\ failures \in [Backends -> Nat]
    /\ failed \in [Backends -> Nat]
    /\ overlapped \in [Backends -> BOOLEAN]
    /\ selection = [c \in Selectors |-> selection[c]]
    /\ \A c \in Selectors : IsSelection(selection[c])

OneRecorder(b) ==
    /\ Recorders(b) = {} => Agrees(state[b], failures[b], failed[b])
    /\ \A c \in Recorders(b) :
         Recorders(b) = {c} /\ Midway(selection[c], state[b], failures[b], failed[b])
    /\ Askers(b) # {} => Recorders(b) = {} /\ state[b] # "closed"

BreakerInv == BreakerTypeOK /\ \A b \in Backends : ~overlapped[b] => OneRecorder(b)

LEMMA CappedIncType == \A n \in Nat : CappedInc(n) \in Nat /\ (CappedInc(n) < Threshold => n < Threshold)
  BY BreakerAssumption DEF CappedInc

\* A step outside the recordings: it leaves the closed breakers closed, and a
\* thread that comes to half-open a breaker notes who records an outcome.
LEMMA QuietSelectionKeeps ==
    ASSUME BreakerInv, NEW c \in Selectors, NEW s,
           selection' = [selection EXCEPT ![c] = s], IsSelection(s),
           selection[c].at \notin Recording, s.at \notin Recording,
           state' \in [Backends -> {"closed", "open", "half_open"}],
           overlapped' \in [Backends -> BOOLEAN],
           \A b \in Backends : ~overlapped'[b] =>
               /\ ~overlapped[b] /\ (state'[b] = "closed" <=> state[b] = "closed")
               /\ c \in Askers(b)' => Recorders(b) = {} /\ state[b] # "closed",
           UNCHANGED <<failures, failed>>
    PROVE  BreakerInv'
<1>1. \A d \in Selectors : selection'[d] = IF d = c THEN s ELSE selection[d]
  BY DEF BreakerInv, BreakerTypeOK
<1>2. BreakerTypeOK'
  BY <1>1 DEF BreakerInv, BreakerTypeOK
<1>3. ASSUME NEW b \in Backends, ~overlapped'[b] PROVE OneRecorder(b)'
  <2>1. Recorders(b)' = Recorders(b) /\ c \notin Recorders(b)
    BY <1>1 DEF Recorders
  <2>2. \A d \in Recorders(b) : selection'[d] = selection[d]
    BY <1>1, <2>1 DEF Recorders
  <2>3. OneRecorder(b) /\ (state'[b] = "closed" <=> state[b] = "closed")
    BY <1>3 DEF BreakerInv
  <2>4. /\ Recorders(b)' = {} => Agrees(state[b], failures[b], failed[b])'
        /\ \A d \in Recorders(b)' :
             Recorders(b)' = {d} /\ Midway(selection[d], state[b], failures[b], failed[b])'
    BY <2>1, <2>2, <2>3 DEF OneRecorder, Agrees, Midway
  <2>5. ASSUME Askers(b)' # {} PROVE Recorders(b)' = {} /\ state'[b] # "closed"
    <3>1. CASE c \in Askers(b)'
      BY <1>3, <2>1, <3>1
    <3>2. CASE c \notin Askers(b)'
      <4>1. PICK d \in Askers(b)' : TRUE
        BY <2>5
      <4>2. d \in Askers(b)
        BY <1>1, <3>2, <4>1 DEF Askers
      <4>. QED
        BY <2>1, <2>3, <4>2 DEF OneRecorder
    <3>. QED
      BY <3>1, <3>2
  <2>. QED
    BY <2>4, <2>5 DEF OneRecorder
<1>. QED
  BY <1>2, <1>3 DEF BreakerInv

\* A step that does not half-open a breaker and writes nothing but its own place.
LEMMA AsideKeeps ==
    ASSUME BreakerInv, NEW c \in Selectors, NEW s,
           selection' = [selection EXCEPT ![c] = s], IsSelection(s),
           selection[c].at \notin Recording, s.at \notin Recording \union {"look", "promote"},
           UNCHANGED <<state, failures, failed, overlapped>>
    PROVE  BreakerInv'
<1>1. selection'[c] = s
  BY DEF BreakerInv, BreakerTypeOK
<1>2. \A b : c \notin Askers(b)'
  BY <1>1 DEF Askers
<1>3. /\ state' \in [Backends -> {"closed", "open", "half_open"}]
      /\ overlapped' \in [Backends -> BOOLEAN]
  BY DEF BreakerInv, BreakerTypeOK
<1>. QED
  BY <1>2, <1>3, QuietSelectionKeeps

\* A step of a recording is about one engine, and goes on or ends the recording.
LEMMA RecordingKeeps ==
    ASSUME BreakerInv, NEW c \in Selectors, NEW s, NEW e,
           selection[c].at \in Recording, e = Head(selection[c].candidates),
           selection' = [selection EXCEPT ![c] = s], IsSelection(s),
           s.at \notin {"look", "promote"}, s.at \in Recording => Head(s.candidates) = e,
           BreakerTypeOK',
           \A b \in Backends \ {e} : state'[b] = state[b] /\ failures'[b] = failures[b],
           UNCHANGED <<failed, overlapped>>,
           e \in Backends /\ Midway(selection[c], state[e], failures[e], failed[e]) =>
             IF s.at \in Recording THEN Midway(s, state'[e], failures'[e], failed[e])
             ELSE Agrees(state'[e], failures'[e], failed[e])
    PROVE  BreakerInv'
<1>1. \A d \in Selectors : selection'[d] = IF d = c THEN s ELSE selection[d]
  BY DEF BreakerInv, BreakerTypeOK
<1>2. ASSUME NEW b PROVE Askers(b)' \subseteq Askers(b)
  BY <1>1 DEF Askers
<1>3. ASSUME NEW b \in Backends, ~overlapped'[b] PROVE OneRecorder(b)'
  <2>1. OneRecorder(b)
    BY <1>3 DEF BreakerInv
  <2>2. CASE b # e
    <3>1. Recorders(b)' = Recorders(b) /\ c \notin Recorders(b)
      BY <1>1, <2>2 DEF Recorders
    <3>2. \A d \in Recorders(b) : selection'[d] = selection[d]
      BY <1>1, <3>1 DEF Recorders
    <3>. QED
      BY <1>2, <2>1, <2>2, <3>1, <3>2 DEF OneRecorder, Agrees, Midway
  <2>3. CASE b = e
    <3>1. c \in Recorders(e)
      BY DEF Recorders
    <3>2. Recorders(e) = {c} /\ Midway(selection[c], state[e], failures[e], failed[e])
      BY <2>1, <2>3, <3>1 DEF OneRecorder
    <3>3. Recorders(e)' = IF s.at \in Recording THEN {c} ELSE {}
      BY <1>1, <3>2 DEF Recorders
    <3>4. selection'[c] = s
      BY <1>1
    <3>5. Askers(e)' = {}
      BY <1>2, <2>1, <2>3, <3>1 DEF OneRecorder
    <3>. QED
      BY <2>3, <3>2, <3>3, <3>4, <3>5 DEF OneRecorder
  <2>. QED
    BY <2>2, <2>3
<1>. QED
  BY <1>3 DEF BreakerInv

LEMMA NotSelectingIsSelection == IsSelection(NotSelecting) /\ NotSelecting.at \notin Recording \union {"look", "promote"}
  BY DEF IsSelection, NotSelecting, SelectionPlaces, Recording

\* A selection that goes on, or is answered, is one, and asks or tries next.
LEMMA OnwardIsSelection ==
    ASSUME NEW s, IsSelection(s)
    PROVE  IsSelection(Onward(s)) /\ Onward(s).at \notin Recording \union {"look", "promote"}
<1>1. CASE s.asks # <<>>
  <2>1. PICK t : t = [s EXCEPT !.at = "ask"]
    OBVIOUS
  <2>2. Onward(s) = t
    BY <1>1, <2>1 DEF Onward
  <2>3. IsSelection(t) /\ t.at = "ask"
    BY <2>1 DEF IsSelection, SelectionPlaces, Recording
  <2>. QED
    BY <2>2, <2>3 DEF Recording
<1>2. CASE s.asks = <<>> /\ s.query
  BY <1>2, NotSelectingIsSelection DEF Onward
<1>3. CASE s.asks = <<>> /\ ~s.query
  <2>1. PICK t, names : t = [s EXCEPT !.at = "try", !.candidates = names] /\ Onward(s) = t
    BY <1>3 DEF Onward
  <2>2. IsSelection(t) /\ t.at = "try"
    BY <2>1 DEF IsSelection, SelectionPlaces, Recording
  <2>. QED
    BY <2>1, <2>2 DEF Recording
<1>. QED
  BY <1>1, <1>2, <1>3

LEMMA AnsweredIsSelection ==
    ASSUME NEW s, IsSelection(s), s.at \notin Recording, NEW available \in BOOLEAN
    PROVE  IsSelection(Answered(s, available)) /\ Answered(s, available).at \notin Recording \union {"look", "promote"}
<1>1. CASE Answered(s, available) = NotSelecting
  BY <1>1, NotSelectingIsSelection
<1>2. CASE Answered(s, available) # NotSelecting
  <2>1. PICK t, left, names :
          t = [s EXCEPT !.asks = left, !.candidates = names] /\ Answered(s, available) = Onward(t)
    BY <1>2 DEF Answered
  <2>2. IsSelection(t)
    BY <2>1 DEF IsSelection
  <2>. QED
    BY <2>1, <2>2, OnwardIsSelection
<1>. QED
  BY <1>1, <1>2

LEMMA SelectKeeps ==
    ASSUME BreakerInv, NEW c \in Selectors, NEW checked \in BOOLEAN,
           \/ SelectLarge(c, checked) \/ SelectSmall(c, checked) \/ SelectForQuery(c)
           \/ \E b \in Backends : SelectHinted(c, b, checked)
    PROVE  BreakerInv'
<1>1. selection[c].at = "idle" /\ UNCHANGED <<state, failures, failed, overlapped>>
  BY DEF SelectLarge, SelectSmall, SelectHinted, SelectForQuery, At
<1>2. ASSUME NEW names, NEW hinted \in BOOLEAN, Becomes(c, Trying(names, checked, hinted)) PROVE BreakerInv'
  <2>1. PICK s : s = Trying(names, checked, hinted)
    OBVIOUS
  <2>2. IsSelection(s) /\ s.at = "try"
    BY <2>1 DEF Trying, IsSelection, NotSelecting, SelectionPlaces, Recording
  <2>. QED
    BY <1>1, <1>2, <2>1, <2>2, AsideKeeps DEF Becomes, Recording
<1>3. ASSUME NEW s, IsSelection(s), Becomes(c, Onward(s)) PROVE BreakerInv'
  BY <1>1, <1>3, OnwardIsSelection, AsideKeeps DEF Becomes, Recording
<1>4. CASE SelectLarge(c, checked)
  <2>1. PICK s : s = [NotSelecting EXCEPT !.asks = Chain, !.checked = checked] /\ Becomes(c, Onward(s))
    BY <1>4 DEF SelectLarge
  <2>2. IsSelection(s)
    BY <2>1 DEF IsSelection, NotSelecting, SelectionPlaces, Recording
  <2>. QED
    BY <1>3, <2>1, <2>2
<1>5. CASE SelectForQuery(c)
  <2>1. PICK s, names : s = [NotSelecting EXCEPT !.asks = names, !.query = TRUE] /\ Becomes(c, Onward(s))
    BY <1>5 DEF SelectForQuery
  <2>2. IsSelection(s)
    BY <2>1 DEF IsSelection, NotSelecting, SelectionPlaces, Recording
  <2>. QED
    BY <1>3, <2>1, <2>2
<1>6. CASE SelectSmall(c, checked) \/ \E b \in Backends : SelectHinted(c, b, checked)
  <2>1. \E names : \E hinted \in BOOLEAN : Becomes(c, Trying(names, checked, hinted))
    BY <1>6 DEF SelectSmall, SelectHinted
  <2>. QED
    BY <1>2, <2>1
<1>. QED
  BY <1>4, <1>5, <1>6

\* The three statements of is_available.
LEMMA ReadStateKeeps ==
    ASSUME BreakerInv, NEW c \in Selectors, ReadState(c)
    PROVE  BreakerInv'
<1>1. PICK e : e = Head(selection[c].asks)
  OBVIOUS
<1>2. /\ selection[c].at = "ask" /\ selection[c].at \notin Recording /\ IsSelection(selection[c])
      /\ UNCHANGED <<state, failures, failed>>
  BY DEF ReadState, At, Recording, BreakerInv, BreakerTypeOK
<1>3. CASE Becomes(c, Answered(selection[c], TRUE)) /\ UNCHANGED overlapped
  BY <1>2, <1>3, AnsweredIsSelection, AsideKeeps DEF Becomes
<1>4. CASE /\ state[e] = "open" /\ MoveTo(c, "look")
           /\ overlapped' = [overlapped EXCEPT ![e] = @ \/ Recorders(e) # {}]
  <2>1. PICK s : s = [selection[c] EXCEPT !.at = "look"]
    OBVIOUS
  <2>2. selection' = [selection EXCEPT ![c] = s]
    BY <1>4, <2>1 DEF MoveTo
  <2>3. IsSelection(s) /\ s.at \notin Recording /\ s.asks = selection[c].asks
    BY <1>2, <2>1 DEF IsSelection, SelectionPlaces, Recording
  <2>4. selection'[c] = s
    BY <2>2 DEF BreakerInv, BreakerTypeOK
  <2>5. /\ state' \in [Backends -> {"closed", "open", "half_open"}]
        /\ overlapped' \in [Backends -> BOOLEAN]
    BY <1>2, <1>4 DEF BreakerInv, BreakerTypeOK
  <2>6. ASSUME NEW b \in Backends, ~overlapped'[b]
        PROVE  ~overlapped[b] /\ (c \in Askers(b)' => Recorders(b) = {} /\ state[b] # "closed")
    <3>1. ~overlapped[b] /\ (b = e => Recorders(b) = {})
      BY <1>4, <2>6 DEF BreakerInv, BreakerTypeOK
    <3>2. c \in Askers(b)' => b = e
      BY <1>1, <2>3, <2>4 DEF Askers
    <3>. QED
      BY <1>4, <3>1, <3>2
  <2>. QED
    BY <1>2, <2>2, <2>3, <2>5, <2>6, QuietSelectionKeeps
<1>. QED
  BY <1>1, <1>3, <1>4 DEF ReadState

LEMMA ReadTimeKeeps ==
    ASSUME BreakerInv, NEW c \in Selectors, ReadTime(c)
    PROVE  BreakerInv'
<1>1. PICK e : e = Head(selection[c].asks)
  OBVIOUS
<1>2. /\ selection[c].at = "look" /\ selection[c].at \notin Recording /\ IsSelection(selection[c])
      /\ UNCHANGED <<state, failures, failed, overlapped>>
  BY DEF ReadTime, At, Recording, BreakerInv, BreakerTypeOK
<1>3. CASE Becomes(c, Answered(selection[c], FALSE))
  BY <1>2, <1>3, AnsweredIsSelection, AsideKeeps DEF Becomes
<1>4. CASE MoveTo(c, "promote")
  <2>1. PICK s : s = [selection[c] EXCEPT !.at = "promote"]
    OBVIOUS
  <2>2. selection' = [selection EXCEPT ![c] = s]
    BY <1>4, <2>1 DEF MoveTo
  <2>3. IsSelection(s) /\ s.at \notin Recording /\ s.asks = selection[c].asks
    BY <1>2, <2>1 DEF IsSelection, SelectionPlaces, Recording
  <2>4. selection'[c] = s
    BY <2>2 DEF BreakerInv, BreakerTypeOK
  <2>5. /\ state' \in [Backends -> {"closed", "open", "half_open"}]
        /\ overlapped' \in [Backends -> BOOLEAN]
    BY <1>2 DEF BreakerInv, BreakerTypeOK
  <2>6. ASSUME NEW b \in Backends, ~overlapped'[b], c \in Askers(b)'
        PROVE  Recorders(b) = {} /\ state[b] # "closed"
    <3>1. c \in Askers(b)
      BY <1>2, <2>3, <2>4, <2>6 DEF Askers
    <3>. QED
      BY <1>2, <2>6, <3>1 DEF BreakerInv, OneRecorder
  <2>. QED
    BY <1>2, <2>2, <2>3, <2>5, <2>6, QuietSelectionKeeps
<1>. QED
  BY <1>1, <1>3, <1>4 DEF ReadTime

LEMMA HalfOpenKeeps ==
    ASSUME BreakerInv, NEW c \in Selectors, HalfOpen(c)
    PROVE  BreakerInv'
<1>1. PICK e, s :
        /\ e = Head(selection[c].asks) /\ s = Answered(selection[c], TRUE)
        /\ selection' = [selection EXCEPT ![c] = s]
        /\ state' = [state EXCEPT ![e] = "half_open"]
  BY DEF HalfOpen, Becomes
<1>2. /\ selection[c].at = "promote" /\ selection[c].at \notin Recording /\ IsSelection(selection[c])
      /\ UNCHANGED <<failures, failed, overlapped>>
  BY DEF HalfOpen, At, Recording, BreakerInv, BreakerTypeOK
<1>3. IsSelection(s) /\ s.at \notin Recording \union {"look", "promote"}
  BY <1>1, <1>2, AnsweredIsSelection
<1>4. \A b : c \notin Askers(b)'
  <2>1. selection'[c] = s
    BY <1>1 DEF BreakerInv, BreakerTypeOK
  <2>. QED
    BY <1>3, <2>1 DEF Askers
<1>5. /\ state' \in [Backends -> {"closed", "open", "half_open"}]
      /\ overlapped' \in [Backends -> BOOLEAN]
  BY <1>1, <1>2 DEF BreakerInv, BreakerTypeOK
<1>6. ASSUME NEW b \in Backends, ~overlapped'[b] PROVE state'[b] = "closed" <=> state[b] = "closed"
  <2>1. CASE b # e
    BY <1>1, <2>1 DEF BreakerInv, BreakerTypeOK
  <2>2. CASE b = e
    <3>1. c \in Askers(b)
      BY <1>1, <1>2, <2>2 DEF Askers
    <3>2. state[b] # "closed"
      BY <1>2, <1>6, <3>1 DEF BreakerInv, OneRecorder
    <3>3. state'[b] = "half_open"
      BY <1>1, <2>2 DEF BreakerInv, BreakerTypeOK
    <3>. QED
      BY <3>2, <3>3
  <2>. QED
    BY <2>1, <2>2
<1>. QED
  BY <1>1, <1>2, <1>3, <1>4, <1>5, <1>6, QuietSelectionKeeps

LEMMA TryNextKeeps ==
    ASSUME BreakerInv, NEW c \in Selectors, TryNext(c)
    PROVE  BreakerInv'
<1>1. /\ selection[c].at = "try" /\ selection[c].at \notin Recording
      /\ UNCHANGED <<state, failures, failed, overlapped>>
  BY DEF TryNext, At, Recording
<1>2. \/ selection' = [selection EXCEPT ![c] = NotSelecting]
      \/ selection' = [selection EXCEPT ![c].candidates = Tail(@)]
  BY DEF TryNext
<1>3. CASE selection' = [selection EXCEPT ![c] = NotSelecting]
  BY <1>1, <1>3, NotSelectingIsSelection, AsideKeeps
<1>4. CASE selection' = [selection EXCEPT ![c].candidates = Tail(@)]
  <2>1. PICK s : s = [selection[c] EXCEPT !.candidates = Tail(selection[c].candidates)]
    OBVIOUS
  <2>2. selection' = [selection EXCEPT ![c] = s]
    BY <1>4, <2>1
  <2>3. IsSelection(s) /\ s.at = "try"
    BY <1>1, <2>1 DEF BreakerInv, BreakerTypeOK, IsSelection
  <2>. QED
    BY <1>1, <2>2, <2>3, AsideKeeps DEF Recording
<1>. QED
  BY <1>2, <1>3, <1>4

\* The record of a selection that moves on.
LEMMA MovedIsSelection ==
    ASSUME BreakerInv, NEW c \in Selectors, NEW place \in SelectionPlaces, MoveTo(c, place),
           Head(selection[c].candidates) \in Backends
    PROVE  \E s : /\ selection' = [selection EXCEPT ![c] = s]
                  /\ IsSelection(s) /\ s.at = place
                  /\ s.candidates = selection[c].candidates
                  /\ s.count = selection[c].count
<1>1. PICK s : s = [selection[c] EXCEPT !.at = place]
  OBVIOUS
<1>2. selection' = [selection EXCEPT ![c] = s]
  BY <1>1 DEF MoveTo
<1>3. IsSelection(s) /\ s.at = place /\ s.candidates = selection[c].candidates
      /\ s.count = selection[c].count
  BY <1>1 DEF BreakerInv, BreakerTypeOK, IsSelection
<1>. QED
  BY <1>2, <1>3

LEMMA CheckKeeps ==
    ASSUME BreakerInv, NEW c \in Selectors, Check(c)
    PROVE  BreakerInv'
<1>1. PICK e, place :
        /\ e = Head(selection[c].candidates)
        /\ place = IF healthy[e] THEN "zero" ELSE "read"
        /\ MoveTo(c, place)
        /\ overlapped' = [overlapped EXCEPT ![e] = @ \/ Recorders(e) \union Askers(e) # {}]
        /\ failed' = [failed EXCEPT ![e] = IF healthy[e] THEN 0 ELSE CappedInc(@)]
        /\ UNCHANGED <<state, failures>>
        /\ e \in Backends
  BY BreakerAssumption DEF Check, Backends
<1>2. place \in SelectionPlaces /\ place \in Recording
  BY <1>1 DEF SelectionPlaces, Recording
<1>3. PICK s : /\ selection' = [selection EXCEPT ![c] = s] /\ IsSelection(s) /\ s.at = place
               /\ s.candidates = selection[c].candidates
  BY <1>1, <1>2, MovedIsSelection
<1>4. /\ \A d \in Selectors : selection'[d] = IF d = c THEN s ELSE selection[d]
      /\ selection[c].at \notin Recording
  BY <1>3 DEF BreakerInv, BreakerTypeOK, Check, At, Recording
<1>5. BreakerTypeOK'
  <2>1. failed' \in [Backends -> Nat]
    BY <1>1, CappedIncType DEF BreakerInv, BreakerTypeOK
  <2>2. overlapped' \in [Backends -> BOOLEAN]
    BY <1>1 DEF BreakerInv, BreakerTypeOK
  <2>3. selection' = [d \in Selectors |-> selection'[d]]
    BY <1>3 DEF BreakerInv, BreakerTypeOK
  <2>. QED
    BY <2>1, <2>2, <2>3, <1>1, <1>3, <1>4 DEF BreakerInv, BreakerTypeOK
<1>6. ASSUME NEW b PROVE Askers(b)' \subseteq Askers(b)
  BY <1>2, <1>3, <1>4 DEF Askers, Recording
<1>7. ASSUME NEW b \in Backends, ~overlapped'[b] PROVE OneRecorder(b)'
  <2>1. CASE b # e
    <3>1. Recorders(b)' = Recorders(b) /\ c \notin Recorders(b)
      BY <1>1, <1>3, <1>4, <2>1 DEF Recorders
    <3>2. \A d \in Recorders(b) : selection'[d] = selection[d]
      BY <1>4, <3>1 DEF Recorders
    <3>3. overlapped[b] = overlapped'[b] /\ failed'[b] = failed[b]
      BY <1>1, <2>1 DEF BreakerInv, BreakerTypeOK
    <3>4. OneRecorder(b)
      BY <1>7, <3>3 DEF BreakerInv
    <3>. QED
      BY <1>1, <1>6, <3>1, <3>2, <3>3, <3>4 DEF OneRecorder, Agrees, Midway
  <2>2. CASE b = e
    <3>1. ~overlapped[e] /\ Recorders(e) = {} /\ Askers(e) = {}
      BY <1>1, <1>7, <2>2 DEF BreakerInv, BreakerTypeOK
    <3>2. Agrees(state[e], failures[e], failed[e])
      BY <3>1, <2>2 DEF BreakerInv, OneRecorder
    <3>3. Recorders(e)' = {c}
      BY <1>1, <1>2, <1>3, <1>4, <3>1 DEF Recorders
    <3>4. failed'[e] = IF healthy[e] THEN 0 ELSE CappedInc(failed[e])
      BY <1>1, <2>2 DEF BreakerInv, BreakerTypeOK
    <3>5. Midway(s, state'[e], failures'[e], failed'[e])
      BY <1>1, <1>3, <3>2, <3>4 DEF Midway, Agrees
    <3>6. selection'[c] = s
      BY <1>4
    <3>. QED
      BY <1>6, <2>2, <3>1, <3>3, <3>5, <3>6 DEF OneRecorder
  <2>. QED
    BY <2>1, <2>2
<1>. QED
  BY <1>5, <1>7 DEF BreakerInv

LEMMA SelectionsTyped ==
    ASSUME BreakerInv, NEW c \in Selectors, NEW s, IsSelection(s),
           selection' = [selection EXCEPT ![c] = s]
    PROVE  /\ selection' = [d \in Selectors |-> selection'[d]]
           /\ \A d \in Selectors : IsSelection(selection'[d])
<1>1. selection' = [d \in Selectors |-> IF d = c THEN s ELSE selection[d]]
  BY DEF BreakerInv, BreakerTypeOK
<1>2. \A d \in Selectors : selection'[d] = IF d = c THEN s ELSE selection[d]
  BY <1>1
<1>3. \A d \in Selectors : IsSelection(selection[d])
  BY DEF BreakerInv, BreakerTypeOK
<1>. QED
  BY <1>1, <1>2, <1>3

LEMMA RecordsBackend ==
    ASSUME BreakerInv, NEW c \in Selectors, selection[c].at \in Recording
    PROVE  Head(selection[c].candidates) \in Backends
  BY DEF BreakerInv, BreakerTypeOK, IsSelection

LEMMA ZeroFailuresKeeps ==
    ASSUME BreakerInv, NEW c \in Selectors, ZeroFailures(c)
    PROVE  BreakerInv'
<1>1. PICK e : /\ e = Head(selection[c].candidates) /\ selection[c].at = "zero"
               /\ failures' = [failures EXCEPT ![e] = 0]
               /\ MoveTo(c, "close") /\ UNCHANGED <<state, failed, overlapped>>
               /\ e \in Backends
  BY RecordsBackend DEF ZeroFailures, At, Recording
<1>2. PICK s : /\ selection' = [selection EXCEPT ![c] = s] /\ IsSelection(s) /\ s.at = "close"
               /\ s.candidates = selection[c].candidates
  BY <1>1, MovedIsSelection DEF SelectionPlaces, Recording
<1>3. BreakerTypeOK'
  BY <1>1, <1>2, SelectionsTyped DEF BreakerInv, BreakerTypeOK
<1>4. /\ \A b \in Backends \ {e} : state'[b] = state[b] /\ failures'[b] = failures[b]
      /\ e \in Backends => failures'[e] = 0
  BY <1>1 DEF BreakerInv, BreakerTypeOK
<1>5. e \in Backends /\ Midway(selection[c], state[e], failures[e], failed[e]) =>
        Midway(s, state'[e], failures'[e], failed[e])
  BY <1>1, <1>2, <1>4 DEF Midway
<1>6. selection[c].at \in Recording /\ s.at \in Recording /\ s.at \notin {"look", "promote"}
  BY <1>1, <1>2 DEF Recording
<1>. QED
  BY <1>1, <1>2, <1>3, <1>4, <1>5, <1>6, RecordingKeeps

LEMMA CloseBreakerKeeps ==
    ASSUME BreakerInv, NEW c \in Selectors, CloseBreaker(c)
    PROVE  BreakerInv'
<1>1. PICK e : /\ e = Head(selection[c].candidates) /\ selection[c].at = "close"
               /\ state' = [state EXCEPT ![e] = "closed"]
               /\ selection' = [selection EXCEPT ![c] = NotSelecting]
               /\ UNCHANGED <<failures, failed, overlapped>>
  BY DEF CloseBreaker, At
<1>2. IsSelection(NotSelecting) /\ NotSelecting.at \notin Recording \union {"look", "promote"}
  BY NotSelectingIsSelection
<1>3. BreakerTypeOK'
  BY <1>1, <1>2, SelectionsTyped DEF BreakerInv, BreakerTypeOK
<1>4. /\ \A b \in Backends \ {e} : state'[b] = state[b] /\ failures'[b] = failures[b]
      /\ e \in Backends => state'[e] = "closed" /\ failures'[e] = failures[e]
  BY <1>1 DEF BreakerInv, BreakerTypeOK
<1>5. e \in Backends /\ Midway(selection[c], state[e], failures[e], failed[e]) =>
        Agrees(state'[e], failures'[e], failed[e])
  BY <1>1, <1>4, BreakerAssumption DEF Midway, Agrees
<1>6. selection[c].at \in Recording
  BY <1>1 DEF Recording
<1>. QED
  BY <1>1, <1>2, <1>3, <1>4, <1>5, <1>6, RecordingKeeps

LEMMA ReadFailuresKeeps ==
    ASSUME BreakerInv, NEW c \in Selectors, ReadFailures(c)
    PROVE  BreakerInv'
<1>1. PICK e, s : /\ e = Head(selection[c].candidates) /\ selection[c].at = "read"
                  /\ s = [selection[c] EXCEPT !.count = failures[e], !.at = "write"]
                  /\ selection' = [selection EXCEPT ![c] = s]
                  /\ e \in Backends
                  /\ UNCHANGED <<state, failures, failed, overlapped>>
  BY RecordsBackend DEF ReadFailures, At, Recording
<1>2. IsSelection(selection[c]) /\ failures[e] \in Nat
  BY <1>1 DEF BreakerInv, BreakerTypeOK
<1>3. /\ IsSelection(s) /\ s.at = "write" /\ s.count = failures[e]
      /\ s.candidates = selection[c].candidates
  BY <1>1, <1>2 DEF IsSelection, SelectionPlaces, Recording
<1>4. BreakerTypeOK'
  BY <1>1, <1>3, SelectionsTyped DEF BreakerInv, BreakerTypeOK
<1>5. e \in Backends /\ Midway(selection[c], state[e], failures[e], failed[e]) =>
        Midway(s, state'[e], failures'[e], failed[e])
  BY <1>1, <1>3 DEF Midway
<1>6. selection[c].at \in Recording /\ s.at \in Recording /\ s.at \notin {"look", "promote"}
  BY <1>1, <1>3 DEF Recording
<1>. QED
  BY <1>1, <1>3, <1>4, <1>5, <1>6, RecordingKeeps

LEMMA WriteFailuresKeeps ==
    ASSUME BreakerInv, NEW c \in Selectors, WriteFailures(c)
    PROVE  BreakerInv'
<1>1. PICK e : /\ e = Head(selection[c].candidates) /\ selection[c].at = "write"
               /\ failures' = [failures EXCEPT ![e] = CappedInc(selection[c].count)]
               /\ MoveTo(c, "stamp") /\ UNCHANGED <<state, failed, overlapped>>
               /\ e \in Backends
  BY RecordsBackend DEF WriteFailures, At, Recording
<1>2. PICK s : /\ selection' = [selection EXCEPT ![c] = s] /\ IsSelection(s) /\ s.at = "stamp"
               /\ s.candidates = selection[c].candidates
  BY <1>1, MovedIsSelection DEF SelectionPlaces, Recording
<1>3. selection[c].count \in Nat /\ CappedInc(selection[c].count) \in Nat
  BY CappedIncType DEF BreakerInv, BreakerTypeOK, IsSelection
<1>4. BreakerTypeOK'
  BY <1>1, <1>2, <1>3, SelectionsTyped DEF BreakerInv, BreakerTypeOK
<1>5. /\ \A b \in Backends \ {e} : state'[b] = state[b] /\ failures'[b] = failures[b]
      /\ failures'[e] = CappedInc(selection[c].count)
      /\ state'[e] = state[e]
  BY <1>1 DEF BreakerInv, BreakerTypeOK
<1>6. ASSUME Midway(selection[c], state[e], failures[e], failed[e])
      PROVE  Midway(s, state'[e], failures'[e], failed[e])
  <2>1. /\ failures'[e] = CappedInc(failures[e]) /\ failed[e] = CappedInc(failures[e])
        /\ state[e] = "closed" <=> failures[e] < Threshold
        /\ failures[e] \in Nat
    BY <1>1, <1>5, <1>6 DEF Midway, BreakerInv, BreakerTypeOK
  <2>2. failures'[e] < Threshold => state'[e] = "closed"
    BY <2>1, <1>5, CappedIncType
  <2>. QED
    BY <2>1, <2>2, <1>2 DEF Midway
<1>7. selection[c].at \in Recording /\ s.at \in Recording /\ s.at \notin {"look", "promote"}
  BY <1>1, <1>2 DEF Recording
<1>. QED
  BY <1>1, <1>2, <1>4, <1>5, <1>6, <1>7, RecordingKeeps

LEMMA StampFailureKeeps ==
    ASSUME BreakerInv, NEW c \in Selectors, StampFailure(c)
    PROVE  BreakerInv'
<1>1. PICK e : /\ e = Head(selection[c].candidates) /\ selection[c].at = "stamp"
               /\ MoveTo(c, "open") /\ UNCHANGED <<state, failures, failed, overlapped>>
               /\ e \in Backends
  BY RecordsBackend DEF StampFailure, At, Recording
<1>2. PICK s : /\ selection' = [selection EXCEPT ![c] = s] /\ IsSelection(s) /\ s.at = "open"
               /\ s.candidates = selection[c].candidates
  BY <1>1, MovedIsSelection DEF SelectionPlaces, Recording
<1>3. BreakerTypeOK'
  BY <1>1, <1>2, SelectionsTyped DEF BreakerInv, BreakerTypeOK
<1>4. Midway(selection[c], state[e], failures[e], failed[e]) =>
        Midway(s, state'[e], failures'[e], failed[e])
  BY <1>1, <1>2 DEF Midway
<1>5. selection[c].at \in Recording /\ s.at \in Recording /\ s.at \notin {"look", "promote"}
  BY <1>1, <1>2 DEF Recording
<1>. QED
  BY <1>1, <1>2, <1>3, <1>4, <1>5, RecordingKeeps

LEMMA OpenBreakerKeeps ==
    ASSUME BreakerInv, NEW c \in Selectors, OpenBreaker(c)
    PROVE  BreakerInv'
<1>1. PICK e : /\ e = Head(selection[c].candidates) /\ selection[c].at = "open"
               /\ state' = [state EXCEPT ![e] = IF failures[e] >= Threshold THEN "open" ELSE @]
               /\ UNCHANGED <<failures, failed, overlapped>>
               /\ e \in Backends
  BY RecordsBackend DEF OpenBreaker, OpensAtThreshold, At, Recording
<1>2. PICK s : /\ selection' = [selection EXCEPT ![c] = s] /\ IsSelection(s)
               /\ s.at \notin Recording \union {"look", "promote"}
  <2>1. CASE selection[c].hinted
    BY <2>1, NotSelectingIsSelection DEF OpenBreaker
  <2>2. CASE ~selection[c].hinted
    <3>1. PICK s : s = [selection[c] EXCEPT !.candidates = Tail(selection[c].candidates), !.at = "try"]
      OBVIOUS
    <3>2. selection' = [selection EXCEPT ![c] = s]
      BY <2>2, <3>1 DEF OpenBreaker
    <3>3. IsSelection(s) /\ s.at \notin Recording \union {"look", "promote"}
      BY <3>1 DEF BreakerInv, BreakerTypeOK, IsSelection, SelectionPlaces, Recording
    <3>. QED
      BY <3>2, <3>3
  <2>. QED
    BY <2>1, <2>2
<1>3. BreakerTypeOK'
  BY <1>1, <1>2, SelectionsTyped DEF BreakerInv, BreakerTypeOK
<1>4. /\ \A b \in Backends \ {e} : state'[b] = state[b] /\ failures'[b] = failures[b]
      /\ state'[e] = IF failures[e] >= Threshold THEN "open" ELSE state[e]
      /\ failures'[e] = failures[e] /\ failures[e] \in Nat
  BY <1>1 DEF BreakerInv, BreakerTypeOK
<1>5. ASSUME Midway(selection[c], state[e], failures[e], failed[e])
      PROVE  Agrees(state'[e], failures'[e], failed[e])
  <2>1. failures[e] = failed[e] /\ (failures[e] < Threshold => state[e] = "closed")
    BY <1>1, <1>5 DEF Midway
  <2>. QED
    BY <2>1, <1>4, BreakerAssumption DEF Agrees
<1>6. selection[c].at \in Recording
  BY <1>1 DEF Recording
<1>. QED
  BY <1>1, <1>2, <1>3, <1>4, <1>5, <1>6, RecordingKeeps

LEMMA ResetBreakerKeeps ==
    ASSUME BreakerInv, NEW e \in Backends, ResetBreaker(e)
    PROVE  BreakerInv'
<1>1. /\ state' = [state EXCEPT ![e] = "closed"]
      /\ failures' = [failures EXCEPT ![e] = 0] /\ failed' = [failed EXCEPT ![e] = 0]
      /\ overlapped' = [overlapped EXCEPT ![e] = @ \/ Recorders(e) \union Askers(e) # {}]
      /\ UNCHANGED selection
  BY DEF ResetBreaker
<1>2. BreakerTypeOK'
  <2>1. overlapped' \in [Backends -> BOOLEAN]
    BY <1>1 DEF BreakerInv, BreakerTypeOK
  <2>. QED
    BY <2>1, <1>1 DEF BreakerInv, BreakerTypeOK
<1>3. ASSUME NEW b \in Backends, ~overlapped'[b] PROVE OneRecorder(b)'
  <2>1. Recorders(b)' = Recorders(b) /\ Askers(b)' = Askers(b)
    BY <1>1 DEF Recorders, Askers
  <2>2. CASE b # e
    <3>1. overlapped[b] = overlapped'[b] /\ OneRecorder(b)
      BY <1>1, <1>3, <2>2 DEF BreakerInv, BreakerTypeOK
    <3>. QED
      BY <1>1, <2>1, <2>2, <3>1 DEF OneRecorder, Agrees, Midway, BreakerInv, BreakerTypeOK
  <2>3. CASE b = e
    <3>1. Recorders(e) = {} /\ Askers(e) = {}
      BY <1>1, <1>3, <2>3 DEF BreakerInv, BreakerTypeOK
    <3>2. state'[e] = "closed" /\ failures'[e] = 0 /\ failed'[e] = 0
      BY <1>1 DEF BreakerInv, BreakerTypeOK
    <3>. QED
      BY <2>1, <2>3, <3>1, <3>2, BreakerAssumption DEF OneRecorder, Agrees
  <2>. QED
    BY <2>2, <2>3
<1>. QED
  BY <1>2, <1>3 DEF BreakerInv

LEMMA BreakerStill ==
    ASSUME BreakerInv, UNCHANGED <<state, failures, selection, failed, overlapped>>
    PROVE  BreakerInv'
  BY DEF BreakerInv, BreakerTypeOK, OneRecorder, Recorders, Askers

LEMMA BreakerInvAtFirst == BreakerInit => BreakerInv
<1>. SUFFICES ASSUME BreakerInit PROVE BreakerInv
  OBVIOUS
<1>1. BreakerTypeOK
  BY NotSelectingIsSelection DEF BreakerInit, BreakerTypeOK
<1>2. \A b \in Backends : Recorders(b) = {} /\ Askers(b) = {}
  BY NotSelectingIsSelection DEF BreakerInit, Recorders, Askers
<1>3. \A b \in Backends : Agrees(state[b], failures[b], failed[b])
  BY BreakerAssumption DEF BreakerInit, Agrees
<1>. QED
  BY <1>1, <1>2, <1>3 DEF BreakerInv, OneRecorder

LEMMA BreakerNextKeeps == BreakerInv /\ [BreakerNext]_breakerVars => BreakerInv'
<1>. SUFFICES ASSUME BreakerInv, [BreakerNext]_breakerVars PROVE BreakerInv'
  OBVIOUS
<1>1. ASSUME NEW c \in Selectors, NEW checked \in BOOLEAN,
             \/ SelectLarge(c, checked) \/ SelectSmall(c, checked)
             \/ \E b \in Backends : SelectHinted(c, b, checked)
      PROVE  BreakerInv'
  BY <1>1, SelectKeeps
<1>2. ASSUME NEW c \in Selectors, SelectForQuery(c) PROVE BreakerInv'
  BY <1>2, SelectKeeps
<1>3. ASSUME NEW c \in Selectors, Continue(c) PROVE BreakerInv'
  BY <1>3, ReadStateKeeps, ReadTimeKeeps, HalfOpenKeeps,
     TryNextKeeps, CheckKeeps, ZeroFailuresKeeps, CloseBreakerKeeps, ReadFailuresKeeps,
     WriteFailuresKeeps, StampFailureKeeps, OpenBreakerKeeps DEF Continue
<1>4. ASSUME NEW b \in Backends, ResetBreaker(b) \/ HealthChanges(b) PROVE BreakerInv'
  BY <1>4, ResetBreakerKeeps, BreakerStill DEF HealthChanges
<1>5. CASE Ages
  BY <1>5, BreakerStill DEF Ages
<1>6. CASE UNCHANGED breakerVars
  BY <1>6, BreakerStill DEF breakerVars
<1>. QED
  BY <1>1, <1>2, <1>3, <1>4, <1>5, <1>6 DEF BreakerNext

LEMMA BreakerInvSuffices == BreakerInv => BreakerExact
  BY DEF BreakerInv, OneRecorder, Agrees, BreakerExact

\* The breaker of an engine says how its last checks went (CircuitBreaker of
\* backend_engine.py), if its outcomes were recorded one at a time and beside no
\* thread about to half-open it.
THEOREM BreakerCorrect == BreakerSpec => []BreakerExact
  BY BreakerInvAtFirst, BreakerNextKeeps, BreakerInvSuffices, PTL DEF BreakerSpec
-----------------------------------------------------------------------------
(***************************************************************************)
(* The cluster.  A router takes turns: Turns(c, r, n) of the first c calls *)
(* are given to place r of n.  What each active worker was given since the *)
(* routing table changed are its turns since then.                         *)
(***************************************************************************)
Turns(c, r, n) == (c \div n) + (IF r < c % n THEN 1 ELSE 0)

LEMMA Remainder ==
    ASSUME NEW c \in Nat, NEW n \in Nat \ {0}
    PROVE  c \div n \in Nat /\ c % n \in 0 .. n - 1 /\ c = n * (c \div n) + (c % n)
<1>1. c % n \in 0 .. n - 1
  OBVIOUS
<1>2. c % n = c - n * (c \div n)
  OBVIOUS
<1>3. c \div n \in Nat
  OBVIOUS
<1>4. ASSUME NEW q \in Nat PROVE n * q \in Nat
  OBVIOUS
<1>. QED
  BY <1>1, <1>2, <1>3, <1>4

LEMMA RemainderIs ==
    ASSUME NEW c \in Nat, NEW n \in Nat \ {0}, NEW q \in Nat, NEW r \in 0 .. n - 1, c = n * q + r
    PROVE  c \div n = q /\ c % n = r
OBVIOUS

LEMMA TurnsType ==
    ASSUME NEW c \in Nat, NEW n \in Nat \ {0}, NEW r \in 0 .. n - 1
    PROVE  Turns(c, r, n) \in Nat
BY Remainder DEF Turns

\* A call is one turn, of the place it is given to.
LEMMA TurnsStep ==
    ASSUME NEW c \in Nat, NEW n \in Nat \ {0}, NEW r \in 0 .. n - 1
    PROVE  Turns(c + 1, r, n) = Turns(c, r, n) + (IF r = c % n THEN 1 ELSE 0)
<1>1. PICK q, m : q = c \div n /\ m = c % n
  OBVIOUS
<1>2. q \in Nat /\ m \in 0 .. n - 1 /\ c = n * q + m
  BY <1>1, Remainder
<1>3. CASE m + 1 < n
  <2>1. m + 1 \in 0 .. n - 1 /\ c + 1 = n * q + (m + 1)
    BY <1>2, <1>3
  <2>2. (c + 1) \div n = q /\ (c + 1) % n = m + 1
    BY <1>2, <2>1, RemainderIs
  <2>. QED
    BY <1>1, <1>2, <2>2 DEF Turns
<1>4. CASE m + 1 = n
  <2>1. 0 \in 0 .. n - 1 /\ n * (q + 1) = n * q + n /\ q + 1 \in Nat
    BY <1>2
  <2>2. c + 1 = n * (q + 1) + 0
    BY <1>2, <1>4, <2>1
  <2>3. (c + 1) \div n = q + 1 /\ (c + 1) % n = 0
    BY <1>2, <2>1, <2>2, RemainderIs
  <2>. QED
    BY <1>1, <1>2, <1>4, <2>3 DEF Turns
<1>. QED
  BY <1>2, <1>3, <1>4

\* Between two calls, no place has two turns more than another.
LEMMA TurnsFair ==
    ASSUME NEW b \in Nat, NEW c \in Nat, NEW n \in Nat \ {0},
           NEW r \in 0 .. n - 1, NEW s \in 0 .. n - 1
    PROVE  Turns(c, r, n) - Turns(b, r, n) <= Turns(c, s, n) - Turns(b, s, n) + 1
<1>1. PICK q, m, p, k : q = c \div n /\ m = c % n /\ p = b \div n /\ k = b % n
  OBVIOUS
<1>2. q \in Nat /\ m \in 0 .. n - 1 /\ p \in Nat /\ k \in 0 .. n - 1
  BY <1>1, Remainder
<1>. QED
  BY <1>1, <1>2 DEF Turns

Distinct(s) ==
    /\ s \in Seq(WorkerIds)
    /\ \A i, j \in 1 .. Len(s) : s[i] = s[j] => i = j

\* What each worker of s was given are its turns of the calls b .. c - 1.
Given(s, given, b, c) ==
    \A k \in 1 .. Len(s) : given[s[k]] = Turns(c, k - 1, Len(s)) - Turns(b, k - 1, Len(s))

LEMMA TurnTaken ==
    ASSUME NEW s, Distinct(s), s # <<>>, NEW given \in [WorkerIds -> Int],
           NEW c \in Nat, NEW b \in Nat, Given(s, given, b, c)
    PROVE  Given(s, [given EXCEPT ![s[(c % Len(s)) + 1]] = @ + 1], b, c + 1)
<1>1. PICK n : n = Len(s)
  OBVIOUS
<1>2. n \in Nat \ {0}
  BY <1>1 DEF Distinct
<1>3. c % n \in 0 .. n - 1
  BY <1>2, Remainder
<1>4. PICK w : w = s[(c % n) + 1]
  OBVIOUS
<1>. DEFINE after == [given EXCEPT ![w] = @ + 1]
<1>5. ASSUME NEW k \in 1 .. n
      PROVE  after[s[k]] = Turns(c + 1, k - 1, n) - Turns(b, k - 1, n)
  <2>1. k - 1 \in 0 .. n - 1 /\ (c % n) + 1 \in 1 .. n
    BY <1>2, <1>3
  <2>2. s[k] \in WorkerIds /\ w \in WorkerIds /\ (s[k] = w <=> k = (c % n) + 1)
    BY <1>1, <1>4, <2>1 DEF Distinct
  <2>3. k = (c % n) + 1 <=> k - 1 = c % n
    BY <1>3
  <2>4. Turns(c + 1, k - 1, n) = Turns(c, k - 1, n) + (IF k - 1 = c % n THEN 1 ELSE 0)
    BY <1>2, <2>1, TurnsStep
  <2>5. given[s[k]] = Turns(c, k - 1, n) - Turns(b, k - 1, n)
    BY <1>1 DEF Given
  <2>6. Turns(c, k - 1, n) \in Nat /\ Turns(b, k - 1, n) \in Nat
    BY <1>2, <2>1, TurnsType
  <2>7. after[s[k]] = given[s[k]] + (IF k - 1 = c % n THEN 1 ELSE 0)
    BY <2>2, <2>3
  <2>. QED
    BY <2>4, <2>5, <2>6, <2>7
<1>. QED
  BY <1>1, <1>4, <1>5 DEF Given

LEMMA NothingGiven ==
    ASSUME NEW s, Distinct(s), NEW c \in Nat
    PROVE  Given(s, NoneRouted, c, c)
<1>1. ASSUME NEW k \in 1 .. Len(s)
      PROVE  NoneRouted[s[k]] = Turns(c, k - 1, Len(s)) - Turns(c, k - 1, Len(s))
  <2>1. Len(s) \in Nat \ {0} /\ k - 1 \in 0 .. Len(s) - 1 /\ s[k] \in WorkerIds
    BY DEF Distinct
  <2>2. Turns(c, k - 1, Len(s)) \in Nat
    BY <2>1, TurnsType
  <2>. QED
    BY <2>1, <2>2 DEF NoneRouted
<1>. QED
  BY <1>1 DEF Given

\* The active workers are some of the registered ones, each once.
LEMMA ActiveDistinct == Distinct(workers) => Distinct(ActiveWorkers)
<1>. SUFFICES ASSUME Distinct(workers) PROVE Distinct(ActiveWorkers)
  OBVIOUS
<1>. DEFINE S == ActivePlaces
            n == Cardinality(S)
            rank == [x \in S |-> Cardinality({y \in S : y < x})]
<1>1. S \in SUBSET (1 .. Len(workers)) /\ S \in SUBSET Int /\ IsFiniteSet(S)
  <2>1. Len(workers) \in Nat /\ DOMAIN workers = 1 .. Len(workers)
    BY DEF Distinct
  <2>2. S \in SUBSET (1 .. Len(workers)) /\ S \in SUBSET Int
    BY <2>1 DEF ActivePlaces
  <2>3. IsFiniteSet(1 .. Len(workers))
    BY <2>1, FS_Interval
  <2>. QED
    BY <2>2, <2>3, FS_Subset
<1>2. n \in Nat /\ \A k \in 1 .. n : \E x \in S : rank[x] = k - 1
  BY <1>1, RanksEnumerate
<1>3. ASSUME NEW k \in 1 .. n PROVE PlaceNumber(k) \in S /\ rank[PlaceNumber(k)] = k - 1
  <2>1. PlaceNumber(k) = CHOOSE i \in S : rank[i] = k - 1
    BY DEF PlaceNumber
  <2>. HIDE DEF S, rank, n
  <2>. QED
    BY <1>2, <2>1
<1>. HIDE DEF S, rank, n
<1>4. ActiveWorkers = [k \in 1 .. n |-> workers[PlaceNumber(k)]]
  BY DEF ActiveWorkers, n, S
<1>5. ASSUME NEW k \in 1 .. n
      PROVE  PlaceNumber(k) \in 1 .. Len(workers) /\ workers[PlaceNumber(k)] \in WorkerIds
  <2>1. \A i \in 1 .. Len(workers) : workers[i] \in WorkerIds
    BY DEF Distinct
  <2>2. PlaceNumber(k) \in S
    BY <1>3
  <2>. QED
    BY <1>1, <2>1, <2>2
<1>6. ActiveWorkers \in Seq(WorkerIds) /\ Len(ActiveWorkers) = n
  <2>1. PICK f : f = ActiveWorkers
    OBVIOUS
  <2>2. f \in [1 .. n -> WorkerIds]
    BY <1>4, <1>5, <2>1
  <2>. QED
    BY <1>2, <2>1, <2>2
<1>7. ASSUME NEW i \in 1 .. n, NEW j \in 1 .. n, ActiveWorkers[i] = ActiveWorkers[j] PROVE i = j
  <2>1. workers[PlaceNumber(i)] = workers[PlaceNumber(j)]
    BY <1>4, <1>7
  <2>2. PlaceNumber(i) = PlaceNumber(j)
    BY <1>5, <2>1 DEF Distinct
  <2>3. i - 1 = j - 1
    BY <1>3, <2>2
  <2>. QED
    BY <2>3, <1>2
<1>. QED
  BY <1>6, <1>7 DEF Distinct
-----------------------------------------------------------------------------
(* The calls under way. *)
Routed == [at : {"dispatch", "run", "out"}, worker : WorkerIds]
Selecting == [at : {"select"}, candidates : {s \in Seq(WorkerIds) : Distinct(s)}, loads : Seq(Nat)]
Calls == {NoCall} \union Selecting \union Routed

\* Whether call k is a query at worker w, in one of the places, as a number.
Counts(k, w, places) == IF k.at \in places /\ k.worker = w THEN 1 ELSE 0
Number(calls, w, places) == Cardinality({c \in Clients : calls[c].at \in places /\ calls[c].worker = w})

Moved(after, calls, c, k) == after = [calls EXCEPT ![c] = k]

\* A client's step changes the number of queries at a worker by its own.
LEMMA CallMoves ==
    ASSUME NEW calls \in [Clients -> Calls], NEW c \in Clients, NEW k, NEW w, NEW places,
           NEW after, Moved(after, calls, c, k)
    PROVE  /\ Number(calls, w, places) \in Nat
           /\ Number(after, w, places)
                = Number(calls, w, places) + Counts(k, w, places) - Counts(calls[c], w, places)
<1>. DEFINE There(d) == d.at \in places /\ d.worker = w
            S == {d \in Clients : There(calls[d])}
            T == {d \in Clients : There(after[d])}
            U == {d \in Clients \ {c} : There(calls[d])}
<1>1. after[c] = k /\ \A d \in Clients \ {c} : after[d] = calls[d]
  BY DEF Moved
<1>. HIDE DEF There
<1>2. S = IF There(calls[c]) THEN U \union {c} ELSE U
  OBVIOUS
<1>3. T = IF There(k) THEN U \union {c} ELSE U
  BY <1>1
<1>4. IsFiniteSet(U) /\ c \notin U
  <2>1. U \in SUBSET Clients
    OBVIOUS
  <2>. QED
    BY <2>1, ClusterAssumption, FS_Subset
<1>. HIDE DEF S, T, U
<1>5. Cardinality(U) \in Nat /\ Cardinality(U \union {c}) = Cardinality(U) + 1
  BY <1>4, FS_CardinalityType, FS_AddElement
<1>6. /\ Number(calls, w, places) = Cardinality(S)
      /\ Number(after, w, places) = Cardinality(T)
  BY DEF Number, S, T, There
<1>7. /\ Counts(k, w, places) = IF There(k) THEN 1 ELSE 0
      /\ Counts(calls[c], w, places) = IF There(calls[c]) THEN 1 ELSE 0
  BY DEF Counts, There
<1>. QED
  BY <1>2, <1>3, <1>5, <1>6, <1>7

\* What each step does to the counts of worker w.
LEMMA CountsOf ==
    ASSUME NEW k \in Calls, NEW w
    PROVE  /\ k.at \in {"no_call", "select"} =>
                Counts(k, w, {"run", "out"}) = 0 /\ Counts(k, w, {"dispatch", "run"}) = 0
           /\ k.at \in {"dispatch", "run", "out"} => k \in Routed
           /\ k.at = "select" => k \in Selecting
           /\ k.at = "dispatch" =>
                /\ Counts(k, w, {"run", "out"}) = 0
                /\ Counts(k, w, {"dispatch", "run"}) = IF k.worker = w THEN 1 ELSE 0
           /\ k.at = "run" =>
                /\ Counts(k, w, {"run", "out"}) = IF k.worker = w THEN 1 ELSE 0
                /\ Counts(k, w, {"dispatch", "run"}) = IF k.worker = w THEN 1 ELSE 0
           /\ k.at = "out" =>
                /\ Counts(k, w, {"run", "out"}) = IF k.worker = w THEN 1 ELSE 0
                /\ Counts(k, w, {"dispatch", "run"}) = 0
BY DEF Counts, Calls, NoCall, Selecting, Routed
-----------------------------------------------------------------------------
\* The inductive invariant: the calls are typed, the load is accounted for, what
\* was routed to the workers adds up, and what round robin has given each active
\* worker since the table changed are its turns since then.
ClusterTypeOK ==
    /\ Distinct(workers)
    /\ counter \in Nat
    /\ active \in [WorkerIds -> Int]
    /\ executed \in [WorkerIds -> Nat]
    /\ errors \in [WorkerIds -> Nat]
    /\ routed \in [WorkerIds -> Nat]
    /\ dispatched \in [WorkerIds -> Nat]
    /\ call \in [Clients -> Calls]

LoadInv ==
    \A w \in WorkerIds :
      /\ active[w] = Number(call, w, {"run", "out"})
      /\ executed[w] + errors[w] + Number(call, w, {"dispatch", "run"}) = dispatched[w]

TurnsInv ==
    router = "round_robin" =>
      \E b \in 0 .. counter : Given(ActiveWorkers, routed, b, counter)

RoutedInv == SumOf(dispatched, WorkerIds) = counter

ClusterInv == ClusterTypeOK /\ LoadInv /\ RoutedInv /\ TurnsInv

\* A step that changes neither the table nor what was routed.
LEMMA TurnsStay ==
    ASSUME TurnsInv, UNCHANGED <<workers, status, counter, router, routed>>
    PROVE  TurnsInv'
<1>1. ActiveWorkers' = ActiveWorkers
  BY DEF ActiveWorkers, ActivePlaces, PlaceNumber
<1>. QED
  BY <1>1 DEF TurnsInv

\* A step that forgets what was routed.
LEMMA TurnsStartAgain ==
    ASSUME Distinct(workers)', routed' = NoneRouted, counter' \in Nat
    PROVE  TurnsInv'
<1>1. Distinct(ActiveWorkers)'
  BY ActiveDistinct, PTL
<1>2. Given(ActiveWorkers', routed', counter', counter')
  BY <1>1, NothingGiven
<1>3. counter' \in 0 .. counter'
  OBVIOUS
<1>. QED
  BY <1>2, <1>3 DEF TurnsInv

\* The counters change as the worker's calls do when a call goes from j to k.
Balances(j, k) ==
    \A w \in WorkerIds :
      /\ active'[w] - active[w] = Counts(k, w, {"run", "out"}) - Counts(j, w, {"run", "out"})
      /\ (executed'[w] - executed[w]) + (errors'[w] - errors[w])
           = Counts(j, w, {"dispatch", "run"}) - Counts(k, w, {"dispatch", "run"})

\* A step of one client that routes nothing: what it adds to a worker's load and
\* to its outcomes is what its own call says.
LEMMA CallKeeps ==
    ASSUME ClusterInv, NEW c \in Clients, NEW k \in Calls, Moved(call', call, c, k),
           UNCHANGED <<workers, status, counter, router, routed, dispatched>>,
           active' \in [WorkerIds -> Int], executed' \in [WorkerIds -> Nat],
           errors' \in [WorkerIds -> Nat], Balances(call[c], k)
    PROVE  ClusterInv'
<1>1. ClusterTypeOK'
  BY DEF ClusterInv, ClusterTypeOK, Moved
<1>2. TurnsInv'
  BY TurnsStay DEF ClusterInv
<1>3. LoadInv'
  <2>. SUFFICES ASSUME NEW w \in WorkerIds
                PROVE  /\ active'[w] = Number(call', w, {"run", "out"})
                       /\ executed'[w] + errors'[w] + Number(call', w, {"dispatch", "run"}) = dispatched'[w]
    BY DEF LoadInv
  <2>1. /\ active[w] = Number(call, w, {"run", "out"})
        /\ executed[w] + errors[w] + Number(call, w, {"dispatch", "run"}) = dispatched[w]
    BY DEF ClusterInv, LoadInv
  <2>2. call \in [Clients -> Calls] /\ call[c] \in Calls 
    BY DEF ClusterInv, ClusterTypeOK
  <2>3. ASSUME NEW places
        PROVE  /\ Number(call, w, places) \in Nat
               /\ Number(call', w, places)
                    = Number(call, w, places) + Counts(k, w, places) - Counts(call[c], w, places)
    BY <2>2, CallMoves
  <2>4. /\ Number(call, w, {"run", "out"}) \in Nat
        /\ Number(call, w, {"dispatch", "run"}) \in Nat
        /\ Number(call', w, {"run", "out"}) = Number(call, w, {"run", "out"})
             + Counts(k, w, {"run", "out"}) - Counts(call[c], w, {"run", "out"})
        /\ Number(call', w, {"dispatch", "run"}) = Number(call, w, {"dispatch", "run"})
             + Counts(k, w, {"dispatch", "run"}) - Counts(call[c], w, {"dispatch", "run"})
    BY <2>3
  <2>5. /\ Counts(k, w, {"run", "out"}) \in Int /\ Counts(call[c], w, {"run", "out"}) \in Int
        /\ Counts(k, w, {"dispatch", "run"}) \in Int /\ Counts(call[c], w, {"dispatch", "run"}) \in Int
    BY DEF Counts
  <2>6. /\ active[w] \in Int /\ executed[w] \in Int /\ errors[w] \in Int /\ dispatched[w] \in Int
        /\ active'[w] \in Int /\ executed'[w] \in Int /\ errors'[w] \in Int
        /\ dispatched'[w] = dispatched[w]
    BY DEF ClusterInv, ClusterTypeOK
  <2>7. active'[w] - active[w] = Counts(k, w, {"run", "out"}) - Counts(call[c], w, {"run", "out"})
    BY DEF Balances
  <2>8. (executed'[w] - executed[w]) + (errors'[w] - errors[w])
          = Counts(call[c], w, {"dispatch", "run"}) - Counts(k, w, {"dispatch", "run"})
    BY DEF Balances
  <2>. QED
    BY <2>1, <2>4, <2>5, <2>6, <2>7, <2>8
<1>4. RoutedInv'
  BY DEF ClusterInv, RoutedInv
<1>. QED
  BY <1>1, <1>2, <1>3, <1>4 DEF ClusterInv

\* A query is routed: its worker is owed its turn.
LEMMA RouteKeeps ==
    ASSUME ClusterInv, NEW c \in Clients, NEW w \in WorkerIds, call[c] \in Selecting,
           router = "round_robin" =>
             w = call[c].candidates[(counter % Len(call[c].candidates)) + 1],
           call[c].candidates # <<>>, RouteTo(c, w)
    PROVE  ClusterInv'
<1>. DEFINE k == [at |-> "dispatch", worker |-> w]
<1>1. k \in Calls /\ call' = [call EXCEPT ![c] = k] /\ k \in Routed
  BY DEF RouteTo, Calls, Routed
<1>2. ClusterTypeOK'
  <2>1. counter' \in Nat /\ dispatched' \in [WorkerIds -> Nat] /\ routed' \in [WorkerIds -> Nat]
    BY DEF RouteTo, ClusterInv, ClusterTypeOK, NoneRouted
  <2>. QED
    BY <1>1, <2>1 DEF RouteTo, ClusterInv, ClusterTypeOK
<1>3. LoadInv'
  <2>. SUFFICES ASSUME NEW v \in WorkerIds
                PROVE  /\ active'[v] = Number(call', v, {"run", "out"})
                       /\ executed'[v] + errors'[v] + Number(call', v, {"dispatch", "run"}) = dispatched'[v]
    BY DEF LoadInv
  <2>1. /\ active[v] = Number(call, v, {"run", "out"})
        /\ executed[v] + errors[v] + Number(call, v, {"dispatch", "run"}) = dispatched[v]
    BY DEF ClusterInv, LoadInv
  <2>2. /\ call \in [Clients -> Calls] /\ call[c] \in Calls /\ call[c].at = "select"
        /\ Moved(call', call, c, k)
    BY <1>1 DEF Moved, ClusterInv, ClusterTypeOK, Selecting
  <2>3. ASSUME NEW places
        PROVE  /\ Number(call, v, places) \in Nat
               /\ Number(call', v, places)
                    = Number(call, v, places) + Counts(k, v, places) - Counts(call[c], v, places)
    BY <2>2, CallMoves
  <2>4. /\ Number(call, v, {"run", "out"}) \in Nat
        /\ Number(call, v, {"dispatch", "run"}) \in Nat
        /\ Number(call', v, {"run", "out"}) = Number(call, v, {"run", "out"})
             + Counts(k, v, {"run", "out"}) - Counts(call[c], v, {"run", "out"})
        /\ Number(call', v, {"dispatch", "run"}) = Number(call, v, {"dispatch", "run"})
             + Counts(k, v, {"dispatch", "run"}) - Counts(call[c], v, {"dispatch", "run"})
    BY <2>3
  <2>5. /\ Counts(k, v, {"run", "out"}) = 0 /\ Counts(call[c], v, {"run", "out"}) = 0
        /\ Counts(k, v, {"dispatch", "run"}) = IF w = v THEN 1 ELSE 0
        /\ Counts(call[c], v, {"dispatch", "run"}) = 0
    BY <2>2 DEF Counts
  <2>6. /\ active[v] \in Int /\ executed[v] \in Int /\ errors[v] \in Int /\ dispatched[v] \in Int
        /\ active' = active /\ executed' = executed /\ errors' = errors
        /\ dispatched'[v] = dispatched[v] + IF w = v THEN 1 ELSE 0
    BY DEF ClusterInv, ClusterTypeOK, RouteTo
  <2>. QED
    BY <2>1, <2>4, <2>5, <2>6
<1>4. TurnsInv'
  <2>1. CASE call[c].candidates # ActiveWorkers
    BY <1>2, <2>1, TurnsStartAgain DEF RouteTo, ClusterTypeOK
  <2>2. CASE call[c].candidates = ActiveWorkers
    <3>. SUFFICES ASSUME router = "round_robin"
                  PROVE  \E b \in 0 .. counter' : Given(ActiveWorkers', routed', b, counter')
      BY DEF TurnsInv, RouteTo
    <3>1. PICK b \in 0 .. counter : Given(ActiveWorkers, routed, b, counter)
      BY DEF ClusterInv, TurnsInv
    <3>2. Distinct(ActiveWorkers)
      BY ActiveDistinct DEF ClusterInv, ClusterTypeOK
    <3>3. /\ counter \in Nat /\ b \in Nat /\ counter' = counter + 1 /\ b \in 0 .. counter'
          /\ routed \in [WorkerIds -> Int]
      BY DEF ClusterInv, ClusterTypeOK, RouteTo
    <3>4. routed' = [routed EXCEPT ![ActiveWorkers[(counter % Len(ActiveWorkers)) + 1]] = @ + 1]
      BY <2>2 DEF RouteTo
    <3>5. Given(ActiveWorkers, routed', b, counter + 1)
      BY <2>2, <3>1, <3>2, <3>3, <3>4, TurnTaken
    <3>6. ActiveWorkers' = ActiveWorkers
      BY DEF ActiveWorkers, ActivePlaces, PlaceNumber, RouteTo
    <3>. QED
      BY <3>3, <3>5, <3>6
  <2>. QED
    BY <2>1, <2>2
<1>5. RoutedInv'
  <2>1. dispatched \in [WorkerIds -> Nat] /\ SumOf(dispatched, WorkerIds) = counter
    BY DEF ClusterInv, ClusterTypeOK, RoutedInv
  <2>2. PICK after : after = dispatched'
    OBVIOUS
  <2>3. /\ after[w] = dispatched[w] + 1 /\ \A v \in WorkerIds \ {w} : after[v] = dispatched[v]
        /\ \A v \in WorkerIds : dispatched[v] \in Int
    BY <2>1, <2>2 DEF RouteTo
  <2>4. SumOf(after, WorkerIds) = SumOf(dispatched, WorkerIds) + 1
    BY <2>3, ClusterAssumption, SumChange
  <2>. QED
    BY <2>1, <2>2, <2>4 DEF RoutedInv, RouteTo
<1>. QED
  BY <1>2, <1>3, <1>4, <1>5 DEF ClusterInv

\* A step of one client before its query is routed.
LEMMA SelectionKeeps ==
    ASSUME ClusterInv, NEW c \in Clients, NEW k \in Calls, call' = [call EXCEPT ![c] = k],
           call[c].at \in {"no_call", "select"}, k.at \in {"no_call", "select"},
           UNCHANGED <<workers, status, counter, active, executed, errors, router, callHistory>>
    PROVE  ClusterInv'
<1>1. Moved(call', call, c, k)
  BY DEF Moved
<1>2. Balances(call[c], k)
  BY DEF Balances, Counts, ClusterInv, ClusterTypeOK
<1>3. /\ active' \in [WorkerIds -> Int] /\ executed' \in [WorkerIds -> Nat]
      /\ errors' \in [WorkerIds -> Nat]
  BY DEF ClusterInv, ClusterTypeOK
<1>. QED
  BY <1>1, <1>2, <1>3, CallKeeps DEF callHistory

\* One of the loads comes first among the least.
LEMMA LeastLoadExists ==
    ASSUME NEW loads \in Seq(Nat), loads # <<>>
    PROVE  \E i \in DOMAIN loads : \A j \in DOMAIN loads :
             loads[i] < loads[j] \/ (loads[i] = loads[j] /\ i <= j)
<1>. DEFINE S == {loads[i] : i \in DOMAIN loads}
<1>1. DOMAIN loads = 1 .. Len(loads) /\ Len(loads) \in Nat \ {0}
  OBVIOUS
<1>2. S \in SUBSET Nat /\ S # {}
  <2>1. 1 \in DOMAIN loads
    BY <1>1
  <2>2. \A i \in DOMAIN loads : loads[i] \in Nat
    BY <1>1
  <2>. QED
    BY <2>1, <2>2
<1>3. PICK m \in S : \A x \in S : m <= x
  BY <1>2, Least
<1>. DEFINE T == {i \in DOMAIN loads : loads[i] = m}
<1>4. T \in SUBSET Nat /\ T # {}
  BY <1>1, <1>3
<1>. HIDE DEF T
<1>5. PICK i \in T : \A j \in T : i <= j
  BY <1>4, Least
<1>6. ASSUME NEW j \in DOMAIN loads
      PROVE  loads[i] < loads[j] \/ (loads[i] = loads[j] /\ i <= j)
  <2>1. m <= loads[j] /\ m \in Nat /\ loads[j] \in Nat /\ loads[i] = m
    BY <1>1, <1>2, <1>3, <1>5 DEF T
  <2>2. loads[j] = m => i <= j
    BY <1>5 DEF T
  <2>. QED
    BY <2>1, <2>2
<1>. QED
  BY <1>5, <1>6 DEF T

\* A client that asked one worker more.
LEMMA LoadAsked ==
    ASSUME NEW j \in Selecting, NEW a \in Nat
    PROVE  [j EXCEPT !.loads = Append(@, a)] \in Selecting
<1>1. Append(j.loads, a) \in Seq(Nat)
  BY DEF Selecting
<1>. QED
  BY <1>1 DEF Selecting

LEMMA ClusterInvAtFirst == ClusterInit => ClusterInv
<1>. SUFFICES ASSUME ClusterInit PROVE ClusterInv
  OBVIOUS
<1>1. ClusterTypeOK
  BY DEF ClusterInit, ClusterTypeOK, NoneRouted, Distinct, Calls
<1>2. TurnsInv
  <2>1. Distinct(ActiveWorkers)
    BY <1>1, ActiveDistinct DEF ClusterTypeOK
  <2>2. Given(ActiveWorkers, routed, 0, 0)
    BY <2>1, NothingGiven DEF ClusterInit
  <2>. QED
    BY <2>2 DEF TurnsInv, ClusterInit
<1>3. LoadInv
  <2>1. \A w, places : Number(call, w, places) = 0 \/ "no_call" \in places
    <3>. SUFFICES ASSUME NEW w, NEW places, "no_call" \notin places
                  PROVE  Number(call, w, places) = 0
      OBVIOUS
    <3>1. {c \in Clients : call[c].at \in places /\ call[c].worker = w} = {}
      BY DEF ClusterInit, NoCall
    <3>. QED
      BY <3>1, FS_EmptySet DEF Number
  <2>2. \A w : Number(call, w, {"run", "out"}) = 0 /\ Number(call, w, {"dispatch", "run"}) = 0
    BY <2>1
  <2>. QED
    BY <2>2 DEF LoadInv, ClusterInit, NoneRouted
<1>4. RoutedInv
  BY ClusterAssumption, SumOfZeros DEF ClusterInit, NoneRouted, RoutedInv
<1>. QED
  BY <1>1, <1>2, <1>3, <1>4 DEF ClusterInv

\* The table changes: what was routed since starts again.
LEMMA TableKeeps ==
    ASSUME ClusterInv, Distinct(workers)', routed' = NoneRouted,
           UNCHANGED <<counter, active, executed, errors, call, dispatched>>
    PROVE  ClusterInv'
<1>1. ClusterTypeOK'
  BY DEF ClusterInv, ClusterTypeOK, NoneRouted
<1>2. TurnsInv'
  BY <1>1, TurnsStartAgain DEF ClusterTypeOK
<1>3. LoadInv'
  BY DEF ClusterInv, LoadInv
<1>4. RoutedInv'
  BY DEF ClusterInv, RoutedInv
<1>. QED
  BY <1>1, <1>2, <1>3, <1>4 DEF ClusterInv

LEMMA ClusterNextKeeps == ClusterInv /\ [ClusterNext]_clusterVars => ClusterInv'
<1>. SUFFICES ASSUME ClusterInv, [ClusterNext]_clusterVars PROVE ClusterInv'
  OBVIOUS
<1>0. /\ Distinct(workers) /\ workers \in Seq(WorkerIds)
      /\ call \in [Clients -> Calls] /\ active \in [WorkerIds -> Int]
      /\ executed \in [WorkerIds -> Nat] /\ errors \in [WorkerIds -> Nat]
  BY DEF ClusterInv, ClusterTypeOK, Distinct
<1>1. ASSUME NEW w \in WorkerIds, RegisterWorker(w) PROVE ClusterInv'
  <2>1. /\ w \notin Registered /\ workers' = Append(workers, w) /\ routed' = NoneRouted
        /\ UNCHANGED <<counter, active, executed, errors, call, dispatched>>
    BY <1>1 DEF RegisterWorker
  <2>2. /\ workers' \in Seq(WorkerIds) /\ Len(workers) \in Nat /\ Len(workers') = Len(workers) + 1
        /\ \A i \in 1 .. Len(workers) : workers'[i] = workers[i]
        /\ workers'[Len(workers) + 1] = w
    BY <1>0, <2>1, AppendShape
  <2>3. \A i \in 1 .. Len(workers) : workers[i] # w
    BY <1>0, <2>1 DEF Registered, ToSet
  <2>4. Distinct(workers)'
    <3>. SUFFICES ASSUME NEW i \in 1 .. Len(workers'), NEW j \in 1 .. Len(workers'),
                         workers'[i] = workers'[j]
                  PROVE  i = j
      BY <2>2 DEF Distinct
    <3>1. CASE i \in 1 .. Len(workers) /\ j \in 1 .. Len(workers)
      BY <1>0, <2>2, <3>1 DEF Distinct
    <3>2. CASE i = Len(workers) + 1 \/ j = Len(workers) + 1
      BY <2>2, <2>3, <3>2
    <3>. QED
      BY <2>2, <3>1, <3>2
  <2>. QED
    BY <2>1, <2>4, TableKeeps
<1>2. ASSUME NEW w \in WorkerIds, DeregisterWorker(w) PROVE ClusterInv'
  <2>1. /\ routed' = NoneRouted
        /\ UNCHANGED <<counter, active, executed, errors, call, dispatched>>
    BY <1>2 DEF DeregisterWorker
  <2>2. PICK k \in DOMAIN workers : workers' = RemoveAt(workers, k)
    BY <1>2 DEF DeregisterWorker
  <2>3. /\ workers' \in Seq(WorkerIds) /\ Len(workers) \in Nat /\ Len(workers') = Len(workers) - 1
        /\ k \in 1 .. Len(workers)
        /\ \A i \in 1 .. (Len(workers) - 1) :
             workers'[i] = IF i < k THEN workers[i] ELSE workers[i + 1]
    <3>1. k \in 1 .. Len(workers) /\ Len(workers) \in Nat
      BY <1>0, <2>2
    <3>. QED
      BY <1>0, <2>2, <3>1, RemoveAtShape
  <2>4. Distinct(workers)'
    <3>. SUFFICES ASSUME NEW i \in 1 .. Len(workers'), NEW j \in 1 .. Len(workers'),
                         workers'[i] = workers'[j]
                  PROVE  i = j
      BY <2>3 DEF Distinct
    <3>1. \A m, n \in 1 .. Len(workers) : workers[m] = workers[n] => m = n
      BY <1>0 DEF Distinct
    <3>2. PICK m \in 1 .. Len(workers), n \in 1 .. Len(workers) :
            /\ m = IF i < k THEN i ELSE i + 1
            /\ n = IF j < k THEN j ELSE j + 1
      BY <2>3
    <3>3. workers'[i] = workers[m] /\ workers'[j] = workers[n]
      BY <2>3, <3>2
    <3>4. m = n
      BY <3>1, <3>3
    <3>. QED
      BY <2>3, <3>2, <3>4
  <2>. QED
    BY <2>1, <2>4, TableKeeps
<1>3. ASSUME NEW w \in WorkerIds, NEW s \in Status, SetStatus(w, s) PROVE ClusterInv'
  <2>1. Distinct(workers)'
    BY <1>0, <1>3 DEF SetStatus, Distinct
  <2>. QED
    BY <1>3, <2>1, TableKeeps DEF SetStatus
<1>4. ASSUME NEW c \in Clients, ListActive(c) PROVE ClusterInv'
  <2>. DEFINE k == [at |-> "select", candidates |-> ActiveWorkers, loads |-> <<>>]
  <2>1. Distinct(ActiveWorkers)
    BY <1>0, ActiveDistinct
  <2>2. k \in Calls
    BY <2>1 DEF Calls, Selecting, Distinct
  <2>3. call[c].at = "no_call" /\ k.at = "select"
    BY <1>4 DEF ListActive, NoCall
  <2>. QED
    BY <1>4, <2>2, <2>3, SelectionKeeps DEF ListActive
<1>5. ASSUME NEW c \in Clients, NoneAvailable(c) PROVE ClusterInv'
  <2>1. NoCall \in Calls /\ NoCall.at = "no_call"
    BY DEF Calls, NoCall
  <2>. QED
    BY <1>5, <2>1, SelectionKeeps DEF NoneAvailable
<1>6. ASSUME NEW c \in Clients, call[c].at = "select" PROVE call[c] \in Selecting
  BY <1>0, <1>6, CountsOf
<1>7. ASSUME NEW c \in Clients, RoundRobin(c) PROVE ClusterInv'
  <2>1. call[c].at = "select" /\ call[c].candidates # <<>>
    BY <1>7 DEF RoundRobin
  <2>2. PICK s : s = call[c].candidates
    OBVIOUS
  <2>3. s \in Seq(WorkerIds) /\ s # <<>> /\ call[c] \in Selecting
    BY <1>6, <2>1, <2>2 DEF Selecting
  <2>4. PICK w : w = s[(counter % Len(s)) + 1]
    OBVIOUS
  <2>5. w \in WorkerIds
    <3>1. Len(s) \in Nat \ {0} /\ counter \in Nat
      BY <2>3 DEF ClusterInv, ClusterTypeOK
    <3>2. counter % Len(s) \in 0 .. Len(s) - 1
      BY <3>1, Remainder
    <3>3. (counter % Len(s)) + 1 \in 1 .. Len(s)
      BY <3>1, <3>2
    <3>. QED
      BY <2>3, <2>4, <3>3
  <2>6. RouteTo(c, w)
    BY <1>7, <2>2, <2>4 DEF RoundRobin
  <2>. QED
    BY <2>1, <2>2, <2>3, <2>4, <2>5, <2>6, RouteKeeps
<1>8. ASSUME NEW c \in Clients, AskLoad(c) PROVE ClusterInv'
  <2>1. /\ call[c].at = "select"
        /\ UNCHANGED <<workers, status, counter, active, executed, errors, router, callHistory>>
    BY <1>8 DEF AskLoad
  <2>2. call[c] \in Selecting
    BY <1>6, <2>1
  <2>3. PICK w : /\ w = call[c].candidates[Len(call[c].loads) + 1]
                 /\ call' = [call EXCEPT ![c].loads = Append(@, active[w])]
    BY <1>8 DEF AskLoad
  <2>4. w \in WorkerIds
    <3>1. PICK s, l : s = call[c].candidates /\ l = call[c].loads
      OBVIOUS
    <3>2. s \in Seq(WorkerIds) /\ l \in Seq(Nat) /\ Len(l) < Len(s)
      BY <1>8, <2>2, <3>1 DEF Selecting, AskLoad
    <3>3. Len(l) + 1 \in 1 .. Len(s)
      BY <3>2
    <3>. QED
      BY <2>3, <3>1, <3>2, <3>3
  <2>5. active[w] \in Nat
    <3>1. active[w] = Number(call, w, {"run", "out"})
      BY <2>4 DEF ClusterInv, LoadInv
    <3>2. Moved([call EXCEPT ![c] = NoCall], call, c, NoCall)
      BY DEF Moved
    <3>3. \A places : Number(call, w, places) \in Nat
      BY <1>0, <3>2, CallMoves
    <3>. QED
      BY <3>1, <3>3
  <2>. DEFINE k == [call[c] EXCEPT !.loads = Append(@, active[w])]
  <2>6. k \in Selecting
    BY <2>2, <2>5, LoadAsked
  <2>7. k \in Calls /\ k.at = "select" /\ call' = [call EXCEPT ![c] = k]
    BY <2>3, <2>6 DEF Calls, Selecting
  <2>. HIDE DEF k
  <2>. QED
    BY <2>1, <2>7, SelectionKeeps
<1>9. ASSUME NEW c \in Clients, LeastLoaded(c) PROVE ClusterInv'
  <2>1. /\ call[c].at = "select" /\ call[c].candidates # <<>> /\ router = "least_loaded"
        /\ Len(call[c].loads) = Len(call[c].candidates)
    BY <1>9 DEF LeastLoaded
  <2>2. PICK s, l : s = call[c].candidates /\ l = call[c].loads
    OBVIOUS
  <2>3. s \in Seq(WorkerIds) /\ s # <<>> /\ call[c] \in Selecting /\ l \in Seq(Nat) /\ Len(l) = Len(s)
    BY <1>6, <2>1, <2>2 DEF Selecting
  <2>4. PICK least : /\ least = CHOOSE i \in DOMAIN l : \A j \in DOMAIN l :
                                  l[i] < l[j] \/ (l[i] = l[j] /\ i <= j)
                     /\ RouteTo(c, s[least])
    BY <1>9, <2>2 DEF LeastLoaded
  <2>5. least \in DOMAIN l
    <3>1. l # <<>>
      BY <2>3
    <3>. QED
      BY <2>3, <2>4, <3>1, LeastLoadExists
  <2>6. s[least] \in WorkerIds
    BY <2>3, <2>5
  <2>7. router # "round_robin"
    BY <2>1
  <2>. QED
    BY <2>1, <2>3, <2>4, <2>6, <2>7, RouteKeeps
<1>10. ASSUME NEW c \in Clients, call[c].at \in {"dispatch", "run", "out"}
       PROVE  /\ call[c] \in Routed /\ call[c].worker \in WorkerIds
              /\ NoCall \in Calls
              /\ \A at \in {"run", "out"} : [call[c] EXCEPT !.at = at] \in Calls
              /\ \A at \in {"run", "out"} : [call EXCEPT ![c].at = at]
                                              = [call EXCEPT ![c] = [call[c] EXCEPT !.at = at]]
  <2>1. call[c] \in Routed
    BY <1>0, <1>10, CountsOf
  <2>2. \A at \in {"run", "out"} : [call[c] EXCEPT !.at = at] \in Routed
    BY <2>1 DEF Routed
  <2>. QED
    BY <2>1, <2>2 DEF Calls, Routed
<1>11. ASSUME NEW c \in Clients, CountIn(c) PROVE ClusterInv'
  <2>. DEFINE k == [call[c] EXCEPT !.at = "run"]
  <2>1. /\ call[c].at = "dispatch" /\ active' = [active EXCEPT ![call[c].worker] = @ + 1]
        /\ call' = [call EXCEPT ![c].at = "run"]
        /\ UNCHANGED <<workers, status, counter, executed, errors, router, callHistory>>
    BY <1>11 DEF CountIn
  <2>2. /\ call[c] \in Routed /\ k \in Calls /\ Moved(call', call, c, k)
        /\ k.at = "run" /\ k.worker = call[c].worker
    BY <1>10, <2>1 DEF Moved, Routed
  <2>. HIDE DEF k
  <2>3. Balances(call[c], k)
    <3>. SUFFICES ASSUME NEW w \in WorkerIds
                  PROVE  /\ active'[w] - active[w] = Counts(k, w, {"run", "out"}) - Counts(call[c], w, {"run", "out"})
                         /\ (executed'[w] - executed[w]) + (errors'[w] - errors[w])
                              = Counts(call[c], w, {"dispatch", "run"}) - Counts(k, w, {"dispatch", "run"})
      BY DEF Balances
    <3>1. active[w] \in Int /\ executed[w] \in Int /\ errors[w] \in Int
      BY <1>0
    <3>. QED
      BY <1>0, <2>1, <2>2, <3>1 DEF Counts
  <2>4. /\ active' \in [WorkerIds -> Int] /\ executed' \in [WorkerIds -> Nat]
        /\ errors' \in [WorkerIds -> Nat]
    <3>1. PICK v \in WorkerIds : v = call[c].worker
      BY <1>10, <2>1
    <3>2. active' = [active EXCEPT ![v] = active[v] + 1] /\ active[v] + 1 \in Int
      BY <1>0, <2>1, <3>1
    <3>. QED
      BY <1>0, <2>1, <3>2
  <2>. QED
    BY <2>1, <2>2, <2>3, <2>4, CallKeeps DEF callHistory
<1>12. ASSUME NEW c \in Clients, Succeed(c) PROVE ClusterInv'
  <2>. DEFINE k == [call[c] EXCEPT !.at = "out"]
  <2>1. /\ call[c].at = "run" /\ executed' = [executed EXCEPT ![call[c].worker] = @ + 1]
        /\ call' = [call EXCEPT ![c].at = "out"]
        /\ UNCHANGED <<workers, status, counter, active, errors, router, callHistory>>
    BY <1>12 DEF Succeed
  <2>2. /\ call[c] \in Routed /\ k \in Calls /\ Moved(call', call, c, k)
        /\ k.at = "out" /\ k.worker = call[c].worker
    BY <1>10, <2>1 DEF Moved, Routed
  <2>. HIDE DEF k
  <2>3. Balances(call[c], k)
    <3>. SUFFICES ASSUME NEW w \in WorkerIds
                  PROVE  /\ active'[w] - active[w] = Counts(k, w, {"run", "out"}) - Counts(call[c], w, {"run", "out"})
                         /\ (executed'[w] - executed[w]) + (errors'[w] - errors[w])
                              = Counts(call[c], w, {"dispatch", "run"}) - Counts(k, w, {"dispatch", "run"})
      BY DEF Balances
    <3>1. active[w] \in Int /\ executed[w] \in Int /\ errors[w] \in Int
      BY <1>0
    <3>. QED
      BY <1>0, <2>1, <2>2, <3>1 DEF Counts
  <2>4. /\ active' \in [WorkerIds -> Int] /\ executed' \in [WorkerIds -> Nat]
        /\ errors' \in [WorkerIds -> Nat]
    <3>1. PICK v \in WorkerIds : v = call[c].worker
      BY <1>10, <2>1
    <3>2. executed' = [executed EXCEPT ![v] = executed[v] + 1] /\ executed[v] + 1 \in Nat
      BY <1>0, <2>1, <3>1
    <3>. QED
      BY <1>0, <2>1, <3>2
  <2>. QED
    BY <2>1, <2>2, <2>3, <2>4, CallKeeps DEF callHistory
<1>13. ASSUME NEW c \in Clients, FailQuery(c) PROVE ClusterInv'
  <2>. DEFINE k == [call[c] EXCEPT !.at = "out"]
  <2>1. /\ call[c].at = "run" /\ errors' = [errors EXCEPT ![call[c].worker] = @ + 1]
        /\ call' = [call EXCEPT ![c].at = "out"]
        /\ UNCHANGED <<workers, status, counter, active, executed, router, callHistory>>
    BY <1>13 DEF FailQuery
  <2>2. /\ call[c] \in Routed /\ k \in Calls /\ Moved(call', call, c, k)
        /\ k.at = "out" /\ k.worker = call[c].worker
    BY <1>10, <2>1 DEF Moved, Routed
  <2>. HIDE DEF k
  <2>3. Balances(call[c], k)
    <3>. SUFFICES ASSUME NEW w \in WorkerIds
                  PROVE  /\ active'[w] - active[w] = Counts(k, w, {"run", "out"}) - Counts(call[c], w, {"run", "out"})
                         /\ (executed'[w] - executed[w]) + (errors'[w] - errors[w])
                              = Counts(call[c], w, {"dispatch", "run"}) - Counts(k, w, {"dispatch", "run"})
      BY DEF Balances
    <3>1. active[w] \in Int /\ executed[w] \in Int /\ errors[w] \in Int
      BY <1>0
    <3>. QED
      BY <1>0, <2>1, <2>2, <3>1 DEF Counts
  <2>4. /\ active' \in [WorkerIds -> Int] /\ executed' \in [WorkerIds -> Nat]
        /\ errors' \in [WorkerIds -> Nat]
    <3>1. PICK v \in WorkerIds : v = call[c].worker
      BY <1>10, <2>1
    <3>2. errors' = [errors EXCEPT ![v] = errors[v] + 1] /\ errors[v] + 1 \in Nat
      BY <1>0, <2>1, <3>1
    <3>. QED
      BY <1>0, <2>1, <3>2
  <2>. QED
    BY <2>1, <2>2, <2>3, <2>4, CallKeeps DEF callHistory
<1>14. ASSUME NEW c \in Clients, CountOut(c) PROVE ClusterInv'
  <2>1. /\ call[c].at = "out" /\ active' = [active EXCEPT ![call[c].worker] = @ - 1]
        /\ call' = [call EXCEPT ![c] = NoCall]
        /\ UNCHANGED <<workers, status, counter, executed, errors, router, callHistory>>
    BY <1>14 DEF CountOut
  <2>2. /\ call[c] \in Routed /\ NoCall \in Calls /\ Moved(call', call, c, NoCall)
        /\ NoCall.at = "no_call"
    BY <1>10, <2>1 DEF Moved, NoCall
  <2>3. Balances(call[c], NoCall)
    <3>. SUFFICES ASSUME NEW w \in WorkerIds
                  PROVE  /\ active'[w] - active[w] = Counts(NoCall, w, {"run", "out"}) - Counts(call[c], w, {"run", "out"})
                         /\ (executed'[w] - executed[w]) + (errors'[w] - errors[w])
                              = Counts(call[c], w, {"dispatch", "run"}) - Counts(NoCall, w, {"dispatch", "run"})
      BY DEF Balances
    <3>1. active[w] \in Int /\ executed[w] \in Int /\ errors[w] \in Int
      BY <1>0
    <3>. QED
      BY <1>0, <2>1, <2>2, <3>1 DEF Counts
  <2>4. /\ active' \in [WorkerIds -> Int] /\ executed' \in [WorkerIds -> Nat]
        /\ errors' \in [WorkerIds -> Nat]
    <3>1. PICK v \in WorkerIds : v = call[c].worker
      BY <1>10, <2>1
    <3>2. active' = [active EXCEPT ![v] = active[v] - 1] /\ active[v] - 1 \in Int
      BY <1>0, <2>1, <3>1
    <3>. QED
      BY <1>0, <2>1, <3>2
  <2>. QED
    BY <2>1, <2>2, <2>3, <2>4, CallKeeps DEF callHistory
<1>15. ASSUME UNCHANGED clusterVars PROVE ClusterInv'
  <2>1. ClusterTypeOK' /\ LoadInv' /\ RoutedInv'
    BY <1>15 DEF clusterVars, ClusterInv, ClusterTypeOK, LoadInv, RoutedInv, Distinct
  <2>2. TurnsInv'
    BY <1>15, TurnsStay DEF clusterVars, ClusterInv
  <2>. QED
    BY <2>1, <2>2 DEF ClusterInv
<1>. QED
  BY <1>1, <1>2, <1>3, <1>4, <1>5, <1>7, <1>8, <1>9, <1>11, <1>12, <1>13, <1>14, <1>15
  DEF ClusterNext

LEMMA ClusterInvSuffices == ClusterInv => ClusterBalanced
<1>. SUFFICES ASSUME ClusterInv PROVE LoadAccounted /\ RoundRobinFair
  BY DEF ClusterBalanced
<1>1. LoadAccounted
  BY DEF ClusterInv, LoadInv, Number, LoadAccounted, ClientsAt
<1>2. RoundRobinFair
  <2>. SUFFICES ASSUME router = "round_robin", NEW w \in ToSet(ActiveWorkers),
                       NEW v \in ToSet(ActiveWorkers)
                PROVE  routed[w] <= routed[v] + 1
    BY DEF RoundRobinFair
  <2>1. PICK s : s = ActiveWorkers
    OBVIOUS
  <2>2. Distinct(s)
    BY <2>1, ActiveDistinct DEF ClusterInv, ClusterTypeOK
  <2>3. PICK b \in 0 .. counter : Given(s, routed, b, counter)
    BY <2>1 DEF ClusterInv, TurnsInv
  <2>4. PICK n : n = Len(s)
    OBVIOUS
  <2>5. PICK i \in 1 .. n, j \in 1 .. n : s[i] = w /\ s[j] = v
    BY <2>1, <2>2, <2>4 DEF ToSet, Distinct
  <2>6. n \in Nat \ {0} /\ i - 1 \in 0 .. n - 1 /\ j - 1 \in 0 .. n - 1
        /\ counter \in Nat /\ b \in Nat
    BY <2>2, <2>4, <2>5 DEF ClusterInv, ClusterTypeOK, Distinct
  <2>7. /\ routed[w] = Turns(counter, i - 1, n) - Turns(b, i - 1, n)
        /\ routed[v] = Turns(counter, j - 1, n) - Turns(b, j - 1, n)
    BY <2>3, <2>4, <2>5 DEF Given
  <2>. QED
    BY <2>6, <2>7, TurnsFair
<1>. QED
  BY <1>1, <1>2

\* The totals of the cluster's health, with what is not in them, are the queries
\* routed: over all workers, executed + errors + under way = dispatched.
LEMMA TotalsInvSuffices == ClusterInv => TotalsAddUp
<1>. SUFFICES ASSUME ClusterInv PROVE TotalsAddUp
  OBVIOUS
<1>. DEFINE HeldAt(w) == ClientsAt(w, {"dispatch", "run"})
            under == [w \in WorkerIds |-> HeldAt(w)]
            number == [w \in WorkerIds |-> Cardinality(under[w])]
            done == [w \in WorkerIds |-> executed[w] + errors[w]]
<1>1. /\ executed \in [WorkerIds -> Nat] /\ errors \in [WorkerIds -> Nat]
      /\ dispatched \in [WorkerIds -> Nat] /\ Registered \in SUBSET WorkerIds
  BY DEF ClusterInv, ClusterTypeOK, Distinct, Registered, ToSet
<1>2. /\ \A w \in WorkerIds : under[w] \in SUBSET Clients
      /\ \A w, v \in WorkerIds : w # v => under[w] \intersect under[v] = {}
  BY DEF ClientsAt
<1>3. \A w \in WorkerIds : number[w] \in Nat
  BY <1>2, ClusterAssumption, FS_Subset, FS_CardinalityType
<1>4. \A w \in WorkerIds : dispatched[w] = done[w] + number[w]
  <2>1. \A w \in WorkerIds : number[w] = Number(call, w, {"dispatch", "run"})
    BY DEF Number, ClientsAt
  <2>. QED
    BY <1>1, <1>3, <2>1 DEF ClusterInv, LoadInv
<1>5. UNION {under[w] : w \in WorkerIds} = UNION {HeldAt(w) : w \in WorkerIds}
  OBVIOUS
<1>6. \A w \in WorkerIds : executed[w] \in Int /\ errors[w] \in Int /\ done[w] \in Int
        /\ number[w] \in Int /\ done[w] = executed[w] + errors[w]
        /\ number[w] = Cardinality(under[w])
  BY <1>1, <1>3
<1>. HIDE DEF under, number, done, HeldAt
<1>7. SumOf(done, WorkerIds) = SumOf(executed, WorkerIds) + SumOf(errors, WorkerIds)
  BY <1>6, ClusterAssumption, SumPlus
<1>8. SumOf(dispatched, WorkerIds) = SumOf(done, WorkerIds) + SumOf(number, WorkerIds)
  BY <1>4, <1>6, ClusterAssumption, SumPlus
<1>9. SumOf(number, WorkerIds) = Cardinality(UNION {HeldAt(w) : w \in WorkerIds})
  BY <1>2, <1>5, <1>6, ClusterAssumption, SizesAddUp
<1>10. /\ SumOf(executed, WorkerIds)
             = SumOf(executed, Registered) + SumOf(executed, WorkerIds \ Registered)
       /\ SumOf(errors, WorkerIds)
             = SumOf(errors, Registered) + SumOf(errors, WorkerIds \ Registered)
  BY <1>1, <1>6, ClusterAssumption, SumOfParts
<1>11. \A s \in SUBSET WorkerIds : SumOf(executed, s) \in Int /\ SumOf(errors, s) \in Int
  BY <1>6, ClusterAssumption, FS_Subset, SumStep
<1>12. /\ SumOf(executed, Registered) \in Int /\ SumOf(executed, WorkerIds \ Registered) \in Int
       /\ SumOf(errors, Registered) \in Int /\ SumOf(errors, WorkerIds \ Registered) \in Int
       /\ SumOf(number, WorkerIds) \in Int
  BY <1>1, <1>6, <1>11, ClusterAssumption, SumStep
<1>13. SumOf(dispatched, WorkerIds) = counter
  BY DEF ClusterInv, RoutedInv
<1>14. SumOf(executed, Registered) + SumOf(executed, WorkerIds \ Registered)
         + SumOf(errors, Registered) + SumOf(errors, WorkerIds \ Registered)
         + SumOf(number, WorkerIds) = counter
  BY ONLY <1>7, <1>8, <1>10, <1>12, <1>13
<1>. QED
  BY <1>9, <1>14 DEF TotalsAddUp, ClusterHealth, SumOf, HeldAt

\* A worker's load is what is under way at it and its outcomes are the rest of
\* what it was given, and round robin is fair, whatever the clients, workers and
\* status changes (ClusterCoordinator, the routers, LocalWorker).
THEOREM ClusterCorrect == ClusterSpec => []ClusterBalanced
BY ClusterInvAtFirst, ClusterNextKeeps, ClusterInvSuffices, PTL DEF ClusterSpec

-----------------------------------------------------------------------------
(***************************************************************************)
(* The metrics: a window is the tail of all that was recorded.             *)
(***************************************************************************)
HalfWindow == MaxSamples - MaxSamples \div 2

\* w is what a window keeps of the sequence all.
TailOf(w, all) ==
    /\ Len(w) <= Len(all) /\ Len(w) <= MaxSamples
    /\ Len(w) = Len(all) \/ Len(w) >= HalfWindow
    /\ \A i \in 1 .. Len(w) : w[i] = all[(Len(all) - Len(w)) + i]

LEMMA HalfType ==
    /\ MaxSamples \in Nat /\ MaxSamples >= 2
    /\ MaxSamples \div 2 \in Nat /\ HalfWindow \in Nat
    /\ HalfWindow >= 1 /\ HalfWindow < MaxSamples
<1>1. \A n \in Nat : n >= 2 => n \div 2 \in Nat /\ n \div 2 >= 1 /\ n \div 2 < n
  OBVIOUS
<1>. QED
  BY <1>1, MetricsAssumption DEF HalfWindow

LEMMA SubSeqShape ==
    ASSUME NEW S, NEW s \in Seq(S), NEW h \in Nat, h < Len(s)
    PROVE  /\ SubSeq(s, h + 1, Len(s)) \in Seq(S) /\ Len(SubSeq(s, h + 1, Len(s))) = Len(s) - h
           /\ \A i \in 1 .. Len(s) - h : SubSeq(s, h + 1, Len(s))[i] = s[h + i]
<1>1. Len(s) \in Nat
  OBVIOUS
<1>. QED
  BY <1>1

LEMMA PushKeepsTail ==
    ASSUME NEW S, NEW w \in Seq(S), NEW all \in Seq(S), NEW x \in S, TailOf(w, all)
    PROVE  Push(w, x) \in Seq(S) /\ TailOf(Push(w, x), Append(all, x))
<1>. DEFINE kept == IF Len(w) >= MaxSamples THEN SubSeq(w, MaxSamples \div 2 + 1, Len(w)) ELSE w
<1>1. /\ MaxSamples \in Nat /\ MaxSamples \div 2 \in Nat /\ HalfWindow \in Nat
      /\ HalfWindow >= 1 /\ HalfWindow < MaxSamples /\ HalfWindow = MaxSamples - MaxSamples \div 2
      /\ Len(w) \in Nat /\ Len(all) \in Nat /\ Len(w) <= Len(all) /\ Len(w) <= MaxSamples
      /\ \A i \in 1 .. Len(w) : w[i] = all[(Len(all) - Len(w)) + i]
  BY HalfType DEF TailOf, HalfWindow
<1>2. /\ kept \in Seq(S) /\ Len(kept) <= Len(w) /\ Len(kept) < MaxSamples
      /\ kept = w \/ Len(kept) = HalfWindow
      /\ \A i \in 1 .. Len(kept) : kept[i] = all[(Len(all) - Len(kept)) + i]
  <2>1. CASE Len(w) >= MaxSamples
    <3>1. PICK h : h = MaxSamples \div 2
      OBVIOUS
    <3>0. MaxSamples = Len(w)
      BY <1>1, <2>1
    <3>2. h \in Nat /\ h < Len(w) /\ HalfWindow = Len(w) - h /\ Len(w) = MaxSamples
      BY <1>1, <3>0, <3>1
    <3>a. kept = SubSeq(w, h + 1, Len(w))
      BY <2>1, <3>1
    <3>. HIDE DEF kept
    <3>3. /\ kept \in Seq(S) /\ Len(kept) = Len(w) - h
          /\ \A i \in 1 .. Len(kept) : kept[i] = w[h + i]
      BY <3>a, <3>2, SubSeqShape
    <3>4. ASSUME NEW i \in 1 .. Len(kept) PROVE kept[i] = all[(Len(all) - Len(kept)) + i]
      <4>0. Len(w) \in Nat /\ Len(all) \in Nat
        BY <1>1
      <4>a. i \in 1 .. Len(w) - h
        BY <3>3
      <4>b. h + i \in 1 .. Len(w)
        BY ONLY <3>2, <4>0, <4>a
      <4>c. (Len(all) - Len(w)) + (h + i) = (Len(all) - (Len(w) - h)) + i
        BY ONLY <3>2, <4>0, <4>a
      <4>1. h + i \in 1 .. Len(w) /\ (Len(all) - Len(w)) + (h + i) = (Len(all) - Len(kept)) + i
        BY <3>3, <4>b, <4>c
      <4>2. w[h + i] = all[(Len(all) - Len(w)) + (h + i)]
        BY ONLY <1>1, <4>1
      <4>. QED
        BY <3>3, <4>1, <4>2
    <3>. QED
      BY <1>1, <3>2, <3>3, <3>4
  <2>2. CASE ~(Len(w) >= MaxSamples)
    BY <1>1, <2>2
  <2>. QED
    BY <2>1, <2>2
<1>3. Push(w, x) = Append(kept, x)
  BY DEF Push
<1>. HIDE DEF kept
<1>4. /\ Append(kept, x) \in Seq(S) /\ Len(kept) \in Nat /\ Len(Append(kept, x)) = Len(kept) + 1
      /\ \A i \in 1 .. Len(kept) : Append(kept, x)[i] = kept[i]
      /\ Append(kept, x)[Len(kept) + 1] = x
  BY <1>2, AppendShape
<1>5. /\ Len(Append(all, x)) = Len(all) + 1
      /\ \A i \in 1 .. Len(all) : Append(all, x)[i] = all[i]
      /\ Append(all, x)[Len(all) + 1] = x
  BY AppendShape
<1>6. PICK new, more : new = Append(kept, x) /\ more = Append(all, x)
  OBVIOUS
<1>7. /\ Len(new) <= Len(more) /\ Len(new) <= MaxSamples
      /\ Len(new) = Len(more) \/ Len(new) >= HalfWindow
  BY <1>1, <1>2, <1>4, <1>5, <1>6 DEF TailOf
<1>8. ASSUME NEW i \in 1 .. Len(new) PROVE new[i] = more[(Len(more) - Len(new)) + i]
  <2>1. (Len(more) - Len(new)) + i = (Len(all) - Len(kept)) + i
    BY <1>1, <1>4, <1>5, <1>6
  <2>2. CASE i = Len(kept) + 1
    BY <1>1, <1>4, <1>5, <1>6, <2>1, <2>2
  <2>3. CASE i \in 1 .. Len(kept)
    <3>0. Len(all) \in Nat /\ Len(kept) \in Nat /\ Len(kept) <= Len(all)
      BY <1>1, <1>2, <1>4
    <3>1. (Len(all) - Len(kept)) + i \in 1 .. Len(all)
      BY ONLY <3>0, <2>3
    <3>2. new[i] = kept[i] /\ more[(Len(all) - Len(kept)) + i] = all[(Len(all) - Len(kept)) + i]
      BY <1>4, <1>5, <1>6, <2>3, <3>1
    <3>. QED
      BY <1>2, <2>1, <2>3, <3>2
  <2>4. i = Len(kept) + 1 \/ i \in 1 .. Len(kept)
    BY ONLY <1>4, <1>6, i \in 1 .. Len(new)
  <2>. QED
    BY <2>2, <2>3, <2>4
<1>. QED
  BY <1>3, <1>4, <1>6, <1>7, <1>8 DEF TailOf

LEMMA NothingIsTail == TailOf(<<>>, <<>>)
<1>1. Len(<<>>) = 0
  OBVIOUS
<1>. QED
  BY <1>1, HalfType DEF TailOf

\* A tail is a suffix.
LEMMA TailIsSuffix ==
    ASSUME NEW S, NEW w \in Seq(S), NEW all \in Seq(S), TailOf(w, all)
    PROVE  IsSuffix(w, all)
<1>. DEFINE v == Reverse(w)
            u == Reverse(all)
<1>1. /\ Len(w) \in Nat /\ Len(all) \in Nat /\ Len(w) <= Len(all)
      /\ \A i \in 1 .. Len(w) : w[i] = all[(Len(all) - Len(w)) + i]
  BY DEF TailOf
<1>2. /\ v \in Seq(S) /\ Len(v) = Len(w) /\ \A i \in 1 .. Len(w) : v[i] = w[(Len(w) - i) + 1]
      /\ u \in Seq(S) /\ Len(u) = Len(all) /\ \A i \in 1 .. Len(all) : u[i] = all[(Len(all) - i) + 1]
  <2>1. \A i \in 1 .. Len(w) : w[(Len(w) - i) + 1] \in S
    BY <1>1
  <2>2. \A i \in 1 .. Len(all) : all[(Len(all) - i) + 1] \in S
    BY <1>1
  <2>. QED
    BY <1>1, <2>1, <2>2 DEF Reverse
<1>. HIDE DEF v, u
<1>3. ASSUME NEW i \in 1 .. Len(w) PROVE v[i] = u[i]
  <2>1. /\ (Len(w) - i) + 1 \in 1 .. Len(w) /\ i \in 1 .. Len(all)
        /\ (Len(all) - Len(w)) + ((Len(w) - i) + 1) = (Len(all) - i) + 1
    BY <1>1
  <2>. QED
    BY <1>1, <1>2, <2>1
<1>4. SubSeq(v, 1, Len(v)) = SubSeq(u, 1, Len(v))
  <2>1. /\ SubSeq(v, 1, Len(v)) = [i \in 1 .. Len(w) |-> v[i]]
        /\ SubSeq(u, 1, Len(v)) = [i \in 1 .. Len(w) |-> u[i]]
    BY <1>1, <1>2
  <2>. QED
    BY <1>3, <2>1
<1>. QED
  BY <1>1, <1>2, <1>4 DEF IsSuffix, IsPrefix, v, u
-----------------------------------------------------------------------------
\* The minimum of two.
LEMMA MinOfTwo ==
    ASSUME NEW a \in Int, NEW b \in Int
    PROVE  Min({a, b}) = IF a <= b THEN a ELSE b
<1>1. PICK m : m = IF a <= b THEN a ELSE b
  OBVIOUS
<1>2. m \in {a, b} /\ (\A y \in {a, b} : m <= y)
      /\ \A x \in {a, b} : (\A y \in {a, b} : x <= y) => x = m
  BY <1>1
<1>. QED
  BY <1>1, <1>2 DEF Min

\* A set of numbers that fits into another when moved by d is not larger.
LEMMA ShiftedSize ==
    ASSUME NEW A \in SUBSET Int, NEW B, IsFiniteSet(B), NEW d \in Int, \A x \in A : x + d \in B
    PROVE  IsFiniteSet(A) /\ Cardinality(A) <= Cardinality(B)
<1>. DEFINE f == [x \in A |-> x + d]
<1>1. f \in [A -> B]
  OBVIOUS
<1>2. \A x, y \in A : f[x] = f[y] => x = y
  OBVIOUS
<1>. HIDE DEF f
<1>3. f \in Injection(A, B)
  BY <1>1, <1>2 DEF Injection, IsInjective
<1>. QED
  BY <1>3, FS_Injection

\* The members of S \ {x} and x, if it is one.
LEMMA WithOrWithout ==
    ASSUME NEW S, IsFiniteSet(S), NEW x
    PROVE  /\ Cardinality(S) \in Nat /\ Cardinality(S \ {x}) \in Nat
           /\ Cardinality(S) = Cardinality(S \ {x}) + (IF x \in S THEN 1 ELSE 0)
<1>1. Cardinality(S) \in Nat /\ IsFiniteSet(S \ {x}) /\ Cardinality(S \ {x}) \in Nat
  BY FS_RemoveElement, FS_CardinalityType
<1>2. CASE x \in S
  BY <1>1, <1>2, FS_RemoveElement
<1>3. CASE x \notin S
  <2>1. S \ {x} = S
    BY <1>3
  <2>2. Cardinality(S \ {x}) = Cardinality(S)
    BY <2>1
  <2>. QED
    BY ONLY <1>1, <1>3, <2>2
<1>. QED
  BY <1>2, <1>3
-----------------------------------------------------------------------------
(***************************************************************************)
(* A recording that took its time stamp early may be late: for each sample *)
(* of a sequence, those recorded after it with an earlier stamp, and the   *)
(* threads about to record one, are at most as many as the threads.        *)
(***************************************************************************)
Late(s, i) == Cardinality({j \in (i + 1) .. Len(s) : s[j] < s[i]})
Waiting(st, t) == Cardinality({r \in Metered : st[r] # NotRecording /\ st[r] < t})
StampsOK(s, st, t) ==
    /\ s \in Seq(Nat)
    /\ \A i \in 1 .. Len(s) : s[i] <= t /\ Late(s, i) + Waiting(st, s[i]) <= Cardinality(Metered)

LEMMA CountsType ==
    ASSUME NEW s \in Seq(Nat), NEW st, NEW t, NEW i \in Nat
    PROVE  /\ Late(s, i) \in Nat
           /\ Waiting(st, t) \in Nat /\ Waiting(st, t) <= Cardinality(Metered)
           /\ Cardinality(Metered) \in Nat
<1>1. {j \in (i + 1) .. Len(s) : s[j] < s[i]} \in SUBSET ((i + 1) .. Len(s))
  OBVIOUS
<1>2. Late(s, i) \in Nat
  <2>1. Len(s) \in Nat
    OBVIOUS
  <2>2. IsFiniteSet((i + 1) .. Len(s))
    BY <2>1, FS_Interval
  <2>. QED
    BY <1>1, <2>2, FS_Subset, FS_CardinalityType DEF Late
<1>3. {r \in Metered : st[r] # NotRecording /\ st[r] < t} \in SUBSET Metered
  OBVIOUS
<1>. QED
  BY <1>2, <1>3, MetricsAssumption, FS_Subset, FS_CardinalityType DEF Waiting

\* Thread r's stamp becomes x.
Stamped(st2, st, r, x) == st2 = [st EXCEPT ![r] = x] /\ DOMAIN st = Metered

\* A thread that has recorded no longer waits.
LEMMA WaitsNoMore ==
    ASSUME NEW st, NEW r \in Metered, st[r] # NotRecording, NEW st2,
           Stamped(st2, st, r, NotRecording), NEW t
    PROVE  Waiting(st, t) = Waiting(st2, t) + (IF st[r] < t THEN 1 ELSE 0)
<1>. DEFINE S == {q \in Metered : st[q] # NotRecording /\ st[q] < t}
            T == {q \in Metered : st2[q] # NotRecording /\ st2[q] < t}
<1>1. T = S \ {r}
  BY DEF Stamped
<1>2. IsFiniteSet(S)
  <2>1. S \in SUBSET Metered
    OBVIOUS
  <2>. QED
    BY <2>1, MetricsAssumption, FS_Subset
<1>3. r \in S <=> st[r] < t
  OBVIOUS
<1>4. Waiting(st, t) = Cardinality(S) /\ Waiting(st2, t) = Cardinality(T)
  BY DEF Waiting
<1>. HIDE DEF S, T
<1>. QED
  BY <1>1, <1>2, <1>3, <1>4, WithOrWithout

\* One sample more is one that may be late.
LEMMA OneMoreLate ==
    ASSUME NEW s \in Seq(Nat), NEW x \in Nat, NEW new, new = Append(s, x), NEW i \in 1 .. Len(s)
    PROVE  Late(new, i) = Late(s, i) + (IF x < s[i] THEN 1 ELSE 0)
<1>. DEFINE S == {j \in (i + 1) .. Len(new) : new[j] < new[i]}
            n == Len(s)
<1>1. /\ n \in Nat /\ Len(new) = n + 1 /\ new[n + 1] = x /\ \A j \in 1 .. n : new[j] = s[j]
      /\ i \in 1 .. n
  BY AppendShape
<1>. HIDE DEF n
<1>2. S \ {n + 1} = {j \in (i + 1) .. n : s[j] < s[i]}
  <2>0. n \in Nat /\ i \in 1 .. n
    BY <1>1
  <2>6. \A j : j \in (i + 1) .. (n + 1) /\ j # n + 1 <=> j \in (i + 1) .. n
    BY ONLY <2>0
  <2>b. S = {j \in (i + 1) .. (n + 1) : new[j] < new[i]}
    BY <1>1
  <2>1. \A j : j \in S /\ j # n + 1 <=> j \in (i + 1) .. n /\ new[j] < new[i]
    BY ONLY <2>6, <2>b
  <2>2. \A j \in (i + 1) .. n : new[j] = s[j]
    BY <1>1
  <2>. HIDE DEF S
  <2>3. \A j : j \in S \ {n + 1} <=> j \in {k \in (i + 1) .. n : s[k] < s[i]}
    BY <1>1, <2>1, <2>2
  <2>. QED
    BY ONLY <2>3
<1>3. n + 1 \in S <=> x < s[i]
  BY <1>1
<1>4. IsFiniteSet(S)
  <2>1. S \in SUBSET ((i + 1) .. n + 1)
    BY <1>1
  <2>2. IsFiniteSet((i + 1) .. n + 1)
    BY <1>1, FS_Interval
  <2>. QED
    BY <2>1, <2>2, FS_Subset
<1>5. Late(new, i) = Cardinality(S) /\ Late(s, i) = Cardinality(S \ {n + 1})
  BY <1>2 DEF Late, n
<1>. HIDE DEF S
<1>. QED
  BY <1>3, <1>4, <1>5, WithOrWithout

\* A thread records its stamp.
LEMMA StampRecorded ==
    ASSUME NEW s, NEW st, NEW t \in Nat, StampsOK(s, st, t), NEW r \in Metered, st[r] \in Nat,
           st[r] <= t, NEW st2, Stamped(st2, st, r, NotRecording)
    PROVE  StampsOK(Append(s, st[r]), st2, t)
<1>. DEFINE new == Append(s, st[r])
            n == Len(s)
<1>1. st[r] # NotRecording /\ s \in Seq(Nat)
  BY MetricsAssumption DEF StampsOK
<1>2. /\ n \in Nat /\ new \in Seq(Nat) /\ Len(new) = n + 1 /\ new[n + 1] = st[r]
      /\ \A j \in 1 .. n : new[j] = s[j]
  BY <1>1, AppendShape
<1>3. ASSUME NEW i \in 1 .. n
      PROVE  s[i] <= t /\ Late(new, i) + Waiting(st2, s[i]) <= Cardinality(Metered)
  <2>1. Late(new, i) = Late(s, i) + (IF st[r] < s[i] THEN 1 ELSE 0)
    BY <1>1, OneMoreLate
  <2>2. Waiting(st, s[i]) = Waiting(st2, s[i]) + (IF st[r] < s[i] THEN 1 ELSE 0)
    BY <1>1, WaitsNoMore
  <2>6. i \in Nat
    BY <1>2
  <2>3. /\ Late(s, i) \in Nat /\ Waiting(st2, s[i]) \in Nat /\ Cardinality(Metered) \in Nat
    BY <1>1, <2>6, CountsType
  <2>4. s[i] <= t /\ Late(s, i) + Waiting(st, s[i]) <= Cardinality(Metered)
    BY DEF StampsOK
  <2>. QED
    BY ONLY <2>1, <2>2, <2>3, <2>4
<1>4. Late(new, n + 1) + Waiting(st2, st[r]) <= Cardinality(Metered)
  <2>1. {j \in ((n + 1) + 1) .. Len(new) : new[j] < new[n + 1]} = {}
    BY <1>2
  <2>2. Late(new, n + 1) = 0
    BY <2>1, FS_EmptySet DEF Late
  <2>3. /\ Waiting(st2, st[r]) \in Nat /\ Waiting(st2, st[r]) <= Cardinality(Metered)
        /\ Cardinality(Metered) \in Nat
    BY <1>1, CountsType
  <2>. QED
    BY ONLY <2>2, <2>3
<1>. HIDE DEF new, n
<1>5. ASSUME NEW i \in 1 .. Len(new)
      PROVE  new[i] <= t /\ Late(new, i) + Waiting(st2, new[i]) <= Cardinality(Metered)
  <2>1. CASE i = n + 1
    BY <1>2, <1>4, <2>1
  <2>2. CASE i \in 1 .. n
    BY <1>2, <1>3, <2>2
  <2>3. i = n + 1 \/ i \in 1 .. n
    BY <1>2
  <2>. QED
    BY <2>1, <2>2, <2>3
<1>6. StampsOK(new, st2, t)
  BY <1>2, <1>5 DEF StampsOK
<1>. QED
  BY <1>6 DEF new

\* Another recording, of an error, ends.
LEMMA StampDropped ==
    ASSUME NEW s, NEW st, NEW t, StampsOK(s, st, t), NEW r \in Metered, st[r] # NotRecording,
           NEW st2, Stamped(st2, st, r, NotRecording)
    PROVE  StampsOK(s, st2, t)
<1>1. ASSUME NEW i \in 1 .. Len(s)
      PROVE  s[i] <= t /\ Late(s, i) + Waiting(st2, s[i]) <= Cardinality(Metered)
  <2>1. Waiting(st, s[i]) = Waiting(st2, s[i]) + (IF st[r] < s[i] THEN 1 ELSE 0)
    BY WaitsNoMore
  <2>2. s \in Seq(Nat) /\ i \in Nat
    BY DEF StampsOK
  <2>3. /\ Late(s, i) \in Nat /\ Waiting(st2, s[i]) \in Nat /\ Cardinality(Metered) \in Nat
    BY <2>2, CountsType
  <2>4. s[i] <= t /\ Late(s, i) + Waiting(st, s[i]) <= Cardinality(Metered)
    BY DEF StampsOK
  <2>. QED
    BY ONLY <2>1, <2>3, <2>4
<1>. QED
  BY <1>1 DEF StampsOK

\* A thread takes the time, which no stamp is ahead of.
LEMMA StampTaken ==
    ASSUME NEW s, NEW st, NEW t \in Nat, StampsOK(s, st, t), NEW r \in Metered, st[r] = NotRecording,
           NEW st2, Stamped(st2, st, r, t)
    PROVE  StampsOK(s, st2, t)
<1>1. ASSUME NEW i \in 1 .. Len(s) PROVE Waiting(st2, s[i]) = Waiting(st, s[i])
  <2>1. s[i] \in Nat /\ s[i] <= t
    BY DEF StampsOK
  <2>2. {q \in Metered : st2[q] # NotRecording /\ st2[q] < s[i]}
          = {q \in Metered : st[q] # NotRecording /\ st[q] < s[i]}
    BY <2>1 DEF Stamped
  <2>. QED
    BY <2>2 DEF Waiting
<1>. QED
  BY <1>1 DEF StampsOK

\* Of the samples a rate counts, a window holds all, or what half of it holds
\* but for the late ones: if one from before the window is recent, those of the
\* window that are not were recorded after it with an earlier stamp.
RecentIn(s, t) == Cardinality({i \in DOMAIN s : s[i] + RateWindow >= t})

LEMMA RecentOfTail ==
    ASSUME NEW w \in Seq(Nat), NEW s, NEW st, NEW t \in Nat, StampsOK(s, st, t), TailOf(w, s)
    PROVE  RecentIn(w, t) >= Min({RecentIn(s, t), HalfWindow}) - Cardinality(Metered)
<1>. DEFINE n == Len(s)
            l == Len(w)
            d == n - l
            A == {i \in 1 .. l : w[i] + RateWindow >= t}
            B == {i \in 1 .. n : s[i] + RateWindow >= t}
            C == {i \in 1 .. l : ~(w[i] + RateWindow >= t)}
            M == Cardinality(Metered)
<1>1. /\ n \in Nat /\ l \in Nat /\ l <= n /\ d \in Nat /\ n = d + l
      /\ l = n \/ l >= HalfWindow
      /\ s \in Seq(Nat) /\ \A i \in 1 .. n : s[i] \in Nat
      /\ \A i \in 1 .. l : w[i] = s[d + i] /\ w[i] \in Nat
      /\ DOMAIN s = 1 .. n /\ DOMAIN w = 1 .. l
  BY DEF TailOf, StampsOK
<1>2. RecentIn(s, t) = Cardinality(B) /\ RecentIn(w, t) = Cardinality(A)
  BY <1>1 DEF RecentIn
<1>. HIDE DEF n, l, d
<1>3. /\ RateWindow \in Nat /\ M \in Nat /\ HalfWindow \in Nat
  BY MetricsAssumption, HalfType, FS_CardinalityType
<1>4. /\ IsFiniteSet(A) /\ IsFiniteSet(B) /\ IsFiniteSet(C)
      /\ Cardinality(A) \in Nat /\ Cardinality(B) \in Nat /\ Cardinality(C) \in Nat
      /\ Cardinality(A) + Cardinality(C) = l
  <2>1. /\ IsFiniteSet(1 .. l) /\ Cardinality(1 .. l) = l /\ IsFiniteSet(1 .. n)
    BY <1>1, FS_Interval
  <2>2. A \in SUBSET (1 .. l) /\ C \in SUBSET (1 .. l) /\ B \in SUBSET (1 .. n)
    OBVIOUS
  <2>3. A \intersect C = {} /\ A \union C = 1 .. l
    OBVIOUS
  <2>. HIDE DEF A, B, C
  <2>4. IsFiniteSet(A) /\ IsFiniteSet(B) /\ IsFiniteSet(C)
    BY <2>1, <2>2, FS_Subset
  <2>5. Cardinality(A \union C) = Cardinality(A) + Cardinality(C)
    BY <2>3, <2>4, DisjointUnionSize
  <2>. QED
    BY <2>1, <2>3, <2>4, <2>5, FS_CardinalityType
<1>5. Min({Cardinality(B), HalfWindow}) = IF Cardinality(B) <= HalfWindow THEN Cardinality(B) ELSE HalfWindow
  BY <1>3, <1>4, MinOfTwo
<1>6. CASE \E j \in B : j <= d
  <2>1. PICK j \in B : j <= d
    BY <1>6
  <2>. DEFINE F == {k \in (j + 1) .. n : s[k] < s[j]}
  <2>2. j \in 1 .. n /\ s[j] + RateWindow >= t /\ s[j] \in Nat /\ j \in Nat
    BY <1>1, <2>1
  <2>3. Late(s, j) = Cardinality(F) /\ Late(s, j) <= M
    <3>1. Late(s, j) + Waiting(st, s[j]) <= M
      BY <2>2 DEF StampsOK, n
    <3>2. Late(s, j) \in Nat /\ Waiting(st, s[j]) \in Nat
      BY <1>1, <2>2, CountsType
    <3>3. Late(s, j) = Cardinality(F)
      BY DEF Late, n
    <3>. QED
      BY ONLY <1>3, <3>1, <3>2, <3>3
  <2>4. IsFiniteSet(F)
    <3>1. IsFiniteSet((j + 1) .. n) /\ F \in SUBSET ((j + 1) .. n)
      BY <1>1, <2>2, FS_Interval
    <3>. QED
      BY <3>1, FS_Subset
  <2>5. ASSUME NEW i \in C PROVE i + d \in F
    <3>0. i \in 1 .. l /\ ~(w[i] + RateWindow >= t)
      OBVIOUS
    <3>1. i \in 1 .. l /\ w[i] = s[d + i] /\ s[d + i] + RateWindow < t /\ s[d + i] \in Nat
      <4>1. PICK x : x = w[i]
        OBVIOUS
      <4>2. x = s[d + i] /\ x \in Nat
        BY <1>1, <3>0, <4>1
      <4>3. x + RateWindow < t
        BY ONLY <1>3, <3>0, <4>1, <4>2, t \in Nat
      <4>. QED
        BY <3>0, <4>1, <4>2, <4>3
    <3>2. s[d + i] < s[j]
      BY ONLY <1>3, <2>2, <3>1, t \in Nat
    <3>3. d + i \in (j + 1) .. n /\ d + i = i + d
      BY ONLY <1>1, <2>1, <2>2, <3>1
    <3>. QED
      BY <3>2, <3>3
  <2>6. C \in SUBSET Int
    OBVIOUS
  <2>. HIDE DEF B, C, F
  <2>7. Cardinality(C) <= Cardinality(F)
    <3>1. d \in Int
      BY <1>1
    <3>. QED
      BY <2>4, <2>5, <2>6, <3>1, ShiftedSize
  <2>8. l >= HalfWindow
    BY <1>1, <2>1, <2>2
  <2>9. Cardinality(A) >= HalfWindow - M
    <3>1. PICK a, c, f : a = Cardinality(A) /\ c = Cardinality(C) /\ f = Cardinality(F)
      OBVIOUS
    <3>2. a \in Nat /\ c \in Nat /\ a + c = l /\ c <= f /\ f <= M
      BY <1>4, <2>3, <2>7, <3>1
    <3>3. f \in Nat
      BY <2>4, <3>1, FS_CardinalityType
    <3>4. a >= HalfWindow - M
      BY ONLY <1>1, <1>3, <2>8, <3>2, <3>3
    <3>. QED
      BY <3>1, <3>4
  <2>. QED
    BY <1>2, <1>3, <1>4, <1>5, <2>9
<1>7. CASE \A j \in B : ~(j <= d)
  <2>1. ASSUME NEW j \in B PROVE j + (0 - d) \in A
    <3>1. j \in 1 .. n /\ s[j] + RateWindow >= t /\ ~(j <= d)
      BY <1>7
    <3>2. j + (0 - d) \in 1 .. l /\ d + (j + (0 - d)) = j
      BY ONLY <1>1, <3>1
    <3>3. w[j + (0 - d)] = s[j]
      BY <1>1, <3>2
    <3>. QED
      BY <3>1, <3>2, <3>3
  <2>2. B \in SUBSET Int /\ 0 - d \in Int
    BY <1>1
  <2>. HIDE DEF A, B
  <2>3. Cardinality(B) <= Cardinality(A)
    BY <1>4, <2>1, <2>2, ShiftedSize
  <2>. QED
    BY <1>2, <1>3, <1>4, <1>5, <2>3
<1>. QED
  BY <1>6, <1>7
-----------------------------------------------------------------------------
\* The durations and the stamps of a history of queries.
Durations(h) == [i \in DOMAIN h |-> h[i][1]]
Stamps(h) == [i \in DOMAIN h |-> h[i][2]]

LEMMA HistoryTyped ==
    ASSUME NEW h \in Seq(Int \X Nat)
    PROVE  Durations(h) \in Seq(Int) /\ Stamps(h) \in Seq(Nat)
<1>1. \A i \in 1 .. Len(h) : h[i][1] \in Int /\ h[i][2] \in Nat
  OBVIOUS
<1>2. Durations(h) = [i \in 1 .. Len(h) |-> h[i][1]] /\ Stamps(h) = [i \in 1 .. Len(h) |-> h[i][2]]
  BY DEF Durations, Stamps
<1>. QED
  BY <1>1, <1>2

LEMMA HistoryGrows ==
    ASSUME NEW h \in Seq(Int \X Nat), NEW e \in Int, NEW t \in Nat
    PROVE  /\ Durations(h) \in Seq(Int) /\ Stamps(h) \in Seq(Nat)
           /\ Len(Durations(h)) = Len(h) /\ Len(Stamps(h)) = Len(h) /\ DOMAIN h = 1 .. Len(h)
           /\ Append(h, <<e, t>>) \in Seq(Int \X Nat) /\ Len(Append(h, <<e, t>>)) = Len(h) + 1
           /\ Durations(Append(h, <<e, t>>)) = Append(Durations(h), e)
           /\ Stamps(Append(h, <<e, t>>)) = Append(Stamps(h), t)
<1>. DEFINE n == Len(h)
            x == <<e, t>>
<1>1. PICK new : new = Append(h, x)
  OBVIOUS
<1>2. x \in Int \X Nat /\ x[1] = e /\ x[2] = t
  OBVIOUS
<1>. HIDE DEF x
<1>3. /\ new \in Seq(Int \X Nat) /\ n \in Nat /\ Len(new) = n + 1
      /\ DOMAIN h = 1 .. n /\ DOMAIN new = 1 .. n + 1
      /\ \A i \in 1 .. n : new[i] = h[i]
      /\ new[n + 1] = x
  BY <1>1, <1>2, AppendShape
<1>4. \A i \in 1 .. n : h[i][1] \in Int /\ h[i][2] \in Nat
  OBVIOUS
<1>5. /\ Durations(h) = [i \in 1 .. n |-> h[i][1]] /\ Stamps(h) = [i \in 1 .. n |-> h[i][2]]
      /\ Durations(new) = [i \in 1 .. n + 1 |-> new[i][1]]
      /\ Stamps(new) = [i \in 1 .. n + 1 |-> new[i][2]]
  BY <1>3 DEF Durations, Stamps
<1>6. /\ Durations(h) \in Seq(Int) /\ Len(Durations(h)) = n
      /\ Stamps(h) \in Seq(Nat) /\ Len(Stamps(h)) = n
  BY <1>3, <1>4, <1>5
<1>7. Durations(new) = Append(Durations(h), e)
  <2>1. /\ Append(Durations(h), e) \in Seq(Int) /\ Len(Append(Durations(h), e)) = n + 1
        /\ DOMAIN Append(Durations(h), e) = 1 .. n + 1
        /\ \A i \in 1 .. n : Append(Durations(h), e)[i] = Durations(h)[i]
        /\ Append(Durations(h), e)[n + 1] = e
    BY <1>6, AppendShape
  <2>2. \A i \in 1 .. n + 1 : Append(Durations(h), e)[i] = new[i][1]
    BY <1>2, <1>3, <1>5, <2>1
  <2>3. \A a \in Seq(Int) : a = [i \in 1 .. Len(a) |-> a[i]]
    OBVIOUS
  <2>4. Append(Durations(h), e) = [i \in 1 .. n + 1 |-> Append(Durations(h), e)[i]]
    BY ONLY <2>1, <2>3
  <2>. QED
    BY <1>5, <2>2, <2>4
<1>8. Stamps(new) = Append(Stamps(h), t)
  <2>1. /\ Append(Stamps(h), t) \in Seq(Nat) /\ Len(Append(Stamps(h), t)) = n + 1
        /\ DOMAIN Append(Stamps(h), t) = 1 .. n + 1
        /\ \A i \in 1 .. n : Append(Stamps(h), t)[i] = Stamps(h)[i]
        /\ Append(Stamps(h), t)[n + 1] = t
    BY <1>6, AppendShape
  <2>2. \A i \in 1 .. n + 1 : Append(Stamps(h), t)[i] = new[i][2]
    BY <1>2, <1>3, <1>5, <2>1
  <2>3. \A a \in Seq(Nat) : a = [i \in 1 .. Len(a) |-> a[i]]
    OBVIOUS
  <2>4. Append(Stamps(h), t) = [i \in 1 .. n + 1 |-> Append(Stamps(h), t)[i]]
    BY ONLY <2>1, <2>3
  <2>. QED
    BY <1>5, <2>2, <2>4
<1>. QED
  BY <1>1, <1>3, <1>6, <1>7, <1>8 DEF x

\* The number of slow ones among durations, with one more.
Slow(s) == Cardinality({i \in DOMAIN s : s[i] > SlowThreshold})

LEMMA OneMoreSlow ==
    ASSUME NEW s \in Seq(Int), NEW e \in Int
    PROVE  Slow(Append(s, e)) = Slow(s) + (IF e > SlowThreshold THEN 1 ELSE 0)
<1>. DEFINE n == Len(s)
<1>1. PICK new : new = Append(s, e)
  OBVIOUS
<1>2. /\ n \in Nat /\ DOMAIN s = 1 .. n /\ DOMAIN new = 1 .. n + 1
      /\ new[n + 1] = e /\ \A i \in 1 .. n : new[i] = s[i]
  BY <1>1, AppendShape
<1>. HIDE DEF n
<1>. DEFINE S == {i \in 1 .. n + 1 : new[i] > SlowThreshold}
            T == {i \in 1 .. n : s[i] > SlowThreshold}
<1>3. S \ {n + 1} = T /\ (n + 1 \in S <=> e > SlowThreshold)
  BY <1>2
<1>4. IsFiniteSet(S)
  <2>1. IsFiniteSet(1 .. n + 1) /\ S \in SUBSET (1 .. n + 1)
    BY <1>2, FS_Interval
  <2>. QED
    BY <2>1, FS_Subset
<1>5. Slow(new) = Cardinality(S) /\ Slow(s) = Cardinality(T)
  BY <1>2 DEF Slow
<1>. HIDE DEF S, T
<1>. QED
  BY <1>1, <1>3, <1>4, <1>5, WithOrWithout

LEMMA NothingRecorded ==
    /\ Durations(<<>>) = <<>> /\ Stamps(<<>>) = <<>> /\ Slow(<<>>) = 0 /\ TailOf(<<>>, <<>>)
    /\ \A st, t : StampsOK(<<>>, st, t)
<1>1. Durations(<<>>) = <<>> /\ Stamps(<<>>) = <<>>
  BY DEF Durations, Stamps
<1>2. {i \in DOMAIN <<>> : <<>>[i] > SlowThreshold} = {}
  OBVIOUS
<1>. QED
  BY <1>1, <1>2, NothingIsTail, FS_EmptySet DEF Slow, StampsOK

\* The inductive invariant.
MetricsTypeOK ==
    /\ now \in Nat
    /\ stamp \in [Metered -> Nat \union {NotRecording}]
    /\ \A r \in Metered : stamp[r] # NotRecording => stamp[r] <= now
    /\ query_history \in Seq(Int \X Nat) /\ error_history \in Seq(Nat)
    /\ timings \in Seq(Int) /\ query_stamps \in Seq(Nat) /\ error_stamps \in Seq(Nat)
    /\ error_counts \in [ErrorTypes -> Nat]

WindowsInv ==
    /\ TailOf(timings, Durations(query_history))
    /\ TailOf(query_stamps, Stamps(query_history))
    /\ TailOf(error_stamps, error_history)
    /\ StampsOK(Stamps(query_history), stamp, now)

CountersInv ==
    /\ total_queries = Len(query_history) /\ total_errors = Len(error_history)
    /\ SumOf(error_counts, ErrorTypes) = total_errors
    /\ slow_queries = Slow(Durations(query_history))

MetricsInv == MetricsTypeOK /\ WindowsInv /\ CountersInv

LEMMA MetricsInvAtFirst == ClockInit /\ MetricsInit => MetricsInv
<1>. SUFFICES ASSUME ClockInit, MetricsInit PROVE MetricsInv
  OBVIOUS
<1>1. MetricsTypeOK
  BY DEF ClockInit, MetricsInit, MetricsTypeOK
<1>2. WindowsInv
  BY NothingRecorded DEF MetricsInit, WindowsInv
<1>3. SumOf(error_counts, ErrorTypes) = 0
  BY MetricsAssumption, SumOfZeros DEF MetricsInit
<1>4. CountersInv
  BY <1>3, NothingRecorded DEF MetricsInit, CountersInv
<1>. QED
  BY <1>1, <1>2, <1>4 DEF MetricsInv

LEMMA TakeStampKeeps ==
    ASSUME MetricsInv, NEW r \in Metered, TakeStamp(r) PROVE MetricsInv'
<1>1. MetricsTypeOK'
  BY DEF MetricsInv, MetricsTypeOK, TakeStamp
<1>2. Stamped(stamp', stamp, r, now)
  BY DEF MetricsInv, MetricsTypeOK, TakeStamp, Stamped
<1>3. StampsOK(Stamps(query_history), stamp', now)
  BY <1>2, StampTaken DEF MetricsInv, MetricsTypeOK, WindowsInv, TakeStamp
<1>. QED
  BY <1>1, <1>3 DEF MetricsInv, WindowsInv, CountersInv, TakeStamp

LEMMA RecordQueryKeeps ==
    ASSUME MetricsInv, NEW r \in Metered, NEW elapsed \in Elapsed, RecordQuery(r, elapsed)
    PROVE  MetricsInv'
<1>1. PICK t : t = stamp[r]
  OBVIOUS
<1>2. /\ t \in Nat /\ t <= now /\ elapsed \in Int /\ now \in Nat /\ stamp[r] # NotRecording
      /\ Stamped(stamp', stamp, r, NotRecording)
  BY <1>1, MetricsAssumption DEF MetricsInv, MetricsTypeOK, RecordQuery, Stamped
<1>3. PICK h, ds, ss : h = query_history' /\ ds = Durations(query_history) /\ ss = Stamps(query_history)
  OBVIOUS
<1>4. /\ ds \in Seq(Int) /\ ss \in Seq(Nat)
      /\ h \in Seq(Int \X Nat) /\ Len(h) = Len(query_history) + 1
      /\ Durations(h) = Append(ds, elapsed) /\ Stamps(h) = Append(ss, t)
  BY <1>1, <1>2, <1>3, HistoryGrows DEF MetricsInv, MetricsTypeOK, RecordQuery
<1>5. /\ timings' \in Seq(Int) /\ TailOf(timings', Durations(h))
  <2>1. timings \in Seq(Int) /\ TailOf(timings, ds) /\ timings' = Push(timings, elapsed)
    BY <1>3 DEF MetricsInv, MetricsTypeOK, WindowsInv, RecordQuery
  <2>. QED
    BY <1>2, <1>4, <2>1, PushKeepsTail
<1>6. /\ query_stamps' \in Seq(Nat) /\ TailOf(query_stamps', Stamps(h))
  <2>1. query_stamps \in Seq(Nat) /\ TailOf(query_stamps, ss) /\ query_stamps' = Push(query_stamps, t)
    BY <1>1, <1>3 DEF MetricsInv, MetricsTypeOK, WindowsInv, RecordQuery
  <2>. QED
    BY <1>2, <1>4, <2>1, PushKeepsTail
<1>7. StampsOK(Stamps(h), stamp', now)
  <2>1. StampsOK(ss, stamp, now)
    BY <1>3 DEF MetricsInv, WindowsInv
  <2>. QED
    BY <1>1, <1>2, <1>4, <2>1, StampRecorded
<1>8. slow_queries' = Slow(Durations(h))
  <2>1. slow_queries = Slow(ds) /\ slow_queries' = slow_queries + (IF elapsed > SlowThreshold THEN 1 ELSE 0)
    BY <1>3 DEF MetricsInv, CountersInv, RecordQuery
  <2>. QED
    BY <1>2, <1>4, <2>1, OneMoreSlow
<1>9. MetricsTypeOK'
  BY <1>3, <1>4, <1>5, <1>6 DEF MetricsInv, MetricsTypeOK, RecordQuery
<1>10. WindowsInv'
  BY <1>3, <1>5, <1>6, <1>7 DEF MetricsInv, WindowsInv, RecordQuery
<1>11. CountersInv'
  BY <1>3, <1>4, <1>8 DEF MetricsInv, CountersInv, RecordQuery
<1>. QED
  BY <1>9, <1>10, <1>11 DEF MetricsInv

LEMMA RecordErrorKeeps ==
    ASSUME MetricsInv, NEW r \in Metered, NEW type \in ErrorTypes, RecordError(r, type)
    PROVE  MetricsInv'
<1>1. PICK t : t = stamp[r]
  OBVIOUS
<1>2. /\ t \in Nat /\ stamp[r] # NotRecording /\ Stamped(stamp', stamp, r, NotRecording)
  BY <1>1, MetricsAssumption DEF MetricsInv, MetricsTypeOK, RecordError, Stamped
<1>3. /\ error_history' \in Seq(Nat) /\ Len(error_history') = Len(error_history) + 1
      /\ error_history' = Append(error_history, t)
  BY <1>1, <1>2, AppendShape DEF MetricsInv, MetricsTypeOK, RecordError
<1>4. /\ error_stamps' \in Seq(Nat) /\ TailOf(error_stamps', error_history')
  <2>1. /\ error_stamps \in Seq(Nat) /\ error_history \in Seq(Nat)
        /\ TailOf(error_stamps, error_history) /\ error_stamps' = Push(error_stamps, t)
    BY <1>1 DEF MetricsInv, MetricsTypeOK, WindowsInv, RecordError
  <2>. QED
    BY <1>2, <1>3, <2>1, PushKeepsTail
<1>5. StampsOK(Stamps(query_history), stamp', now)
  BY <1>2, StampDropped DEF MetricsInv, WindowsInv
<1>6. SumOf(error_counts', ErrorTypes) = total_errors'
  <2>1. PICK more : more = error_counts'
    OBVIOUS
  <2>2. /\ more[type] = error_counts[type] + 1
        /\ \A e \in ErrorTypes \ {type} : more[e] = error_counts[e]
        /\ \A e \in ErrorTypes : error_counts[e] \in Int
    BY <2>1 DEF MetricsInv, MetricsTypeOK, RecordError
  <2>3. SumOf(more, ErrorTypes) = SumOf(error_counts, ErrorTypes) + 1
    BY <2>2, MetricsAssumption, SumChange
  <2>. QED
    BY <2>1, <2>3 DEF MetricsInv, CountersInv, RecordError
<1>7. MetricsTypeOK'
  BY <1>3, <1>4 DEF MetricsInv, MetricsTypeOK, RecordError
<1>8. WindowsInv'
  BY <1>4, <1>5 DEF MetricsInv, WindowsInv, RecordError
<1>9. CountersInv'
  BY <1>3, <1>6 DEF MetricsInv, CountersInv, RecordError
<1>. QED
  BY <1>7, <1>8, <1>9 DEF MetricsInv

LEMMA MetricsNextKeeps == MetricsInv /\ [MetricsNext]_metricsVars => MetricsInv'
<1>. SUFFICES ASSUME MetricsInv, [MetricsNext]_metricsVars PROVE MetricsInv'
  OBVIOUS
<1>1. ASSUME ResetMetrics PROVE MetricsInv'
  <2>1. MetricsTypeOK'
    BY <1>1 DEF MetricsInv, MetricsTypeOK, ResetMetrics
  <2>2. WindowsInv'
    BY <1>1, NothingRecorded DEF ResetMetrics, WindowsInv
  <2>3. SumOf(error_counts', ErrorTypes) = 0
    BY <1>1, MetricsAssumption, SumOfZeros DEF ResetMetrics
  <2>4. CountersInv'
    BY <1>1, <2>3, NothingRecorded DEF ResetMetrics, CountersInv
  <2>. QED
    BY <2>1, <2>2, <2>4 DEF MetricsInv
<1>2. ASSUME Tick \/ now' = now,
             UNCHANGED <<total_queries, total_errors, slow_queries, error_counts, timings,
                         query_stamps, error_stamps, stamp, query_history, error_history>>
      PROVE  MetricsInv'
  <2>1. now \in Nat /\ now' \in Nat /\ now <= now'
    BY <1>2 DEF Tick, MetricsInv, MetricsTypeOK
  <2>2. MetricsTypeOK'
    BY <1>2, <2>1 DEF MetricsInv, MetricsTypeOK
  <2>3. StampsOK(Stamps(query_history), stamp, now')
    BY <2>1 DEF MetricsInv, WindowsInv, StampsOK
  <2>. QED
    BY <1>2, <2>2, <2>3 DEF MetricsInv, WindowsInv, CountersInv
<1>3. UNCHANGED metricsVars => MetricsInv'
  BY <1>2 DEF metricsVars
<1>. QED
  BY <1>1, <1>2, <1>3, TakeStampKeeps, RecordQueryKeeps, RecordErrorKeeps DEF MetricsNext

LEMMA MetricsInvSuffices == MetricsInv => WindowsAreRecent
<1>. SUFFICES ASSUME MetricsInv PROVE WindowsAreRecent
  OBVIOUS
<1>. DEFINE least(all) == Min({Len(all), MaxSamples - MaxSamples \div 2})
            ok(w, all) == IsSuffix(w, all) /\ Len(w) <= MaxSamples /\ Len(w) >= least(all)
<1>1. ASSUME NEW S, NEW w \in Seq(S), NEW all \in Seq(S), TailOf(w, all) PROVE ok(w, all)
  <2>1. Len(w) \in Nat /\ Len(all) \in Nat /\ HalfWindow \in Nat
    BY <1>1, HalfType
  <2>2. least(all) = IF Len(all) <= HalfWindow THEN Len(all) ELSE HalfWindow
    BY <2>1, MinOfTwo DEF HalfWindow
  <2>. HIDE DEF least
  <2>. QED
    BY <1>1, <2>1, <2>2, TailIsSuffix DEF TailOf
<1>2. /\ timings \in Seq(Int) /\ Durations(query_history) \in Seq(Int)
      /\ query_stamps \in Seq(Nat) /\ Stamps(query_history) \in Seq(Nat)
      /\ error_stamps \in Seq(Nat) /\ error_history \in Seq(Nat) /\ now \in Nat
      /\ query_history \in Seq(Int \X Nat) /\ DOMAIN Durations(query_history) = DOMAIN query_history
      /\ DOMAIN Stamps(query_history) = DOMAIN query_history
  <2>1. query_history \in Seq(Int \X Nat)
    BY DEF MetricsInv, MetricsTypeOK
  <2>2. Durations(query_history) \in Seq(Int) /\ Stamps(query_history) \in Seq(Nat)
    BY <2>1, HistoryTyped
  <2>3. /\ DOMAIN Durations(query_history) = DOMAIN query_history
        /\ DOMAIN Stamps(query_history) = DOMAIN query_history
    BY DEF Durations, Stamps
  <2>. QED
    BY <2>1, <2>2, <2>3 DEF MetricsInv, MetricsTypeOK
<1>3. /\ ok(timings, Durations(query_history)) /\ ok(query_stamps, Stamps(query_history))
      /\ ok(error_stamps, error_history)
  BY <1>1, <1>2 DEF MetricsInv, WindowsInv
<1>4. /\ FoldFunctionOnSet(+, 0, error_counts, ErrorTypes) = total_errors
      /\ total_queries = Len(query_history) /\ total_errors = Len(error_history)
      /\ slow_queries = Cardinality({i \in DOMAIN query_history : Durations(query_history)[i] > SlowThreshold})
  BY <1>2 DEF MetricsInv, CountersInv, SumOf, Slow
<1>5. Recent(query_stamps)
        >= Min({Recent(Stamps(query_history)), MaxSamples - MaxSamples \div 2}) - Cardinality(Metered)
  <2>1. RecentIn(query_stamps, now)
          >= Min({RecentIn(Stamps(query_history), now), HalfWindow}) - Cardinality(Metered)
    BY <1>2, RecentOfTail DEF MetricsInv, WindowsInv
  <2>. QED
    BY <2>1 DEF RecentIn, Recent, HalfWindow
<1>. QED
  BY <1>3, <1>4, <1>5 DEF WindowsAreRecent, Durations, Stamps

\* The windows of recent samples are the end of what was recorded, whatever the
\* threads, and the counters count it all (QueryMetrics of metrics.py).
THEOREM MetricsCorrect == MetricsSpec => []WindowsAreRecent
<1>1. MetricsSpec => []MetricsInv
  BY MetricsInvAtFirst, MetricsNextKeeps, PTL DEF MetricsSpec
<1>. QED
  BY <1>1, MetricsInvSuffices, PTL

-----------------------------------------------------------------------------
(***************************************************************************)
(* The tables made of sources.                                             *)
(***************************************************************************)
LEMMA FunctionIsSeq ==
    ASSUME NEW n \in Nat, NEW f, f = [k \in 1 .. n |-> f[k]]
    PROVE  IsSeq(f) /\ Len(f) = n /\ DOMAIN f = 1 .. n
<1>1. DOMAIN f = 1 .. n
  OBVIOUS
<1>2. f \in [1 .. n -> Range(f)]
  BY <1>1 DEF Range
<1>. QED
  BY <1>1, <1>2 DEF IsSeq

LEMMA SeqShape ==
    ASSUME NEW s, IsSeq(s)
    PROVE  Len(s) \in Nat /\ DOMAIN s = 1 .. Len(s) /\ s = [k \in 1 .. Len(s) |-> s[k]]
BY DEF IsSeq

\* A table of rows with numbers for identifiers, and one with one row for each.
Rowed(t) == IsSeq(t.rows) /\ \A i \in DOMAIN t.rows : t.rows[i].id \in Nat
OneEach(t) == \A i, j \in DOMAIN t.rows : t.rows[i].id = t.rows[j].id => i = j

LEMMA IdsType ==
    ASSUME NEW t, Rowed(t)
    PROVE  IdsOf(t) \in SUBSET Nat /\ IsFiniteSet(IdsOf(t))
<1>. DEFINE f == [i \in DOMAIN t.rows |-> t.rows[i].id]
<1>1. DOMAIN t.rows = 1 .. Len(t.rows) /\ Len(t.rows) \in Nat
  BY SeqShape DEF Rowed
<1>2. f \in Surjection(DOMAIN t.rows, IdsOf(t))
  BY DEF Surjection, IdsOf
<1>3. IsFiniteSet(DOMAIN t.rows)
  <2>1. PICK n \in Nat : DOMAIN t.rows = 1 .. n
    BY <1>1
  <2>2. IsFiniteSet(1 .. n)
    BY ONLY n \in Nat, FS_Interval
  <2>. QED
    BY ONLY <2>1, <2>2
<1>. QED
  BY <1>2, <1>3, FS_Surjection DEF Rowed, IdsOf

\* One row for each identifier: as many rows as identifiers.
LEMMA OneEachSize ==
    ASSUME NEW t, Rowed(t), OneEach(t)
    PROVE  Cardinality(IdsOf(t)) = Len(t.rows)
<1>. DEFINE f == [i \in DOMAIN t.rows |-> t.rows[i].id]
<1>1. DOMAIN t.rows = 1 .. Len(t.rows) /\ Len(t.rows) \in Nat
  BY SeqShape DEF Rowed
<1>2. f \in Surjection(DOMAIN t.rows, IdsOf(t))
  BY DEF Surjection, IdsOf
<1>3. f \in Injection(DOMAIN t.rows, IdsOf(t))
  BY DEF Injection, IsInjective, IdsOf, OneEach
<1>4. IsFiniteSet(DOMAIN t.rows) /\ Cardinality(DOMAIN t.rows) = Len(t.rows)
  BY <1>1, FS_Interval
<1>. QED
  BY <1>2, <1>3, <1>4, FS_Surjection

\* The value of an identifier that has one row, and of one that has none.
LEMMA ValueInRow ==
    ASSUME NEW t, OneEach(t), NEW i \in DOMAIN t.rows, NEW id, id = t.rows[i].id, NEW c
    PROVE  ValueOf(t, id, c) = IF c \in t.cols THEN t.rows[i].val[c] ELSE Null
<1>1. \A j \in DOMAIN t.rows : t.rows[j].id = id => j = i
  BY DEF OneEach
<1>2. (CHOOSE j \in DOMAIN t.rows : t.rows[j].id = id) = i
  BY <1>1
<1>. QED
  BY <1>2 DEF ValueOf

LEMMA NoValue ==
    ASSUME NEW t, NEW id, NEW c, id \notin IdsOf(t) \/ c \notin t.cols
    PROVE  ValueOf(t, id, c) = Null
BY DEF ValueOf, IdsOf
-----------------------------------------------------------------------------
\* The numbers of a finite set in order.
LEMMA InOrderShape ==
    ASSUME NEW S \in SUBSET Nat, IsFiniteSet(S), NEW s, s = InOrder(S)
    PROVE  /\ Len(s) \in Nat /\ DOMAIN s = 1 .. Len(s)
           /\ \A i \in 1 .. Len(s) : s[i] \in S
           /\ \A x \in S : \E i \in 1 .. Len(s) : s[i] = x
           /\ \A i, j \in 1 .. Len(s) : i < j => s[i] < s[j]
           /\ \A i, j \in 1 .. Len(s) : s[i] = s[j] => i = j
<1>1. S \in SUBSET Int
  OBVIOUS
<1>2. /\ s \in Seq(S) /\ DOMAIN s = 1 .. Len(s) /\ Range(s) = S
      /\ \A i, j \in 1 .. Len(s) : i < j => s[i] < s[j]
  BY <1>1, AscendingSequence DEF InOrder
<1>3. Len(s) \in Nat /\ \A i \in 1 .. Len(s) : s[i] \in S
  BY <1>2
<1>4. \A x \in S : \E i \in 1 .. Len(s) : s[i] = x
  BY <1>2 DEF Range
<1>5. ASSUME NEW i \in 1 .. Len(s), NEW j \in 1 .. Len(s), s[i] = s[j], i # j PROVE FALSE
  <2>1. i < j \/ j < i
    BY <1>3, <1>5
  <2>2. s[i] < s[j] \/ s[j] < s[i]
    BY <1>2, <2>1
  <2>3. s[i] \in Nat /\ s[j] \in Nat
    BY <1>3
  <2>. QED
    BY ONLY <1>5, <2>2, <2>3
<1>. QED
  BY <1>2, <1>3, <1>4, <1>5

\* Deduplicating leaves each identifier one row, the first it had.
LEMMA DedupShape ==
    ASSUME NEW t, Rowed(t), NEW d, d = Dedup(t)
    PROVE  Rowed(d) /\ OneEach(d) /\ IdsOf(d) = IdsOf(t) /\ d.cols = t.cols
<1>. DEFINE first == FirstRows(t.rows)
            firsts == InOrder(first)
<1>1. DOMAIN t.rows = 1 .. Len(t.rows) /\ Len(t.rows) \in Nat /\ \A i \in DOMAIN t.rows : t.rows[i].id \in Nat
  BY SeqShape DEF Rowed
<1>2. first \in SUBSET (1 .. Len(t.rows)) /\ first \in SUBSET Nat /\ IsFiniteSet(first)
  <2>1. first \in SUBSET (1 .. Len(t.rows)) /\ IsFiniteSet(1 .. Len(t.rows))
    <3>1. first \in SUBSET (DOMAIN t.rows)
      BY DEF FirstRows
    <3>. QED
      BY <1>1, <3>1, FS_Interval
  <2>2. 1 .. Len(t.rows) \in SUBSET Nat
    BY <1>1
  <2>. HIDE DEF first
  <2>. QED
    BY <2>1, <2>2, FS_Subset
<1>3. /\ Len(firsts) \in Nat /\ DOMAIN firsts = 1 .. Len(firsts)
      /\ \A k \in 1 .. Len(firsts) : firsts[k] \in first
      /\ \A i \in first : \E k \in 1 .. Len(firsts) : firsts[k] = i
      /\ \A k, m \in 1 .. Len(firsts) : k < m => firsts[k] < firsts[m]
  <2>. HIDE DEF first
  <2>. QED
    BY <1>2, InOrderShape
<1>4. d.cols = t.cols /\ d.rows = [k \in DOMAIN firsts |-> t.rows[firsts[k]]]
  BY DEF Dedup
<1>. HIDE DEF firsts
<1>5. /\ IsSeq(d.rows) /\ DOMAIN d.rows = 1 .. Len(firsts)
      /\ \A k \in 1 .. Len(firsts) : d.rows[k] = t.rows[firsts[k]]
  <2>1. DOMAIN d.rows = 1 .. Len(firsts) /\ d.rows = [k \in 1 .. Len(firsts) |-> d.rows[k]]
    BY <1>3, <1>4
  <2>. QED
    BY <1>3, <1>4, <2>1, FunctionIsSeq
<1>6. Rowed(d)
  BY <1>1, <1>2, <1>3, <1>5 DEF Rowed
<1>7. OneEach(d)
  <2>1. ASSUME NEW k \in 1 .. Len(firsts), NEW m \in 1 .. Len(firsts), k < m
        PROVE  d.rows[k].id # d.rows[m].id
    <3>1. firsts[k] < firsts[m] /\ firsts[k] \in first /\ firsts[m] \in first
      BY <1>3, <2>1
    <3>2. firsts[k] \in Nat /\ firsts[m] \in Nat /\ firsts[k] >= 1
      BY <1>1, <1>2, <3>1
    <3>3. firsts[k] \in 1 .. firsts[m] - 1
      BY <3>1, <3>2
    <3>4. \A i \in 1 .. firsts[m] - 1 : t.rows[i].id # t.rows[firsts[m]].id
      BY <3>1 DEF FirstRows
    <3>. QED
      BY <1>5, <3>3, <3>4
  <2>2. ASSUME NEW k \in 1 .. Len(firsts), NEW m \in 1 .. Len(firsts), d.rows[k].id = d.rows[m].id, k # m
        PROVE  FALSE
    <3>1. k < m \/ m < k
      BY <1>3, <2>2
    <3>. QED
      BY <2>1, <2>2, <3>1
  <2>. QED
    BY <1>5, <2>2 DEF OneEach
<1>8. IdsOf(d) = IdsOf(t)
  <2>1. ASSUME NEW k \in DOMAIN d.rows PROVE d.rows[k].id \in IdsOf(t)
    BY <1>1, <1>2, <1>3, <1>5 DEF IdsOf
  <2>2. ASSUME NEW i \in DOMAIN t.rows PROVE t.rows[i].id \in IdsOf(d)
    <3>. DEFINE same == {j \in DOMAIN t.rows : t.rows[j].id = t.rows[i].id}
    <3>1. same \in SUBSET Nat /\ same # {}
      BY <1>1
    <3>2. PICK j \in same : \A m \in same : j <= m
      BY <3>1, Least
    <3>3. j \in DOMAIN t.rows /\ j \in Nat /\ t.rows[j].id = t.rows[i].id
      BY <3>1
    <3>4. \A m \in 1 .. j - 1 : m \in DOMAIN t.rows /\ ~(j <= m)
      BY <1>1, <3>3
    <3>5. j \in first
      BY <3>2, <3>3, <3>4 DEF FirstRows
    <3>6. PICK k \in 1 .. Len(firsts) : firsts[k] = j
      BY <1>3, <3>5
    <3>. QED
      BY <1>5, <3>3, <3>6 DEF IdsOf
  <2>. QED
    BY <2>1, <2>2 DEF IdsOf
<1>. QED
  BY <1>4, <1>6, <1>7, <1>8
-----------------------------------------------------------------------------
\* A source as the inductive invariant needs it.
SourceOK(s) == IsSeq(s.rows) /\ \A i \in DOMAIN s.rows : s.rows[i].id \in Nat

LEMMA SourcesOK == \A s \in Sources : SourceOK(s)
BY RegistryAssumption DEF SourceOK, IsSeq, Range

\* What joining an entity's table with a source's does.
LEMMA JoinShape ==
    ASSUME NEW old, Rowed(old), OneEach(old), NEW new, Rowed(new), OneEach(new),
           NEW t, t = OuterJoin(old, new)
    PROVE  /\ Rowed(t) /\ OneEach(t)
           /\ IdsOf(t) = IdsOf(old) \union IdsOf(new) /\ t.cols = old.cols \union new.cols
           /\ \A id \in IdsOf(t), c \in t.cols :
                ValueOf(t, id, c) = IF c \in new.cols THEN ValueOf(new, id, c) ELSE ValueOf(old, id, c)
<1>. DEFINE all == IdsOf(old) \union IdsOf(new)
            ids == InOrder(all)
            cols == old.cols \union new.cols
            cell(id, c) == IF c \in new.cols THEN ValueOf(new, id, c) ELSE ValueOf(old, id, c)
<1>1. all \in SUBSET Nat /\ IsFiniteSet(all)
  BY IdsType, FS_Union
<1>. HIDE DEF all
<1>2. /\ Len(ids) \in Nat /\ DOMAIN ids = 1 .. Len(ids)
      /\ \A i \in 1 .. Len(ids) : ids[i] \in all
      /\ \A x \in all : \E i \in 1 .. Len(ids) : ids[i] = x
      /\ \A i, j \in 1 .. Len(ids) : ids[i] = ids[j] => i = j
  BY <1>1, InOrderShape
<1>3. /\ t.cols = cols
      /\ t.rows = [k \in DOMAIN ids |-> [id |-> ids[k], val |-> [c \in cols |-> cell(ids[k], c)]]]
  BY DEF OuterJoin, all
<1>. HIDE DEF ids, cols, cell
<1>4. /\ DOMAIN t.rows = 1 .. Len(ids) /\ t.rows = [k \in 1 .. Len(ids) |-> t.rows[k]]
      /\ \A k \in 1 .. Len(ids) : /\ t.rows[k].id = ids[k]
                                   /\ \A c \in cols : t.rows[k].val[c] = cell(ids[k], c)
  BY <1>2, <1>3
<1>5. Rowed(t)
  BY <1>1, <1>2, <1>4, FunctionIsSeq DEF Rowed
<1>6. OneEach(t)
  BY <1>2, <1>4 DEF OneEach
<1>7. IdsOf(t) = all
  BY <1>2, <1>4 DEF IdsOf
<1>8. ASSUME NEW id \in IdsOf(t), NEW c \in t.cols PROVE ValueOf(t, id, c) = cell(id, c)
  <2>1. PICK k \in 1 .. Len(ids) : ids[k] = id
    BY <1>2, <1>7
  <2>2. k \in DOMAIN t.rows /\ id = t.rows[k].id /\ t.rows[k].val[c] = cell(id, c)
    BY <1>3, <1>4, <2>1
  <2>. QED
    BY <1>6, <2>2, ValueInRow
<1>. QED
  BY <1>3, <1>5, <1>6, <1>7, <1>8 DEF all, cols, cell
-----------------------------------------------------------------------------
\* The column of the newest source that has it.
LEMMA NewestIs ==
    ASSUME NEW ss, Len(ss) \in Nat, DOMAIN ss = 1 .. Len(ss), NEW c, NEW i \in DOMAIN ss, c \in ss[i].cols
    PROVE  /\ Newest(ss, c) \in DOMAIN ss /\ c \in ss[Newest(ss, c)].cols
           /\ \A j \in Newest(ss, c) + 1 .. Len(ss) : c \notin ss[j].cols
           /\ \A k \in DOMAIN ss : c \in ss[k].cols /\ (\A j \in k + 1 .. Len(ss) : c \notin ss[j].cols)
                                    => k = Newest(ss, c)
<1>. DEFINE Having == {Len(ss) - k : k \in {k \in DOMAIN ss : c \in ss[k].cols}}
            LastAt(k) == c \in ss[k].cols /\ \A j \in k + 1 .. Len(ss) : c \notin ss[j].cols
<1>1. Having \in SUBSET Nat /\ Len(ss) - i \in Having
  OBVIOUS
<1>2. PICK n \in Having : \A m \in Having : n <= m
  BY <1>1, Least
<1>3. PICK k \in DOMAIN ss : n = Len(ss) - k /\ c \in ss[k].cols
  OBVIOUS
<1>4. ASSUME NEW j \in k + 1 .. Len(ss), c \in ss[j].cols PROVE FALSE
  <2>1. j \in DOMAIN ss /\ j > k /\ k \in Nat /\ j \in Nat
    OBVIOUS
  <2>2. Len(ss) - j \in Having
    BY <1>4, <2>1
  <2>3. n <= Len(ss) - j
    BY <1>2, <2>2
  <2>. QED
    BY ONLY <1>3, <2>1, <2>3, Len(ss) \in Nat
<1>5. LastAt(k)
  BY <1>3, <1>4
<1>6. ASSUME NEW a \in DOMAIN ss, NEW b \in DOMAIN ss, LastAt(a), LastAt(b), a # b PROVE FALSE
  <2>1. a \in b + 1 .. Len(ss) \/ b \in a + 1 .. Len(ss)
    BY <1>6
  <2>. QED
    BY <1>6, <2>1
<1>7. Newest(ss, c) \in DOMAIN ss /\ LastAt(Newest(ss, c))
  BY <1>5 DEF Newest
<1>8. \A a \in DOMAIN ss : LastAt(a) => a = Newest(ss, c)
  BY <1>6, <1>7
<1>. QED
  BY <1>7, <1>8

NewestSource(ss, c) == ss[Newest(ss, c)]

LEMMA NewestAdded ==
    ASSUME NEW ss, IsSeq(ss), NEW s, NEW more, more = Append(ss, s), NEW c, c \in s.cols
    PROVE  NewestSource(more, c) = s
<1>1. /\ Len(ss) \in Nat /\ Len(more) = Len(ss) + 1
      /\ DOMAIN ss = 1 .. Len(ss) /\ DOMAIN more = 1 .. Len(more)
      /\ \A i \in 1 .. Len(ss) : more[i] = ss[i]
      /\ more[Len(ss) + 1] = s
  BY AppendAny
<1>2. Newest(more, c) = Len(ss) + 1
  <2>1. Len(ss) + 1 \in DOMAIN more /\ c \in more[Len(ss) + 1].cols
    BY <1>1
  <2>2. \A j \in (Len(ss) + 1) + 1 .. Len(more) : c \notin more[j].cols
    BY <1>1
  <2>3. Len(more) \in Nat
    BY <1>1
  <2>. QED
    BY <1>1, <2>1, <2>2, <2>3, NewestIs
<1>. QED
  BY <1>1, <1>2 DEF NewestSource

\* The newest source has the column no more, and an earlier one does.
Earlier(ss, s, c) == c \notin s.cols /\ \E i \in DOMAIN ss : c \in ss[i].cols

LEMMA NewestKept ==
    ASSUME NEW ss, IsSeq(ss), NEW s, NEW c, Earlier(ss, s, c)
    PROVE  NewestSource(Append(ss, s), c) = NewestSource(ss, c)
<1>. DEFINE more == Append(ss, s)
<1>0. PICK i \in DOMAIN ss : c \notin s.cols /\ c \in ss[i].cols
  BY DEF Earlier
<1>1. /\ Len(ss) \in Nat /\ Len(more) = Len(ss) + 1
      /\ DOMAIN ss = 1 .. Len(ss) /\ DOMAIN more = 1 .. Len(more)
      /\ \A k \in 1 .. Len(ss) : more[k] = ss[k]
      /\ more[Len(ss) + 1] = s
  BY AppendAny
<1>. HIDE DEF more
<1>2. Newest(more, c) = Newest(ss, c) /\ Newest(ss, c) \in DOMAIN ss
  <2>1. PICK k : k = Newest(ss, c)
    OBVIOUS
  <2>2. k \in DOMAIN ss /\ c \in ss[k].cols /\ \A j \in k + 1 .. Len(ss) : c \notin ss[j].cols
    BY <1>0, <1>1, <2>1, NewestIs
  <2>3. k \in DOMAIN more /\ c \in more[k].cols /\ Len(more) \in Nat
    BY <1>1, <2>2
  <2>4. ASSUME NEW j \in k + 1 .. Len(more) PROVE c \notin more[j].cols
    <3>1. j = Len(ss) + 1 \/ j \in k + 1 .. Len(ss)
      BY <1>1, <2>2
    <3>2. j \in k + 1 .. Len(ss) => j \in 1 .. Len(ss)
      BY <1>1, <2>2
    <3>. QED
      BY <1>0, <1>1, <2>2, <3>1, <3>2
  <2>. QED
    BY <1>1, <2>1, <2>2, <2>3, <2>4, NewestIs
<1>3. NewestSource(more, c) = NewestSource(ss, c)
  BY <1>1, <1>2 DEF NewestSource
<1>. QED
  BY ONLY <1>3 DEF more
-----------------------------------------------------------------------------
\* What the table of an entity is to its sources, with all that the next join needs.
EntityOK(t, ss) ==
    /\ Rowed(t) /\ OneEach(t)
    /\ IdsOf(t) = UNION {IdsOf(ss[i]) : i \in DOMAIN ss}
    /\ t.cols = UNION {ss[i].cols : i \in DOMAIN ss}
    /\ \A id \in IdsOf(t), c \in t.cols :
         ValueOf(t, id, c) = ValueOf(Dedup(Content(ss[Newest(ss, c)])), id, c)

LEMMA ContentShape ==
    ASSUME NEW s, SourceOK(s), NEW d, d = Dedup(Content(s))
    PROVE  /\ Rowed(Content(s)) /\ IdsOf(Content(s)) = IdsOf(s)
           /\ Rowed(d) /\ OneEach(d) /\ IdsOf(d) = IdsOf(s) /\ d.cols = s.cols
<1>1. Rowed(Content(s)) /\ IdsOf(Content(s)) = IdsOf(s) /\ Content(s).cols = s.cols
  BY DEF Rowed, Content, IdsOf, SourceOK
<1>. QED
  BY <1>1, DedupShape

LEMMA FirstEntity ==
    ASSUME NEW s \in Sources, NEW ss, ss = <<s>>
    PROVE  EntityOK(Dedup(Content(s)), ss)
<1>1. PICK d : d = Dedup(Content(s))
  OBVIOUS
<1>2. Rowed(d) /\ OneEach(d) /\ IdsOf(d) = IdsOf(s) /\ d.cols = s.cols
  BY <1>1, SourcesOK, ContentShape
<1>3. Len(ss) = 1 /\ DOMAIN ss = 1 .. Len(ss) /\ DOMAIN ss = {1} /\ ss[1] = s
  OBVIOUS
<1>4. ASSUME NEW c \in s.cols PROVE Newest(ss, c) = 1
  BY <1>3, NewestIs
<1>. QED
  BY <1>1, <1>2, <1>3, <1>4 DEF EntityOK

\* Joining with a further source adds it to the sources.
LEMMA JoinKeeps ==
    ASSUME NEW ss \in Seq(Sources), NEW old, EntityOK(old, ss), NEW s \in Sources,
           NEW t, t = OuterJoin(old, Dedup(Content(s))), NEW more, more = Append(ss, s)
    PROVE  EntityOK(t, more)
<1>1. PICK d : d = Dedup(Content(s))
  OBVIOUS
<1>2. Rowed(d) /\ OneEach(d) /\ IdsOf(d) = IdsOf(s) /\ d.cols = s.cols
  BY <1>1, SourcesOK, ContentShape
<1>3. /\ Rowed(t) /\ OneEach(t)
      /\ IdsOf(t) = IdsOf(old) \union IdsOf(d) /\ t.cols = old.cols \union d.cols
      /\ \A id \in IdsOf(t), c \in t.cols :
           ValueOf(t, id, c) = IF c \in d.cols THEN ValueOf(d, id, c) ELSE ValueOf(old, id, c)
  BY <1>1, <1>2, JoinShape DEF EntityOK
<1>4. /\ IsSeq(ss) /\ Len(ss) \in Nat /\ Len(more) = Len(ss) + 1
      /\ DOMAIN ss = 1 .. Len(ss) /\ DOMAIN more = 1 .. Len(ss) + 1
      /\ \A i \in 1 .. Len(ss) : more[i] = ss[i] /\ ss[i] \in Sources
      /\ more[Len(ss) + 1] = s
  <2>1. IsSeq(ss)
    <3>1. Len(ss) \in Nat /\ ss = [i \in 1 .. Len(ss) |-> ss[i]]
      OBVIOUS
    <3>. QED
      BY <3>1, FunctionIsSeq
  <2>. QED
    BY <2>1, AppendAny
<1>5. IdsOf(t) = UNION {IdsOf(more[i]) : i \in DOMAIN more}
  <2>1. IdsOf(old) = UNION {IdsOf(ss[i]) : i \in DOMAIN ss}
    BY DEF EntityOK
  <2>2. ASSUME NEW x PROVE x \in IdsOf(old) <=> \E i \in 1 .. Len(ss) : x \in IdsOf(more[i])
    BY <1>4, <2>1
  <2>3. ASSUME NEW x PROVE x \in IdsOf(t) <=> \E i \in 1 .. Len(ss) + 1 : x \in IdsOf(more[i])
    <3>1. \A i : i \in 1 .. Len(ss) + 1 <=> i \in 1 .. Len(ss) \/ i = Len(ss) + 1
      BY <1>4
    <3>. QED
      BY <1>2, <1>3, <1>4, <2>2, <3>1
  <2>. QED
    BY <1>4, <2>3
<1>6. t.cols = UNION {more[i].cols : i \in DOMAIN more}
  <2>1. old.cols = UNION {ss[i].cols : i \in DOMAIN ss}
    BY DEF EntityOK
  <2>2. ASSUME NEW x PROVE x \in old.cols <=> \E i \in 1 .. Len(ss) : x \in more[i].cols
    BY <1>4, <2>1
  <2>3. ASSUME NEW x PROVE x \in t.cols <=> \E i \in 1 .. Len(ss) + 1 : x \in more[i].cols
    <3>1. \A i : i \in 1 .. Len(ss) + 1 <=> i \in 1 .. Len(ss) \/ i = Len(ss) + 1
      BY <1>4
    <3>. QED
      BY <1>2, <1>3, <1>4, <2>2, <3>1
  <2>. QED
    BY <1>4, <2>3
<1>7. ASSUME NEW id \in IdsOf(t), NEW c \in t.cols
      PROVE  ValueOf(t, id, c) = ValueOf(Dedup(Content(more[Newest(more, c)])), id, c)
  <2>1. CASE c \in s.cols
    <3>1. more[Newest(more, c)] = s
      <4>1. IsSeq(ss) /\ more = Append(ss, s)
        BY <1>4
      <4>. QED
        BY ONLY <2>1, <4>1, NewestAdded DEF NewestSource
    <3>. QED
      BY <1>1, <1>2, <1>3, <2>1, <3>1
  <2>2. CASE c \notin s.cols
    <3>1. PICK i \in DOMAIN ss : c \in ss[i].cols
      BY <1>2, <1>3, <2>2 DEF EntityOK
    <3>2. PICK k : k = Newest(ss, c)
      OBVIOUS
    <3>3. k \in DOMAIN ss /\ more[Newest(more, c)] = ss[k]
      <4>1. IsSeq(ss) /\ more = Append(ss, s)
        BY <1>4
      <4>2. NewestSource(more, c) = NewestSource(ss, c)
        <5>1. Earlier(ss, s, c)
          BY <2>2, <3>1 DEF Earlier
        <5>. QED
          BY ONLY <4>1, <5>1, NewestKept
      <4>3. Newest(ss, c) \in DOMAIN ss
        BY <1>4, <3>1, NewestIs
      <4>. QED
        BY <3>2, <4>2, <4>3 DEF NewestSource
    <3>4. ValueOf(t, id, c) = ValueOf(old, id, c) /\ c \in old.cols
      BY <1>2, <1>3, <2>2
    <3>5. CASE id \in IdsOf(old)
      BY <3>2, <3>3, <3>4, <3>5 DEF EntityOK
    <3>6. CASE id \notin IdsOf(old)
      <4>1. id \notin IdsOf(ss[k])
        BY <3>3, <3>6 DEF EntityOK
      <4>2. IdsOf(Dedup(Content(ss[k]))) = IdsOf(ss[k])
        BY <1>4, <3>3, SourcesOK, ContentShape
      <4>3. ValueOf(Dedup(Content(ss[k])), id, c) = Null
        BY <4>1, <4>2, NoValue
      <4>. QED
        BY <3>3, <3>4, <3>6, <4>3, NoValue
    <3>. QED
      BY <3>5, <3>6
  <2>. QED
    BY <2>1, <2>2
<1>. QED
  BY <1>3, <1>5, <1>6, <1>7 DEF EntityOK

LEMMA EntityOKHolds == \A t, ss : EntityOK(t, ss) => HoldsEntity(t, ss)
BY OneEachSize DEF EntityOK, HoldsEntity
-----------------------------------------------------------------------------
\* What the table of a relationship is to its sources.
Lengths(ss) == [i \in DOMAIN ss |-> Len(ss[i].rows)]
RelationshipOK(t, ss) ==
    /\ IsSeq(t.rows) /\ Len(t.rows) = SumOf(Lengths(ss), DOMAIN ss)
    /\ Len(ss) > 1 => \A i \in DOMAIN t.rows : t.rows[i].id = i - 1

LEMMA LengthsOfMore ==
    ASSUME NEW ss \in Seq(Sources), NEW s \in Sources, NEW more, more = Append(ss, s)
    PROVE  SumOf(Lengths(more), DOMAIN more) = SumOf(Lengths(ss), DOMAIN ss) + Len(s.rows)
<1>. DEFINE n == Len(ss)
<1>1. /\ more \in Seq(Sources) /\ n \in Nat /\ Len(more) = n + 1
      /\ DOMAIN ss = 1 .. n /\ DOMAIN more = 1 .. n + 1
      /\ \A i \in 1 .. n : more[i] = ss[i] /\ ss[i] \in Sources
      /\ more[n + 1] = s
  BY AppendShape
<1>. HIDE DEF n
<1>2. \A i \in 1 .. n + 1 : more[i] \in Sources
  BY <1>1
<1>3. \A r \in Sources : Len(r.rows) \in Nat
  BY SourcesOK, SeqShape DEF SourceOK
<1>4. PICK f, g : f = Lengths(ss) /\ g = Lengths(more)
  OBVIOUS
<1>5. /\ \A i \in 1 .. n : f[i] = g[i] /\ f[i] \in Int
      /\ g[n + 1] = Len(s.rows) /\ \A i \in 1 .. n + 1 : g[i] \in Int
  BY <1>1, <1>2, <1>3, <1>4 DEF Lengths
<1>6. IsFiniteSet(1 .. n) /\ IsFiniteSet(1 .. n + 1) /\ n + 1 \in 1 .. n + 1
      /\ (1 .. n + 1) \ {n + 1} = 1 .. n
  <2>1. n \in Int /\ n + 1 \in Int /\ 1 \in Int
    BY <1>1
  <2>2. IsFiniteSet(1 .. n) /\ IsFiniteSet(1 .. n + 1)
    BY ONLY <2>1, FS_Interval
  <2>3. \A i : i \in (1 .. n + 1) \ {n + 1} <=> i \in 1 .. n
    BY ONLY <1>1
  <2>. QED
    BY ONLY <1>1, <2>2, <2>3
<1>7. SumOf(g, 1 .. n + 1) = g[n + 1] + SumOf(g, (1 .. n + 1) \ {n + 1})
  BY ONLY <1>5, <1>6, SumStep
<1>8. SumOf(f, 1 .. n) = SumOf(g, 1 .. n)
  <2>1. PICK S : S = 1 .. n
    OBVIOUS
  <2>2. IsFiniteSet(S) /\ \A i \in S : f[i] = g[i]
    BY <1>5, <1>6, <2>1
  <2>3. SumOf(f, S) = SumOf(g, S)
    BY ONLY <2>2, SumSame
  <2>. QED
    BY ONLY <2>1, <2>3
<1>9. SumOf(f, 1 .. n) \in Int
  <2>1. PICK S : S = 1 .. n
    OBVIOUS
  <2>2. IsFiniteSet(S) /\ \A i \in S : f[i] \in Int
    BY <1>5, <1>6, <2>1
  <2>3. SumOf(f, S) \in Int
    BY ONLY <2>2, SumStep
  <2>. QED
    BY ONLY <2>1, <2>3
<1>10. SumOf(g, 1 .. n + 1) = SumOf(f, 1 .. n) + Len(s.rows)
  <2>1. SumOf(g, 1 .. n + 1) = g[n + 1] + SumOf(g, 1 .. n)
    BY ONLY <1>6, <1>7
  <2>2. g[n + 1] = Len(s.rows) /\ Len(s.rows) \in Int
    BY <1>3, <1>5
  <2>. QED
    BY ONLY <1>8, <1>9, <2>1, <2>2
<1>. QED
  BY <1>1, <1>4, <1>10

LEMMA FirstRelationship ==
    ASSUME NEW s \in Sources, NEW ss, ss = Append(<<>>, s)
    PROVE  RelationshipOK(Content(s), ss)
<1>1. <<>> \in Seq(Sources) /\ Len(ss) = 1
  OBVIOUS
<1>2. SumOf(Lengths(ss), DOMAIN ss) = SumOf(Lengths(<<>>), DOMAIN <<>>) + Len(s.rows)
  BY <1>1, LengthsOfMore
<1>3. SumOf(Lengths(<<>>), DOMAIN <<>>) = 0
  <2>1. DOMAIN <<>> = {} /\ IsFiniteSet({})
    BY FS_EmptySet
  <2>2. PICK f : f = Lengths(<<>>)
    OBVIOUS
  <2>3. SumOf(f, {}) = 0
    BY <2>1, SumStep
  <2>. QED
    BY <2>1, <2>2, <2>3
<1>4. IsSeq(s.rows) /\ Len(s.rows) \in Nat
  BY SourcesOK, SeqShape DEF SourceOK
<1>. QED
  BY <1>1, <1>2, <1>3, <1>4 DEF RelationshipOK, Content

LEMMA UnionKeeps ==
    ASSUME NEW ss \in Seq(Sources), NEW old, RelationshipOK(old, ss), NEW s \in Sources,
           NEW t, t = UnionAll(old, Content(s)), NEW more, more = Append(ss, s)
    PROVE  RelationshipOK(t, more)
<1>. DEFINE rows == old.rows \o s.rows
<1>1. /\ IsSeq(old.rows) /\ IsSeq(s.rows) /\ Len(old.rows) \in Nat /\ Len(s.rows) \in Nat
  BY SourcesOK, SeqShape DEF SourceOK, RelationshipOK
<1>2. DOMAIN rows = 1 .. Len(old.rows) + Len(s.rows)
  BY <1>1
<1>3. /\ DOMAIN t.rows = DOMAIN rows /\ t.rows = [k \in DOMAIN rows |-> t.rows[k]]
      /\ \A k \in DOMAIN rows : t.rows[k].id = k - 1
  BY DEF UnionAll, Content
<1>. HIDE DEF rows
<1>4. IsSeq(t.rows) /\ Len(t.rows) = Len(old.rows) + Len(s.rows)
  <2>1. PICK p \in Nat, q \in Nat : p = Len(old.rows) /\ q = Len(s.rows)
    BY <1>1
  <2>2. PICK u : u = t.rows
    OBVIOUS
  <2>3. DOMAIN rows = 1 .. p + q
    BY ONLY <1>2, <2>1, Zenon
  <2>4. u = [k \in DOMAIN rows |-> u[k]]
    BY ONLY <1>3, <2>2, Zenon
  <2>5. p + q \in Nat /\ u = [k \in 1 .. p + q |-> u[k]]
    BY ONLY <2>3, <2>4, p \in Nat, q \in Nat
  <2>6. IsSeq(u) /\ Len(u) = p + q
    BY ONLY <2>5, FunctionIsSeq
  <2>. QED
    BY ONLY <2>1, <2>2, <2>6, Zenon
<1>5. SumOf(Lengths(more), DOMAIN more) = SumOf(Lengths(ss), DOMAIN ss) + Len(s.rows)
  BY LengthsOfMore
<1>. QED
  BY <1>3, <1>4, <1>5 DEF RelationshipOK

LEMMA RelationshipOKHolds == \A t, ss : RelationshipOK(t, ss) => HoldsRelationship(t, ss)
<1>. SUFFICES ASSUME NEW t, NEW ss, RelationshipOK(t, ss) PROVE HoldsRelationship(t, ss)
  OBVIOUS
<1>1. ASSUME Len(ss) > 1 PROVE Cardinality(IdsOf(t)) = Len(t.rows)
  <2>1. /\ DOMAIN t.rows = 1 .. Len(t.rows) /\ Len(t.rows) \in Nat
        /\ \A i \in DOMAIN t.rows : t.rows[i].id = i - 1
    BY <1>1, SeqShape DEF RelationshipOK
  <2>2. Rowed(t) /\ OneEach(t)
    BY <2>1 DEF RelationshipOK, Rowed, OneEach
  <2>. QED
    BY <2>2, OneEachSize
<1>. QED
  BY <1>1 DEF RelationshipOK, HoldsRelationship, Lengths, SumOf
-----------------------------------------------------------------------------
(***************************************************************************)
(* The tables of the registry, from registration to registration.          *)
(***************************************************************************)
Keyed(ss) == \A i \in DOMAIN ss : ss[i].id_col

\* A table that holds what its sources say, if they all name an identifier.
Good(l, t, ss) ==
    Keyed(ss) => t # NoTable /\ IF l \in EntityLabels THEN EntityOK(t, ss) ELSE RelationshipOK(t, ss)

LEMMA KeyedOfMore ==
    ASSUME NEW ss, IsSeq(ss), NEW s
    PROVE  /\ Keyed(Append(ss, s)) <=> Keyed(ss) /\ s.id_col
           /\ Append(ss, s) # <<>> /\ Append(ss, s)[Len(Append(ss, s))] = s
<1>. DEFINE more == Append(ss, s)
<1>1. /\ Len(ss) \in Nat /\ Len(more) = Len(ss) + 1
      /\ DOMAIN ss = 1 .. Len(ss) /\ DOMAIN more = 1 .. Len(ss) + 1
      /\ \A i \in 1 .. Len(ss) : more[i] = ss[i]
      /\ more[Len(ss) + 1] = s
  BY AppendAny
<1>. HIDE DEF more
<1>2. \A i : i \in 1 .. Len(ss) + 1 <=> i \in 1 .. Len(ss) \/ i = Len(ss) + 1
  BY <1>1
<1>3. Keyed(more) <=> Keyed(ss) /\ s.id_col
  BY <1>1, <1>2 DEF Keyed
<1>4. more # <<>>
  BY <1>1
<1>. QED
  BY <1>1, <1>3, <1>4 DEF more

LEMMA SourcesAreSeq == \A ss \in Seq(Sources) : IsSeq(ss)
<1>. SUFFICES ASSUME NEW ss \in Seq(Sources) PROVE IsSeq(ss)
  OBVIOUS
<1>1. Len(ss) \in Nat /\ ss = [i \in 1 .. Len(ss) |-> ss[i]]
  OBVIOUS
<1>. QED
  BY <1>1, FunctionIsSeq

LEMMA Present ==
    \A t, u, s : /\ Content(s) # NoTable /\ Dedup(t) # NoTable
                 /\ OuterJoin(t, u) # NoTable /\ UnionAll(t, u) # NoTable
BY DEF Content, Dedup, OuterJoin, UnionAll, NoTable

LEMMA GoodFirst ==
    ASSUME NEW l, NEW s \in Sources
    PROVE  /\ l \in EntityLabels => Good(l, Dedup(Content(s)), Append(<<>>, s))
           /\ l \notin EntityLabels => Good(l, Content(s), Append(<<>>, s))
<1>1. Append(<<>>, s) = <<s>>
  OBVIOUS
<1>2. EntityOK(Dedup(Content(s)), Append(<<>>, s))
  BY <1>1, FirstEntity
<1>3. RelationshipOK(Content(s), Append(<<>>, s))
  BY FirstRelationship
<1>. QED
  BY <1>2, <1>3, Present DEF Good

LEMMA GoodNext ==
    ASSUME NEW l, NEW ss \in Seq(Sources), NEW t, Good(l, t, ss), NEW s \in Sources
    PROVE  /\ l \in EntityLabels => Good(l, OuterJoin(t, Dedup(Content(s))), Append(ss, s))
           /\ l \notin EntityLabels => Good(l, UnionAll(t, Content(s)), Append(ss, s))
<1>1. Keyed(Append(ss, s)) => Keyed(ss)
  BY SourcesAreSeq, KeyedOfMore
<1>2. EntityOK(t, ss) => EntityOK(OuterJoin(t, Dedup(Content(s))), Append(ss, s))
  BY JoinKeeps
<1>3. RelationshipOK(t, ss) => RelationshipOK(UnionAll(t, Content(s)), Append(ss, s))
  BY UnionKeeps
<1>. QED
  BY <1>1, <1>2, <1>3, Present DEF Good

-----------------------------------------------------------------------------
JobOf(l, s, x) == [label |-> l, source |-> s, step |-> x]

LEMMA JobFields ==
    ASSUME NEW l, NEW s, NEW x, NEW j, j = JobOf(l, s, x)
    PROVE  /\ j.label = l /\ j.source = s /\ j.step = x /\ j # NoJob
           /\ \A y : [j EXCEPT !.step = y] = JobOf(l, s, y)
BY DEF JobOf, NoJob

\* A label is apart from a registration that is of another label or has not
\* dropped this label's table yet.
Before == {"drop_old", "dedup", "stage", "concatenate", "drop"}
Steps == Before \union {"create", "rename", "record"}
Apart(j, l) == j = NoJob \/ j.label # l \/ j.step \in Before

EntryOK(l, e, ss) ==
    /\ e = NoTable <=> ss = <<>>
    /\ e # NoTable /\ l \in EntityLabels => (e.id_col <=> ss[Len(ss)].id_col)

Settled(l, e, t, ss) == e # NoTable => Good(l, t, ss) /\ (Keyed(ss) => e.cols = t.cols)

\* What a registration of s has come to at each of its steps, where e is the
\* entry, t the table, g the staged table and ss the sources of its label.
ReplacesAll(e, ss, s) == e = NoTable \/ ~ Keyed(Append(ss, s))

StepFits(l, s, x, e, t, g, ss) ==
    \/ x = "drop_old" /\ ReplacesAll(e, ss, s)
    \/ x = "create" /\ ReplacesAll(e, ss, s) /\ t = NoTable
    \/ x = "dedup" /\ e = NoTable /\ l \in EntityLabels /\ t = Content(s)
    \/ x = "stage" /\ e # NoTable /\ l \in EntityLabels
    \/ x = "concatenate" /\ e # NoTable /\ l \notin EntityLabels
    \/ x = "drop" /\ Good(l, g, Append(ss, s))
    \/ x = "rename" /\ Good(l, g, Append(ss, s)) /\ t = NoTable
    \/ x = "record" /\ Good(l, t, Append(ss, s))

JobFits(p, g, e, so, to, j) ==
    \/ j = NoJob
    \/ \E l \in Labels, s \in Sources, x \in Steps :
         j = JobOf(l, s, x) /\ l \notin to /\ StepFits(l, s, x, e[l], p[l], g[l], so[l])

RegistryOK(p, g, e, so, to, j) ==
    /\ DOMAIN p = Labels /\ DOMAIN g = Labels /\ DOMAIN e = Labels /\ DOMAIN so = Labels
    /\ \A l \in Labels : so[l] \in Seq(Sources) /\ EntryOK(l, e[l], so[l])
    /\ \A l \in Labels : l \notin to /\ Apart(j, l) => Settled(l, e[l], p[l], so[l])
    /\ JobFits(p, g, e, so, to, j)

RegistryInv == RegistryOK(physical, staging, entries, sources_of, torn, job)

\* A step of one label leaves the other labels as they were.
OnlyOf(l, p, e, so, to, p1, e1, so1, to1) ==
    \A m \in Labels : m # l => p1[m] = p[m] /\ e1[m] = e[m] /\ so1[m] = so[m] /\ (m \in to <=> m \in to1)

LEMMA OneLabel ==
    ASSUME NEW p, NEW g, NEW e, NEW so, NEW to, NEW j, RegistryOK(p, g, e, so, to, j),
           NEW l \in Labels, j = NoJob \/ j.label = l,
           NEW p1, NEW g1, NEW e1, NEW so1, NEW to1, NEW j1,
           DOMAIN p1 = Labels, DOMAIN g1 = Labels, DOMAIN e1 = Labels, DOMAIN so1 = Labels,
           OnlyOf(l, p, e, so, to, p1, e1, so1, to1),
           so1[l] \in Seq(Sources), EntryOK(l, e1[l], so1[l]),
           l \notin to1 /\ Apart(j1, l) => Settled(l, e1[l], p1[l], so1[l]),
           JobFits(p1, g1, e1, so1, to1, j1)
    PROVE  RegistryOK(p1, g1, e1, so1, to1, j1)
<1>1. ASSUME NEW m \in Labels PROVE so1[m] \in Seq(Sources) /\ EntryOK(m, e1[m], so1[m])
  BY DEF RegistryOK, OnlyOf
<1>2. ASSUME NEW m \in Labels, m \notin to1, Apart(j1, m) PROVE Settled(m, e1[m], p1[m], so1[m])
  <2>1. CASE m = l
    BY <1>2, <2>1
  <2>2. CASE m # l
    <3>1. m \notin to /\ Apart(j, m)
      BY <1>2, <2>2 DEF Apart, OnlyOf
    <3>. QED
      BY <2>2, <3>1 DEF RegistryOK, OnlyOf
  <2>. QED
    BY <2>1, <2>2
<1>. QED
  BY <1>1, <1>2 DEF RegistryOK
-----------------------------------------------------------------------------
\* A registration under way: its label, its source, its step.
LEMMA AtWork ==
    ASSUME RegistryInv, NEW x, job.step = x, x # "no_job"
    PROVE  \E l \in Labels, s \in Sources :
             /\ job = JobOf(l, s, x) /\ job.label = l /\ job.source = s
             /\ \A y : [job EXCEPT !.step = y] = JobOf(l, s, y)
             /\ l \notin torn /\ StepFits(l, s, x, entries[l], physical[l], staging[l], sources_of[l])
             /\ sources_of[l] \in Seq(Sources) /\ EntryOK(l, entries[l], sources_of[l])
             /\ x \in Before => Settled(l, entries[l], physical[l], sources_of[l])
<1>1. job # NoJob
  BY DEF NoJob
<1>2. PICK l \in Labels, s \in Sources, y \in Steps :
        /\ job = JobOf(l, s, y) /\ l \notin torn
        /\ StepFits(l, s, y, entries[l], physical[l], staging[l], sources_of[l])
  BY <1>1 DEF RegistryInv, RegistryOK, JobFits
<1>3. y = x /\ job.label = l /\ job.source = s /\ \A z : [job EXCEPT !.step = z] = JobOf(l, s, z)
  BY <1>2, JobFields
<1>4. sources_of[l] \in Seq(Sources) /\ EntryOK(l, entries[l], sources_of[l])
  BY DEF RegistryInv, RegistryOK
<1>5. ASSUME x \in Before PROVE Settled(l, entries[l], physical[l], sources_of[l])
  <2>1. Apart(job, l)
    BY <1>5 DEF Apart
  <2>. QED
    BY <1>2, <2>1 DEF RegistryInv, RegistryOK
<1>. QED
  BY <1>2, <1>3, <1>4, <1>5

\* A step that leaves the entries and the sources alone.
LEMMA StepKeeps ==
    ASSUME RegistryInv, NEW l \in Labels, NEW s \in Sources, NEW y,
           job.label = l, job' = JobOf(l, s, y), l \notin torn,
           NEW t, DOMAIN physical' = Labels, physical'[l] = t,
           \A m \in Labels : m # l => physical'[m] = physical[m],
           NEW g, DOMAIN staging' = Labels, staging'[l] = g,
           UNCHANGED <<entries, sources_of, torn>>,
           StepFits(l, s, y, entries[l], t, g, sources_of[l]),
           y \in Before => Settled(l, entries[l], t, sources_of[l])
    PROVE  RegistryInv'
<1>1. PICK p, q, e, so, to, j : /\ p = physical /\ q = staging /\ e = entries
                              /\ so = sources_of /\ to = torn /\ j = job
  OBVIOUS
<1>2. PICK p1, q1, j1 : p1 = physical' /\ q1 = staging' /\ j1 = job'
  OBVIOUS
<1>3. /\ DOMAIN p = Labels /\ DOMAIN q = Labels /\ DOMAIN e = Labels /\ DOMAIN so = Labels
      /\ so[l] \in Seq(Sources) /\ EntryOK(l, e[l], so[l]) /\ RegistryOK(p, q, e, so, to, j)
  BY <1>1 DEF RegistryInv, RegistryOK
<1>4. /\ DOMAIN p1 = Labels /\ DOMAIN q1 = Labels /\ p1[l] = t /\ q1[l] = g
      /\ OnlyOf(l, p, e, so, to, p1, e, so, to)
  BY <1>1, <1>2, <1>3 DEF OnlyOf
<1>5. l \notin to /\ Apart(j1, l) => Settled(l, e[l], p1[l], so[l])
  <2>1. Apart(j1, l) => y \in Before
    BY <1>2, JobFields DEF Apart
  <2>. QED
    BY <1>1, <1>4, <2>1
<1>6. JobFits(p1, q1, e, so, to, j1)
  <2>1. y \in Steps
    BY DEF StepFits, Steps, Before
  <2>. QED
    BY <1>1, <1>2, <1>4, <2>1 DEF JobFits
<1>7. j.label = l
  BY <1>1
<1>8. RegistryOK(p1, q1, e, so, to, j1)
  BY <1>3, <1>4, <1>5, <1>6, <1>7, OneLabel
<1>. QED
  BY <1>1, <1>2, <1>8 DEF RegistryInv

LEMMA Tables ==
    ASSUME RegistryInv, NEW l \in Labels
    PROVE  /\ DOMAIN physical = Labels /\ DOMAIN staging = Labels
           /\ DOMAIN entries = Labels /\ DOMAIN sources_of = Labels
           /\ \A t : /\ DOMAIN [physical EXCEPT ![l] = t] = Labels /\ [physical EXCEPT ![l] = t][l] = t
                    /\ \A m \in Labels : m # l => [physical EXCEPT ![l] = t][m] = physical[m]
                    /\ DOMAIN [staging EXCEPT ![l] = t] = Labels /\ [staging EXCEPT ![l] = t][l] = t
BY DEF RegistryInv, RegistryOK

\* The statements of a registration.
LEMMA DropOldKeeps == ASSUME RegistryInv, DropOld PROVE RegistryInv'
<1>1. PICK l \in Labels, s \in Sources :
        /\ job.label = l /\ \A y : [job EXCEPT !.step = y] = JobOf(l, s, y)
        /\ l \notin torn /\ StepFits(l, s, "drop_old", entries[l], physical[l], staging[l], sources_of[l])
  BY AtWork DEF DropOld
<1>2. /\ job' = JobOf(l, s, "create") /\ physical' = [physical EXCEPT ![l] = NoTable]
      /\ staging' = staging /\ UNCHANGED <<entries, sources_of, torn>>
  BY <1>1 DEF DropOld, AdvanceTo
<1>3. StepFits(l, s, "create", entries[l], NoTable, staging[l], sources_of[l])
  BY <1>1 DEF StepFits
<1>4. "create" \notin Before
  BY DEF Before
<1>. QED
  BY <1>1, <1>2, <1>3, <1>4, Tables, StepKeeps

LEMMA CreateKeeps == ASSUME RegistryInv, Create PROVE RegistryInv'
<1>1. PICK l \in Labels, s \in Sources :
        /\ job.label = l /\ job.source = s /\ \A y : [job EXCEPT !.step = y] = JobOf(l, s, y)
        /\ l \notin torn /\ StepFits(l, s, "create", entries[l], physical[l], staging[l], sources_of[l])
        /\ sources_of[l] \in Seq(Sources) /\ EntryOK(l, entries[l], sources_of[l])
  BY AtWork DEF Create
<1>. DEFINE y == IF entries[l] = NoTable /\ l \in EntityLabels /\ s.id_col THEN "dedup" ELSE "record"
<1>2. /\ job' = JobOf(l, s, y) /\ physical' = [physical EXCEPT ![l] = Content(s)]
      /\ staging' = staging /\ UNCHANGED <<entries, sources_of, torn>>
  BY <1>1 DEF Create, AdvanceTo
<1>3. CASE y = "dedup"
  <2>1. StepFits(l, s, y, entries[l], Content(s), staging[l], sources_of[l])
    BY <1>3 DEF StepFits
  <2>2. Settled(l, entries[l], Content(s), sources_of[l])
    BY <1>3 DEF Settled
  <2>. HIDE DEF y
  <2>. QED
    BY <1>1, <1>2, <2>1, <2>2, Tables, StepKeeps
<1>4. CASE y = "record"
  <2>1. ReplacesAll(entries[l], sources_of[l], s) /\ IsSeq(sources_of[l])
    BY <1>1, SourcesAreSeq DEF StepFits
  <2>2. Good(l, Content(s), Append(sources_of[l], s))
    <3>1. CASE ~ Keyed(Append(sources_of[l], s))
      BY <3>1 DEF Good
    <3>2. CASE Keyed(Append(sources_of[l], s))
      <4>1. entries[l] = NoTable /\ sources_of[l] = <<>> /\ s.id_col
        BY <1>1, <2>1, <3>2, KeyedOfMore DEF ReplacesAll, EntryOK
      <4>2. l \notin EntityLabels
        BY <1>4, <4>1
      <4>. QED
        BY <4>1, <4>2, GoodFirst
    <3>. QED
      BY <3>1, <3>2
  <2>3. StepFits(l, s, y, entries[l], Content(s), staging[l], sources_of[l]) /\ y \notin Before
    BY <1>4, <2>2 DEF StepFits, Before
  <2>. HIDE DEF y
  <2>. QED
    BY <1>1, <1>2, <2>3, Tables, StepKeeps
<1>. QED
  BY <1>3, <1>4

LEMMA DedupNewKeeps == ASSUME RegistryInv, DedupNew PROVE RegistryInv'
<1>1. PICK l \in Labels, s \in Sources :
        /\ job.label = l /\ \A y : [job EXCEPT !.step = y] = JobOf(l, s, y)
        /\ l \notin torn /\ StepFits(l, s, "dedup", entries[l], physical[l], staging[l], sources_of[l])
        /\ EntryOK(l, entries[l], sources_of[l])
  BY AtWork DEF DedupNew
<1>2. /\ entries[l] = NoTable /\ l \in EntityLabels /\ physical[l] = Content(s) /\ sources_of[l] = <<>>
      /\ Settled(l, entries[l], physical[l], sources_of[l])
  BY <1>1 DEF StepFits, EntryOK, Settled
<1>3. Good(l, Dedup(physical[l]), Append(sources_of[l], s))
  BY <1>2, GoodFirst
<1>4. CASE Dedup(physical[l]) = physical[l]
  <2>1. /\ job' = JobOf(l, s, "record") /\ physical' = physical
        /\ staging' = staging /\ UNCHANGED <<entries, sources_of, torn>>
    BY <1>1, <1>4 DEF DedupNew, AdvanceTo
  <2>2. StepFits(l, s, "record", entries[l], physical[l], staging[l], sources_of[l]) /\ "record" \notin Before
    BY <1>3, <1>4 DEF StepFits, Before
  <2>. QED
    BY <1>1, <2>1, <2>2, Tables, StepKeeps
<1>5. CASE Dedup(physical[l]) # physical[l]
  <2>1. /\ job' = JobOf(l, s, "drop") /\ physical' = physical
        /\ staging' = [staging EXCEPT ![l] = Dedup(physical[l])] /\ UNCHANGED <<entries, sources_of, torn>>
    BY <1>1, <1>5 DEF DedupNew, AdvanceTo
  <2>2. StepFits(l, s, "drop", entries[l], physical[l], Dedup(physical[l]), sources_of[l])
    BY <1>3 DEF StepFits
  <2>. QED
    BY <1>1, <1>2, <2>1, <2>2, Tables, StepKeeps
<1>. QED
  BY <1>4, <1>5

LEMMA StageKeeps == ASSUME RegistryInv, Stage PROVE RegistryInv'
<1>1. PICK l \in Labels, s \in Sources :
        /\ job.label = l /\ job.source = s /\ \A y : [job EXCEPT !.step = y] = JobOf(l, s, y)
        /\ l \notin torn /\ StepFits(l, s, "stage", entries[l], physical[l], staging[l], sources_of[l])
        /\ sources_of[l] \in Seq(Sources)
        /\ Settled(l, entries[l], physical[l], sources_of[l])
  BY AtWork DEF Stage, Before
<1>2. entries[l] # NoTable /\ l \in EntityLabels /\ Good(l, physical[l], sources_of[l])
  BY <1>1 DEF StepFits, Settled
<1>. DEFINE t == OuterJoin(physical[l], Dedup(Content(s)))
<1>3. /\ job' = JobOf(l, s, "drop") /\ physical' = physical
      /\ staging' = [staging EXCEPT ![l] = t] /\ UNCHANGED <<entries, sources_of, torn>>
  BY <1>1 DEF Stage, AdvanceTo
<1>4. Good(l, t, Append(sources_of[l], s))
  BY <1>1, <1>2, GoodNext
<1>5. StepFits(l, s, "drop", entries[l], physical[l], t, sources_of[l])
  BY <1>4 DEF StepFits
<1>. QED
  BY <1>1, <1>3, <1>5, Tables, StepKeeps

LEMMA ConcatenateKeeps == ASSUME RegistryInv, Concatenate PROVE RegistryInv'
<1>1. PICK l \in Labels, s \in Sources :
        /\ job.label = l /\ job.source = s /\ \A y : [job EXCEPT !.step = y] = JobOf(l, s, y)
        /\ l \notin torn /\ StepFits(l, s, "concatenate", entries[l], physical[l], staging[l], sources_of[l])
        /\ sources_of[l] \in Seq(Sources)
        /\ Settled(l, entries[l], physical[l], sources_of[l])
  BY AtWork DEF Concatenate, Before
<1>2. entries[l] # NoTable /\ l \notin EntityLabels /\ Good(l, physical[l], sources_of[l])
  BY <1>1 DEF StepFits, Settled
<1>. DEFINE t == UnionAll(physical[l], Content(s))
<1>3. /\ job' = JobOf(l, s, "drop") /\ physical' = physical
      /\ staging' = [staging EXCEPT ![l] = t] /\ UNCHANGED <<entries, sources_of, torn>>
  BY <1>1 DEF Concatenate, AdvanceTo
<1>4. Good(l, t, Append(sources_of[l], s))
  BY <1>1, <1>2, GoodNext
<1>5. StepFits(l, s, "drop", entries[l], physical[l], t, sources_of[l])
  BY <1>4 DEF StepFits
<1>. QED
  BY <1>1, <1>3, <1>5, Tables, StepKeeps

LEMMA DropTableKeeps == ASSUME RegistryInv, DropTable PROVE RegistryInv'
<1>1. PICK l \in Labels, s \in Sources :
        /\ job.label = l /\ \A y : [job EXCEPT !.step = y] = JobOf(l, s, y)
        /\ l \notin torn /\ StepFits(l, s, "drop", entries[l], physical[l], staging[l], sources_of[l])
  BY AtWork DEF DropTable
<1>2. /\ job' = JobOf(l, s, "rename") /\ physical' = [physical EXCEPT ![l] = NoTable]
      /\ staging' = staging /\ UNCHANGED <<entries, sources_of, torn>>
  BY <1>1 DEF DropTable, AdvanceTo
<1>3. StepFits(l, s, "rename", entries[l], NoTable, staging[l], sources_of[l]) /\ "rename" \notin Before
  BY <1>1 DEF StepFits, Before
<1>. QED
  BY <1>1, <1>2, <1>3, Tables, StepKeeps

LEMMA RenameKeeps == ASSUME RegistryInv, Rename PROVE RegistryInv'
<1>1. PICK l \in Labels, s \in Sources :
        /\ job.label = l /\ \A y : [job EXCEPT !.step = y] = JobOf(l, s, y)
        /\ l \notin torn /\ StepFits(l, s, "rename", entries[l], physical[l], staging[l], sources_of[l])
  BY AtWork DEF Rename
<1>2. /\ job' = JobOf(l, s, "record") /\ physical' = [physical EXCEPT ![l] = staging[l]]
      /\ staging' = [staging EXCEPT ![l] = NoTable] /\ UNCHANGED <<entries, sources_of, torn>>
  BY <1>1 DEF Rename, AdvanceTo
<1>3. StepFits(l, s, "record", entries[l], staging[l], NoTable, sources_of[l]) /\ "record" \notin Before
  BY <1>1 DEF StepFits, Before
<1>. QED
  BY <1>1, <1>2, <1>3, Tables, StepKeeps

\* The entry is recorded: the table and its sources are as they should be.
LEMMA RecordEntryKeeps == ASSUME RegistryInv, RecordEntry PROVE RegistryInv'
<1>1. PICK l \in Labels, s \in Sources :
        /\ job.label = l /\ job.source = s
        /\ StepFits(l, s, "record", entries[l], physical[l], staging[l], sources_of[l])
        /\ sources_of[l] \in Seq(Sources)
  BY AtWork DEF RecordEntry
<1>2. PICK p, g, e, so, to, j : /\ p = physical /\ g = staging /\ e = entries
                              /\ so = sources_of /\ to = torn /\ j = job
  OBVIOUS
<1>3. PICK e1, so1 : e1 = entries' /\ so1 = sources_of'
  OBVIOUS
<1>. DEFINE entry == [id_col |-> s.id_col \/ l \notin EntityLabels, cols |-> p[l].cols]
<1>4. /\ e1 = [e EXCEPT ![l] = entry] /\ so1 = [so EXCEPT ![l] = Append(so[l], s)]
      /\ job' = NoJob /\ physical' = p /\ staging' = g /\ torn' = to
  BY <1>1, <1>2, <1>3 DEF RecordEntry
<1>5. /\ DOMAIN p = Labels /\ DOMAIN g = Labels /\ DOMAIN e = Labels /\ DOMAIN so = Labels
      /\ RegistryOK(p, g, e, so, to, j) /\ j.label = l /\ so[l] \in Seq(Sources)
      /\ Good(l, p[l], Append(so[l], s))
  BY <1>1, <1>2 DEF RegistryInv, RegistryOK, StepFits
<1>6. entry # NoTable /\ (entry.id_col <=> s.id_col \/ l \notin EntityLabels) /\ entry.cols = p[l].cols
  BY DEF NoTable
<1>. HIDE DEF entry
<1>7. /\ DOMAIN e1 = Labels /\ DOMAIN so1 = Labels /\ e1[l] = entry /\ so1[l] = Append(so[l], s)
      /\ OnlyOf(l, p, e, so, to, p, e1, so1, to)
  BY <1>4, <1>5 DEF OnlyOf
<1>8. so1[l] \in Seq(Sources)
  BY <1>5, <1>7
<1>9. EntryOK(l, e1[l], so1[l])
  <2>1. so1[l] # <<>> /\ so1[l][Len(so1[l])] = s
    BY <1>5, <1>7, SourcesAreSeq, KeyedOfMore
  <2>. QED
    BY <1>6, <1>7, <2>1 DEF EntryOK
<1>10. Settled(l, e1[l], p[l], so1[l])
  BY <1>5, <1>6, <1>7 DEF Settled
<1>11. JobFits(p, g, e1, so1, to, NoJob)
  BY DEF JobFits
<1>12. /\ l \notin to /\ Apart(NoJob, l) => Settled(l, e1[l], p[l], so1[l])
       /\ j = NoJob \/ j.label = l
  BY <1>5, <1>7, <1>10
<1>13. RegistryOK(p, g, e1, so1, to, NoJob)
  BY ONLY <1>5, <1>7, <1>8, <1>9, <1>11, <1>12, OneLabel, l \in Labels
<1>. QED
  BY <1>3, <1>4, <1>13 DEF RegistryInv

\* A statement raises: the table is as it was, or the label is torn.
LEMMA FailKeeps == ASSUME RegistryInv, FailStatement PROVE RegistryInv'
<1>1. PICK l \in Labels, s \in Sources, x \in Steps :
        /\ job = JobOf(l, s, x) /\ l \notin torn
        /\ StepFits(l, s, x, entries[l], physical[l], staging[l], sources_of[l])
  BY DEF FailStatement, RegistryInv, RegistryOK, JobFits
<1>2. job.label = l /\ job.step = x
  BY <1>1, JobFields
<1>3. PICK p, g, e, so, to, j : /\ p = physical /\ g = staging /\ e = entries
                              /\ so = sources_of /\ to = torn /\ j = job
  OBVIOUS
<1>4. PICK g1, to1 : g1 = staging' /\ to1 = torn'
  OBVIOUS
<1>5. /\ g1 = [g EXCEPT ![l] = NoTable]
      /\ to1 = IF p[l] = NoTable \/ x = "record" THEN to \union {l} ELSE to
      /\ job' = NoJob /\ physical' = p /\ entries' = e /\ sources_of' = so
  BY <1>2, <1>3, <1>4 DEF FailStatement
<1>6. /\ DOMAIN p = Labels /\ DOMAIN g = Labels /\ DOMAIN e = Labels /\ DOMAIN so = Labels
      /\ RegistryOK(p, g, e, so, to, j) /\ so[l] \in Seq(Sources) /\ EntryOK(l, e[l], so[l])
      /\ Apart(j, l) => Settled(l, e[l], p[l], so[l])
  BY <1>1, <1>3 DEF RegistryInv, RegistryOK
<1>7. DOMAIN g1 = Labels /\ OnlyOf(l, p, e, so, to, p, e, so, to1)
  BY <1>5, <1>6 DEF OnlyOf
<1>8. ASSUME l \notin to1 PROVE Settled(l, e[l], p[l], so[l])
  <2>1. p[l] # NoTable /\ x # "record"
    BY <1>5, <1>8
  <2>2. StepFits(l, s, x, e[l], p[l], g[l], so[l])
    BY <1>1, <1>3
  <2>3. x \in Before
    BY <2>1, <2>2 DEF StepFits, Before
  <2>4. Apart(j, l)
    BY <1>2, <1>3, <2>3 DEF Apart
  <2>. QED
    BY <1>6, <2>4
<1>9. JobFits(p, g1, e, so, to1, NoJob)
  BY DEF JobFits
<1>10. j.label = l
  BY <1>2, <1>3
<1>11. RegistryOK(p, g1, e, so, to1, NoJob)
  BY <1>6, <1>7, <1>8, <1>9, <1>10, OneLabel
<1>. QED
  BY <1>4, <1>5, <1>11 DEF RegistryInv

LEMMA StartKeeps ==
    ASSUME RegistryInv, NEW l \in Labels, NEW s \in Sources, StartRegistration(l, s) PROVE RegistryInv'
<1>1. PICK p, g, e, so, to, j : /\ p = physical /\ g = staging /\ e = entries
                              /\ so = sources_of /\ to = torn /\ j = job
  OBVIOUS
<1>. DEFINE x == IF e[l] = NoTable THEN "drop_old"
                 ELSE IF l \notin EntityLabels THEN "concatenate"
                 ELSE IF e[l].id_col /\ s.id_col THEN "stage" ELSE "drop_old"
            new == JobOf(l, s, x)
<1>2. /\ j = NoJob /\ l \notin to /\ job' = new
      /\ physical' = p /\ staging' = g /\ entries' = e /\ sources_of' = so /\ torn' = to
  BY <1>1 DEF StartRegistration, JobOf
<1>3. /\ DOMAIN p = Labels /\ DOMAIN g = Labels /\ DOMAIN e = Labels /\ DOMAIN so = Labels
      /\ RegistryOK(p, g, e, so, to, j) /\ so[l] \in Seq(Sources) /\ EntryOK(l, e[l], so[l])
      /\ Apart(j, l) => Settled(l, e[l], p[l], so[l])
  BY <1>1, <1>2 DEF RegistryInv, RegistryOK
<1>4. Settled(l, e[l], p[l], so[l])
  BY <1>2, <1>3 DEF Apart
<1>5. StepFits(l, s, x, e[l], p[l], g[l], so[l])
  <2>1. ASSUME x = "drop_old" PROVE ReplacesAll(e[l], so[l], s)
    <3>1. CASE e[l] = NoTable
      BY <3>1 DEF ReplacesAll
    <3>2. CASE e[l] # NoTable
      <4>1. l \in EntityLabels /\ ~ (e[l].id_col /\ s.id_col)
        BY <2>1, <3>2
      <4>2. so[l] # <<>> /\ (e[l].id_col <=> so[l][Len(so[l])].id_col)
        BY <1>3, <3>2, <4>1 DEF EntryOK
      <4>3. Len(so[l]) \in DOMAIN so[l]
        BY <1>3, <4>2
      <4>4. IsSeq(so[l])
        BY <1>3, SourcesAreSeq
      <4>5. Keyed(Append(so[l], s)) => s.id_col /\ so[l][Len(so[l])].id_col
        BY <4>3, <4>4, KeyedOfMore DEF Keyed
      <4>. QED
        BY <4>1, <4>2, <4>5 DEF ReplacesAll
    <3>. QED
      BY <3>1, <3>2
  <2>. QED
    BY <2>1 DEF StepFits
<1>. HIDE DEF x
<1>6. JobFits(p, g, e, so, to, new)
  <2>1. x \in Steps
    BY <1>5 DEF StepFits, Steps, Before
  <2>. QED
    BY <1>2, <1>5, <2>1 DEF JobFits
<1>. HIDE DEF new
<1>7. OnlyOf(l, p, e, so, to, p, e, so, to)
  BY DEF OnlyOf
<1>8. RegistryOK(p, g, e, so, to, new)
  BY <1>2, <1>3, <1>4, <1>6, <1>7, OneLabel
<1>. QED
  BY <1>2, <1>8 DEF RegistryInv

LEMMA DropLabelKeeps == ASSUME RegistryInv, NEW l \in Labels, DropLabel(l) PROVE RegistryInv'
<1>1. PICK p, g, e, so, to, j : /\ p = physical /\ g = staging /\ e = entries
                              /\ so = sources_of /\ to = torn /\ j = job
  OBVIOUS
<1>2. PICK p1, e1, so1, to1 : p1 = physical' /\ e1 = entries' /\ so1 = sources_of' /\ to1 = torn'
  OBVIOUS
<1>3. /\ j = NoJob /\ p1 = [p EXCEPT ![l] = NoTable] /\ e1 = [e EXCEPT ![l] = NoTable]
      /\ so1 = [so EXCEPT ![l] = <<>>] /\ to1 = to \ {l} /\ staging' = g /\ job' = j
  BY <1>1, <1>2 DEF DropLabel
<1>4. /\ DOMAIN p = Labels /\ DOMAIN g = Labels /\ DOMAIN e = Labels /\ DOMAIN so = Labels
      /\ RegistryOK(p, g, e, so, to, j)
  BY <1>1 DEF RegistryInv, RegistryOK
<1>5. /\ DOMAIN p1 = Labels /\ DOMAIN e1 = Labels /\ DOMAIN so1 = Labels
      /\ e1[l] = NoTable /\ so1[l] = <<>>
      /\ OnlyOf(l, p, e, so, to, p1, e1, so1, to1)
  BY <1>3, <1>4 DEF OnlyOf
<1>6. so1[l] \in Seq(Sources) /\ EntryOK(l, e1[l], so1[l]) /\ Settled(l, e1[l], p1[l], so1[l])
  BY <1>5 DEF EntryOK, Settled
<1>7. JobFits(p1, g, e1, so1, to1, j)
  BY <1>3 DEF JobFits
<1>8. (l \notin to1 /\ Apart(j, l) => Settled(l, e1[l], p1[l], so1[l])) /\ (j = NoJob \/ j.label = l)
  BY <1>3, <1>6
<1>9. RegistryOK(p1, g, e1, so1, to1, j)
  BY ONLY <1>4, <1>5, <1>6, <1>7, <1>8, OneLabel, l \in Labels
<1>. QED
  BY <1>2, <1>3, <1>9 DEF RegistryInv

LEMMA RegistryInvAtFirst == RegistryInit => RegistryInv
<1>. SUFFICES ASSUME RegistryInit PROVE RegistryInv
  OBVIOUS
<1>1. \A l \in Labels : EntryOK(l, NoTable, <<>>) /\ Settled(l, NoTable, NoTable, <<>>) /\ <<>> \in Seq(Sources)
  BY DEF EntryOK, Settled
<1>. QED
  BY <1>1 DEF RegistryInit, RegistryInv, RegistryOK, JobFits

LEMMA RegistryNextKeeps == RegistryInv /\ [RegistryNext]_registryVars => RegistryInv'
<1>. SUFFICES ASSUME RegistryInv, [RegistryNext]_registryVars PROVE RegistryInv'
  OBVIOUS
<1>1. CASE UNCHANGED registryVars
  BY <1>1 DEF registryVars, RegistryInv
<1>2. CASE RegistryNext
  BY <1>2, StartKeeps, DropOldKeeps, CreateKeeps, DedupNewKeeps, StageKeeps, ConcatenateKeeps, DropTableKeeps,
     RenameKeeps, RecordEntryKeeps, FailKeeps, DropLabelKeeps DEF RegistryNext
<1>. QED
  BY <1>1, <1>2

LEMMA RegistryInvSuffices == RegistryInv => TableMatchesSources
<1>. SUFFICES ASSUME RegistryInv, job = NoJob, NEW l \in Labels, entries[l] # NoTable, l \notin torn,
                     \A i \in DOMAIN sources_of[l] : sources_of[l][i].id_col
              PROVE  /\ physical[l] # NoTable /\ entries[l].cols = physical[l].cols
                     /\ Holds(l, physical[l])
  BY DEF TableMatchesSources
<1>1. Settled(l, entries[l], physical[l], sources_of[l])
  BY DEF RegistryInv, RegistryOK, Apart
<1>2. Keyed(sources_of[l])
  BY DEF Keyed
<1>3. /\ entries[l].cols = physical[l].cols /\ physical[l] # NoTable
      /\ l \in EntityLabels => EntityOK(physical[l], sources_of[l])
      /\ l \notin EntityLabels => RelationshipOK(physical[l], sources_of[l])
  BY <1>1, <1>2 DEF Settled, Good
<1>. QED
  BY <1>3, EntityOKHolds, RelationshipOKHolds DEF Holds

\* A table holds the rows of the sources it was made of, whatever they are and
\* whichever statements fail, unless one fails after the table was dropped
\* (TableRegistry of table_registry.py).
THEOREM RegistryCorrect == RegistrySpec => []TableMatchesSources
<1>1. RegistrySpec => []RegistryInv
  BY RegistryInvAtFirst, RegistryNextKeeps, PTL DEF RegistrySpec
<1>. QED
  BY <1>1, RegistryInvSuffices, PTL

-----------------------------------------------------------------------------
(***************************************************************************)
(* All of them together.  A step of one service is a step of each of the   *)
(* others in which nothing happens, or in which only time passes.          *)
(***************************************************************************)
LEMMA ServicesApart ==
    [MCNext]_allVars => /\ [ClusterNext]_clusterVars /\ [LimiterNext]_limiterVars
                        /\ [BreakerNext]_breakerVars
                        /\ [AuditNext]_auditVars /\ [IntentNext]_intentVars
                        /\ [MetricsNext]_metricsVars /\ [RegistryNext]_registryVars
<1>. DEFINE Others == /\ [ClusterNext]_clusterVars /\ [LimiterNext]_limiterVars
                      /\ [BreakerNext]_breakerVars
                      /\ [AuditNext]_auditVars /\ [IntentNext]_intentVars
                      /\ [MetricsNext]_metricsVars /\ [RegistryNext]_registryVars
<1>1. ClusterStep => Others
  BY DEF ClusterStep, limiterOnly, limiterVars, metricsOnly, metricsVars
<1>2. BucketStep => Others
  <2>1. BucketNext => Tick \/ UNCHANGED now
    BY DEF BucketNext, GetBucket, Consume, ResetBucket
  <2>2. Tick /\ UNCHANGED metricsOnly => MetricsNext
    BY DEF MetricsNext, metricsOnly
  <2>. QED
    BY <2>1, <2>2 DEF BucketStep, LimiterNext, metricsOnly, metricsVars
<1>3. GlobalStep => Others
  <2>1. GlobalNext => UNCHANGED now
    BY DEF GlobalNext, PeekGlobal, LockGlobal, CreateGlobal, ReturnGlobal, ResetGlobal
  <2>. QED
    BY <2>1 DEF GlobalStep, LimiterNext, metricsOnly, metricsVars
<1>4. BreakerStep => Others
  BY DEF BreakerStep, limiterOnly, limiterVars, metricsOnly, metricsVars
<1>5. RegistryStep => Others
  BY DEF RegistryStep, limiterOnly, limiterVars, metricsOnly, metricsVars
<1>6. IntentStep => Others
  BY DEF IntentStep, limiterOnly, limiterVars, metricsOnly, metricsVars
<1>7. AuditStep => Others
  BY DEF AuditStep, limiterOnly, limiterVars, metricsOnly, metricsVars
<1>8. MetricsStep => Others
  <2>1. MetricsNext => Tick \/ UNCHANGED now
    BY DEF MetricsNext, TakeStamp, RecordQuery, RecordError, ResetMetrics
  <2>2. Tick /\ UNCHANGED <<bucketVars, globalVars>> => LimiterNext
    BY DEF LimiterNext, BucketNext
  <2>. QED
    BY <2>1, <2>2 DEF MetricsStep, limiterOnly, limiterVars
<1>9. UNCHANGED allVars => Others
  BY DEF allVars, limiterOnly, limiterVars, metricsOnly, metricsVars
<1>. QED
  BY <1>1, <1>2, <1>3, <1>4, <1>5, <1>6, <1>7, <1>8, <1>9 DEF MCNext

\* The services as they are composed for the run keep what each of them keeps
\* (rate_limiter.py, audit_chain.py, file_intent.py, backend_engine.py, cluster.py,
\* metrics.py, table_registry.py).
THEOREM ServicesCorrect ==
    MCSpec => [](ClusterBalanced /\ AdmissionExact /\ BreakerExact /\ LedgersExact /\ StoresExact)
<1>. DEFINE Inv == ClusterInv /\ LimiterInv /\ BreakerInv /\ AuditInv /\ IntentInv
                /\ MetricsInv /\ RegistryInv
<1>1. MCInit => Inv
  BY ClusterInvAtFirst, LimiterInvAtFirst, BreakerInvAtFirst, AuditInvAtFirst, IntentInvAtFirst,
     MetricsInvAtFirst, RegistryInvAtFirst
  DEF MCInit
<1>2. Inv /\ [MCNext]_allVars => Inv'
  <2>1. LimiterInv /\ [LimiterNext]_limiterVars => LimiterInv'
    BY BucketStepKeeps, GlobalStepKeeps, LimiterStill DEF LimiterNext
  <2>. QED
    BY <2>1, ServicesApart, ClusterNextKeeps, BreakerNextKeeps, AuditNextKeeps, IntentNextKeeps,
       MetricsNextKeeps, RegistryNextKeeps
<1>3. Inv => ClusterBalanced /\ AdmissionExact /\ BreakerExact /\ LedgersExact /\ StoresExact
  BY ClusterInvSuffices, LimiterInvSuffices, BreakerInvSuffices, AuditInvSuffices, IntentInvSuffices,
     MetricsInvSuffices, TotalsInvSuffices, RegistryInvSuffices
  DEF LedgersExact, StoresExact
<1>. QED
  BY <1>1, <1>2, <1>3, PTL DEF MCSpec
--------------------------------------------------------------------------------
(* The composition of several queries. The inductive invariant. *)

Clauses == (UNION {Range(submission[q].clauses) : q \in Queries}) \union {WithStar}
Sorted == {q \in Queries : submission[q].id \notin remaining}
NeedsOne(q) == \E other \in Queries : Needs(q, other)

\* The order is one of the sorted queries, each once and behind what it needs;
\* after the first round a query that is still to be sorted needs another one.
OrderSoFar ==
    /\ remaining \subseteq {submission[q].id : q \in Queries}
    /\ order \in Seq(Queries)
    /\ Range(order) = Sorted
    /\ \A i, j \in DOMAIN order : order[i] = order[j] => i = j
    /\ \A q, other \in Sorted : \A i, j \in DOMAIN order :
         Needs(q, other) /\ order[i] = q /\ order[j] = other => j < i
    /\ \A q \in Sorted : \A other \in Queries : Needs(q, other) => other \in Sorted
    /\ \A q \in Sorted : \A i, j \in DOMAIN order : i < j /\ order[j] = q /\ q < order[i] => NeedsOne(q)
    /\ order # <<>> => \A q \in Queries \ Sorted : NeedsOne(q)

\* No RETURN is in the combined query but at the end of the last one.
CombinedSoFar ==
    /\ joined \in 0 .. Len(order)
    /\ combined \in Seq(Clauses)
    /\ \A i \in 1 .. Len(combined) :
         combined[i].kind = "return" => joined = Len(order) /\ i = Len(combined)

CompositionInv ==
    /\ submission \in Submissions
    /\ composing \in {"submitted", "sorting", "sorted", "combined", "invalid", "cyclic", "key error"}
    /\ composing \notin {"sorted", "combined"} => joined = 0 /\ combined = <<>>
    /\ composing = "submitted" => order = <<>>
    /\ validates /\ DuplicateIds => composing \in {"submitted", "invalid"}
    /\ ~DuplicateIds =>
         /\ composing # "key error"
         /\ composing \in {"sorting", "sorted", "combined", "cyclic"} => OrderSoFar
         /\ composing \in {"sorted", "combined"} => remaining = {} /\ CombinedSoFar
         /\ composing = "cyclic" => Knotted(Queries \ Sorted)
--------------------------------------------------------------------------------
\* What the analysis says of the queries changes only with them.
LEMMA SameSubmission ==
    ASSUME submission' = submission
    PROVE  /\ Queries' = Queries
           /\ \A q, other : Needs(q, other)' <=> Needs(q, other)
           /\ DuplicateIds' <=> DuplicateIds
           /\ Clauses' = Clauses
<1>1. Queries' = Queries
  BY DEF Queries
<1>2. \A q, kinds : ClausesOf(q, kinds)' = ClausesOf(q, kinds)
  BY DEF ClausesOf
<1>3. \A q, v : LabelsOf(q, v)' = LabelsOf(q, v)
  BY <1>2 DEF LabelsOf
<1>4. \A q, places : PropertiesAt(q, places)' = PropertiesAt(q, places)
  BY <1>3 DEF PropertiesAt
<1>5. \A q : Everything(q)' = Everything(q)
  BY DEF Everything
<1>6. \A q : Produces(q)' = Produces(q)
  BY <1>2, <1>4 DEF Produces, ProducedTypes
<1>7. \A q : Consumes(q)' = Consumes(q)
  BY <1>2, <1>4, <1>5 DEF Consumes, ConsumedTypes
<1>8. \A q, other : Needs(q, other)' <=> Needs(q, other)
  BY <1>6, <1>7 DEF Needs
<1>9. DuplicateIds' <=> DuplicateIds
  BY <1>1 DEF DuplicateIds
<1>10. Clauses' = Clauses
  BY <1>1 DEF Clauses
<1>. QED
  BY <1>1, <1>8, <1>9, <1>10
\* The queries are numbered, and there are finitely many.
LEMMA QueriesFinite ==
    ASSUME submission \in Submissions
    PROVE  Queries \in SUBSET Int /\ IsFiniteSet(Queries)
<1>1. submission \in Seq(Range(submission))
  BY CompositionAssumption
<1>2. Len(submission) \in Nat /\ Queries = 1 .. Len(submission)
  BY <1>1 DEF Queries
<1>. QED
  BY <1>2, FS_Interval

\* Distinct queries have distinct identifiers.
LEMMA OwnIds ==
    ASSUME ~DuplicateIds, NEW q \in Queries, NEW other \in Queries,
           submission[q].id = submission[other].id
    PROVE  q = other
BY DEF DuplicateIds

\* A round sorts the queries that need none of those left: they are written in
\* ascending order, and nothing else becomes sorted.
LEMMA ReadyRound ==
    ASSUME submission \in Submissions, ~DuplicateIds
    PROVE  /\ ReadyQueries \subseteq Queries \ Sorted
           /\ Ready \in Seq(ReadyQueries) /\ Range(Ready) = ReadyQueries
           /\ Len(Ready) = Cardinality(ReadyQueries) /\ Cardinality(ReadyQueries) \in Nat
           /\ \A i, j \in 1 .. Len(Ready) : i < j => Ready[i] < Ready[j]
           /\ Cardinality(ReadyIds) = Cardinality(ReadyQueries)
           /\ \A q \in ReadyQueries, other \in Queries : Needs(q, other) => other \in Sorted
           /\ \A q \in (Queries \ Sorted) \ ReadyQueries :
                \E other \in Queries \ Sorted : Needs(q, other)
           /\ \A q \in Queries : submission[q].id \in ReadyIds => q \in ReadyQueries
<1>1. ReadyQueries \subseteq Queries \ Sorted
  BY DEF ReadyQueries, Sorted
<1>2. ReadyQueries \in SUBSET Int /\ IsFiniteSet(ReadyQueries)
  BY <1>1, QueriesFinite, FS_Subset
<1>3. Ready = [n \in 1 .. Cardinality(ReadyQueries) |->
                 CHOOSE q \in ReadyQueries : Cardinality({p \in ReadyQueries : p < q}) = n - 1]
  BY DEF Ready
<1>4. /\ Ready \in Seq(ReadyQueries) /\ Range(Ready) = ReadyQueries
      /\ Len(Ready) = Cardinality(ReadyQueries) /\ Cardinality(ReadyQueries) \in Nat
      /\ \A i, j \in 1 .. Len(Ready) : i < j => Ready[i] < Ready[j]
  BY <1>2, <1>3, AscendingSequence
<1>5. \A q \in Queries : submission[q].id \in ReadyIds => q \in ReadyQueries
  BY <1>1, OwnIds DEF ReadyIds
<1>6. Cardinality(ReadyIds) = Cardinality(ReadyQueries)
  <2>. DEFINE ids == [q \in ReadyQueries |-> submission[q].id]
  <2>1. ids \in Bijection(ReadyQueries, ReadyIds)
    <3>1. ids \in [ReadyQueries -> ReadyIds] /\ \A id \in ReadyIds : \E q \in ReadyQueries : ids[q] = id
      BY DEF ReadyIds
    <3>2. \A q, other \in ReadyQueries : ids[q] = ids[other] => q = other
      BY <1>1, OwnIds
    <3>. QED
      BY <3>1, <3>2 DEF Bijection, Injection, Surjection, IsInjective
  <2>. QED
    BY <1>2, <2>1, FS_Bijection DEF ExistsBijection
<1>7. \A q \in ReadyQueries, other \in Queries : Needs(q, other) => other \in Sorted
  BY DEF ReadyQueries, Dependencies, Sorted
<1>8. \A q \in (Queries \ Sorted) \ ReadyQueries : \E other \in Queries \ Sorted : Needs(q, other)
  <2>. SUFFICES ASSUME NEW q \in (Queries \ Sorted) \ ReadyQueries
                PROVE  \E other \in Queries \ Sorted : Needs(q, other)
    OBVIOUS
  <2>1. PICK id \in Dependencies(q) : id \in remaining
    BY DEF ReadyQueries, Sorted
  <2>2. PICK other \in Queries : Needs(q, other) /\ submission[other].id = id
    BY <2>1 DEF Dependencies
  <2>. QED
    BY <2>1, <2>2 DEF Sorted
<1>. QED
  BY <1>1, <1>4, <1>5, <1>6, <1>7, <1>8
--------------------------------------------------------------------------------
\* The order grows by what is ready.
LEMMA RoundKeepsOrder ==
    ASSUME submission \in Submissions, ~DuplicateIds, OrderSoFar,
           order' = order \o Ready, remaining' = remaining \ ReadyIds, submission' = submission
    PROVE  OrderSoFar'
<1>. DEFINE R == Ready
            n == Len(order)
            m == Len(R)
<1>1. Queries' = Queries /\ (\A q, other : Needs(q, other)' <=> Needs(q, other))
  BY SameSubmission
<1>2. /\ ReadyQueries \subseteq Queries \ Sorted
      /\ R \in Seq(ReadyQueries) /\ Range(R) = ReadyQueries
      /\ \A i, j \in 1 .. m : i < j => R[i] < R[j]
      /\ \A q \in ReadyQueries, other \in Queries : Needs(q, other) => other \in Sorted
      /\ \A q \in (Queries \ Sorted) \ ReadyQueries : \E other \in Queries \ Sorted : Needs(q, other)
      /\ \A q \in Queries : submission[q].id \in ReadyIds => q \in ReadyQueries
  BY ReadyRound
<1>3. /\ order \in Seq(Queries) /\ Range(order) = Sorted
      /\ remaining \subseteq {submission[q].id : q \in Queries}
      /\ \A i, j \in DOMAIN order : order[i] = order[j] => i = j
      /\ \A q, other \in Sorted : \A i, j \in DOMAIN order :
           Needs(q, other) /\ order[i] = q /\ order[j] = other => j < i
      /\ \A q \in Sorted : \A other \in Queries : Needs(q, other) => other \in Sorted
      /\ \A q \in Sorted : \A i, j \in DOMAIN order : i < j /\ order[j] = q /\ q < order[i] => NeedsOne(q)
      /\ order # <<>> => \A q \in Queries \ Sorted : NeedsOne(q)
  BY DEF OrderSoFar
<1>4. Queries \in SUBSET Int /\ Sorted \subseteq Queries
  BY QueriesFinite DEF Sorted
<1>5. Sorted' = Sorted \union ReadyQueries
  BY <1>1, <1>2 DEF Sorted, ReadyIds
<1>6. \A q : NeedsOne(q)' <=> NeedsOne(q)
  BY <1>1 DEF NeedsOne
<1>. HIDE DEF R
<1>7. R \in Seq(Queries) /\ order' = order \o R /\ order' \in Seq(Queries)
  BY <1>1, <1>2, <1>3 DEF R
<1>8. /\ n \in Nat /\ m \in Nat /\ DOMAIN order = 1 .. n /\ DOMAIN R = 1 .. m
      /\ DOMAIN order' = 1 .. (n + m)
      /\ \A i \in 1 .. n : order'[i] = order[i]
      /\ \A i \in 1 .. m : order'[n + i] = R[i]
  BY <1>3, <1>7
<1>9. /\ \A i \in 1 .. n : order[i] \in Sorted
      /\ \A i \in 1 .. m : R[i] \in ReadyQueries
      /\ \A q \in Sorted : \E i \in 1 .. n : order[i] = q
      /\ \A q \in ReadyQueries : \E i \in 1 .. m : R[i] = q
  BY <1>2, <1>3, <1>8 DEF Range
<1>. HIDE DEF n, m
<1>10. ASSUME NEW i \in 1 .. (n + m)
       PROVE  \/ i \in 1 .. n /\ order'[i] = order[i] /\ order[i] \in Sorted
              \/ i > n /\ i - n \in 1 .. m /\ order'[i] = R[i - n] /\ R[i - n] \in ReadyQueries
  <2>1. CASE i <= n
    BY <1>8, <1>9, <2>1
  <2>2. CASE i > n
    <3>1. i - n \in 1 .. m /\ n + (i - n) = i
      BY <1>8, <2>2
    <3>. QED
      BY <1>8, <1>9, <2>2, <3>1
  <2>. QED
    BY <1>8, <2>1, <2>2
<1>11. Range(order') = Sorted'
  <2>1. \A i \in DOMAIN order' : order'[i] \in Sorted'
    BY <1>5, <1>8, <1>10
  <2>2. ASSUME NEW q \in Sorted' PROVE \E i \in DOMAIN order' : order'[i] = q
    <3>1. CASE q \in Sorted
      <4>1. PICK i \in 1 .. n : order[i] = q
        BY <1>9, <3>1
      <4>. QED
        BY <1>8, <4>1
    <3>2. CASE q \in ReadyQueries
      <4>1. PICK i \in 1 .. m : R[i] = q
        BY <1>9, <3>2
      <4>2. n + i \in 1 .. (n + m)
        BY <1>8
      <4>. QED
        BY <1>8, <4>1, <4>2
    <3>. QED
      BY <1>5, <3>1, <3>2
  <2>. QED
    BY <2>1, <2>2 DEF Range
<1>12. ASSUME NEW i \in DOMAIN order', NEW j \in DOMAIN order', order'[i] = order'[j]
       PROVE  i = j
  <2>1. CASE i \in 1 .. n /\ j \in 1 .. n
    BY <1>3, <1>8, <1>12, <2>1
  <2>2. CASE i > n /\ j > n
    <3>0. i - n \in 1 .. m /\ j - n \in 1 .. m /\ R[i - n] = R[j - n]
      <4>1. i \in 1 .. (n + m) /\ j \in 1 .. (n + m) /\ ~(i \in 1 .. n) /\ ~(j \in 1 .. n)
        BY ONLY <1>8, <1>12, <2>2
      <4>2. i - n \in 1 .. m /\ order'[i] = R[i - n]
        BY ONLY <1>10, <4>1
      <4>3. j - n \in 1 .. m /\ order'[j] = R[j - n]
        BY ONLY <1>10, <4>1
      <4>. QED
        BY ONLY <1>12, <4>2, <4>3
    <3>1. i - n \in 1 .. m /\ j - n \in 1 .. m /\ R[i - n] = R[j - n] /\ R[i - n] \in Int
      BY <1>2, <1>4, <1>9, <3>0
    <3>2. ~(i - n < j - n) /\ ~(j - n < i - n)
      BY <1>2, <3>1 DEF m
    <3>. QED
      BY <1>8, <3>1, <3>2
  <2>. QED
    BY <1>2, <1>8, <1>10, <1>12, <2>1, <2>2
<1>13. \A q \in Sorted', other \in Queries : Needs(q, other) => other \in Sorted
  BY <1>2, <1>3, <1>5
<1>14. ASSUME NEW q \in Sorted', NEW other \in Sorted', Needs(q, other),
              NEW i \in DOMAIN order', NEW j \in DOMAIN order', order'[i] = q, order'[j] = other
       PROVE  j < i
  <2>1. other \in Sorted
    BY <1>2, <1>4, <1>5, <1>13, <1>14
  <2>2. j \in 1 .. n /\ order[j] = other
    BY <1>2, <1>8, <1>10, <1>14, <2>1
  <2>3. CASE i \in 1 .. n
    <3>1. order[i] = q /\ q \in Sorted
      BY <1>8, <1>9, <1>14, <2>3
    <3>. QED
      BY <1>3, <1>8, <1>14, <2>1, <2>2, <2>3, <3>1
  <2>4. i \in 1 .. n \/ i > n
    BY <1>8
  <2>. QED
    BY <1>8, <2>2, <2>3, <2>4
<1>15. ASSUME NEW q \in Sorted', NEW i \in DOMAIN order', NEW j \in DOMAIN order',
              i < j, order'[j] = q, q < order'[i]
       PROVE  NeedsOne(q)
  <2>1. CASE j \in 1 .. n
    <3>1. i \in 1 .. n /\ order[j] = q /\ q \in Sorted /\ q < order[i]
      BY <1>8, <1>9, <1>15, <2>1
    <3>. QED
      BY <1>3, <1>8, <1>15, <2>1, <3>1
  <2>2. CASE j > n /\ i > n
    <3>0. i \in 1 .. (n + m) /\ j \in 1 .. (n + m) /\ i \notin 1 .. n /\ j \notin 1 .. n
      BY <1>8, <2>2
    <3>1. i - n \in 1 .. m /\ j - n \in 1 .. m /\ order'[i] = R[i - n] /\ q = R[j - n]
      BY ONLY <1>10, <1>15, <3>0
    <3>2. i - n < j - n
      BY <1>8, <1>15
    <3>3. R[i - n] < R[j - n]
      BY <1>2, <3>1, <3>2 DEF m
    <3>4. R[i - n] \in Int /\ R[j - n] \in Int
      BY <1>2, <1>4, <1>9, <3>1
    <3>. QED
      BY <1>15, <3>1, <3>3, <3>4
  <2>3. CASE j > n /\ i \in 1 .. n
    <3>1. q \in Queries \ Sorted
      BY <1>2, <1>8, <1>10, <1>15, <2>3
    <3>2. order # <<>>
      BY <1>8, <2>3
    <3>. QED
      BY <1>3, <3>1, <3>2
  <2>. QED
    BY <1>8, <1>10, <2>1, <2>2, <2>3
<1>16. \A q \in Queries \ Sorted' : NeedsOne(q)
  BY <1>2, <1>5 DEF NeedsOne
<1>17. remaining' \subseteq {submission'[q].id : q \in Queries'}
  BY <1>1, <1>3
<1>. QED
  <2>1. \A q, other \in Sorted' : \A i, j \in DOMAIN order' :
           Needs(q, other)' /\ order'[i] = q /\ order'[j] = other => j < i
    BY <1>1, <1>14
  <2>2. \A q \in Sorted' : \A other \in Queries' : Needs(q, other)' => other \in Sorted'
    BY <1>1, <1>5, <1>13
  <2>3. \A q \in Sorted' : \A i, j \in DOMAIN order' :
           i < j /\ order'[j] = q /\ q < order'[i] => NeedsOne(q)'
    BY <1>6, <1>15
  <2>4. \A q \in Queries' \ Sorted' : NeedsOne(q)'
    BY <1>1, <1>6, <1>16
  <2>. QED
    BY <1>1, <1>7, <1>11, <1>12, <1>17, <2>1, <2>2, <2>3, <2>4 DEF OrderSoFar
--------------------------------------------------------------------------------
\* A query whose only RETURN is its last clause has none without it.
LEMMA StripReturnShape ==
    ASSUME NEW C, NEW cs \in Seq(C), \A i \in 1 .. (Len(cs) - 1) : cs[i].kind # "return"
    PROVE  /\ StripReturn(cs) \in Seq(C)
           /\ \A i \in 1 .. Len(StripReturn(cs)) : StripReturn(cs)[i].kind # "return"
<1>0. Len(cs) \in Nat
  OBVIOUS
<1>1. CASE cs # <<>> /\ Last(cs).kind = "return"
  <2>1. Len(cs) \in Nat \ {0} /\ StripReturn(cs) = SubSeq(cs, 1, Len(cs) - 1)
    BY <1>1 DEF StripReturn, Front
  <2>2. /\ SubSeq(cs, 1, Len(cs) - 1) \in Seq(C)
        /\ Len(SubSeq(cs, 1, Len(cs) - 1)) = Len(cs) - 1
        /\ \A i \in 1 .. (Len(cs) - 1) : SubSeq(cs, 1, Len(cs) - 1)[i] = cs[i]
    <3>. DEFINE k == Len(cs) - 1
                t == SubSeq(cs, 1, k)
    <3>1. 1 \in Int /\ k \in Nat /\ k \in Int /\ \A i \in 1 .. k : cs[i] \in C
      BY ONLY cs \in Seq(C), <2>1
    <3>. HIDE DEF k
    <3>2. /\ t \in Seq(C) /\ Len(t) = (IF 1 <= k THEN k - 1 + 1 ELSE 0)
          /\ \A i \in 1 .. k - 1 + 1 : t[i] = cs[1 + i - 1]
      BY ONLY <3>1, SubSeqProperties
    <3>. HIDE DEF t
    <3>3. Len(t) = k /\ k - 1 + 1 = k /\ \A i \in 1 .. k : 1 + i - 1 = i
      BY ONLY <3>1, <3>2
    <3>4. \A i \in 1 .. k : t[i] = cs[i]
      BY ONLY <3>2, <3>3
    <3>. QED
      BY ONLY <3>2, <3>3, <3>4 DEF k, t
  <2>. QED
    BY <2>1, <2>2
<1>2. CASE cs = <<>>
  BY <1>2 DEF StripReturn
<1>3. CASE cs # <<>> /\ Last(cs).kind # "return"
  <2>1. Len(cs) \in Nat \ {0} /\ StripReturn(cs) = cs /\ cs[Len(cs)].kind # "return"
    BY <1>3 DEF StripReturn, Last
  <2>2. \A i \in 1 .. Len(cs) : i = Len(cs) \/ i \in 1 .. (Len(cs) - 1)
    BY <1>0
  <2>. QED
    BY <2>1, <2>2
<1>. QED
  BY <1>1, <1>2, <1>3

\* One query more: only the last one brings its RETURN.
LEMMA CombineKeepsCombined ==
    ASSUME submission \in Submissions, order \in Seq(Queries), CombinedSoFar, Combine
    PROVE  CombinedSoFar'
<1>. DEFINE C == Clauses
            own == submission[order[joined + 1]].clauses
            text == IF joined + 1 < Len(order) THEN StripReturn(own) ELSE own
            piece == IF joined > 0 THEN <<WithStar>> \o text ELSE text
            n == Len(combined)
            m == Len(piece)
<1>1. /\ joined < Len(order) /\ combined' = combined \o piece /\ joined' = joined + 1
      /\ submission' = submission /\ order' = order
  BY DEF Combine
<1>2. /\ joined \in Nat /\ Len(order) \in Nat /\ combined \in Seq(C)
      /\ \A i \in 1 .. n : combined[i].kind # "return"
  <2>1. joined \in Nat /\ Len(order) \in Nat /\ combined \in Seq(C) /\ joined # Len(order)
    BY <1>1 DEF CombinedSoFar
  <2>. QED
    BY <2>1 DEF CombinedSoFar
<1>3. order[joined + 1] \in Queries
  BY <1>1, <1>2
<1>4. own \in Seq(C) /\ \A i \in 1 .. (Len(own) - 1) : own[i].kind # "return"
  <2>1. /\ own \in Seq(Range(own))
        /\ \A i \in 1 .. (Len(own) - 1) : own[i].kind # "return"
    BY <1>3, CompositionAssumption DEF Queries
  <2>2. Range(own) \subseteq C
    BY <1>3 DEF Clauses
  <2>. QED
    BY <2>1, <2>2
<1>. HIDE DEF own
<1>5. /\ text \in Seq(C)
      /\ \A i \in 1 .. Len(text) : text[i].kind = "return" => joined + 1 = Len(order) /\ i = Len(text)
  <2>1. CASE joined + 1 < Len(order)
    <3>1. StripReturn(own) \in Seq(C)
          /\ \A i \in 1 .. Len(StripReturn(own)) : StripReturn(own)[i].kind # "return"
      BY <1>4, StripReturnShape
    <3>. QED
      BY <2>1, <3>1
  <2>2. CASE ~(joined + 1 < Len(order))
    <3>1. joined + 1 = Len(order) /\ Len(own) \in Nat
      BY <1>1, <1>2, <1>4, <2>2
    <3>2. \A i \in 1 .. Len(own) : i = Len(own) \/ i \in 1 .. (Len(own) - 1)
      BY <3>1
    <3>. QED
      BY <1>4, <2>2, <3>1, <3>2
  <2>. QED
    BY <2>1, <2>2
<1>. HIDE DEF text
<1>6. /\ piece \in Seq(C)
      /\ \A i \in 1 .. m : piece[i].kind = "return" => joined + 1 = Len(order) /\ i = m
  <2>1. CASE joined > 0
    <3>1. <<WithStar>> \in Seq(C) /\ Len(<<WithStar>>) = 1 /\ <<WithStar>>[1].kind # "return"
      <4>1. WithStar \in C /\ WithStar.kind # "return"
        BY CompositionAssumption DEF Clauses
      <4>. QED
        BY ONLY <4>1
    <3>2. piece = <<WithStar>> \o text
      BY <2>1
    <3>3. /\ piece \in Seq(C) /\ Len(text) \in Nat /\ m = 1 + Len(text)
          /\ piece[1] = WithStar /\ \A i \in 2 .. m : piece[i] = text[i - 1]
      BY <1>5, <3>1, <3>2
    <3>. HIDE DEF piece, m
    <3>4. ASSUME NEW i \in 1 .. m, piece[i].kind = "return"
          PROVE  joined + 1 = Len(order) /\ i = m
      <4>1. i # 1
        BY <3>1, <3>3, <3>4
      <4>2. i \in 2 .. m /\ i - 1 \in 1 .. Len(text)
        BY <3>3, <4>1
      <4>3. joined + 1 = Len(order) /\ i - 1 = Len(text)
        BY <1>5, <3>3, <3>4, <4>2
      <4>. QED
        BY <3>3, <4>3
    <3>. QED
      BY <3>3, <3>4
  <2>2. CASE ~(joined > 0)
    BY <1>5, <2>2
  <2>. QED
    BY <2>1, <2>2
<1>. HIDE DEF piece
<1>7. /\ n \in Nat /\ m \in Nat /\ combined' \in Seq(C) /\ Len(combined') = n + m
      /\ \A i \in 1 .. n : combined'[i] = combined[i]
      /\ \A i \in 1 .. m : combined'[n + i] = piece[i]
  BY <1>1, <1>2, <1>6
<1>. HIDE DEF n, m, C
<1>8. ASSUME NEW i \in 1 .. (n + m), combined'[i].kind = "return"
      PROVE  joined + 1 = Len(order) /\ i = n + m
  <2>1. i \notin 1 .. n
    BY <1>2, <1>7, <1>8
  <2>2. i - n \in 1 .. m /\ n + (i - n) = i
    BY <1>7, <2>1
  <2>3. piece[i - n].kind = "return"
    BY <1>7, <1>8, <2>2
  <2>4. joined + 1 = Len(order) /\ i - n = m
    BY <1>6, <2>2, <2>3
  <2>. QED
    BY <1>7, <2>2, <2>4
<1>9. Clauses' = Clauses
  BY <1>1, SameSubmission
<1>10. joined' \in 0 .. Len(order') /\ combined' \in Seq(Clauses')
  BY <1>1, <1>2, <1>7, <1>9 DEF C
<1>11. \A i \in 1 .. Len(combined') :
         combined'[i].kind = "return" => joined' = Len(order') /\ i = Len(combined')
  BY <1>1, <1>7, <1>8
<1>. QED
  BY <1>10, <1>11 DEF CombinedSoFar
--------------------------------------------------------------------------------
\* It holds at the beginning.
LEMMA CompositionInitially == CompositionInit => CompositionInv
BY DEF CompositionInit, CompositionInv

\* The order stays right as long as nothing becomes sorted.
LEMMA OrderStays ==
    ASSUME submission' = submission, remaining' = remaining, order' = order
    PROVE  Sorted' = Sorted /\ (OrderSoFar => OrderSoFar')
<1>1. Queries' = Queries /\ (\A q, other : Needs(q, other)' <=> Needs(q, other))
  BY SameSubmission
<1>2. Sorted' = Sorted
  BY <1>1 DEF Sorted
<1>3. \A q : NeedsOne(q)' <=> NeedsOne(q)
  BY <1>1 DEF NeedsOne
<1>4. ASSUME OrderSoFar PROVE OrderSoFar'
  <2>1. /\ remaining \subseteq {submission[q].id : q \in Queries}
        /\ order \in Seq(Queries) /\ Range(order) = Sorted
        /\ \A i, j \in DOMAIN order : order[i] = order[j] => i = j
        /\ \A q, other \in Sorted : \A i, j \in DOMAIN order :
             Needs(q, other) /\ order[i] = q /\ order[j] = other => j < i
        /\ \A q \in Sorted : \A other \in Queries : Needs(q, other) => other \in Sorted
        /\ \A q \in Sorted : \A i, j \in DOMAIN order : i < j /\ order[j] = q /\ q < order[i] => NeedsOne(q)
        /\ order # <<>> => \A q \in Queries \ Sorted : NeedsOne(q)
    BY <1>4 DEF OrderSoFar
  <2>2. /\ remaining' \subseteq {submission'[q].id : q \in Queries'}
        /\ order' \in Seq(Queries') /\ Range(order') = Sorted'
        /\ \A i, j \in DOMAIN order' : order'[i] = order'[j] => i = j
    BY <1>1, <1>2, <2>1
  <2>3. \A q, other \in Sorted' : \A i, j \in DOMAIN order' :
             Needs(q, other)' /\ order'[i] = q /\ order'[j] = other => j < i
    BY <1>1, <1>2, <2>1
  <2>4. \A q \in Sorted' : \A other \in Queries' : Needs(q, other)' => other \in Sorted'
    BY <1>1, <1>2, <2>1
  <2>5. \A q \in Sorted' : \A i, j \in DOMAIN order' :
             i < j /\ order'[j] = q /\ q < order'[i] => NeedsOne(q)'
    BY <1>2, <1>3, <2>1
  <2>6. order' # <<>> => \A q \in Queries' \ Sorted' : NeedsOne(q)'
    BY <1>1, <1>2, <1>3, <2>1
  <2>. QED
    BY <2>2, <2>3, <2>4, <2>5, <2>6 DEF OrderSoFar
<1>. QED
  BY <1>2, <1>4

\* The empty sequence.
LEMMA EmptyShape ==
    ASSUME NEW S
    PROVE  <<>> \in Seq(S) /\ Len(<<>>) = 0 /\ DOMAIN <<>> = {} /\ Range(<<>>) = {}
<1>1. <<>> \in Seq(S) /\ Len(<<>>) = 0
  BY EmptySeq
<1>2. DOMAIN <<>> = {}
  BY <1>1
<1>. QED
  BY <1>1, <1>2 DEF Range

\* Every step keeps it.
LEMMA CompositionKept ==
    ASSUME CompositionInv, [CompositionNext]_compositionVars
    PROVE  CompositionInv'
<1>. USE DEF CompositionInv
<1>0. submission' = submission /\ validates' = validates
  BY DEF CompositionNext, Validate, SortRound, EndOfSort, Combine, EndOfCombine, compositionVars
<1>1. /\ Queries' = Queries /\ (DuplicateIds' <=> DuplicateIds) /\ Clauses' = Clauses
      /\ \A q, other : Needs(q, other)' <=> Needs(q, other)
  BY <1>0, SameSubmission
<1>2. \A q : NeedsOne(q)' <=> NeedsOne(q)
  BY <1>1 DEF NeedsOne
<1>3. ASSUME remaining' = remaining, order' = order
      PROVE  Sorted' = Sorted /\ (OrderSoFar => OrderSoFar')
  BY <1>0, <1>3, OrderStays
<1>4. ASSUME joined' = joined, combined' = combined, order' = order, CombinedSoFar
      PROVE  CombinedSoFar'
  BY <1>1, <1>4 DEF CombinedSoFar
<1>5. ASSUME remaining' = remaining, order' = order, Knotted(Queries \ Sorted)
      PROVE  Knotted(Queries \ Sorted)'
  BY <1>1, <1>3, <1>5 DEF Knotted
<1>6. CASE Validate
  <2>1. /\ composing = "submitted" /\ order = <<>> /\ order' = <<>>
        /\ joined' = 0 /\ combined' = <<>>
        /\ remaining' = {submission[q].id : q \in Queries}
        /\ composing' = IF validates /\ DuplicateIds THEN "invalid" ELSE "sorting"
    BY <1>6 DEF Validate
  <2>2. Sorted' = {}
    BY <1>0, <1>1, <2>1 DEF Sorted
  <2>3. OrderSoFar'
    <3>1. order' \in Seq(Queries') /\ DOMAIN order' = {} /\ Range(order') = {}
      BY <2>1, EmptyShape
    <3>. QED
      BY <1>0, <1>1, <2>1, <2>2, <3>1 DEF OrderSoFar
  <2>. QED
    BY <1>0, <1>1, <2>1, <2>3
<1>7. CASE SortRound
  <2>1. /\ composing = "sorting" /\ remaining # {}
        /\ joined' = 0 /\ combined' = <<>>
    BY <1>7 DEF SortRound
  <2>2. CASE DuplicateIds
    <3>1. composing' \in {"sorting", "cyclic", "key error"}
      BY <1>7, <2>1 DEF SortRound
    <3>. QED
      BY <1>0, <1>1, <2>1, <2>2, <3>1
  <2>3. CASE ~DuplicateIds
    <3>1. /\ OrderSoFar
          /\ Ready \in Seq(ReadyQueries) /\ Len(Ready) = Cardinality(ReadyIds) /\ Len(Ready) \in Nat
          /\ Range(Ready) = ReadyQueries
          /\ \A q \in (Queries \ Sorted) \ ReadyQueries : \E other \in Queries \ Sorted : Needs(q, other)
      BY <2>1, <2>3, ReadyRound
    <3>2. CASE Ready = <<>>
      <4>1. composing' = "cyclic" /\ remaining' = remaining /\ order' = order
        BY <1>7, <3>2 DEF SortRound
      <4>2. ReadyQueries = {}
        BY <3>1, <3>2, EmptyShape
      <4>3. Queries \ Sorted # {}
        BY <2>1, <3>1 DEF OrderSoFar, Sorted
      <4>4. Knotted(Queries \ Sorted)
        BY <3>1, <4>2, <4>3 DEF Knotted
      <4>. QED
        BY <1>0, <1>1, <1>3, <1>5, <2>1, <2>3, <3>1, <4>1, <4>4
    <3>3. CASE Ready # <<>>
      <4>0. ~(Cardinality(ReadyIds) < Len(Ready))
        BY ONLY <3>1
      <4>1. order' = order \o Ready /\ remaining' = remaining \ ReadyIds /\ composing' = "sorting"
        BY <1>7, <2>1, <3>3, <4>0 DEF SortRound
      <4>2. OrderSoFar'
        BY <1>0, <2>3, <3>1, <4>1, RoundKeepsOrder
      <4>. QED
        BY <1>0, <1>1, <2>1, <2>3, <4>1, <4>2
    <3>. QED
      BY <3>2, <3>3
  <2>. QED
    BY <2>2, <2>3
<1>8. CASE EndOfSort
  <2>1. /\ composing = "sorting" /\ remaining = {} /\ remaining' = {} /\ composing' = "sorted"
        /\ remaining' = remaining /\ order' = order
        /\ joined = 0 /\ combined = <<>> /\ joined' = 0 /\ combined' = <<>>
    BY <1>8 DEF EndOfSort
  <2>2. ~DuplicateIds => OrderSoFar /\ OrderSoFar'
    BY <1>3, <2>1
  <2>3. ~DuplicateIds => CombinedSoFar'
    <3>1. ~DuplicateIds => order \in Seq(Queries) /\ Len(order) \in Nat
      BY ONLY <2>2 DEF OrderSoFar
    <3>2. combined' \in Seq(Clauses') /\ Len(combined') = 0
      BY <2>1, EmptyShape
    <3>. QED
      BY <2>1, <3>1, <3>2 DEF CombinedSoFar
  <2>. QED
    BY <1>0, <1>1, <2>1, <2>2, <2>3
<1>9. CASE Combine
  <2>1. /\ composing = "sorted" /\ composing' = "sorted"
        /\ remaining' = remaining /\ order' = order
    BY <1>9 DEF Combine
  <2>2. ~DuplicateIds => OrderSoFar /\ OrderSoFar'
    BY <1>3, <2>1
  <2>3. ~DuplicateIds => CombinedSoFar'
    <3>1. ~DuplicateIds => order \in Seq(Queries) /\ CombinedSoFar
      BY <2>1, <2>2 DEF OrderSoFar
    <3>. QED
      BY <1>9, <3>1, CombineKeepsCombined
  <2>. QED
    BY <1>0, <1>1, <2>1, <2>2, <2>3
<1>10. CASE EndOfCombine
  <2>1. /\ composing = "sorted" /\ composing' = "combined"
        /\ remaining' = remaining /\ order' = order /\ joined' = joined /\ combined' = combined
    BY <1>10 DEF EndOfCombine
  <2>2. ~DuplicateIds => OrderSoFar' /\ CombinedSoFar'
    BY <1>3, <1>4, <2>1
  <2>. QED
    BY <1>0, <1>1, <2>1, <2>2
<1>11. CASE UNCHANGED compositionVars
  <2>1. /\ composing' = composing /\ remaining' = remaining /\ order' = order
        /\ joined' = joined /\ combined' = combined
    BY <1>11 DEF compositionVars
  <2>2. /\ OrderSoFar => OrderSoFar'
        /\ CombinedSoFar => CombinedSoFar'
        /\ Knotted(Queries \ Sorted) => Knotted(Queries \ Sorted)'
    BY <1>3, <1>4, <1>5, <2>1
  <2>. QED
    BY <1>0, <1>1, <2>1, <2>2
<1>. QED
  BY <1>6, <1>7, <1>8, <1>9, <1>10, <1>11 DEF CompositionNext

\* And it says what is promised.
LEMMA CompositionImplies == CompositionInv => ProducersFirst
<1>. SUFFICES ASSUME CompositionInv, validates \/ ~DuplicateIds PROVE ProducersFirst
  BY DEF ProducersFirst
<1>1. submission \in Submissions
  BY DEF CompositionInv
<1>2. CASE DuplicateIds
  <2>1. composing \in {"submitted", "invalid"} /\ combined = <<>>
    BY <1>2 DEF CompositionInv
  <2>2. Len(combined) = 0
    BY <2>1, EmptyShape
  <2>3. \A i \in 1 .. (Len(combined) - 1) : combined[i].kind # "return"
    BY ONLY <2>2
  <2>. QED
    BY <2>1, <2>3 DEF ProducersFirst
<1>3. CASE ~DuplicateIds
  <2>1. ASSUME composing \in {"sorted", "combined"}
        PROVE  /\ Len(order) = Cardinality(Queries) /\ Range(order) = Queries
               /\ \A i, j \in DOMAIN order : Needs(order[i], order[j]) => j < i
               /\ \A i, j \in DOMAIN order :
                    i < j /\ order[j] < order[i] => \E q \in Queries : Needs(order[j], q)
    <3>1. OrderSoFar /\ Sorted = Queries
      BY <1>3, <2>1 DEF CompositionInv, Sorted
    <3>2. /\ order \in Seq(Queries) /\ Range(order) = Queries
          /\ Len(order) \in Nat /\ DOMAIN order = 1 .. Len(order)
          /\ \A i, j \in DOMAIN order : order[i] = order[j] => i = j
          /\ \A i \in DOMAIN order : order[i] \in Queries
      BY <3>1 DEF OrderSoFar
    <3>3. Len(order) = Cardinality(Queries)
      <4>1. order \in Bijection(1 .. Len(order), Queries)
        BY ONLY <3>2 DEF Bijection, Injection, Surjection, IsInjective, Range
      <4>2. IsFiniteSet(1 .. Len(order)) /\ Cardinality(1 .. Len(order)) = Len(order)
        <5>1. \A n \in Nat : IsFiniteSet(1 .. n) /\ Cardinality(1 .. n) = n
          BY ONLY FS_Interval
        <5>. QED
          BY ONLY <3>2, <5>1
      <4>. QED
        BY <4>1, <4>2, FS_Bijection DEF ExistsBijection
    <3>. QED
      BY <3>1, <3>2, <3>3 DEF OrderSoFar, NeedsOne
  <2>2. composing = "cyclic" => \E qs \in SUBSET Queries : Knotted(qs)
    <3>1. Queries \ Sorted \in SUBSET Queries
      OBVIOUS
    <3>. QED
      BY <1>3, <3>1 DEF CompositionInv
  <2>3. \A i \in 1 .. (Len(combined) - 1) : combined[i].kind # "return"
    <3>1. CASE composing \in {"sorted", "combined"}
      <4>0. CombinedSoFar
        BY <1>3, <3>1 DEF CompositionInv
      <4>1. CombinedSoFar /\ Len(combined) \in Nat
        BY ONLY <4>0 DEF CombinedSoFar
      <4>2. \A i \in 1 .. (Len(combined) - 1) : i \in 1 .. Len(combined) /\ i # Len(combined)
        BY <4>1
      <4>. QED
        BY <4>1, <4>2 DEF CombinedSoFar
    <3>2. CASE composing \notin {"sorted", "combined"}
      <4>1. Len(combined) = 0
        BY <3>2, EmptyShape DEF CompositionInv
      <4>. QED
        BY ONLY <4>1
    <3>. QED
      BY <3>1, <3>2
  <2>. QED
    BY <1>3, <2>1, <2>2, <2>3 DEF CompositionInv, ProducersFirst
<1>. QED
  BY <1>2, <1>3

\* Whatever queries are submitted, the combined query of distinct ones runs
\* each once and behind its producers, independent ones as they came, and only
\* a knot of queries is refused (topological_sort, combine_from_graph).
THEOREM ProducersFirstCorrect == CompositionSpec => []ProducersFirst
<1>1. CompositionInv /\ [CompositionNext]_compositionVars => CompositionInv'
  BY CompositionKept
<1>. QED
  BY <1>1, CompositionInitially, CompositionImplies, PTL DEF CompositionSpec
=============================================================================
