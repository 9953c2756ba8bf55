----------------------------- MODULE RateLimiter -----------------------------
(***************************************************************************)
(* QueryRateLimiter, its token buckets and the lazily created global       *)
(* limiter of rate_limiter.py.                                             *)
(*                                                                         *)
(* A call finds (or creates) its bucket under one lock and consumes a      *)
(* token under the bucket's own: time passes and other calls come between  *)
(* the two.  A token is Unit parts, so that a rate below one query a       *)
(* second refills in fractions.  acquire and try_acquire differ only in    *)
(* how they report the refusal.                                            *)
(***************************************************************************)
EXTENDS Clock, FiniteSets, Sequences

CONSTANTS
    Requesters,     \* threads that call the limiter
    Callers,        \* caller identities, NoCaller among them
    NoCaller,       \* caller_id=None
    Unit,           \* parts of a token
    Qps,            \* parts refilled in a tick
    Burst,          \* capacity, in tokens
    NoBucket, NotCalling,
    NoLimiter,      \* the global limiter does not exist, or None
    LimiterBound    \* resets of the global limiter

VARIABLES
    per_caller,     \* QueryRateLimiter._per_caller
    buckets,        \* _shared_bucket and _caller_buckets
    request,        \* the bucket a call has found
    admitted,       \* history: times of admission by each bucket since it was full by fiat
    global_limiter, \* _global_limiter: NoLimiter or its number
    global_lock,    \* holder of _global_lock
    getter,         \* where each thread is in get_global_limiter
    created,        \* history: limiters created
    limiter_resets  \* history: calls of reset_global_limiter

bucketVars == <<per_caller, buckets, request, admitted>>
globalVars == <<global_limiter, global_lock, getter, created, limiter_resets>>
limiterVars == <<now, bucketVars, globalVars>>

Keys == Callers \union {"__default__", "shared"}
Full == [tokens |-> Burst * Unit, last_refill |-> now]

\* Only a limiter with a positive rate has buckets that are asked, and then its
\* burst is at least 1 (the checks of QueryRateLimiter.__init__).
ASSUME LimiterAssumption ==
    /\ Unit \in Nat \ {0} /\ Qps \in Nat \ {0} /\ Burst \in Nat \ {0}
    /\ NotCalling \notin Keys
    /\ NoBucket \notin [tokens : Nat, last_refill : Nat]
    /\ NoLimiter \notin Nat \union Requesters

LimiterInit ==
    /\ per_caller \in BOOLEAN
    /\ buckets = [k \in Keys |-> IF k = "shared" /\ ~per_caller THEN Full ELSE NoBucket]
    /\ request = [r \in Requesters |-> NotCalling]
    /\ admitted = [k \in Keys |-> <<>>]
    /\ global_limiter = NoLimiter
    /\ global_lock = NoLimiter
    /\ getter = [r \in Requesters |-> [at |-> "start", got |-> NoLimiter]]
    /\ created = 0
    /\ limiter_resets = 0

KeyOf(caller) ==
    IF ~per_caller THEN "shared" ELSE IF caller = NoCaller THEN "__default__" ELSE caller

\* _get_bucket: created full on the caller's first call.
GetBucket(r, caller) ==
    /\ request[r] = NotCalling
    /\ LET k == KeyOf(caller) IN
         /\ request' = [request EXCEPT ![r] = k]
         /\ buckets' = IF buckets[k] = NoBucket THEN [buckets EXCEPT ![k] = Full] ELSE buckets
    /\ UNCHANGED <<now, per_caller, admitted, globalVars>>

Refilled(b) ==
    LET filled == b.tokens + (now - b.last_refill) * Qps
    IN  IF filled > Burst * Unit THEN Burst * Unit ELSE filled

RefillKeepsTime(k) ==       \* mutant: a refused call does not move last_refill
    IF Refilled(buckets[k]) >= Unit
    THEN [tokens |-> Refilled(buckets[k]) - Unit, last_refill |-> now]
    ELSE [buckets[k] EXCEPT !.tokens = Refilled(buckets[k])]

\* The bucket after consume(): refilled up to now, less a token if it has one.
Consumed(k) ==
    LET filled == Refilled(buckets[k])
    IN  [tokens |-> IF filled >= Unit THEN filled - Unit ELSE filled, last_refill |-> now]

Consume(r) ==
    /\ request[r] # NotCalling
    /\ LET k == request[r] IN
         /\ buckets' = [buckets EXCEPT ![k] = Consumed(k)]
         /\ admitted' = IF Refilled(buckets[k]) >= Unit
                        THEN [admitted EXCEPT ![k] = Append(@, now)] ELSE admitted
    /\ request' = [request EXCEPT ![r] = NotCalling]
    /\ UNCHANGED <<now, per_caller, globalVars>>

\* reset(caller_id): a known caller's bucket, or the shared one, or nothing.
ResetBucket(caller) ==
    /\ LET k == IF per_caller /\ caller # NoCaller THEN caller ELSE "shared" IN
         /\ buckets[k] # NoBucket
         /\ buckets' = [buckets EXCEPT ![k] = Full]
         /\ admitted' = [admitted EXCEPT ![k] = <<>>]
    /\ UNCHANGED <<now, per_caller, request, globalVars>>
-----------------------------------------------------------------------------
\* get_global_limiter: double-checked locking; `return _global_limiter` reads
\* the variable once more.
Goto(r, place) == getter' = [getter EXCEPT ![r].at = place]

PeekGlobal(r) ==
    /\ getter[r].at = "start"
    /\ Goto(r, IF global_limiter = NoLimiter THEN "lock" ELSE "return")
    /\ UNCHANGED <<now, bucketVars, global_limiter, global_lock, created, limiter_resets>>

LockGlobal(r) ==
    /\ getter[r].at = "lock" /\ global_lock = NoLimiter
    /\ global_lock' = r
    /\ Goto(r, "create")
    /\ UNCHANGED <<now, bucketVars, global_limiter, created, limiter_resets>>

CreateGlobal(r) ==
    /\ getter[r].at = "create"
    /\ IF global_limiter = NoLimiter
       THEN created' = created + 1 /\ global_limiter' = created'
       ELSE UNCHANGED <<created, global_limiter>>
    /\ global_lock' = NoLimiter
    /\ Goto(r, "return")
    /\ UNCHANGED <<now, bucketVars, limiter_resets>>

ReturnGlobal(r) ==
    /\ getter[r].at = "return"
    /\ getter' = [getter EXCEPT ![r] = [at |-> "done", got |-> global_limiter]]
    /\ UNCHANGED <<now, bucketVars, global_limiter, global_lock, created, limiter_resets>>

ResetGlobal ==
    /\ limiter_resets < LimiterBound
    /\ global_lock = NoLimiter
    /\ global_limiter' = NoLimiter
    /\ limiter_resets' = limiter_resets + 1
    /\ UNCHANGED <<now, bucketVars, global_lock, getter, created>>

BucketNext ==
    \/ \E r \in Requesters, c \in Callers : GetBucket(r, c)
    \/ \E r \in Requesters : Consume(r)
    \/ \E c \in Callers : ResetBucket(c)
    \/ Tick /\ UNCHANGED <<bucketVars, globalVars>>

GlobalNext ==
    \/ \E r \in Requesters : PeekGlobal(r) \/ LockGlobal(r) \/ CreateGlobal(r) \/ ReturnGlobal(r)
    \/ ResetGlobal

LimiterNext == BucketNext \/ GlobalNext

LimiterSpec == ClockInit /\ LimiterInit /\ [][LimiterNext]_limiterVars
-----------------------------------------------------------------------------
\* The contract of the limit: whatever the callers' timing, a bucket admits no
\* more queries in any stretch of time than its burst and what that stretch
\* refills, and never banks more than the burst.
AdmissionBounded ==
    \A k \in Keys : \A i, j \in DOMAIN admitted[k] :
      i <= j =>
        (j - i + 1) * Unit <= Burst * Unit + (admitted[k][j] - admitted[k][i]) * Qps

\* One limiter for the process: threads that ask for it at once, on its first
\* use, are given the same one, and only reset_global_limiter makes room for
\* another or lets a caller see none.
OneGlobalLimiter ==
    /\ created <= 1 + limiter_resets
    /\ limiter_resets = 0 =>
         \A r, s \in Requesters :
           getter[r].at = "done" /\ getter[s].at = "done" =>
             getter[r].got = getter[s].got /\ getter[r].got # NoLimiter

\* Every limiter admits what its rate allows, and the process has one global
\* limiter (rate_limiter.py).
AdmissionExact == AdmissionBounded /\ OneGlobalLimiter
=============================================================================
