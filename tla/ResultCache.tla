----------------------------- MODULE ResultCache -----------------------------
(***************************************************************************)
(* ResultCache of result_cache.py on top of its ReadWriteLock: an LRU map  *)
(* of query results bounded in bytes, with lazy invalidation by a          *)
(* generation number.  get, put, invalidate and clear hold the write lock  *)
(* while they work, stats holds the read lock; every acquisition can time  *)
(* out, and then the operation does nothing (get answers a miss, stats     *)
(* reads without the lock).  put works in several steps under the lock, so *)
(* a lock that let somebody in would show a half-updated cache.            *)
(*                                                                         *)
(* Time is abstracted: whether an entry found by get is older than the TTL *)
(* is a free choice.  The hit, miss, eviction and timeout counters of the  *)
(* statistics are left out: nothing reads them back.                       *)
(***************************************************************************)
EXTENDS ReadWriteLock, SequencesExt

CONSTANTS
    Keys,               \* the digests _make_key can return
    Frames,             \* the results that can be stored
    ResultsOf,          \* the results each query can have as the data changes
    NoFrame,            \* the None that get returns on a miss
    BytesOf,            \* _estimate_df_bytes, a function from Frames to Nat
    MaxSizeBytes,       \* max_size_bytes
    ExpiryOn,           \* ttl_seconds > 0
    GenerationBound     \* how many times the model invalidates

ASSUME CacheAssumption ==
    /\ NoFrame \notin Frames
    /\ ResultsOf \in [Keys -> SUBSET Frames]
    /\ BytesOf \in [Frames -> Nat]
    /\ MaxSizeBytes \in Nat
    /\ ExpiryOn \in BOOLEAN
    /\ GenerationBound \in Nat

VARIABLES
    entries,        \* _entries: the OrderedDict, least recently used first
    current_size,   \* _current_size_bytes
    generation,     \* _generation
    op,             \* the operation each thread is in, and how far it got
    answer,         \* what the get it is in found, until it returns
    recency,        \* history: the pairs <<x, y>> of keys with x used before y
    invalidations   \* history: invalidate() calls that took the lock

dataVars == <<entries, current_size, generation, recency, invalidations>>
cacheVars == <<entries, current_size, generation, op, answer, recency, invalidations>>
vars == <<lockVars, cacheVars>>

Entry == [key : Keys, df : Frames, gen : Nat]

NoOp == [name |-> "none"]
Lookup(k) == [name |-> "get", key |-> k]
Store(k, f) == [name |-> "put", key |-> k, df |-> f]
Simple(name) == [name |-> name]
Calls == {Lookup(k) : k \in Keys}
         \union (UNION {{Store(k, f) : f \in ResultsOf[k]} : k \in Keys})
         \union {Simple(n) : n \in {"invalidate", "clear", "stats"}}
\* Where an operation is once it has the lock; a put runs in three parts.
Evicting(k, f) == [name |-> "evict", key |-> k, df |-> f]
Finished == [name |-> "finished"]
Ops == Calls \union {NoOp, Finished} \union {Evicting(k, f) : k \in Keys, f \in Frames}

IndexOf(k) == {i \in DOMAIN entries : entries[i].key = k}
Stored == {entries[i].key : i \in DOMAIN entries}
RunningBytes(es) ==
    LET sum[n \in 0 .. Len(es)] ==
          IF n = 0 THEN 0 ELSE sum[n - 1] + BytesOf[es[n].df]
    IN  sum
TotalBytes(es) == RunningBytes(es)[Len(es)]
\* Every other stored key was used before k now.
Use(k) ==
    LET others == Stored \ {k}
    IN  {p \in recency : p[1] \in others /\ p[2] \in others} \union (others \X {k})

Init ==
    /\ LockInit
    /\ entries = <<>>
    /\ current_size = 0
    /\ generation = 0
    /\ op = [t \in Threads |-> NoOp]
    /\ answer = [t \in Threads |-> NoFrame]
    /\ recency = {}
    /\ invalidations = 0
-----------------------------------------------------------------------------
(***************************************************************************)
(* Entering and leaving an operation.                                      *)
(***************************************************************************)
Enabled == MaxSizeBytes > 0

\* The early returns before the lock: a disabled cache answers nothing and
\* stores nothing, and a result larger than the whole cache is not stored.
ReachesLock(o) ==
    /\ o.name \in {"get", "put"} => Enabled
    /\ o.name = "put" => BytesOf[o.df] <= MaxSizeBytes
    /\ o.name = "invalidate" => generation < GenerationBound

Call(t, o) ==
    /\ op[t] = NoOp
    /\ ReachesLock(o)
    /\ IF o.name = "stats" THEN AcquireRead(t) ELSE AcquireWrite(t)
    /\ op' = [op EXCEPT ![t] = o]
    /\ UNCHANGED <<answer, dataVars>>

LockWait(t) ==
    /\ WakeRead(t) \/ TimeoutRead(t) \/ WakeWrite(t) \/ TimeoutWrite(t)
    /\ UNCHANGED cacheVars

\* CacheLockTimeoutError is caught by every operation: get answers a miss,
\* put, invalidate and clear return silently, stats reads without the lock.
TimedOut(t) ==
    /\ pc[t] = "idle"
    /\ op[t] # NoOp
    /\ op' = [op EXCEPT ![t] = NoOp]
    /\ UNCHANGED <<lockVars, answer, dataVars>>

Inside(t, name) == pc[t] = "writing" /\ op[t].name = name
Done(t) == op' = [op EXCEPT ![t] = Finished]

Leave(t) ==
    /\ \/ op[t] = Finished /\ ReleaseWrite(t)
       \/ op[t] = Simple("stats") /\ ReleaseRead(t)
    /\ op' = [op EXCEPT ![t] = NoOp]
    /\ answer' = [answer EXCEPT ![t] = NoFrame]
    /\ UNCHANGED dataVars
-----------------------------------------------------------------------------
(***************************************************************************)
(* get.                                                                    *)
(***************************************************************************)
Missed(t) ==
    /\ Done(t)
    /\ UNCHANGED <<lockVars, answer, dataVars>>

\* A stale or expired entry is deleted and its bytes are given back.
Drop(t, i) ==
    /\ entries' = RemoveAt(entries, i)
    /\ current_size' = current_size - BytesOf[entries[i].df]
    /\ Done(t)
    /\ UNCHANGED <<lockVars, answer, generation, recency, invalidations>>

HitAndTouch(t, i) ==
    /\ entries' = Append(RemoveAt(entries, i), entries[i])
    /\ recency' = Use(entries[i].key)
    /\ answer' = [answer EXCEPT ![t] = entries[i].df]
    /\ Done(t)
    /\ UNCHANGED <<lockVars, current_size, generation, invalidations>>

GetAnyGeneration(t) ==  \* mutant: the generation is not compared
    /\ Inside(t, "get")
    /\ IF IndexOf(op[t].key) = {} THEN Missed(t)
       ELSE \E i \in IndexOf(op[t].key) : HitAndTouch(t, i)

Get(t) ==
    /\ Inside(t, "get")
    /\ IF IndexOf(op[t].key) = {} THEN Missed(t)
       ELSE \E i \in IndexOf(op[t].key) :
              IF entries[i].gen # generation THEN Drop(t, i)
              ELSE (ExpiryOn /\ Drop(t, i)) \/ HitAndTouch(t, i)
-----------------------------------------------------------------------------
(***************************************************************************)
(* put: remove the old entry, evict while there is no room, insert.        *)
(***************************************************************************)
PutKeepsOldBytes(t) ==  \* mutant: the old entry's bytes are not given back
    /\ Inside(t, "put")
    /\ IF IndexOf(op[t].key) = {} THEN UNCHANGED entries
       ELSE \E i \in IndexOf(op[t].key) : entries' = RemoveAt(entries, i)
    /\ op' = [op EXCEPT ![t] = Evicting(op[t].key, op[t].df)]
    /\ UNCHANGED <<lockVars, current_size, generation, answer, recency, invalidations>>

PutRemoveOld(t) ==
    /\ Inside(t, "put")
    /\ IF IndexOf(op[t].key) = {} THEN UNCHANGED <<entries, current_size>>
       ELSE \E i \in IndexOf(op[t].key) :
              /\ entries' = RemoveAt(entries, i)
              /\ current_size' = current_size - BytesOf[entries[i].df]
    /\ op' = [op EXCEPT ![t] = Evicting(op[t].key, op[t].df)]
    /\ UNCHANGED <<lockVars, generation, answer, recency, invalidations>>

\* The condition of the eviction loop.
NoRoom(t) ==
    /\ entries # <<>>
    /\ current_size + BytesOf[op[t].df] > MaxSizeBytes

EvictNewest(t) ==       \* mutant: popitem(last=True)
    /\ Inside(t, "evict") /\ NoRoom(t)
    /\ entries' = Front(entries)
    /\ current_size' = current_size - BytesOf[Last(entries).df]
    /\ UNCHANGED <<lockVars, generation, op, answer, recency, invalidations>>

PutEvict(t) ==
    /\ Inside(t, "evict") /\ NoRoom(t)
    /\ entries' = Tail(entries)
    /\ current_size' = current_size - BytesOf[Head(entries).df]
    /\ UNCHANGED <<lockVars, generation, op, answer, recency, invalidations>>

PutInsert(t) ==
    /\ Inside(t, "evict") /\ ~NoRoom(t)
    /\ entries' = Append(entries, [key |-> op[t].key, df |-> op[t].df, gen |-> generation])
    /\ current_size' = current_size + BytesOf[op[t].df]
    /\ recency' = Use(op[t].key)
    /\ Done(t)
    /\ UNCHANGED <<lockVars, generation, answer, invalidations>>
-----------------------------------------------------------------------------
InvalidateNothing(t) == \* mutant: the generation is not bumped
    /\ Inside(t, "invalidate")
    /\ invalidations' = invalidations + 1
    /\ Done(t)
    /\ UNCHANGED <<lockVars, entries, current_size, generation, answer, recency>>

Invalidate(t) ==
    /\ Inside(t, "invalidate")
    /\ generation' = generation + 1
    /\ invalidations' = invalidations + 1
    /\ Done(t)
    /\ UNCHANGED <<lockVars, entries, current_size, answer, recency>>

Clear(t) ==
    /\ Inside(t, "clear")
    /\ entries' = <<>>
    /\ current_size' = 0
    /\ Done(t)
    /\ UNCHANGED <<lockVars, generation, answer, recency, invalidations>>
-----------------------------------------------------------------------------
Work(t) ==
    \/ Get(t) \/ PutRemoveOld(t) \/ PutEvict(t) \/ PutInsert(t)
    \/ Invalidate(t) \/ Clear(t)

Proceed(t) == Work(t) \/ Leave(t) \/ LockWait(t) \/ TimedOut(t)

Next == \E t \in Threads : (\E o \in Calls : Call(t, o)) \/ Proceed(t)

\* A thread inside an operation runs, and a deadline is absolute: a thread that
\* keeps being woken and sent back to wait still reaches it.
Fairness ==
    \A t \in Threads :
      /\ WF_vars(Proceed(t))
      /\ SF_vars((TimeoutRead(t) \/ TimeoutWrite(t)) /\ UNCHANGED cacheVars)

Spec == Init /\ [][Next]_vars /\ Fairness
-----------------------------------------------------------------------------

\* Whenever no operation is at work - so also whenever stats reads under its
\* lock - the running byte count is exactly the bytes of the entries, no key is
\* stored twice and the size limit is respected.
BookkeepingExact ==
    Writers = {} =>
      /\ current_size = TotalBytes(entries)
      /\ current_size <= MaxSizeBytes
      /\ IsInjective([i \in DOMAIN entries |-> entries[i].key])

\* The order of the entries is the order of their last use, by a hit or a put.
LeastRecentFirst ==
    \A i, j \in DOMAIN entries :
      i < j => <<entries[i].key, entries[j].key>> \in recency

\* Space is made only when it is needed, and at the expense of the entry used
\* longest ago: one that survives a put was used after every one it evicts.
EvictsOnlyLeastRecent ==
    [][\A t \in Threads, victim \in Stored \ Stored' :
         op[t].name = "evict" /\ Writers = {t} =>
           /\ TotalBytes(entries) + BytesOf[op[t].df] > MaxSizeBytes
           /\ \A survivor \in Stored' : <<victim, survivor>> \in recency]_vars

\* The cache is LRU: its entries stand in the order of their use, and go in it.
EvictionIsLru == []LeastRecentFirst /\ EvictsOnlyLeastRecent

\* Lazy invalidation looks immediate from outside: entries of an older
\* generation count as forgotten, and get answers only what the contract says.
Remembered ==
    [k \in Keys |->
       LET fresh == {i \in IndexOf(k) : entries[i].gen = generation}
       IN  IF fresh = {} THEN NoFrame ELSE entries[CHOOSE i \in fresh : TRUE].df]
Asked == [t \in Threads |-> IF op[t].name = "get" THEN {op[t].key} ELSE {}]
Contract == INSTANCE CacheContract
              WITH memory <- Remembered, era <- invalidations, asked <- Asked
ImplementsContract == Contract!Spec

\* No operation blocks for ever, whatever the others do.
EveryCallReturns == \A t \in Threads : op[t] # NoOp ~> op[t] = NoOp
=============================================================================
