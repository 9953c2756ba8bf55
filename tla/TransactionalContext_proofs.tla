--------------------- MODULE TransactionalContext_proofs ---------------------
(***************************************************************************)
(* Lemmas about the operations of TransactionalContext, one per property   *)
(* that the theorems about QueryEngine rest on.                            *)
(***************************************************************************)
EXTENDS TransactionalContext, TLAPS

Fills == [type : Types, df : Version, current : BOOLEAN]

\* A fresh lookup cache turns every pending fill away.
LEMMA NewLookupCacheTyped ==
    ASSUME NEW fills \in [Threads -> {NoFill} \union Fills], NewLookupCache(fills)
    PROVE  /\ lookup_cache' = NoTables
           /\ fill' \in [Threads -> {NoFill} \union Fills]
           /\ \A t \in Threads : fill'[t] # NoFill => ~fill'[t].current
<1>1. lookup_cache' = NoTables
      /\ fill' = [t \in Threads |-> IF fills[t] = NoFill THEN NoFill
                                    ELSE [fills[t] EXCEPT !.current = FALSE]]
  BY DEF NewLookupCache
<1>2. ASSUME NEW t \in Threads, fills[t] # NoFill
      PROVE  fill'[t] \in Fills /\ ~fill'[t].current
  BY <1>1, <1>2 DEF Fills
<1>3. ASSUME NEW t \in Threads, fills[t] = NoFill
      PROVE  fill'[t] = NoFill
  BY <1>1, <1>3
<1>. QED
  BY <1>1, <1>2, <1>3

\* Every operation keeps the types of the tables, shadows and caches.
LEMMA ContextOperationsTyped ==
    ASSUME ContextTypeOK, NEW t \in Threads
    PROVE  /\ BeginQuery(t) => ContextTypeOK'
           /\ \A e \in Types : ScanSource(t, e) => ContextTypeOK'
           /\ ScanFill(t) => ContextTypeOK'
           /\ \A e \in Types, q \in Txns : Mutate(t, e, q) => ContextTypeOK'
           /\ \A e \in Types : Promote(t, e) => ContextTypeOK'
           /\ EndCommit(t) => ContextTypeOK'
           /\ Rollback(t) => ContextTypeOK'
<1>. USE DEF ContextTypeOK, Version, NoTables
<1>1. ASSUME DropShadow(t)
      PROVE  /\ shadow' \in [Threads -> [Types -> {NoTable} \union Version]]
             /\ promoted' \in [Threads -> SUBSET Types]
  BY <1>1 DEF DropShadow
<1>2. BeginQuery(t) => ContextTypeOK'
  BY <1>1 DEF BeginQuery
<1>3. ASSUME NEW e \in Types, ScanSource(t, e)
      PROVE  ContextTypeOK'
  BY <1>3 DEF ScanSource
<1>4. ASSUME ScanFill(t)
      PROVE  ContextTypeOK'
  BY <1>4, ContextAssumption DEF ScanFill
<1>5. ASSUME NEW e \in Types, NEW q \in Txns, Mutate(t, e, q)
      PROVE  ContextTypeOK'
  <2>. DEFINE base == IF shadow[t][e] = NoTable THEN live[e] ELSE shadow[t][e]
  <2>1. base \union {q} \in Version
    OBVIOUS
  <2>. QED
    BY <1>5, <2>1 DEF Mutate
<1>6. ASSUME NEW e \in Types, Promote(t, e)
      PROVE  ContextTypeOK'
  <2>1. shadow[t][e] \in Version
    BY <1>6 DEF Promote, Written
  <2>. QED
    BY <1>6, <2>1 DEF Promote
<1>7. ASSUME EndCommit(t)
      PROVE  ContextTypeOK'
  <2>1. CASE Written(t) = {}
    BY <1>1, <1>7, <2>1 DEF EndCommit
  <2>2. CASE Written(t) # {}
    BY <1>1, <1>7, <2>2, NewLookupCacheTyped DEF EndCommit, Fills
  <2>. QED
    BY <2>1, <2>2
<1>8. ASSUME Rollback(t)
      PROVE  ContextTypeOK'
  <2>1. [fill EXCEPT ![t] = NoFill] \in [Threads -> {NoFill} \union Fills]
    BY DEF Fills
  <2>. QED
    BY <1>1, <1>8, <2>1, NewLookupCacheTyped DEF Rollback, Fills
<1>. QED
  BY <1>2, <1>3, <1>4, <1>5, <1>6, <1>7, <1>8

-----------------------------------------------------------------------------
(***************************************************************************)
(* The lookup cache.  LookupCacheFresh speaks of the states in which no    *)
(* commit is under way; LookupInv says what holds during one.  Only a      *)
(* table that a running commit has already assigned can be cached in an    *)
(* older version, or be on its way into the current dict.                  *)
(***************************************************************************)
Promoting(e) == \E t \in Threads : e \in promoted[t]

CacheAgrees ==
    \A e \in Types :
      lookup_cache[e] # NoTable => lookup_cache[e] = live[e] \/ Promoting(e)

FillsAgree ==
    \A t \in Threads :
      fill[t] # NoFill /\ fill[t].current =>
        fill[t].df = live[fill[t].type] \/ Promoting(fill[t].type)

LookupInv == CacheAgrees /\ FillsAgree

\* Outside commits the invariant is the property.
LEMMA LookupInvFresh == LookupInv => LookupCacheFresh
  BY DEF LookupInv, CacheAgrees, LookupCacheFresh, NoCommitUnderWay, Promoting

\* A new dict makes the invariant true, whatever was wrong before.
LEMMA NewLookupCacheAgrees ==
    ASSUME NEW fills \in [Threads -> {NoFill} \union Fills], NewLookupCache(fills)
    PROVE  LookupInv'
  BY NewLookupCacheTyped DEF LookupInv, CacheAgrees, FillsAgree, NoTables

\* Every operation keeps the lookup cache as fresh as the invariant says; a
\* query must not begin while its thread has a commit under way.
LEMMA ContextOperationsKeepLookup ==
    ASSUME ContextTypeOK, LookupInv, NEW t \in Threads
    PROVE  /\ BeginQuery(t) /\ promoted[t] = {} => LookupInv'
           /\ \A e \in Types : ScanSource(t, e) => LookupInv'
           /\ ScanFill(t) => LookupInv'
           /\ \A e \in Types, q \in Txns : Mutate(t, e, q) => LookupInv'
           /\ \A e \in Types : Promote(t, e) => LookupInv'
           /\ EndCommit(t) => LookupInv'
           /\ Rollback(t) => LookupInv'
<1>. USE DEF ContextTypeOK, LookupInv, CacheAgrees, FillsAgree
<1>1. ASSUME UNCHANGED <<live, lookup_cache, fill>>, promoted[t] = {},
             promoted' = [promoted EXCEPT ![t] = {}]
      PROVE  LookupInv'
  <2>1. promoted' = promoted
    BY <1>1
  <2>. QED
    BY <1>1, <2>1 DEF Promoting
<1>2. BeginQuery(t) /\ promoted[t] = {} => LookupInv'
  BY <1>1 DEF BeginQuery, DropShadow
<1>3. ASSUME NEW e \in Types, ScanSource(t, e)
      PROVE  LookupInv'
  BY <1>3 DEF ScanSource, Promoting
<1>4. ASSUME ScanFill(t)
      PROVE  LookupInv'
  <2>1. /\ fill[t] # NoFill
        /\ fill[t] \in Fills
        /\ fill' = [fill EXCEPT ![t] = NoFill]
        /\ UNCHANGED <<live, promoted>>
    BY <1>4 DEF ScanFill, Fills
  <2>2. \A e \in Types : Promoting(e)' <=> Promoting(e)
    BY <2>1 DEF Promoting
  <2>3. FillsAgree'
    <3>1. \A u \in Threads : fill'[u] # NoFill => fill'[u] = fill[u] /\ fill[u].type \in Types
      BY <2>1
    <3>. QED
      BY <2>1, <2>2, <3>1
  <2>4. CASE fill[t].current
    <3>1. lookup_cache' = [lookup_cache EXCEPT ![fill[t].type] = fill[t].df]
      BY <1>4, <2>4 DEF ScanFill
    <3>2. ASSUME NEW e \in Types, lookup_cache'[e] # NoTable
          PROVE  lookup_cache'[e] = live'[e] \/ Promoting(e)'
      <4>1. CASE e = fill[t].type
        BY <2>1, <2>2, <2>4, <3>1, <4>1
      <4>2. CASE e # fill[t].type
        BY <2>1, <2>2, <3>1, <3>2, <4>2
      <4>. QED
        BY <4>1, <4>2
    <3>. QED
      BY <2>3, <3>2
  <2>5. CASE ~fill[t].current
    <3>1. lookup_cache' = lookup_cache
      BY <1>4, <2>5 DEF ScanFill
    <3>. QED
      BY <2>1, <2>2, <2>3, <3>1
  <2>. QED
    BY <2>4, <2>5
<1>5. ASSUME NEW e \in Types, NEW q \in Txns, Mutate(t, e, q)
      PROVE  LookupInv'
  BY <1>5 DEF Mutate, Promoting
<1>6. ASSUME NEW e \in Types, Promote(t, e)
      PROVE  LookupInv'
  <2>1. Promoting(e)' /\ \A f \in Types : Promoting(f) => Promoting(f)'
    BY <1>6 DEF Promote, Promoting
  <2>2. \A f \in Types \ {e} : live'[f] = live[f]
    BY <1>6 DEF Promote
  <2>3. UNCHANGED <<lookup_cache, fill>>
    BY <1>6 DEF Promote
  <2>4. \A u \in Threads : fill[u] # NoFill => fill[u].type \in Types
    OBVIOUS
  <2>. QED
    BY <2>1, <2>2, <2>3, <2>4
<1>7. ASSUME EndCommit(t)
      PROVE  LookupInv'
  <2>1. CASE Written(t) = {}
    BY <1>1, <1>7, <2>1 DEF EndCommit, DropShadow
  <2>2. CASE Written(t) # {}
    BY <1>7, <2>2, NewLookupCacheAgrees DEF EndCommit, Fills
  <2>. QED
    BY <2>1, <2>2
<1>8. ASSUME Rollback(t)
      PROVE  LookupInv'
  <2>1. [fill EXCEPT ![t] = NoFill] \in [Threads -> {NoFill} \union Fills]
    BY DEF Fills
  <2>. QED
    BY <1>8, <2>1, NewLookupCacheAgrees DEF Rollback
<1>. QED
  BY <1>2, <1>3, <1>4, <1>5, <1>6, <1>7, <1>8
=============================================================================
