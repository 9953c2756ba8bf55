------------------------- MODULE QueryEngine_proofs -------------------------
(***************************************************************************)
(* Proofs about QueryEngine for every set of threads, of types, of query   *)
(* texts and of deployments: its state is typed, the lookup cache agrees   *)
(* with the canonical tables, no unfinished write is visible, a single     *)
(* writer's commits stay, a single caller's result cache is coherent, and  *)
(* without a result cache an alarm never outlives the query that set it.   *)
(***************************************************************************)
EXTENDS QueryEngine, TransactionalContext_proofs, FiniteSetTheorems

Queries == [program : Programs, timed : BOOLEAN, txn : Txns \union {0}]
Fated == [program : Programs, fate : Fates]

-----------------------------------------------------------------------------
(***************************************************************************)
(* Types.  A mutating query marks its entry of the history, and a step     *)
(* reads the query of its thread, so the invariant also says that a thread *)
(* that is not idle runs a query and that a mutating one has an entry.     *)
(***************************************************************************)
QueryKnown == \A t \in Threads : query[t] = NoQuery <=> pc[t] = "idle"
MutationsKnown ==
    \A t \in Threads :
      query[t] # NoQuery /\ IsMutation(Program(t)) => Txn(t) \in DOMAIN history

EngineInv == EngineTypeOK /\ QueryKnown /\ MutationsKnown

\* A query is not the absence of one.
LEMMA QueriesAreKnown == \A r \in Queries : r # NoQuery
  BY EngineAssumption DEF Queries

\* What the clause loop reads is a clause.
LEMMA ClauseTyped ==
    ASSUME EngineInv, NEW t \in Threads, InLoop(t)
    PROVE  Clause(t) \in Clauses
<1>1. query[t] \in Queries
  BY DEF EngineInv, EngineTypeOK, QueryKnown, InLoop, Queries
<1>2. Program(t) \in Seq(Clauses)
  BY <1>1, EngineAssumption DEF Program, Queries
<1>3. ip[t] \in 1 .. Len(Program(t))
  BY <1>2 DEF EngineInv, EngineTypeOK, InLoop
<1>. QED
  BY <1>2, <1>3 DEF Clause

\* Marking a fate changes no other part of the history.
LEMMA FateTyped ==
    ASSUME EngineInv, NEW t \in Threads, pc[t] # "idle",
           NEW fate \in Fates, Fate(t, fate)
    PROVE  /\ history' \in Seq(Fated)
           /\ DOMAIN history' = DOMAIN history
           /\ \A q \in DOMAIN history : history'[q].program = history[q].program
<1>1. history \in Seq(Fated) /\ query[t] # NoQuery
  BY DEF EngineInv, EngineTypeOK, QueryKnown, Fated
<1>2. CASE IsMutation(Program(t))
  <2>1. Txn(t) \in DOMAIN history
    BY <1>1, <1>2 DEF EngineInv, MutationsKnown
  <2>2. history' = [history EXCEPT ![Txn(t)] = [@ EXCEPT !.fate = fate]]
    BY <1>2 DEF Fate
  <2>3. \A r \in Fated : /\ [r EXCEPT !.fate = fate] \in Fated
                         /\ [r EXCEPT !.fate = fate].program = r.program
    BY DEF Fated
  <2>4. history[Txn(t)] \in Fated
    BY <1>1, <2>1
  <2>. QED
    BY <1>1, <2>1, <2>2, <2>3, <2>4
<1>3. CASE ~IsMutation(Program(t))
  BY <1>1, <1>3 DEF Fate
<1>. QED
  BY <1>2, <1>3

\* The contents of the result cache are results.
LEMMA MemoryTyped ==
    ASSUME EngineInv
    PROVE  /\ Cache!Invalidate => memory' \in [ReadPrograms -> {NoResult} \union Results]
           /\ \A t \in Threads : Cache!Miss(t)
                => memory' \in [ReadPrograms -> {NoResult} \union Results]
           /\ \A p \in ReadPrograms, f \in Results : Cache!Remember(p, f)
                => memory' \in [ReadPrograms -> {NoResult} \union Results]
  BY DEF EngineInv, EngineTypeOK, Cache!Invalidate, Cache!Miss, Cache!Remember, Cache!Without

\* A step that leaves the history and moves a thread that goes on with its
\* query keeps what the invariant says of them.
LEMMA MoveTyped ==
    ASSUME EngineInv, NEW t \in Threads, NEW where \in PCs \ {"idle"},
           pc[t] # "idle", pc' = [pc EXCEPT ![t] = where],
           UNCHANGED query, DOMAIN history' = DOMAIN history
    PROVE  pc' \in [Threads -> PCs] /\ QueryKnown' /\ MutationsKnown'
  BY DEF EngineInv, EngineTypeOK, QueryKnown, MutationsKnown, Program, Txn

\* So does one in which a query begins or ends.
LEMMA StartTyped ==
    ASSUME EngineInv, NEW t \in Threads, NEW p \in Programs, NEW timed \in BOOLEAN,
           Start(t, p, timed)
    PROVE  EngineInv'
<1>. USE DEF EngineInv, EngineTypeOK
<1>. DEFINE q == [program |-> p, timed |-> timed,
                  txn |-> IF IsMutation(p) THEN Len(history) + 1 ELSE 0]
<1>1. q \in Queries /\ q # NoQuery
  <2>1. IsMutation(p) => Len(history) + 1 \in Txns
    BY EngineAssumption DEF Start
  <2>. QED
    BY <2>1, QueriesAreKnown DEF Queries
<1>2. /\ query' = [query EXCEPT ![t] = q]
      /\ pc' = [pc EXCEPT ![t] = "lookup"]
  BY DEF Start, Goto
<1>3. QueryKnown'
  BY <1>1, <1>2 DEF QueryKnown
<1>4. /\ history' \in Seq([program : Programs, fate : Fates])
      /\ DOMAIN history \subseteq DOMAIN history'
      /\ IsMutation(p) => Len(history) + 1 \in DOMAIN history'
  <2>1. [program |-> p, fate |-> "running"] \in [program : Programs, fate : Fates]
    BY DEF Fates
  <2>2. CASE IsMutation(p)
    <3>1. history' = Append(history, [program |-> p, fate |-> "running"])
      BY <2>2 DEF Start
    <3>. QED
      BY <2>1, <3>1
  <2>3. CASE ~IsMutation(p)
    BY <2>3 DEF Start
  <2>. QED
    BY <2>2, <2>3
<1>5. MutationsKnown'
  BY <1>1, <1>2, <1>4 DEF MutationsKnown, Program, Txn
<1>6. ContextTypeOK' /\ UNCHANGED <<deploy, ip, seen, stray, memory>>
  BY DEF Start, contextVars, cacheVars, Cache!Ask, ContextTypeOK
<1>7. alarm' \in BOOLEAN
  BY DEF Start, ArmsAlarm
<1>8. query' \in [Threads -> {NoQuery} \union Queries] /\ pc' \in [Threads -> PCs]
  BY <1>1, <1>2 DEF Queries, PCs
<1>. QED
  BY <1>3, <1>4, <1>5, <1>6, <1>7, <1>8 DEF Queries

LEMMA EndTyped ==
    ASSUME EngineInv, NEW t \in Threads,
           pc' = [pc EXCEPT ![t] = "idle"], query' = [query EXCEPT ![t] = NoQuery],
           DOMAIN history' = DOMAIN history
    PROVE  /\ pc' \in [Threads -> PCs]
           /\ query' \in [Threads -> {NoQuery} \union Queries]
           /\ QueryKnown' /\ MutationsKnown'
  BY DEF EngineInv, EngineTypeOK, QueryKnown, MutationsKnown, Program, Txn, PCs, Queries

LEMMA LookupStepsTyped ==
    ASSUME EngineInv, NEW t \in Threads, CacheHit(t) \/ CacheMiss(t)
    PROVE  EngineInv'
<1>1. CASE CacheHit(t)
  <2>1. DOMAIN history' = DOMAIN history
    BY <1>1 DEF CacheHit
  <2>2. ContextTypeOK' /\ UNCHANGED <<deploy, ip, seen, alarm, stray, history, memory>>
    BY <1>1 DEF CacheHit, contextVars, Cache!Hit, EngineInv, EngineTypeOK, ContextTypeOK
  <2>. QED
    BY <1>1, <2>1, <2>2, EndTyped DEF CacheHit, Goto, EngineInv, EngineTypeOK, Queries
<1>2. CASE CacheMiss(t)
  <2>1. ContextTypeOK'
    BY <1>2, ContextOperationsTyped DEF CacheMiss, EngineInv, EngineTypeOK
  <2>2. memory' \in [ReadPrograms -> {NoResult} \union Results]
    BY <1>2, MemoryTyped DEF CacheMiss
  <2>3. pc' \in [Threads -> PCs] /\ QueryKnown' /\ MutationsKnown'
    BY <1>2, MoveTyped DEF CacheMiss, Goto, PCs
  <2>4. ip' \in [Threads -> Nat \ {0}]
    BY <1>2 DEF CacheMiss, EngineInv, EngineTypeOK
  <2>. QED
    BY <1>2, <2>1, <2>2, <2>3, <2>4 DEF CacheMiss, EngineInv, EngineTypeOK
<1>. QED
  BY <1>1, <1>2

\* What a scan returns goes into the result.
LEMMA SeeTyped ==
    ASSUME EngineInv, NEW t \in Threads, NEW e \in Types, NEW df \in Version,
           See(t, e, df)
    PROVE  seen' \in [Threads -> Results]
<1>1. [seen[t] EXCEPT ![e] = df] \in Results
  BY DEF EngineInv, EngineTypeOK, Results
<1>. QED
  BY <1>1 DEF EngineInv, EngineTypeOK, See

LEMMA ClauseStepsTyped ==
    ASSUME EngineInv, NEW t \in Threads,
           ScanClause(t) \/ FillClause(t) \/ MutateClause(t) \/ Spin(t)
    PROVE  EngineInv'
<1>. USE DEF EngineInv, EngineTypeOK
<1>1. UNCHANGED <<deploy, query, alarm, stray, history, memory>>
  BY DEF ScanClause, FillClause, MutateClause, Spin, cacheVars
<1>2. ip[t] + 1 \in Nat \ {0}
  OBVIOUS
<1>3. CASE ScanClause(t)
  <2>1. Clause(t).type \in Types
    BY <1>3, ClauseTyped DEF ScanClause, Clauses
  <2>2. ContextTypeOK'
    BY <1>3, <2>1, ContextOperationsTyped
    DEF ScanClause, ScanCached, contextVars, ContextTypeOK
  <2>3. ip' \in [Threads -> Nat \ {0}]
    BY <1>2, <1>3 DEF ScanClause, NextClause
  <2>4. seen' \in [Threads -> Results]
    <3>1. CASE See(t, Clause(t).type, lookup_cache[Clause(t).type]) /\ ScanCached(t, Clause(t).type)
      <4>1. lookup_cache[Clause(t).type] \in Version
        BY <2>1, <3>1 DEF ScanCached, ContextTypeOK
      <4>. QED
        BY <2>1, <3>1, <4>1, SeeTyped
    <3>2. CASE seen' = seen
      BY <3>2
    <3>. QED
      BY <1>3, <3>1, <3>2 DEF ScanClause
  <2>5. pc' \in [Threads -> PCs] /\ QueryKnown' /\ MutationsKnown'
    <3>1. CASE pc' = pc
      BY <1>1, <3>1 DEF QueryKnown, MutationsKnown, Program, Txn
    <3>2. CASE pc' = [pc EXCEPT ![t] = "filling"]
      BY <1>1, <1>3, <3>2, MoveTyped DEF ScanClause, InLoop, PCs
    <3>. QED
      BY <1>3, <3>1, <3>2 DEF ScanClause, Goto
  <2>. QED
    BY <1>1, <2>2, <2>3, <2>4, <2>5
<1>4. CASE FillClause(t)
  <2>1. ContextTypeOK'
    BY <1>4, ContextOperationsTyped DEF FillClause
  <2>2. fill[t] \in [type : Types, df : Version, current : BOOLEAN]
    BY <1>4 DEF FillClause, ScanFill, ContextTypeOK
  <2>3. seen' \in [Threads -> Results]
    BY <1>4, <2>2, SeeTyped DEF FillClause
  <2>4. ip' \in [Threads -> Nat \ {0}]
    BY <1>2, <1>4 DEF FillClause, NextClause
  <2>5. pc' \in [Threads -> PCs] /\ QueryKnown' /\ MutationsKnown'
    BY <1>1, <1>4, MoveTyped DEF FillClause, Goto, PCs
  <2>. QED
    BY <1>1, <2>1, <2>3, <2>4, <2>5
<1>5. CASE MutateClause(t)
  <2>1. InLoop(t) /\ Clause(t).op = "mutate" /\ Clause(t).type \in Types
    BY <1>5, ClauseTyped DEF MutateClause, Clauses
  <2>2. Txn(t) \in Txns
    <3>1. query[t] \in Queries
      BY <2>1 DEF InLoop, QueryKnown, Queries
    <3>2. IsMutation(Program(t))
      <4>1. ip[t] \in DOMAIN Program(t)
        BY <2>1, <3>1, EngineAssumption DEF InLoop, Program, Queries
      <4>2. Clause(t).type \in TypesWith("mutate", Program(t))
        BY <2>1, <4>1 DEF Clause, TypesWith
      <4>. QED
        BY <4>2 DEF IsMutation
    <3>3. Txn(t) \in DOMAIN history /\ Txn(t) \in Txns \union {0}
      BY <2>1, <3>1, <3>2 DEF InLoop, QueryKnown, MutationsKnown, Txn, Queries
    <3>. QED
      BY <3>3
  <2>3. ContextTypeOK'
    BY <1>5, <2>1, <2>2, ContextOperationsTyped DEF MutateClause
  <2>4. ip' \in [Threads -> Nat \ {0}]
    BY <1>2, <1>5 DEF MutateClause, NextClause
  <2>5. UNCHANGED <<pc, seen>>
    BY <1>5 DEF MutateClause
  <2>. QED
    BY <1>1, <2>3, <2>4, <2>5 DEF QueryKnown, MutationsKnown, Program, Txn
<1>6. CASE Spin(t)
  <2>1. ContextTypeOK' /\ UNCHANGED <<ip, seen>>
    BY <1>6 DEF Spin, contextVars, ContextTypeOK
  <2>2. pc' \in [Threads -> PCs] /\ QueryKnown' /\ MutationsKnown'
    BY <1>1, <1>6, MoveTyped DEF Spin, InLoop, Goto, PCs
  <2>. QED
    BY <1>1, <2>1, <2>2
<1>. QED
  BY <1>3, <1>4, <1>5, <1>6

\* An exception in a clause, or an alarm in a clause or in a commit.
LEMMA AbortTyped ==
    ASSUME EngineInv, NEW t \in Threads, NEW fate \in Fates, pc[t] # "idle",
           Abort(t, fate), alarm' \in BOOLEAN, stray' \in BOOLEAN,
           UNCHANGED <<deploy, query, ip, seen, memory>>
    PROVE  EngineInv'
<1>1. ContextTypeOK'
  BY ContextOperationsTyped DEF Abort, EngineInv, EngineTypeOK
<1>2. history' \in Seq(Fated) /\ DOMAIN history' = DOMAIN history
  BY FateTyped DEF Abort
<1>3. pc' \in [Threads -> PCs] /\ QueryKnown' /\ MutationsKnown'
  BY <1>2, MoveTyped DEF Abort, Goto, PCs
<1>. QED
  BY <1>1, <1>2, <1>3 DEF EngineInv, EngineTypeOK, Fated

LEMMA CommitStepsTyped ==
    ASSUME EngineInv, NEW t \in Threads,
           BeginCommit(t) \/ PromoteOne(t) \/ Commit(t) \/ Publish(t) \/ Return(t)
    PROVE  EngineInv'
<1>. USE DEF EngineInv, EngineTypeOK
<1>1. CASE BeginCommit(t)
  <2>1. ContextTypeOK' /\ UNCHANGED <<deploy, query, ip, seen, alarm, stray, memory>>
    BY <1>1 DEF BeginCommit, contextVars, cacheVars, ContextTypeOK
  <2>2. history' \in Seq(Fated) /\ DOMAIN history' = DOMAIN history
    BY <1>1, FateTyped DEF BeginCommit, Fates
  <2>3. pc' \in [Threads -> PCs] /\ QueryKnown' /\ MutationsKnown'
    BY <1>1, <2>2, MoveTyped DEF BeginCommit, Goto, PCs
  <2>. QED
    BY <2>1, <2>2, <2>3 DEF Fated
<1>2. CASE PromoteOne(t)
  <2>1. ContextTypeOK'
    BY <1>2, ContextOperationsTyped DEF PromoteOne
  <2>. QED
    BY <1>2, <2>1
    DEF PromoteOne, engineVars, cacheVars, QueryKnown, MutationsKnown, Program, Txn
<1>3. CASE Commit(t)
  <2>1. ContextTypeOK'
    BY <1>3, ContextOperationsTyped DEF Commit
  <2>2. history' \in Seq(Fated) /\ DOMAIN history' = DOMAIN history
    BY <1>3, FateTyped DEF Commit, Fates
  <2>3. pc' \in [Threads -> PCs] /\ QueryKnown' /\ MutationsKnown'
    BY <1>3, <2>2, MoveTyped DEF Commit, Goto, PCs
  <2>. QED
    BY <1>3, <2>1, <2>2, <2>3 DEF Commit, cacheVars, Fated
<1>4. CASE Publish(t)
  <2>1. ContextTypeOK' /\ UNCHANGED <<deploy, query, ip, seen, alarm, stray, history>>
    BY <1>4 DEF Publish, contextVars, ContextTypeOK
  <2>2. query[t] \in Queries
    BY <1>4 DEF Publish, QueryKnown, Queries
  <2>3. memory' \in [ReadPrograms -> {NoResult} \union Results]
    <3>1. CASE IsMutation(Program(t))
      BY <1>4, <3>1, MemoryTyped DEF Publish, cacheVars
    <3>2. CASE ~IsMutation(Program(t))
      <4>1. Program(t) \in ReadPrograms
        BY <2>2, <3>2 DEF Program, Queries, ReadPrograms
      <4>. QED
        BY <1>4, <3>2, <4>1, MemoryTyped DEF Publish, cacheVars
    <3>. QED
      BY <3>1, <3>2
  <2>4. pc' \in [Threads -> PCs] /\ QueryKnown' /\ MutationsKnown'
    BY <1>4, <2>1, MoveTyped DEF Publish, Goto, PCs
  <2>. QED
    BY <2>1, <2>3, <2>4
<1>5. CASE Return(t)
  <2>1. /\ ContextTypeOK'
        /\ UNCHANGED <<deploy, stray, history, memory>>
    BY <1>5 DEF Return, contextVars, cacheVars, ContextTypeOK
  <2>2. /\ pc' \in [Threads -> PCs]
        /\ query' \in [Threads -> {NoQuery} \union Queries]
        /\ QueryKnown' /\ MutationsKnown'
    BY <1>5, <2>1, EndTyped DEF Return, Goto
  <2>3. /\ ip' \in [Threads -> Nat \ {0}]
        /\ seen' \in [Threads -> Results]
        /\ alarm' \in BOOLEAN
    BY <1>5 DEF Return, Results, NothingSeen
  <2>. QED
    BY <2>1, <2>2, <2>3 DEF Queries
<1>. QED
  BY <1>1, <1>2, <1>3, <1>4, <1>5

LEMMA AlarmTyped ==
    ASSUME EngineInv, AlarmFires
    PROVE  EngineInv'
<1>. USE DEF EngineInv, EngineTypeOK
<1>1. Main \in Threads
  BY EngineAssumption
<1>2. alarm' \in BOOLEAN /\ stray' \in BOOLEAN
  BY DEF AlarmFires, AlarmOutside, AlarmInLookup, AlarmInClause, AlarmInCommit,
         AlarmAfterCommit, Rings
<1>3. CASE AlarmOutside
  BY <1>2, <1>3
  DEF AlarmOutside, contextVars, cacheVars, ContextTypeOK,
      QueryKnown, MutationsKnown, Program, Txn
<1>4. CASE AlarmInLookup
  <2>1. ContextTypeOK' /\ UNCHANGED <<deploy, ip, seen>>
    BY <1>4 DEF AlarmInLookup, contextVars, ContextTypeOK
  <2>2. history' \in Seq(Fated) /\ DOMAIN history' = DOMAIN history
    BY <1>1, <1>4, FateTyped DEF AlarmInLookup, Fates
  <2>3. memory' \in [ReadPrograms -> {NoResult} \union Results]
    BY <1>1, <1>4, MemoryTyped DEF AlarmInLookup
  <2>4. /\ pc' \in [Threads -> PCs]
        /\ query' \in [Threads -> {NoQuery} \union Queries]
        /\ QueryKnown' /\ MutationsKnown'
    BY <1>1, <1>4, <2>2, EndTyped DEF AlarmInLookup, Goto
  <2>. QED
    BY <1>2, <2>1, <2>2, <2>3, <2>4 DEF Queries, Fated
<1>5. CASE AlarmInClause
  BY <1>1, <1>2, <1>5, AbortTyped DEF AlarmInClause, cacheVars, Fates
<1>6. CASE AlarmInCommit
  BY <1>1, <1>2, <1>6, AbortTyped DEF AlarmInCommit, cacheVars, Fates
<1>7. CASE AlarmAfterCommit
  <2>1. /\ ContextTypeOK'
        /\ UNCHANGED <<deploy, query, ip, seen, history, memory>>
    BY <1>7 DEF AlarmAfterCommit, contextVars, cacheVars, ContextTypeOK
  <2>2. pc' \in [Threads -> PCs] /\ QueryKnown' /\ MutationsKnown'
    BY <1>1, <1>7, <2>1, MoveTyped DEF AlarmAfterCommit, Goto, PCs
  <2>. QED
    BY <1>2, <2>1, <2>2
<1>. QED
  BY <1>3, <1>4, <1>5, <1>6, <1>7 DEF AlarmFires

LEMMA InitTyped == Init => EngineInv
<1>. SUFFICES ASSUME Init PROVE EngineInv
  OBVIOUS
<1>1. ContextTypeOK
  BY DEF Init, ContextInit, ContextTypeOK, NoTables, Version
<1>2. history = <<>> /\ history \in Seq([program : Programs, fate : Fates])
  BY DEF Init
<1>3. seen \in [Threads -> Results]
  BY DEF Init, NothingSeen, Results
<1>4. QueryKnown /\ MutationsKnown
  BY DEF Init, QueryKnown, MutationsKnown
<1>5. memory \in [ReadPrograms -> {NoResult} \union Results]
  BY DEF Init, Cache!Init
<1>6. /\ pc \in [Threads -> PCs]
      /\ query \in [Threads -> {NoQuery} \union Queries]
      /\ ip \in [Threads -> Nat \ {0}]
      /\ deploy \in Deployments
  BY DEF Init, PCs
<1>7. alarm \in BOOLEAN /\ stray \in BOOLEAN
  BY Zenon DEF Init
<1>. QED
  BY <1>1, <1>2, <1>3, <1>4, <1>5, <1>6, <1>7 DEF EngineInv, EngineTypeOK, Queries

\* Every step keeps the types, those of execute_query and the alarm's alike.
LEMMA NextTyped ==
    ASSUME EngineInv, [Next]_vars
    PROVE  EngineInv'
<1>1. CASE UNCHANGED vars
  BY <1>1 DEF vars, contextVars, engineVars, cacheVars, EngineInv, EngineTypeOK,
              ContextTypeOK, QueryKnown, MutationsKnown, Program, Txn
<1>2. ASSUME NEW t \in Threads, Fail(t)
      PROVE  EngineInv'
  BY <1>2, AbortTyped DEF Fail, InLoop, Fates, cacheVars, EngineInv, EngineTypeOK
<1>. QED
  BY <1>1, <1>2, StartTyped, LookupStepsTyped, ClauseStepsTyped, CommitStepsTyped, AlarmTyped
  DEF Next, Advance

LEMMA EngineInvariant == Spec => []EngineInv
<1>. QED
  BY InitTyped, NextTyped, PTL DEF Spec

\* The state of every thread, of the shared tables and of both caches stays
\* well-typed through every interleaving of queries, failures and alarms:
\* scans are always given a clause, and a mutating query its own identity.
THEOREM EngineTypeCorrect == Spec => []EngineTypeOK
<1>1. EngineInv => EngineTypeOK
  BY DEF EngineInv
<1>. QED
  BY <1>1, EngineInvariant, PTL

-----------------------------------------------------------------------------
(***************************************************************************)
(* The lookup cache.  A commit under way is known by `promoted`.  Only a   *)
(* thread that commits has promoted anything, so that no other step of its *)
(* query can drop `promoted` while an older table is still cached.         *)
(***************************************************************************)
PromotesInCommit == \A t \in Threads : promoted[t] # {} => pc[t] = "commit"

FreshInv == EngineInv /\ LookupInv /\ PromotesInCommit

LEMMA FreshInit == Init => FreshInv
<1>. SUFFICES ASSUME Init PROVE FreshInv
  OBVIOUS
<1>1. LookupInv /\ PromotesInCommit
  BY DEF Init, ContextInit, LookupInv, CacheAgrees, FillsAgree, PromotesInCommit, NoTables
<1>. QED
  BY <1>1, InitTyped DEF FreshInv

\* Steps that touch none of the tables and caches, and leave no commit.
LEMMA ElsewhereKeepsFresh ==
    ASSUME FreshInv, NEW t \in Threads, UNCHANGED contextVars,
           pc' = pc \/ (pc[t] # "commit" /\ \E where : pc' = [pc EXCEPT ![t] = where])
    PROVE  LookupInv' /\ PromotesInCommit'
<1>1. UNCHANGED <<live, promoted, lookup_cache, fill>>
  BY DEF contextVars
<1>2. LookupInv'
  BY <1>1 DEF FreshInv, LookupInv, CacheAgrees, FillsAgree, Promoting
<1>. QED
  BY <1>1, <1>2 DEF FreshInv, PromotesInCommit, EngineInv, EngineTypeOK

\* A step of a thread that drops, or has dropped, what it had promoted.
LEMMA DroppedKeepsPromotes ==
    ASSUME FreshInv, NEW t \in Threads, promoted' = [promoted EXCEPT ![t] = {}],
           NEW where, pc' = [pc EXCEPT ![t] = where]
    PROVE  PromotesInCommit'
  BY DEF FreshInv, PromotesInCommit, EngineInv, EngineTypeOK, ContextTypeOK

LEMMA AbortKeepsFresh ==
    ASSUME FreshInv, NEW t \in Threads, NEW fate, Abort(t, fate)
    PROVE  LookupInv' /\ PromotesInCommit'
<1>1. LookupInv'
  BY ContextOperationsKeepLookup DEF Abort, FreshInv, EngineInv, EngineTypeOK
<1>. QED
  BY <1>1, DroppedKeepsPromotes DEF Abort, Rollback, DropShadow, Goto

LEMMA AdvanceKeepsFresh ==
    ASSUME FreshInv, NEW t \in Threads, Advance(t)
    PROVE  LookupInv' /\ PromotesInCommit'
<1>. USE DEF FreshInv, EngineInv, EngineTypeOK
<1>1. CASE CacheHit(t)
  BY <1>1, ElsewhereKeepsFresh DEF CacheHit, Goto
<1>2. CASE CacheMiss(t)
  <2>1. promoted[t] = {}
    BY <1>2 DEF CacheMiss, PromotesInCommit
  <2>2. LookupInv'
    BY <1>2, <2>1, ContextOperationsKeepLookup DEF CacheMiss
  <2>. QED
    BY <1>2, <2>2, DroppedKeepsPromotes DEF CacheMiss, BeginQuery, DropShadow, Goto
<1>3. CASE ScanClause(t)
  <2>1. Clause(t).type \in Types /\ pc[t] = "running"
    BY <1>3, ClauseTyped DEF ScanClause, Clauses, InLoop
  <2>2. CASE ScanCached(t, Clause(t).type) /\ UNCHANGED pc
    BY <2>2, ElsewhereKeepsFresh DEF ScanCached
  <2>3. CASE ScanSource(t, Clause(t).type) /\ Goto(t, "filling")
    <3>1. LookupInv'
      BY <2>1, <2>3, ContextOperationsKeepLookup
    <3>. QED
      BY <2>1, <2>3, <3>1 DEF ScanSource, Goto, PromotesInCommit
  <2>. QED
    BY <1>3, <2>2, <2>3 DEF ScanClause
<1>4. CASE FillClause(t)
  <2>1. LookupInv'
    BY <1>4, ContextOperationsKeepLookup DEF FillClause
  <2>. QED
    BY <1>4, <2>1 DEF FillClause, ScanFill, Goto, PromotesInCommit
<1>5. CASE MutateClause(t)
  <2>1. Clause(t).type \in Types
    BY <1>5, ClauseTyped DEF MutateClause, Clauses
  <2>2. LookupInv'
    <3>1. UNCHANGED <<live, promoted, lookup_cache, fill>>
      BY <1>5 DEF MutateClause, Mutate
    <3>. QED
      BY <3>1 DEF LookupInv, CacheAgrees, FillsAgree, Promoting
  <2>. QED
    BY <1>5, <2>2 DEF MutateClause, Mutate, PromotesInCommit
<1>6. CASE Fail(t)
  BY <1>6, AbortKeepsFresh DEF Fail
<1>7. CASE BeginCommit(t)
  BY <1>7, ElsewhereKeepsFresh DEF BeginCommit, Goto
<1>8. CASE PromoteOne(t)
  <2>1. PICK e \in Types : Promote(t, e)
    BY <1>8 DEF PromoteOne
  <2>2. LookupInv'
    BY <2>1, ContextOperationsKeepLookup
  <2>. QED
    BY <1>8, <2>1, <2>2
    DEF PromoteOne, Promote, engineVars, PromotesInCommit, ContextTypeOK
<1>9. CASE Commit(t)
  <2>1. LookupInv'
    BY <1>9, ContextOperationsKeepLookup DEF Commit
  <2>. QED
    BY <1>9, <2>1, DroppedKeepsPromotes DEF Commit, EndCommit, DropShadow, Goto
<1>10. CASE Publish(t) \/ Return(t)
  BY <1>10, ElsewhereKeepsFresh DEF Publish, Return, Goto
<1>. QED
  BY <1>1, <1>2, <1>3, <1>4, <1>5, <1>6, <1>7, <1>8, <1>9, <1>10 DEF Advance

LEMMA AlarmKeepsFresh ==
    ASSUME FreshInv, AlarmFires
    PROVE  LookupInv' /\ PromotesInCommit'
<1>1. Main \in Threads
  BY EngineAssumption
<1>2. CASE AlarmInClause \/ AlarmInCommit
  BY <1>1, <1>2, AbortKeepsFresh DEF AlarmInClause, AlarmInCommit
<1>3. CASE AlarmOutside
  BY <1>1, <1>3, ElsewhereKeepsFresh DEF AlarmOutside
<1>4. CASE AlarmInLookup \/ AlarmAfterCommit
  BY <1>1, <1>4, ElsewhereKeepsFresh DEF AlarmInLookup, AlarmAfterCommit, Goto
<1>. QED
  BY <1>2, <1>3, <1>4 DEF AlarmFires

LEMMA NextKeepsFresh ==
    ASSUME FreshInv, [Next]_vars
    PROVE  FreshInv'
<1>1. EngineInv'
  BY NextTyped DEF FreshInv
<1>2. LookupInv' /\ PromotesInCommit'
  <2>1. CASE UNCHANGED vars
    <3>1. UNCHANGED <<live, promoted, lookup_cache, fill, pc>>
      BY <2>1 DEF vars, contextVars, engineVars
    <3>. QED
      BY <3>1 DEF FreshInv, LookupInv, CacheAgrees, FillsAgree, Promoting, PromotesInCommit
  <2>2. ASSUME NEW t \in Threads, NEW p \in Programs, NEW timed \in BOOLEAN,
               Start(t, p, timed)
        PROVE  LookupInv' /\ PromotesInCommit'
    BY <2>2, ElsewhereKeepsFresh DEF Start, Goto
  <2>3. ASSUME NEW t \in Threads, Spin(t)
        PROVE  LookupInv' /\ PromotesInCommit'
    BY <2>3, ElsewhereKeepsFresh DEF Spin, InLoop, Goto
  <2>. QED
    BY <2>1, <2>2, <2>3, AdvanceKeepsFresh, AlarmKeepsFresh DEF Next
<1>. QED
  BY <1>1, <1>2 DEF FreshInv

\* Whenever no commit is under way, every table in the lookup cache is the
\* canonical one, however scans, commits, failures and alarms interleave: a slow
\* scan stores into the dict it looked at, and an interrupted commit drops the
\* cache although it has not reached that line itself.
THEOREM LookupCacheCorrect == Spec => []LookupCacheFresh
<1>1. FreshInv => LookupCacheFresh
  BY LookupInvFresh DEF FreshInv
<1>. QED
  BY <1>1, FreshInit, NextKeepsFresh, PTL DEF Spec

-----------------------------------------------------------------------------
(***************************************************************************)
(* The alarm.                                                              *)
(***************************************************************************)
AlarmInv == EngineInv /\ AlarmConfined

LEMMA AlarmInit == Init => AlarmInv
<1>. SUFFICES ASSUME Init PROVE AlarmInv
  OBVIOUS
<1>1. ~alarm /\ ~stray
  BY Zenon DEF Init
<1>. QED
  BY <1>1, InitTyped DEF AlarmInv, AlarmConfined, NoStrayAlarm

\* A pending alarm belongs to the query of the main thread: that query arms it,
\* and leaves by a return that cancels it or by an alarm that consumes it.
LEMMA NextConfinesAlarm ==
    ASSUME AlarmInv, [Next]_vars
    PROVE  AlarmInv'
<1>. USE DEF AlarmInv, AlarmConfined, NoStrayAlarm
<1>1. Main \in Threads
  BY EngineAssumption
<1>2. EngineInv'
  BY NextTyped
<1>3. CASE deploy.cached
  <2>1. deploy' = deploy
    BY DEF Next, Advance, Start, CacheHit, CacheMiss, ScanClause, FillClause,
           MutateClause, Fail, Spin, BeginCommit, PromoteOne, Commit, Publish, Return,
           AlarmFires, AlarmOutside, AlarmInLookup, AlarmInClause, AlarmInCommit,
           AlarmAfterCommit, vars, engineVars
  <2>. QED
    BY <1>2, <1>3, <2>1
<1>4. CASE ~deploy.cached
  <2>1. ~stray /\ (alarm => Timed(Main))
    BY <1>4
  <2>2. ASSUME UNCHANGED <<query, alarm, stray>>
        PROVE  NoStrayAlarm'
    BY <2>1, <2>2 DEF Timed
  <2>3. ASSUME NEW t \in Threads, NEW p \in Programs, NEW timed \in BOOLEAN,
               Start(t, p, timed)
        PROVE  NoStrayAlarm'
    <3>. DEFINE q == [program |-> p, timed |-> timed,
                      txn |-> IF IsMutation(p) THEN Len(history) + 1 ELSE 0]
    <3>1. query' = [query EXCEPT ![t] = q] /\ q.timed = timed /\ UNCHANGED stray
      BY <2>3 DEF Start
    <3>2. alarm' = (alarm \/ ArmsAlarm(t, timed))
      BY <2>3 DEF Start
    <3>3. query'[t] # NoQuery
      BY <1>2, <2>3 DEF EngineInv, EngineTypeOK, QueryKnown, Start, Goto
    <3>4. CASE t = Main
      <4>1. ~alarm
        BY <2>1, <2>3, <3>4 DEF Timed, Start, EngineInv, QueryKnown
      <4>. QED
        BY <1>1, <2>1, <3>1, <3>2, <3>3, <3>4, <4>1
        DEF Timed, ArmsAlarm, EngineInv, EngineTypeOK
    <3>5. CASE t # Main
      BY <1>1, <2>1, <3>1, <3>2, <3>5 DEF Timed, ArmsAlarm, EngineInv, EngineTypeOK
    <3>. QED
      BY <3>4, <3>5
  <2>4. ASSUME NEW t \in Threads, Return(t)
        PROVE  NoStrayAlarm'
    <3>1. alarm' = (alarm /\ ~ArmsAlarm(t, query[t].timed))
      BY <2>4 DEF Return
    <3>2. query' = [query EXCEPT ![t] = NoQuery] /\ UNCHANGED stray
      BY <2>4 DEF Return
    <3>3. CASE t = Main
      BY <2>1, <3>1, <3>2, <3>3 DEF Timed, ArmsAlarm
    <3>4. CASE t # Main
      BY <1>1, <2>1, <3>1, <3>2, <3>4 DEF Timed, EngineInv, EngineTypeOK
    <3>. QED
      BY <3>3, <3>4
  <2>5. ASSUME AlarmFires
        PROVE  NoStrayAlarm'
    <3>1. alarm /\ alarm' = FALSE /\ stray' = (stray \/ ~Timed(Main))
      BY <2>5 DEF AlarmFires, AlarmOutside, AlarmInLookup, AlarmInClause,
                  AlarmInCommit, AlarmAfterCommit, Rings
    <3>. QED
      BY <2>1, <3>1
  <2>6. ASSUME NEW t \in Threads, Advance(t), ~Return(t)
        PROVE  UNCHANGED <<query, alarm, stray>>
    BY <1>4, <2>6 DEF Advance, CacheHit, CacheMiss, ScanClause, FillClause,
           MutateClause, Fail, BeginCommit, PromoteOne, Commit, Publish, engineVars
  <2>7. ASSUME NEW t \in Threads, Spin(t)
        PROVE  UNCHANGED <<query, alarm, stray>>
    BY <2>7 DEF Spin
  <2>8. ASSUME UNCHANGED vars
        PROVE  NoStrayAlarm'
    BY <2>2, <2>8 DEF vars, engineVars
  <2>. QED
    <3>1. NoStrayAlarm'
      BY <2>2, <2>3, <2>4, <2>5, <2>6, <2>7, <2>8 DEF Next
    <3>. QED
      BY <1>2, <3>1
<1>. QED
  BY <1>3, <1>4

\* Without a result cache a pending alarm always belongs to the query that the
\* main thread runs, and no alarm has ever interrupted anything else: a query
\* that returns, fails or is interrupted leaves none behind.
THEOREM AlarmConfinedCorrect == Spec => []AlarmConfined
<1>1. AlarmInv => AlarmConfined
  BY DEF AlarmInv
<1>. QED
  BY <1>1, AlarmInit, NextConfinesAlarm, PTL DEF Spec

-----------------------------------------------------------------------------
(***************************************************************************)
(* Isolation.  A query that has finished its clauses is settled, and stays *)
(* so.  What others can see contains settled queries only; a shadow may    *)
(* contain the query of its thread as well, until that is settled too.     *)
(***************************************************************************)
Settled == {q \in DOMAIN history :
              history[q].fate \in {"committing", "committed", "interrupted"}}

Mutating(t) == query[t] # NoQuery /\ IsMutation(Program(t))
InClauses(t) == pc[t] \in {"lookup", "running", "filling", "spinning"}
InTransaction(t) == pc[t] \in {"running", "filling", "spinning", "commit"}

TxnsDistinct ==
    \A t, u \in Threads : Mutating(t) /\ Mutating(u) /\ t # u => Txn(t) # Txn(u)

FatesKnown ==
    \A t \in Threads : Mutating(t) =>
      /\ InClauses(t) => history[Txn(t)].fate = "running"
      /\ pc[t] = "commit" => Txn(t) \in Settled

ShadowsPrivate ==
    \A t \in Threads : \A e \in Types : shadow[t][e] # NoTable =>
      /\ InTransaction(t)
      /\ \A q \in shadow[t][e] : q \in Settled \/ (Mutating(t) /\ q = Txn(t))

TablesSettled ==
    \A e \in Types : /\ live[e] \subseteq Settled
                     /\ lookup_cache[e] # NoTable => lookup_cache[e] \subseteq Settled
FillsSettled ==
    \A t \in Threads : fill[t] # NoFill => fill[t].df \subseteq Settled
SeenSettled ==
    \A t \in Threads : \A e \in Types : seen[t][e] # Unread => seen[t][e] \subseteq Settled
MemorySettled ==
    \A p \in ReadPrograms : memory[p] # NoResult =>
      \A e \in Types : memory[p][e] # Unread => memory[p][e] \subseteq Settled

OwnersKnown == TxnsDistinct /\ FatesKnown
ContextSettled == ShadowsPrivate /\ TablesSettled /\ FillsSettled
ResultsSettled == SeenSettled /\ MemorySettled

IsolationInv == EngineInv /\ OwnersKnown /\ ContextSettled /\ ResultsSettled

\* A query that is settled stays so, unless its thread gives it another fate.
LEMMA FateKeepsSettled ==
    ASSUME IsolationInv, NEW t \in Threads, pc[t] # "idle", NEW fate \in Fates,
           Fate(t, fate),
           InClauses(t) \/ fate \in {"committing", "committed", "interrupted"}
    PROVE  /\ Settled \subseteq Settled'
           /\ DOMAIN history' = DOMAIN history
           /\ Mutating(t) => Txn(t) \in DOMAIN history /\ history'[Txn(t)].fate = fate
           /\ \A q \in DOMAIN history :
                ~(Mutating(t) /\ q = Txn(t)) => history'[q] = history[q]
<1>1. history \in Seq(Fated) /\ query[t] # NoQuery
  BY DEF IsolationInv, EngineInv, EngineTypeOK, QueryKnown, Fated
<1>2. CASE Mutating(t)
  <2>1. Txn(t) \in DOMAIN history
    BY <1>2 DEF IsolationInv, EngineInv, MutationsKnown, Mutating
  <2>2. history' = [history EXCEPT ![Txn(t)] = [@ EXCEPT !.fate = fate]]
    BY <1>2 DEF Fate, Mutating
  <2>3. history[Txn(t)] \in Fated
    BY <1>1, <2>1
  <2>4. \A r \in Fated : [r EXCEPT !.fate = fate].fate = fate
    BY DEF Fated
  <2>5. /\ DOMAIN history' = DOMAIN history
        /\ history'[Txn(t)].fate = fate
        /\ \A q \in DOMAIN history : q # Txn(t) => history'[q] = history[q]
    BY <1>1, <2>1, <2>2, <2>3, <2>4
  <2>6. Txn(t) \in Settled => fate \in {"committing", "committed", "interrupted"}
    BY <1>2 DEF IsolationInv, OwnersKnown, FatesKnown, Settled
  <2>. QED
    BY <1>2, <2>1, <2>5, <2>6 DEF Settled
<1>3. CASE ~Mutating(t)
  <2>1. history' = history
    BY <1>1, <1>3 DEF Fate, Mutating
  <2>. QED
    BY <1>3, <2>1 DEF Settled
<1>. QED
  BY <1>2, <1>3

\* A step that only marks the fate of its query, if that, keeps what is known
\* of the owners.
LEMMA SameOwners ==
    ASSUME IsolationInv, NEW t \in Threads, pc[t] # "idle", UNCHANGED query,
           NEW where \in PCs, pc' = [pc EXCEPT ![t] = where],
           \/ UNCHANGED history
              /\ (where \in {"committed", "done"}
                  \/ (InClauses(t) /\ where # "commit")
                  \/ where = pc[t])
           \/ \E fate \in Fates :
                /\ Fate(t, fate)
                /\ InClauses(t) \/ fate \in {"committing", "committed", "interrupted"}
                /\ \/ where \in {"committed", "done"}
                   \/ where = "commit" /\ fate = "committing"
    PROVE  OwnersKnown' /\ Settled \subseteq Settled'
<1>. USE DEF IsolationInv, OwnersKnown
<1>1. TxnsDistinct'
  BY DEF TxnsDistinct, Mutating, Program, Txn
<1>2. \A u \in Threads : /\ Mutating(u)' <=> Mutating(u)
                         /\ Txn(u)' = Txn(u)
                         /\ u # t => pc'[u] = pc[u]
  BY DEF Mutating, Program, Txn, EngineInv, EngineTypeOK
<1>3. pc'[t] = where
  BY DEF EngineInv, EngineTypeOK
<1>4. CASE UNCHANGED history
           /\ (where \in {"committed", "done"}
               \/ (InClauses(t) /\ where # "commit")
               \/ where = pc[t])
  <2>1. Settled' = Settled
    BY <1>4 DEF Settled
  <2>2. FatesKnown'
    BY <1>2, <1>3, <1>4, <2>1 DEF FatesKnown, InClauses
  <2>. QED
    BY <1>1, <2>1, <2>2
<1>5. ASSUME NEW fate \in Fates, Fate(t, fate),
             InClauses(t) \/ fate \in {"committing", "committed", "interrupted"},
             \/ where \in {"committed", "done"}
             \/ where = "commit" /\ fate = "committing"
      PROVE  OwnersKnown' /\ Settled \subseteq Settled'
  <2>1. /\ Settled \subseteq Settled'
        /\ DOMAIN history' = DOMAIN history
        /\ Mutating(t) => Txn(t) \in DOMAIN history /\ history'[Txn(t)].fate = fate
        /\ \A q \in DOMAIN history :
             ~(Mutating(t) /\ q = Txn(t)) => history'[q] = history[q]
    BY <1>5, FateKeepsSettled
  <2>2. ASSUME NEW u \in Threads, u # t, Mutating(u)
        PROVE  history'[Txn(u)] = history[Txn(u)]
    BY <2>1, <2>2 DEF TxnsDistinct, EngineInv, MutationsKnown, Mutating
  <2>3. FatesKnown'
    <3>1. ASSUME NEW u \in Threads, Mutating(u), u # t
          PROVE  /\ InClauses(u)' => history'[Txn(u)].fate = "running"
                 /\ pc'[u] = "commit" => Txn(u) \in Settled'
      BY <1>2, <2>1, <2>2, <3>1 DEF FatesKnown, InClauses
    <3>2. ~InClauses(t)'
      BY <1>3, <1>5 DEF InClauses
    <3>3. Mutating(t) /\ pc'[t] = "commit" => Txn(t) \in Settled'
      BY <1>3, <1>5, <2>1 DEF Settled
    <3>. QED
      BY <1>2, <3>1, <3>2, <3>3 DEF FatesKnown
  <2>. QED
    BY <1>1, <2>1, <2>3
<1>. QED
  BY <1>4, <1>5

\* What is settled stays visible, and what is private stays private.
LEMMA SettledKept ==
    ASSUME IsolationInv, Settled \subseteq Settled'
    PROVE  /\ UNCHANGED <<live, lookup_cache>> => TablesSettled'
           /\ UNCHANGED fill => FillsSettled'
           /\ UNCHANGED seen => SeenSettled'
           /\ UNCHANGED memory => MemorySettled'
           /\ Cache!Invalidate => MemorySettled'
           /\ \A t \in Threads : Cache!Miss(t) => MemorySettled'
           /\ \A p \in ReadPrograms, t \in Threads :
                Cache!Remember(p, seen[t]) => MemorySettled'
<1>. USE DEF IsolationInv, ContextSettled, ResultsSettled
<1>1. UNCHANGED <<live, lookup_cache>> => TablesSettled'
  BY DEF TablesSettled
<1>2. UNCHANGED fill => FillsSettled'
  BY DEF FillsSettled
<1>3. UNCHANGED seen => SeenSettled'
  BY DEF SeenSettled
<1>4. UNCHANGED memory => MemorySettled'
  BY DEF MemorySettled
<1>5. Cache!Invalidate => MemorySettled'
  BY DEF Cache!Invalidate, Cache!Without, MemorySettled
<1>6. ASSUME NEW t \in Threads, Cache!Miss(t)
      PROVE  MemorySettled'
  BY <1>6 DEF Cache!Miss, Cache!Without, MemorySettled
<1>7. ASSUME NEW p \in ReadPrograms, NEW t \in Threads, Cache!Remember(p, seen[t])
      PROVE  MemorySettled'
  <2>1. memory' = [memory EXCEPT ![p] = seen[t]]
    BY <1>7 DEF Cache!Remember
  <2>2. \A e \in Types : seen[t][e] # Unread => seen[t][e] \subseteq Settled'
    BY DEF SeenSettled
  <2>. QED
    BY <2>1, <2>2 DEF MemorySettled, EngineInv, EngineTypeOK
<1>. QED
  BY <1>1, <1>2, <1>3, <1>4, <1>5, <1>6, <1>7

\* A fresh lookup cache shows nothing, and pending fills keep what they hold.
LEMMA NewLookupCacheSettled ==
    ASSUME IsolationInv, Settled \subseteq Settled', NEW t \in Threads,
           UNCHANGED live, NewLookupCache(fill) \/ NewLookupCache([fill EXCEPT ![t] = NoFill])
    PROVE  TablesSettled' /\ FillsSettled'
<1>1. TablesSettled'
  BY DEF NewLookupCache, NoTables, TablesSettled, IsolationInv, ContextSettled
<1>2. \A r \in Fills : [r EXCEPT !.current = FALSE].df = r.df
  BY DEF Fills
<1>3. \A u \in Threads : fill'[u] # NoFill => fill[u] \in Fills /\ fill'[u].df = fill[u].df
  <2>1. fill \in [Threads -> {NoFill} \union Fills]
    BY DEF IsolationInv, EngineInv, EngineTypeOK, ContextTypeOK, Fills
  <2>. QED
    BY <1>2, <2>1 DEF NewLookupCache
<1>4. FillsSettled'
  BY <1>3, ContextAssumption DEF FillsSettled, IsolationInv, ContextSettled, Fills, Version
<1>. QED
  BY <1>1, <1>4

\* The shadow of the thread that moves is dropped, or goes on to be its own.
LEMMA ShadowsKept ==
    ASSUME IsolationInv, Settled \subseteq Settled', NEW t \in Threads,
           \A u \in Threads \ {t} : UNCHANGED <<query[u], pc[u]>>,
           \/ DropShadow(t)
           \/ UNCHANGED shadow /\ ~InTransaction(t)
           \/ UNCHANGED <<shadow, query>> /\ InTransaction(t)'
    PROVE  ShadowsPrivate'
<1>. USE DEF IsolationInv, ContextSettled, ShadowsPrivate
<1>1. ASSUME NEW u \in Threads, u # t
      PROVE  /\ shadow'[u] = shadow[u]
             /\ InTransaction(u)' <=> InTransaction(u)
             /\ Mutating(u)' <=> Mutating(u)
             /\ Txn(u)' = Txn(u)
  BY <1>1 DEF DropShadow, InTransaction, Mutating, Program, Txn,
              EngineInv, EngineTypeOK, ContextTypeOK
<1>2. CASE DropShadow(t) \/ (UNCHANGED shadow /\ ~InTransaction(t))
  <2>1. \A e \in Types : shadow'[t][e] = NoTable
    BY <1>2 DEF DropShadow, NoTables, EngineInv, EngineTypeOK, ContextTypeOK
  <2>. QED
    BY <1>1, <2>1
<1>3. CASE UNCHANGED <<shadow, query>> /\ InTransaction(t)'
  <2>1. (Mutating(t)' <=> Mutating(t)) /\ Txn(t)' = Txn(t)
    BY <1>3 DEF Mutating, Program, Txn
  <2>. QED
    BY <1>1, <1>3, <2>1
<1>. QED
  BY <1>2, <1>3

LEMMA StartIsolated ==
    ASSUME IsolationInv, NEW t \in Threads, NEW p \in Programs, NEW timed \in BOOLEAN,
           Start(t, p, timed)
    PROVE  OwnersKnown' /\ ContextSettled' /\ ResultsSettled'
<1>. USE DEF IsolationInv
<1>. DEFINE q == [program |-> p, timed |-> timed,
                  txn |-> IF IsMutation(p) THEN Len(history) + 1 ELSE 0]
<1>1. /\ query' = [query EXCEPT ![t] = q]
      /\ pc' = [pc EXCEPT ![t] = "lookup"]
      /\ pc[t] = "idle"
  BY DEF Start, Goto
<1>2. history \in Seq(Fated)
  BY DEF EngineInv, EngineTypeOK, Fated
<1>3. /\ \A n \in DOMAIN history : n \in DOMAIN history' /\ history'[n] = history[n]
      /\ IsMutation(p) => history'[Len(history) + 1].fate = "running"
      /\ Len(history) + 1 \notin DOMAIN history
  <2>. DEFINE r == [program |-> p, fate |-> "running"]
  <2>1. r \in Fated /\ r.fate = "running"
    BY DEF Fated, Fates
  <2>2. CASE IsMutation(p)
    <3>1. history' = Append(history, r)
      BY <2>2 DEF Start
    <3>. HIDE DEF r
    <3>. QED
      BY <1>2, <2>1, <3>1
  <2>3. CASE ~IsMutation(p)
    <3>1. history' = history
      BY <2>3 DEF Start
    <3>. QED
      BY <1>2, <2>3, <3>1
  <2>. QED
    BY <2>2, <2>3
<1>4. Settled \subseteq Settled'
  BY <1>3 DEF Settled
<1>5. \A u \in Threads \ {t} : UNCHANGED <<query[u], pc[u]>>
  BY <1>1 DEF EngineInv, EngineTypeOK
<1>6. /\ query'[t] = q
      /\ pc'[t] = "lookup"
      /\ Mutating(t)' => IsMutation(p) /\ Txn(t)' = Len(history) + 1
  BY <1>1 DEF Mutating, Program, Txn, EngineInv, EngineTypeOK
<1>7. ASSUME NEW u \in Threads, u # t
      PROVE  /\ Mutating(u)' <=> Mutating(u)
             /\ Txn(u)' = Txn(u)
             /\ InClauses(u)' <=> InClauses(u)
             /\ pc'[u] = pc[u]
             /\ Mutating(u) => Txn(u) \in DOMAIN history
  BY <1>5, <1>7 DEF Mutating, Program, Txn, InClauses, EngineInv, MutationsKnown
<1>8. TxnsDistinct'
  <2>1. ASSUME NEW u \in Threads, NEW v \in Threads, Mutating(u)', Mutating(v)', u # v
        PROVE  Txn(u)' # Txn(v)'
    BY <1>3, <1>6, <1>7, <2>1 DEF OwnersKnown, TxnsDistinct
  <2>. QED
    BY <2>1 DEF TxnsDistinct
<1>9. FatesKnown'
  <2>1. ASSUME NEW u \in Threads, Mutating(u)'
        PROVE  /\ InClauses(u)' => history'[Txn(u)'].fate = "running"
               /\ pc'[u] = "commit" => Txn(u)' \in Settled'
    <3>1. CASE u = t
      BY <1>3, <1>6, <2>1, <3>1
    <3>2. CASE u # t
      BY <1>3, <1>4, <1>7, <2>1, <3>2 DEF OwnersKnown, FatesKnown
    <3>. QED
      BY <3>1, <3>2
  <2>. QED
    BY <2>1 DEF FatesKnown
<1>10. ShadowsPrivate'
  <2>1. UNCHANGED shadow /\ ~InTransaction(t)
    BY <1>1 DEF Start, contextVars, InTransaction
  <2>. QED
    BY <1>4, <1>5, <2>1, ShadowsKept
<1>11. UNCHANGED <<live, lookup_cache, fill, seen, memory>>
  BY DEF Start, contextVars, cacheVars, Cache!Ask
<1>. QED
  BY <1>4, <1>8, <1>9, <1>10, <1>11, SettledKept
  DEF OwnersKnown, ContextSettled, ResultsSettled

\* A query that ends in the lookup leaves nothing behind.
LEMMA EndIsolated ==
    ASSUME IsolationInv, NEW t \in Threads, Settled \subseteq Settled',
           pc' = [pc EXCEPT ![t] = "idle"], query' = [query EXCEPT ![t] = NoQuery],
           \A n \in DOMAIN history :
             ~(Mutating(t) /\ n = Txn(t)) => history'[n] = history[n]
    PROVE  OwnersKnown'
<1>. USE DEF IsolationInv
<1>1. ~Mutating(t)' /\ \A u \in Threads \ {t} :
        /\ Mutating(u)' <=> Mutating(u)
        /\ Txn(u)' = Txn(u)
        /\ InClauses(u)' <=> InClauses(u)
        /\ pc'[u] = pc[u]
  BY DEF Mutating, Program, Txn, InClauses, EngineInv, EngineTypeOK
<1>2. TxnsDistinct'
  BY <1>1 DEF OwnersKnown, TxnsDistinct
<1>3. ASSUME NEW u \in Threads \ {t}, Mutating(u)
      PROVE  history'[Txn(u)] = history[Txn(u)]
  BY <1>3 DEF OwnersKnown, TxnsDistinct, EngineInv, MutationsKnown, Mutating
<1>4. FatesKnown'
  BY <1>1, <1>3 DEF OwnersKnown, FatesKnown
<1>. QED
  BY <1>2, <1>4 DEF OwnersKnown

LEMMA LookupStepsIsolated ==
    ASSUME IsolationInv, NEW t \in Threads, CacheHit(t) \/ CacheMiss(t)
    PROVE  OwnersKnown' /\ ContextSettled' /\ ResultsSettled'
<1>. USE DEF IsolationInv
<1>1. \A u \in Threads \ {t} : UNCHANGED <<query[u], pc[u]>>
  BY DEF CacheHit, CacheMiss, Goto, EngineInv, EngineTypeOK
<1>2. CASE CacheHit(t)
  <2>1. Settled' = Settled /\ UNCHANGED <<live, shadow, lookup_cache, fill, seen, memory, history>>
    BY <1>2 DEF CacheHit, Settled, contextVars, Cache!Hit
  <2>2. OwnersKnown'
    BY <1>2, <2>1, EndIsolated DEF CacheHit, Goto
  <2>3. ~InTransaction(t)
    BY <1>2 DEF CacheHit, InTransaction
  <2>. QED
    BY <1>1, <2>1, <2>2, <2>3, ShadowsKept, SettledKept DEF ContextSettled, ResultsSettled
<1>3. CASE CacheMiss(t)
  <2>1. UNCHANGED <<live, lookup_cache, fill, seen, query, history>> /\ DropShadow(t)
    BY <1>3 DEF CacheMiss, BeginQuery
  <2>2. OwnersKnown' /\ Settled \subseteq Settled'
    BY <1>3, <2>1, SameOwners DEF CacheMiss, Goto, InClauses, PCs
  <2>. QED
    BY <1>1, <1>3, <2>1, <2>2, ShadowsKept, SettledKept
    DEF CacheMiss, ContextSettled, ResultsSettled
<1>. QED
  BY <1>2, <1>3

\* What a scan returns, if it is settled, leaves the result settled.
LEMMA SeeSettled ==
    ASSUME IsolationInv, NEW t \in Threads, NEW e \in Types, NEW df \in Version,
           See(t, e, df), df \subseteq Settled, Settled' = Settled
    PROVE  SeenSettled'
BY DEF IsolationInv, ResultsSettled, SeenSettled, See, EngineInv, EngineTypeOK, Results

LEMMA ScanIsolated ==
    ASSUME IsolationInv, NEW t \in Threads, ScanClause(t) \/ FillClause(t) \/ Spin(t)
    PROVE  OwnersKnown' /\ ContextSettled' /\ ResultsSettled'
<1>. USE DEF IsolationInv
<1>1. /\ UNCHANGED <<live, shadow, query, history, memory>>
      /\ Settled' = Settled
  BY DEF ScanClause, FillClause, Spin, ScanCached, ScanSource, ScanFill,
         contextVars, cacheVars, Settled
<1>2. PICK where \in {"running", "filling", "spinning"} : pc' = [pc EXCEPT ![t] = where]
  BY DEF ScanClause, FillClause, Spin, InLoop, Goto, EngineInv, EngineTypeOK
<1>3. InClauses(t)
  BY DEF ScanClause, FillClause, Spin, InLoop, InClauses
<1>4. OwnersKnown'
  BY <1>1, <1>2, <1>3, SameOwners DEF InClauses, PCs
<1>5. InTransaction(t)' /\ \A u \in Threads \ {t} : UNCHANGED <<query[u], pc[u]>>
  BY <1>1, <1>2 DEF InTransaction, EngineInv, EngineTypeOK
<1>6. ShadowsPrivate'
  BY <1>1, <1>5, ShadowsKept
<1>7. TablesSettled' /\ FillsSettled' /\ SeenSettled'
  <2>. USE DEF ContextSettled, TablesSettled, FillsSettled
  <2>1. CASE ScanClause(t)
    <3>. DEFINE e == Clause(t).type
    <3>1. e \in Types
      BY <2>1, ClauseTyped DEF ScanClause, Clauses
    <3>2. CASE ScanCached(t, e) /\ See(t, e, lookup_cache[e])
      <4>1. lookup_cache[e] \in Version /\ lookup_cache[e] \subseteq Settled
        BY <3>1, <3>2 DEF ScanCached, EngineInv, EngineTypeOK, ContextTypeOK
      <4>2. SeenSettled'
        BY <1>1, <3>1, <3>2, <4>1, SeeSettled
      <4>. QED
        BY <1>1, <3>2, <4>2 DEF ScanCached, contextVars
    <3>3. CASE ScanSource(t, e) /\ UNCHANGED seen
      <4>1. /\ fill' = [fill EXCEPT ![t] = [type |-> e, df |-> live[e], current |-> TRUE]]
            /\ UNCHANGED lookup_cache
        BY <3>3 DEF ScanSource
      <4>2. FillsSettled'
        BY <1>1, <3>1, <4>1 DEF EngineInv, EngineTypeOK, ContextTypeOK
      <4>. QED
        BY <1>1, <3>3, <4>1, <4>2, SettledKept
    <3>. QED
      BY <2>1, <3>2, <3>3 DEF ScanClause
  <2>2. CASE FillClause(t)
    <3>1. /\ fill[t] # NoFill
          /\ fill[t] \in Fills
          /\ fill[t].df \subseteq Settled
          /\ fill' = [fill EXCEPT ![t] = NoFill]
      BY <2>2 DEF FillClause, ScanFill, EngineInv, EngineTypeOK, ContextTypeOK, Fills
    <3>2. \/ lookup_cache' = lookup_cache
          \/ lookup_cache' = [lookup_cache EXCEPT ![fill[t].type] = fill[t].df]
      BY <2>2 DEF FillClause, ScanFill
    <3>3. SeenSettled'
      BY <1>1, <2>2, <3>1, SeeSettled DEF FillClause, Fills
    <3>4. FillsSettled'
      BY <1>1, <3>1 DEF EngineInv, EngineTypeOK, ContextTypeOK
    <3>5. TablesSettled'
      BY <1>1, <3>1, <3>2 DEF EngineInv, EngineTypeOK, ContextTypeOK
    <3>. QED
      BY <3>3, <3>4, <3>5
  <2>3. CASE Spin(t)
    BY <1>1, <2>3, SettledKept DEF Spin, contextVars
  <2>. QED
    BY <2>1, <2>2, <2>3
<1>. QED
  BY <1>1, <1>4, <1>6, <1>7, SettledKept DEF ContextSettled, ResultsSettled

LEMMA MutateIsolated ==
    ASSUME IsolationInv, NEW t \in Threads, MutateClause(t)
    PROVE  OwnersKnown' /\ ContextSettled' /\ ResultsSettled'
<1>. USE DEF IsolationInv
<1>. DEFINE e == Clause(t).type
            base == IF shadow[t][e] = NoTable THEN live[e] ELSE shadow[t][e]
<1>1. /\ UNCHANGED <<live, lookup_cache, fill, pc, query, seen, history, memory>>
      /\ shadow' = [shadow EXCEPT ![t][e] = base \union {Txn(t)}]
      /\ pc[t] = "running"
      /\ Settled' = Settled
  BY DEF MutateClause, Mutate, cacheVars, Settled, InLoop
<1>2. e \in Types /\ Mutating(t)
  <2>1. Clause(t) \in Clauses
    BY ClauseTyped DEF MutateClause
  <2>2. query[t] \in Queries /\ query[t] # NoQuery
    BY <1>1 DEF EngineInv, EngineTypeOK, QueryKnown, Queries
  <2>3. ip[t] \in DOMAIN Program(t)
    BY <2>2, EngineAssumption
    DEF MutateClause, InLoop, Program, Queries, EngineInv, EngineTypeOK
  <2>4. Clause(t).type \in TypesWith("mutate", Program(t))
    BY <2>3 DEF MutateClause, Clause, TypesWith
  <2>. QED
    BY <2>1, <2>2, <2>4 DEF Clauses, Mutating, IsMutation
<1>3. OwnersKnown'
  BY <1>1 DEF OwnersKnown, TxnsDistinct, FatesKnown, Mutating, Program, Txn, InClauses
<1>4. ShadowsPrivate'
  <2>1. \A q \in base : q \in Settled \/ q = Txn(t)
    BY <1>2 DEF ContextSettled, ShadowsPrivate, TablesSettled
  <2>2. \A u \in Threads : /\ InTransaction(u)' <=> InTransaction(u)
                           /\ Mutating(u)' <=> Mutating(u)
                           /\ Txn(u)' = Txn(u)
    BY <1>1 DEF InTransaction, Mutating, Program, Txn
  <2>3. InTransaction(t)
    BY <1>1 DEF InTransaction
  <2>4. shadow'[t][e] = base \union {Txn(t)}
        /\ \A u \in Threads, f \in Types : u # t \/ f # e => shadow'[u][f] = shadow[u][f]
    BY <1>1, <1>2 DEF EngineInv, EngineTypeOK, ContextTypeOK
  <2>. HIDE DEF base, e
  <2>. QED
    BY <1>1, <1>2, <2>1, <2>2, <2>3, <2>4 DEF ContextSettled, ShadowsPrivate
<1>. QED
  BY <1>1, <1>3, <1>4, SettledKept DEF ContextSettled, ResultsSettled

LEMMA AbortIsolated ==
    ASSUME IsolationInv, NEW t \in Threads, NEW fate \in Fates, Abort(t, fate),
           pc[t] # "idle", InClauses(t) \/ fate = "interrupted",
           UNCHANGED <<query, seen, memory>>
    PROVE  OwnersKnown' /\ ContextSettled' /\ ResultsSettled'
<1>1. OwnersKnown' /\ Settled \subseteq Settled'
  BY SameOwners DEF Abort, Goto, PCs
<1>2. TablesSettled' /\ FillsSettled'
  BY <1>1, NewLookupCacheSettled DEF Abort, Rollback
<1>3. ShadowsPrivate'
  <2>1. \A u \in Threads \ {t} : UNCHANGED <<query[u], pc[u]>>
    BY DEF Abort, Goto, IsolationInv, EngineInv, EngineTypeOK
  <2>. QED
    BY <1>1, <2>1, ShadowsKept DEF Abort, Rollback
<1>. QED
  BY <1>1, <1>2, <1>3, SettledKept DEF ContextSettled, ResultsSettled

LEMMA CommitIsolated ==
    ASSUME IsolationInv, NEW t \in Threads,
           BeginCommit(t) \/ PromoteOne(t) \/ Commit(t)
    PROVE  OwnersKnown' /\ ContextSettled' /\ ResultsSettled'
<1>. USE DEF IsolationInv
<1>1. UNCHANGED <<query, seen, memory>>
  BY DEF BeginCommit, PromoteOne, Commit, engineVars, cacheVars
<1>2. \A u \in Threads \ {t} : UNCHANGED <<query[u], pc[u]>>
  BY <1>1 DEF BeginCommit, PromoteOne, Commit, engineVars, Goto, EngineInv, EngineTypeOK
<1>3. CASE BeginCommit(t)
  <2>1. OwnersKnown' /\ Settled \subseteq Settled'
    BY <1>1, <1>3, SameOwners DEF BeginCommit, Goto, PCs, Fates
  <2>2. InTransaction(t)' /\ UNCHANGED <<live, shadow, lookup_cache, fill>>
    BY <1>3 DEF BeginCommit, Goto, InTransaction, contextVars, EngineInv, EngineTypeOK
  <2>. QED
    BY <1>1, <1>2, <2>1, <2>2, ShadowsKept, SettledKept DEF ContextSettled, ResultsSettled
<1>4. CASE PromoteOne(t)
  <2>1. PICK e \in Types : Promote(t, e)
    BY <1>4 DEF PromoteOne
  <2>2. /\ UNCHANGED <<shadow, lookup_cache, fill, pc, query, history>>
        /\ Settled' = Settled
        /\ pc[t] = "commit"
        /\ live' = [live EXCEPT ![e] = shadow[t][e]]
        /\ shadow[t][e] # NoTable
    BY <1>4, <2>1 DEF PromoteOne, Promote, Written, engineVars, Settled
  <2>3. OwnersKnown'
    BY <2>2 DEF OwnersKnown, TxnsDistinct, FatesKnown, Mutating, Program, Txn, InClauses
  <2>4. shadow[t][e] \in Version /\ \A q \in shadow[t][e] : q \in Settled
    BY <2>2 DEF ContextSettled, ShadowsPrivate, OwnersKnown, FatesKnown,
                EngineInv, EngineTypeOK, ContextTypeOK
  <2>5. TablesSettled'
    BY <2>2, <2>4 DEF ContextSettled, TablesSettled, EngineInv, EngineTypeOK, ContextTypeOK
  <2>6. InTransaction(t)'
    BY <2>2 DEF InTransaction
  <2>. QED
    BY <1>1, <1>2, <2>2, <2>3, <2>5, <2>6, ShadowsKept, SettledKept
    DEF ContextSettled, ResultsSettled
<1>5. CASE Commit(t)
  <2>1. OwnersKnown' /\ Settled \subseteq Settled'
    BY <1>1, <1>5, SameOwners DEF Commit, Goto, PCs, Fates
  <2>2. TablesSettled' /\ FillsSettled'
    BY <1>5, <2>1, SettledKept, NewLookupCacheSettled DEF Commit, EndCommit
  <2>3. ShadowsPrivate'
    BY <1>2, <1>5, <2>1, ShadowsKept DEF Commit, EndCommit
  <2>. QED
    BY <1>1, <2>1, <2>2, <2>3, SettledKept DEF ContextSettled, ResultsSettled
<1>. QED
  BY <1>3, <1>4, <1>5

LEMMA FinishIsolated ==
    ASSUME IsolationInv, NEW t \in Threads, Publish(t) \/ Return(t)
    PROVE  OwnersKnown' /\ ContextSettled' /\ ResultsSettled'
<1>. USE DEF IsolationInv
<1>1. /\ UNCHANGED <<live, shadow, lookup_cache, fill, history>>
      /\ Settled' = Settled
  BY DEF Publish, Return, contextVars, Settled
<1>2. \A u \in Threads \ {t} : UNCHANGED <<query[u], pc[u]>>
  BY DEF Publish, Return, Goto, EngineInv, EngineTypeOK
<1>3. ~InTransaction(t) /\ pc[t] # "idle"
  BY DEF Publish, Return, InTransaction
<1>4. ShadowsPrivate'
  BY <1>1, <1>2, <1>3, ShadowsKept
<1>5. CASE Publish(t)
  <2>1. UNCHANGED <<query, seen>>
    BY <1>5 DEF Publish
  <2>2. OwnersKnown'
    BY <1>1, <1>3, <1>5, <2>1, SameOwners DEF Publish, Goto, PCs
  <2>3. MemorySettled'
    <3>1. query[t] \in Queries
      BY <1>3 DEF EngineInv, EngineTypeOK, QueryKnown, Queries
    <3>2. ~IsMutation(Program(t)) => Program(t) \in ReadPrograms
      BY <3>1 DEF Program, Queries, ReadPrograms
    <3>. QED
      BY <1>1, <1>5, <3>2, SettledKept DEF Publish, cacheVars
  <2>. QED
    BY <1>1, <1>4, <2>1, <2>2, <2>3, SettledKept DEF ContextSettled, ResultsSettled
<1>6. CASE Return(t)
  <2>1. OwnersKnown'
    BY <1>1, <1>6, EndIsolated DEF Return, Goto
  <2>2. SeenSettled'
    BY <1>1, <1>6
    DEF Return, NothingSeen, ResultsSettled, SeenSettled, EngineInv, EngineTypeOK
  <2>3. UNCHANGED memory
    BY <1>6 DEF Return, cacheVars
  <2>. QED
    BY <1>1, <1>4, <2>1, <2>2, <2>3, SettledKept DEF ContextSettled, ResultsSettled
<1>. QED
  BY <1>5, <1>6

LEMMA AlarmIsolated ==
    ASSUME IsolationInv, AlarmFires
    PROVE  OwnersKnown' /\ ContextSettled' /\ ResultsSettled'
<1>. USE DEF IsolationInv
<1>1. Main \in Threads
  BY EngineAssumption
<1>2. CASE AlarmOutside
  <2>1. /\ UNCHANGED <<live, shadow, lookup_cache, fill, pc, query, seen, history, memory>>
        /\ Settled' = Settled
    BY <1>2 DEF AlarmOutside, contextVars, cacheVars, Settled
  <2>2. OwnersKnown' /\ ShadowsPrivate'
    BY <2>1 DEF OwnersKnown, TxnsDistinct, FatesKnown, ContextSettled, ShadowsPrivate,
                Mutating, Program, Txn, InClauses, InTransaction
  <2>. QED
    BY <2>1, <2>2, SettledKept DEF ContextSettled, ResultsSettled
<1>3. CASE AlarmInLookup
  <2>1. /\ UNCHANGED <<live, shadow, lookup_cache, fill, seen>>
        /\ InClauses(Main) /\ ~InTransaction(Main)
        /\ pc' = [pc EXCEPT ![Main] = "idle"]
        /\ query' = [query EXCEPT ![Main] = NoQuery]
    BY <1>3 DEF AlarmInLookup, Goto, contextVars, InClauses, InTransaction
  <2>2. /\ Settled \subseteq Settled'
        /\ \A n \in DOMAIN history :
             ~(Mutating(Main) /\ n = Txn(Main)) => history'[n] = history[n]
    BY <1>1, <1>3, <2>1, FateKeepsSettled DEF AlarmInLookup, InClauses, Fates
  <2>3. OwnersKnown'
    BY <1>1, <2>1, <2>2, EndIsolated
  <2>4. ShadowsPrivate'
    <3>1. \A u \in Threads \ {Main} : UNCHANGED <<query[u], pc[u]>>
      BY <2>1 DEF EngineInv, EngineTypeOK
    <3>. QED
      BY <1>1, <2>1, <2>2, <3>1, ShadowsKept
  <2>. QED
    BY <1>1, <1>3, <2>1, <2>2, <2>3, <2>4, SettledKept
    DEF AlarmInLookup, ContextSettled, ResultsSettled
<1>4. CASE AlarmInClause
  BY <1>1, <1>4, AbortIsolated DEF AlarmInClause, cacheVars, InClauses, Fates
<1>5. CASE AlarmInCommit
  BY <1>1, <1>5, AbortIsolated DEF AlarmInCommit, cacheVars, Fates
<1>6. CASE AlarmAfterCommit
  <2>1. UNCHANGED <<live, shadow, lookup_cache, fill, query, seen, history, memory>>
    BY <1>6 DEF AlarmAfterCommit, contextVars, cacheVars
  <2>2. OwnersKnown' /\ Settled \subseteq Settled'
    BY <1>1, <1>6, <2>1, SameOwners DEF AlarmAfterCommit, Goto, PCs
  <2>3. ShadowsPrivate'
    <3>1. ~InTransaction(Main) /\ \A u \in Threads \ {Main} : UNCHANGED <<query[u], pc[u]>>
      BY <1>1, <1>6 DEF AlarmAfterCommit, Goto, InTransaction, EngineInv, EngineTypeOK
    <3>. QED
      BY <1>1, <2>1, <2>2, <3>1, ShadowsKept
  <2>. QED
    BY <2>1, <2>2, <2>3, SettledKept DEF ContextSettled, ResultsSettled
<1>. QED
  BY <1>2, <1>3, <1>4, <1>5, <1>6 DEF AlarmFires

LEMMA IsolationInit == Init => IsolationInv
<1>. SUFFICES ASSUME Init PROVE IsolationInv
  OBVIOUS
<1>1. \A t \in Threads : query[t] = NoQuery /\ ~Mutating(t)
  BY DEF Init, Mutating
<1>2. OwnersKnown
  BY <1>1 DEF OwnersKnown, TxnsDistinct, FatesKnown
<1>3. ContextSettled
  BY DEF Init, ContextInit, NoTables, ContextSettled, ShadowsPrivate, TablesSettled, FillsSettled
<1>4. ResultsSettled
  BY DEF Init, Cache!Init, NothingSeen, ResultsSettled, SeenSettled, MemorySettled
<1>. QED
  BY <1>2, <1>3, <1>4, InitTyped DEF IsolationInv

LEMMA NextIsolated ==
    ASSUME IsolationInv, [Next]_vars
    PROVE  IsolationInv'
<1>1. EngineInv'
  BY NextTyped DEF IsolationInv
<1>2. CASE UNCHANGED vars
  <2>1. UNCHANGED <<live, shadow, lookup_cache, fill, pc, query, seen, history, memory>>
    BY <1>2 DEF vars, contextVars, engineVars, cacheVars
  <2>. QED
    BY <1>1, <2>1
    DEF IsolationInv, OwnersKnown, TxnsDistinct, FatesKnown, ContextSettled, ShadowsPrivate,
        TablesSettled, FillsSettled, ResultsSettled, SeenSettled, MemorySettled,
        Settled, Mutating, Program, Txn, InClauses, InTransaction
<1>3. ASSUME NEW t \in Threads, Fail(t)
      PROVE  OwnersKnown' /\ ContextSettled' /\ ResultsSettled'
  BY <1>3, AbortIsolated DEF Fail, InLoop, InClauses, Fates, cacheVars
<1>. QED
  BY <1>1, <1>2, <1>3, StartIsolated, LookupStepsIsolated, ScanIsolated, MutateIsolated,
     CommitIsolated, FinishIsolated, AlarmIsolated
  DEF Next, Advance, IsolationInv

\* However queries interleave, fail and are interrupted, no table, cached table,
\* pending scan, result or cached result ever contains the writes of a query
\* that has not finished its clauses or that failed in them: writes stay in the
\* shadow of their own query until its commit.
THEOREM NoDirtyReadCorrect == Spec => []NoDirtyRead
<1>1. IsolationInv => NoDirtyRead
  <2>. SUFFICES ASSUME IsolationInv, NEW v \in Visible \ {NoTable, Unread}
                PROVE  v \subseteq Settled
    BY DEF NoDirtyRead, Settled
  <2>. USE DEF IsolationInv, ContextSettled, ResultsSettled
  <2>1. CASE \E e \in Types : v = live[e] \/ v = lookup_cache[e]
    BY <2>1 DEF TablesSettled
  <2>2. CASE \E t \in Threads : fill[t] # NoFill /\ v = fill[t].df
    BY <2>2 DEF FillsSettled
  <2>3. CASE \E t \in Threads, e \in Types : v = seen[t][e]
    BY <2>3 DEF SeenSettled
  <2>4. CASE \E k \in ReadPrograms, e \in Types : memory[k] # NoResult /\ v = memory[k][e]
    BY <2>4 DEF MemorySettled
  <2>. QED
    BY <2>1, <2>2, <2>3, <2>4 DEF Visible
<1>. QED
  BY <1>1, IsolationInit, NextIsolated, PTL DEF Spec

-----------------------------------------------------------------------------
(***************************************************************************)
(* A single writer.  Only its query has a shadow, the shadow contains the  *)
(* canonical table it was copied from, and it has the writes of every      *)
(* clause that is done, so that a commit loses nothing.                    *)
(***************************************************************************)
MayWrite == deploy.callers \intersect deploy.writers
OneWriter == \A t, u \in MayWrite : t = u

OwnersWrite ==
    \A t \in Threads : Mutating(t) =>
      t \in MayWrite /\ history[Txn(t)].program = Program(t)

\* A thread that fills a cache is in the middle of a scan clause.
FillsForScans ==
    \A t \in Threads : pc[t] = "filling" =>
      /\ ip[t] \in DOMAIN Program(t)
      /\ Clause(t).op = "scan"
      /\ fill[t] # NoFill => fill[t].type = Clause(t).type

TypesBefore(op, t) ==
    {Program(t)[i].type : i \in {j \in DOMAIN Program(t) : Program(t)[j].op = op /\ j < ip[t]}}

ShadowFacts(t) ==
    /\ \A e \in Types : shadow[t][e] # NoTable =>
         InTransaction(t) /\ Mutating(t) /\ live[e] \subseteq shadow[t][e]
    /\ \A e \in promoted[t] :
         pc[t] = "commit" /\ shadow[t][e] # NoTable /\ live[e] = shadow[t][e]
    /\ Mutating(t) /\ InTransaction(t) =>
         /\ pc[t] = "commit" => ip[t] > Len(Program(t))
         /\ \A e \in TypesBefore("mutate", t) : shadow[t][e] # NoTable /\ Txn(t) \in shadow[t][e]

ShadowsFaithful == \A t \in Threads : ShadowFacts(t)

CommittedInTables ==
    \A q \in DOMAIN history : history[q].fate = "committed" =>
      \A e \in TypesWith("mutate", history[q].program) : q \in live[e]

StaysInv ==
    /\ IsolationInv /\ OwnersWrite /\ FillsForScans
    /\ OneWriter => ShadowsFaithful /\ CommittedInTables

\* The deployment does not change.
LEMMA DeploymentKept == ASSUME [Next]_vars PROVE deploy' = deploy
  BY DEF Next, Advance, Start, CacheHit, CacheMiss, ScanClause, FillClause,
         MutateClause, Fail, Abort, Spin, BeginCommit, PromoteOne, Commit, Publish, Return,
         AlarmFires, AlarmOutside, AlarmInLookup, AlarmInClause, AlarmInCommit,
         AlarmAfterCommit, vars, engineVars

\* The program of a thread that runs a query is a sequence of clauses.
LEMMA ProgramTyped ==
    ASSUME EngineInv, NEW t \in Threads, query[t] # NoQuery
    PROVE  Program(t) \in Seq(Clauses) /\ Program(t) \in Programs
  BY EngineAssumption DEF EngineInv, EngineTypeOK, Program

\* A thread that does not move, and whose tables do not change, knows what it knew.
LEMMA OthersFaithful ==
    ASSUME StaysInv, OneWriter, NEW t \in Threads, NEW u \in Threads,
           UNCHANGED <<pc[u], query[u], ip[u], shadow[u], promoted[u]>>,
           \/ UNCHANGED live
           \/ u # t /\ Mutating(t)
    PROVE  ShadowFacts(u)'
<1>. USE DEF StaysInv, ShadowsFaithful
<1>1. /\ InTransaction(u)' <=> InTransaction(u)
      /\ Mutating(u)' <=> Mutating(u)
      /\ Program(u)' = Program(u) /\ Txn(u)' = Txn(u)
      /\ TypesBefore("mutate", u)' = TypesBefore("mutate", u)
  BY DEF InTransaction, Mutating, Program, Txn, TypesBefore
<1>2. ShadowFacts(u)
  OBVIOUS
<1>3. CASE UNCHANGED live
  BY <1>1, <1>2, <1>3 DEF ShadowFacts
<1>4. CASE u # t /\ Mutating(t)
  <2>1. ~Mutating(u)
    BY <1>4 DEF OwnersWrite, OneWriter
  <2>2. \A e \in Types : shadow[u][e] = NoTable
    BY <1>2, <2>1 DEF ShadowFacts
  <2>3. promoted[u] = {}
    BY <1>2, <2>2 DEF ShadowFacts, IsolationInv, EngineInv, EngineTypeOK, ContextTypeOK
  <2>. QED
    BY <1>1, <2>1, <2>2, <2>3 DEF ShadowFacts
<1>. QED
  BY <1>3, <1>4

\* So does a thread outside a transaction, which has no shadow.
LEMMA OutsideFaithful ==
    ASSUME StaysInv, OneWriter, EngineInv', NEW t \in Threads,
           \/ DropShadow(t)
           \/ UNCHANGED <<shadow, promoted>> /\ ~InTransaction(t),
           ~InTransaction(t)' \/ (ip'[t] = 1 /\ pc'[t] # "commit")
    PROVE  ShadowFacts(t)'
<1>. USE DEF StaysInv, ShadowsFaithful
<1>1. promoted'[t] = {} /\ \A e \in Types : shadow'[t][e] = NoTable
  <2>1. CASE DropShadow(t)
    BY <2>1 DEF DropShadow, NoTables, IsolationInv, EngineInv, EngineTypeOK, ContextTypeOK
  <2>2. CASE UNCHANGED <<shadow, promoted>> /\ ~InTransaction(t)
    <3>1. \A e \in Types : shadow[t][e] = NoTable
      BY <2>2 DEF ShadowFacts
    <3>. QED
      BY <2>2, <3>1 DEF ShadowFacts, IsolationInv, EngineInv, EngineTypeOK, ContextTypeOK
  <2>. QED
    BY <2>1, <2>2
<1>2. ip'[t] = 1 /\ Mutating(t)' => TypesBefore("mutate", t)' = {}
  <2>. SUFFICES ASSUME ip'[t] = 1, Mutating(t)' PROVE TypesBefore("mutate", t)' = {}
    OBVIOUS
  <2>1. Program(t)' \in Seq(Clauses)
    BY EngineAssumption DEF EngineInv, EngineTypeOK, Program, Mutating
  <2>. QED
    BY <2>1 DEF TypesBefore
<1>. QED
  BY <1>1, <1>2 DEF ShadowFacts

\* A mutating query keeps its program, whatever becomes of it.
LEMMA OwnersWriteKept ==
    ASSUME StaysInv, NEW t \in Threads, UNCHANGED deploy,
           \A u \in Threads \ {t} : UNCHANGED query[u],
           UNCHANGED query[t] \/ query'[t] = NoQuery,
           \A q \in DOMAIN history : history'[q].program = history[q].program
    PROVE  OwnersWrite'
  BY DEF StaysInv, OwnersWrite, MayWrite, Mutating, Program, Txn, IsolationInv, EngineInv, MutationsKnown

\* No table loses what a query has committed.
LEMMA StaysKept ==
    ASSUME StaysInv, OneWriter, \A e \in Types : live[e] \subseteq live'[e],
           \A q \in DOMAIN history' : history'[q].fate = "committed" =>
             /\ q \in DOMAIN history
             /\ history[q].fate = "committed"
             /\ history'[q].program = history[q].program
    PROVE  CommittedInTables'
<1>. SUFFICES ASSUME NEW q \in DOMAIN history', history'[q].fate = "committed",
                     NEW e \in TypesWith("mutate", history'[q].program)
              PROVE  q \in live'[e]
  BY DEF CommittedInTables
<1>1. q \in DOMAIN history /\ history[q].fate = "committed"
      /\ e \in TypesWith("mutate", history[q].program)
  OBVIOUS
<1>2. q \in live[e]
  BY <1>1 DEF StaysInv, CommittedInTables, OneWriter
<1>3. history[q].program \in Seq(Clauses)
  <2>1. history \in Seq(Fated)
    BY DEF StaysInv, IsolationInv, EngineInv, EngineTypeOK, Fated
  <2>2. history[q] \in Fated
    BY <1>1, <2>1
  <2>3. history[q].program \in Programs
    BY <2>2 DEF Fated
  <2>. QED
    BY <2>3, EngineAssumption
<1>4. e \in Types
  <2>. DEFINE p == history[q].program
  <2>1. PICK i \in DOMAIN p : e = p[i].type
    BY <1>1 DEF TypesWith
  <2>2. p[i] \in Clauses
    BY <1>3
  <2>. QED
    BY <2>1, <2>2 DEF Clauses
<1>. QED
  BY <1>2, <1>4

\* What the invariant says of the writers, of the scans and of the tables.
StaysFacts ==
    OwnersWrite /\ FillsForScans /\ (OneWriter => ShadowsFaithful /\ CommittedInTables)

\* Threads that do not move fill the caches as before.
LEMMA FillsForScansKept ==
    ASSUME StaysInv, NEW t \in Threads, pc'[t] # "filling",
           \A u \in Threads \ {t} : UNCHANGED <<pc[u], query[u], ip[u]>>,
           \/ \A u \in Threads \ {t} : UNCHANGED fill[u]
           \/ NewLookupCache(fill)
           \/ NewLookupCache([fill EXCEPT ![t] = NoFill])
    PROVE  FillsForScans'
<1>1. ASSUME NEW u \in Threads, u # t, fill'[u] # NoFill
      PROVE  fill[u] # NoFill /\ fill'[u].type = fill[u].type
  <2>1. fill[u] \in {NoFill} \union [type : Types, df : Version, current : BOOLEAN]
        /\ fill \in [Threads -> {NoFill} \union [type : Types, df : Version, current : BOOLEAN]]
    BY DEF StaysInv, IsolationInv, EngineInv, EngineTypeOK, ContextTypeOK
  <2>2. CASE UNCHANGED fill[u]
    BY <1>1, <2>2
  <2>3. CASE NewLookupCache(fill) \/ NewLookupCache([fill EXCEPT ![t] = NoFill])
    BY <1>1, <2>1, <2>3 DEF NewLookupCache
  <2>. QED
    BY <1>1, <2>2, <2>3
<1>2. ASSUME NEW u \in Threads, u # t
      PROVE  Program(u)' = Program(u) /\ Clause(u)' = Clause(u)
  BY <1>2 DEF Program, Clause
<1>. QED
  BY <1>1, <1>2 DEF StaysInv, FillsForScans

LEMMA StartStays ==
    ASSUME StaysInv, IsolationInv', UNCHANGED deploy,
           NEW t \in Threads, NEW p \in Programs, NEW timed \in BOOLEAN, Start(t, p, timed)
    PROVE  StaysFacts'
<1>. USE DEF StaysInv, IsolationInv
<1>. DEFINE q == [program |-> p, timed |-> timed,
                  txn |-> IF IsMutation(p) THEN Len(history) + 1 ELSE 0]
            r == [program |-> p, fate |-> "running"]
<1>1. /\ query' = [query EXCEPT ![t] = q]
      /\ pc' = [pc EXCEPT ![t] = "lookup"]
      /\ pc[t] = "idle"
      /\ UNCHANGED <<live, shadow, promoted, fill, ip>>
      /\ IsMutation(p) => t \in MayWrite
  BY DEF Start, Goto, contextVars, MayWrite
<1>2. history \in Seq(Fated) /\ r \in Fated
  BY DEF EngineInv, EngineTypeOK, Fated, Fates
<1>3. /\ \A n \in DOMAIN history : n \in DOMAIN history' /\ history'[n] = history[n]
      /\ \A n \in DOMAIN history' \ DOMAIN history : history'[n].fate = "running"
      /\ IsMutation(p) => history'[Len(history) + 1].program = p
  <2>1. r.fate = "running" /\ r.program = p
    OBVIOUS
  <2>2. CASE IsMutation(p)
    <3>1. history' = Append(history, r)
      BY <2>2 DEF Start
    <3>. HIDE DEF r
    <3>. QED
      BY <1>2, <2>1, <3>1
  <2>3. CASE ~IsMutation(p)
    <3>1. history' = history
      BY <2>3 DEF Start
    <3>. QED
      BY <1>2, <2>3, <3>1
  <2>. QED
    BY <2>2, <2>3
<1>4. \A u \in Threads \ {t} :
        /\ UNCHANGED <<query[u], pc[u], ip[u]>>
        /\ (Mutating(u)' <=> Mutating(u)) /\ Txn(u)' = Txn(u) /\ Program(u)' = Program(u)
  BY <1>1 DEF EngineInv, EngineTypeOK, Mutating, Program, Txn
<1>5. OwnersWrite'
  <2>1. query'[t] = q
    BY <1>1 DEF EngineInv, EngineTypeOK
  <2>2. Mutating(t)' => /\ t \in MayWrite
                        /\ history'[Txn(t)'].program = Program(t)'
    BY <1>1, <1>3, <2>1 DEF Mutating, Program, Txn
  <2>3. \A u \in Threads \ {t} : Mutating(u) => Txn(u) \in DOMAIN history
    BY DEF EngineInv, MutationsKnown, Mutating
  <2>. QED
    BY <1>3, <1>4, <2>2, <2>3 DEF OwnersWrite, MayWrite
<1>6. FillsForScans'
  <2>1. pc'[t] # "filling"
    BY <1>1 DEF EngineInv, EngineTypeOK
  <2>. QED
    BY <1>1, <1>4, <2>1, FillsForScansKept
<1>7. ASSUME OneWriter
      PROVE  ShadowsFaithful' /\ CommittedInTables'
  <2>1. CommittedInTables'
    BY <1>1, <1>2, <1>3, <1>7, StaysKept
  <2>2. ShadowFacts(t)'
    <3>1. ~InTransaction(t) /\ ~InTransaction(t)'
      BY <1>1 DEF InTransaction, EngineInv, EngineTypeOK
    <3>. QED
      BY <1>1, <1>7, <3>1, OutsideFaithful
  <2>3. ASSUME NEW u \in Threads, u # t
        PROVE  ShadowFacts(u)'
    <3>1. UNCHANGED <<pc[u], query[u], ip[u], shadow[u], promoted[u], live>>
      BY <1>1, <1>4, <2>3
    <3>. QED
      BY <1>7, <3>1, OthersFaithful
  <2>. QED
    BY <2>1, <2>2, <2>3 DEF ShadowsFaithful
<1>. QED
  BY <1>5, <1>6, <1>7 DEF StaysFacts, OneWriter, MayWrite

\* Steps outside a transaction, and those that give one up.
LEMMA OutsideStays ==
    ASSUME StaysInv, IsolationInv', UNCHANGED <<deploy, live>>, NEW t \in Threads,
           \A u \in Threads \ {t} : UNCHANGED <<query[u], pc[u], ip[u]>>,
           UNCHANGED query[t] \/ query'[t] = NoQuery,
           pc'[t] # "filling",
           ~InTransaction(t)' \/ (ip'[t] = 1 /\ pc'[t] # "commit"),
           \/ DropShadow(t)
           \/ UNCHANGED <<shadow, promoted>> /\ ~InTransaction(t),
           \/ UNCHANGED fill
           \/ NewLookupCache(fill)
           \/ NewLookupCache([fill EXCEPT ![t] = NoFill]),
           DOMAIN history' = DOMAIN history,
           \A q \in DOMAIN history :
             /\ history'[q].program = history[q].program
             /\ history'[q].fate = "committed" => history[q].fate = "committed"
    PROVE  StaysFacts'
<1>. USE DEF StaysInv, IsolationInv
<1>1. OwnersWrite'
  BY OwnersWriteKept
<1>2. FillsForScans'
  BY FillsForScansKept
<1>3. ASSUME OneWriter
      PROVE  ShadowsFaithful' /\ CommittedInTables'
  <2>1. CommittedInTables'
    BY <1>3, StaysKept
  <2>2. ShadowFacts(t)'
    BY <1>3, OutsideFaithful
  <2>3. ASSUME NEW u \in Threads, u # t
        PROVE  ShadowFacts(u)'
    <3>1. UNCHANGED <<pc[u], query[u], ip[u], shadow[u], promoted[u]>>
      BY <2>3 DEF DropShadow, EngineInv, EngineTypeOK, ContextTypeOK
    <3>. QED
      BY <1>3, <3>1, OthersFaithful
  <2>. QED
    BY <2>1, <2>2, <2>3 DEF ShadowsFaithful
<1>. QED
  BY <1>1, <1>2, <1>3 DEF StaysFacts, OneWriter, MayWrite

LEMMA LookupStepsStay ==
    ASSUME StaysInv, IsolationInv', UNCHANGED deploy, NEW t \in Threads,
           CacheHit(t) \/ CacheMiss(t) \/ Publish(t) \/ Return(t)
    PROVE  StaysFacts'
<1>. USE DEF StaysInv, IsolationInv, EngineInv, EngineTypeOK
<1>1. /\ UNCHANGED <<live, fill, history>>
      /\ \A u \in Threads \ {t} : UNCHANGED <<query[u], pc[u], ip[u]>>
      /\ UNCHANGED query[t] \/ query'[t] = NoQuery
      /\ pc'[t] \in {"idle", "running", "done"}
      /\ pc'[t] = "running" => ip'[t] = 1
      /\ \/ DropShadow(t)
         \/ UNCHANGED <<shadow, promoted>> /\ ~InTransaction(t)
  <2>1. CASE CacheHit(t)
    BY <2>1 DEF CacheHit, Goto, contextVars, InTransaction
  <2>2. CASE CacheMiss(t)
    BY <2>2 DEF CacheMiss, BeginQuery, Goto
  <2>3. CASE Publish(t)
    BY <2>3 DEF Publish, Goto, contextVars, InTransaction
  <2>4. CASE Return(t)
    BY <2>4 DEF Return, Goto, contextVars, InTransaction
  <2>. QED
    BY <2>1, <2>2, <2>3, <2>4
<1>2. ~InTransaction(t)' \/ (ip'[t] = 1 /\ pc'[t] # "commit")
  BY <1>1 DEF InTransaction
<1>. QED
  BY <1>1, <1>2, OutsideStays

\* A step of the clause loop that is not a mutation: it passes a scan, or stays.
LEMMA ScanStepsStay ==
    ASSUME StaysInv, IsolationInv', UNCHANGED deploy, NEW t \in Threads,
           ScanClause(t) \/ FillClause(t) \/ Spin(t)
    PROVE  StaysFacts'
<1>. USE DEF StaysInv, IsolationInv, EngineInv, EngineTypeOK
<1>1. /\ UNCHANGED <<live, shadow, promoted, query, history>>
      /\ \A u \in Threads \ {t} : UNCHANGED <<pc[u], ip[u], fill[u]>>
      /\ pc[t] \in {"running", "filling"} /\ pc'[t] \in {"running", "filling", "spinning"}
  <2>1. CASE ScanClause(t)
    BY <2>1 DEF ScanClause, ScanCached, ScanSource, InLoop, Goto, NextClause, contextVars,
                ContextTypeOK
  <2>2. CASE FillClause(t)
    BY <2>2 DEF FillClause, ScanFill, NextClause, Goto, ContextTypeOK
  <2>3. CASE Spin(t)
    BY <2>3 DEF Spin, InLoop, Goto, contextVars
  <2>. QED
    BY <2>1, <2>2, <2>3
<1>2. query[t] # NoQuery /\ Program(t) \in Seq(Clauses) /\ Program(t)' = Program(t)
  <2>1. query[t] # NoQuery
    BY <1>1 DEF QueryKnown
  <2>. QED
    BY <1>1, <2>1, ProgramTyped DEF Program
<1>3. \/ ip'[t] = ip[t]
      \/ /\ ip'[t] = ip[t] + 1 /\ pc'[t] # "filling"
         /\ ip[t] \in DOMAIN Program(t) /\ Program(t)[ip[t]].op = "scan"
  <2>1. CASE ScanClause(t)
    <3>1. ip[t] \in DOMAIN Program(t)
      BY <1>2, <2>1 DEF ScanClause, InLoop
    <3>. QED
      BY <2>1, <3>1 DEF ScanClause, InLoop, NextClause, Clause
  <2>2. CASE FillClause(t)
    BY <2>2 DEF FillClause, NextClause, Goto, FillsForScans, Clause
  <2>3. CASE Spin(t)
    BY <2>3 DEF Spin
  <2>. QED
    BY <2>1, <2>2, <2>3
<1>4. TypesBefore("mutate", t)' = TypesBefore("mutate", t)
  <2>1. \A j \in DOMAIN Program(t) : Program(t)[j].op = "mutate" =>
          (j < ip'[t] <=> j < ip[t])
    BY <1>2, <1>3
  <2>. QED
    BY <1>2, <2>1 DEF TypesBefore
<1>5. OwnersWrite'
  BY <1>1, OwnersWriteKept
<1>6. FillsForScans'
  <2>1. ASSUME pc'[t] = "filling"
        PROVE  /\ ip'[t] \in DOMAIN Program(t)
               /\ Program(t)[ip'[t]].op = "scan"
               /\ fill'[t] # NoFill => fill'[t].type = Program(t)[ip'[t]].type
    <3>1. CASE ScanClause(t)
      <4>1. /\ ip[t] \in DOMAIN Program(t) /\ ip' = ip /\ Clause(t).op = "scan"
            /\ ScanSource(t, Clause(t).type)
        BY <1>2, <2>1, <3>1 DEF ScanClause, InLoop, Goto
      <4>. QED
        BY <4>1 DEF Clause, ScanSource, ContextTypeOK
    <3>2. CASE FillClause(t) \/ Spin(t)
      BY <2>1, <3>2 DEF FillClause, Spin, Goto
    <3>. QED
      BY <3>1, <3>2
  <2>2. ASSUME NEW u \in Threads, u # t
        PROVE  Program(u)' = Program(u) /\ Clause(u)' = Clause(u) /\ fill'[u] = fill[u]
    BY <1>1, <2>2 DEF Program, Clause
  <2>3. Clause(t)' = Program(t)[ip'[t]]
    BY <1>2 DEF Clause
  <2>4. ASSUME NEW u \in Threads, u # t, pc'[u] = "filling"
        PROVE  /\ ip'[u] \in DOMAIN Program(u)
               /\ Clause(u).op = "scan"
               /\ fill'[u] # NoFill => fill'[u].type = Clause(u).type
    BY <1>1, <2>2, <2>4 DEF FillsForScans
  <2>. QED
    BY <1>2, <2>1, <2>2, <2>3, <2>4 DEF FillsForScans
<1>7. ASSUME OneWriter
      PROVE  ShadowsFaithful' /\ CommittedInTables'
  <2>1. CommittedInTables'
    BY <1>1, <1>7, StaysKept
  <2>2. ShadowFacts(t)'
    <3>1. /\ Mutating(t)' <=> Mutating(t)
          /\ Txn(t)' = Txn(t)
          /\ InTransaction(t) /\ InTransaction(t)' /\ pc'[t] # "commit"
      BY <1>1 DEF Mutating, Program, Txn, InTransaction
    <3>. QED
      BY <1>1, <1>4, <1>7, <3>1 DEF ShadowFacts, ShadowsFaithful
  <2>3. ASSUME NEW u \in Threads, u # t
        PROVE  ShadowFacts(u)'
    BY <1>1, <1>7, <2>3, OthersFaithful
  <2>. QED
    BY <2>1, <2>2, <2>3 DEF ShadowsFaithful
<1>. QED
  BY <1>5, <1>6, <1>7 DEF StaysFacts, OneWriter, MayWrite

\* A mutation clause adds its query to a copy of the canonical table.
LEMMA MutateStays ==
    ASSUME StaysInv, IsolationInv', UNCHANGED deploy, NEW t \in Threads, MutateClause(t)
    PROVE  StaysFacts'
<1>. USE DEF StaysInv, IsolationInv, EngineInv, EngineTypeOK
<1>. DEFINE e == Clause(t).type
            base == IF shadow[t][e] = NoTable THEN live[e] ELSE shadow[t][e]
<1>1. /\ UNCHANGED <<live, promoted, fill, pc, query, history>>
      /\ shadow' = [shadow EXCEPT ![t][e] = base \union {Txn(t)}]
      /\ ip' = [ip EXCEPT ![t] = @ + 1]
      /\ pc[t] = "running" /\ InLoop(t) /\ Clause(t).op = "mutate"
  BY DEF MutateClause, Mutate, NextClause, InLoop
<1>2. query[t] # NoQuery /\ Program(t) \in Seq(Clauses)
  <2>1. query[t] # NoQuery
    BY <1>1 DEF QueryKnown
  <2>. QED
    BY <2>1, ProgramTyped
<1>3. /\ ip[t] \in DOMAIN Program(t)
      /\ Program(t)[ip[t]].type = e /\ Program(t)[ip[t]].op = "mutate"
      /\ e \in Types /\ Mutating(t)
  <2>1. ip[t] \in DOMAIN Program(t) /\ Clause(t) \in Clauses
    BY <1>1, <1>2, ClauseTyped DEF InLoop
  <2>2. e \in TypesWith("mutate", Program(t))
    BY <1>1, <2>1 DEF Clause, TypesWith
  <2>. QED
    BY <1>1, <1>2, <2>1, <2>2 DEF Clause, Clauses, Mutating, IsMutation
<1>4. OwnersWrite'
  BY <1>1, OwnersWriteKept
<1>5. \A u \in Threads \ {t} : UNCHANGED <<pc[u], query[u], ip[u], shadow[u], promoted[u], fill[u]>>
  BY <1>1 DEF ContextTypeOK
<1>6. FillsForScans'
  BY <1>1, <1>5, FillsForScansKept
<1>7. ASSUME OneWriter
      PROVE  ShadowsFaithful' /\ CommittedInTables'
  <2>1. CommittedInTables'
    BY <1>1, <1>7, StaysKept
  <2>2. ShadowFacts(t)'
    <3>1. ShadowFacts(t)
      BY <1>7 DEF ShadowsFaithful
    <3>2. /\ shadow'[t][e] = base \union {Txn(t)} /\ shadow'[t][e] # NoTable
          /\ \A f \in Types : f # e => shadow'[t][f] = shadow[t][f]
      <4>1. shadow'[t][e] = base \union {Txn(t)}
            /\ \A f \in Types : f # e => shadow'[t][f] = shadow[t][f]
        BY <1>1, <1>3 DEF ContextTypeOK
      <4>2. shadow'[t][e] \in SUBSET Txns
        <5>1. Txn(t) \in Txns
          <6>1. query[t] \in Queries
            BY <1>2 DEF Queries
          <6>2. Txn(t) \in DOMAIN history
            BY <1>3 DEF MutationsKnown, Mutating
          <6>. QED
            BY <6>1, <6>2 DEF Queries, Txn
        <5>2. base \in SUBSET Txns
          BY <1>3 DEF ContextTypeOK, Version
        <5>. QED
          BY <4>1, <5>1, <5>2
      <4>. QED
        BY <4>1, <4>2, ContextAssumption
    <3>3. live[e] \subseteq shadow'[t][e]
      BY <1>3, <3>1, <3>2 DEF ShadowFacts
    <3>4. promoted'[t] = {}
      BY <1>1, <3>1 DEF ShadowFacts, ContextTypeOK
    <3>5. /\ Txn(t)' = Txn(t) /\ Program(t)' = Program(t)
          /\ Mutating(t)' /\ InTransaction(t)' /\ pc'[t] # "commit"
      BY <1>1, <1>3 DEF Mutating, Program, Txn, InTransaction
    <3>6. TypesBefore("mutate", t)' \subseteq TypesBefore("mutate", t) \union {e}
      BY <1>1, <1>2, <1>3, <3>5 DEF TypesBefore
    <3>7. TypesBefore("mutate", t) \subseteq Types
      <4>1. \A i \in DOMAIN Program(t) : Program(t)[i] \in Clauses
        BY <1>2
      <4>. QED
        BY <4>1 DEF TypesBefore, Clauses
    <3>8. \A f \in TypesBefore("mutate", t) : shadow[t][f] # NoTable /\ Txn(t) \in shadow[t][f]
      BY <1>1, <1>3, <3>1 DEF ShadowFacts, InTransaction
    <3>9. \A f \in TypesBefore("mutate", t)' : shadow'[t][f] # NoTable /\ Txn(t)' \in shadow'[t][f]
      <4>1. ASSUME NEW f \in TypesBefore("mutate", t)', f # e
            PROVE  shadow'[t][f] # NoTable /\ Txn(t) \in shadow'[t][f]
        <5>1. f \in TypesBefore("mutate", t)
          BY ONLY <3>6, <4>1
        <5>. QED
          BY ONLY <3>2, <3>7, <3>8, <4>1, <5>1
      <4>2. \A f \in TypesBefore("mutate", t)' : shadow'[t][f] # NoTable /\ Txn(t) \in shadow'[t][f]
        BY ONLY <3>2, <4>1
      <4>. QED
        BY ONLY <3>5, <4>2
    <3>10. \A f \in Types : shadow'[t][f] # NoTable => live'[f] \subseteq shadow'[t][f]
      BY <1>1, <3>1, <3>2, <3>3 DEF ShadowFacts
    <3>. QED
      BY <3>4, <3>5, <3>9, <3>10 DEF ShadowFacts
  <2>3. ASSUME NEW u \in Threads, u # t
        PROVE  ShadowFacts(u)'
    BY <1>1, <1>5, <1>7, <2>3, OthersFaithful
  <2>. QED
    BY <2>1, <2>2, <2>3 DEF ShadowsFaithful
<1>. QED
  BY <1>4, <1>6, <1>7 DEF StaysFacts, OneWriter, MayWrite

\* Giving a query another fate than committed leaves the committed ones alone.
LEMMA FateKeepsCommitted ==
    ASSUME StaysInv, NEW t \in Threads, pc[t] # "idle", NEW fate \in Fates, Fate(t, fate),
           InClauses(t) \/ fate \in {"committing", "committed", "interrupted"}
    PROVE  /\ DOMAIN history' = DOMAIN history
           /\ \A q \in DOMAIN history :
                /\ history'[q].program = history[q].program
                /\ \/ history'[q].fate = history[q].fate
                   \/ Mutating(t) /\ q = Txn(t) /\ history'[q].fate = fate
<1>1. /\ DOMAIN history' = DOMAIN history
      /\ \A q \in DOMAIN history : history'[q].program = history[q].program
  BY FateTyped DEF StaysInv, IsolationInv
<1>2. /\ Mutating(t) => history'[Txn(t)].fate = fate
      /\ \A q \in DOMAIN history :
           ~(Mutating(t) /\ q = Txn(t)) => history'[q] = history[q]
  BY FateKeepsSettled DEF StaysInv
<1>. QED
  BY <1>1, <1>2

LEMMA AbortStays ==
    ASSUME StaysInv, IsolationInv', UNCHANGED deploy, NEW t \in Threads,
           NEW fate \in {"rolledBack", "interrupted"}, Abort(t, fate),
           pc[t] # "idle", InClauses(t) \/ fate = "interrupted", UNCHANGED <<query, ip>>
    PROVE  StaysFacts'
<1>1. /\ DOMAIN history' = DOMAIN history
      /\ \A q \in DOMAIN history :
           /\ history'[q].program = history[q].program
           /\ history'[q].fate = "committed" => history[q].fate = "committed"
  BY FateKeepsCommitted DEF Abort, Fates
<1>2. /\ DropShadow(t) /\ UNCHANGED live
      /\ NewLookupCache([fill EXCEPT ![t] = NoFill])
  BY DEF Abort, Rollback
<1>3. /\ \A u \in Threads \ {t} : UNCHANGED <<query[u], pc[u], ip[u]>>
      /\ pc'[t] = "done"
  BY DEF Abort, Goto, StaysInv, IsolationInv, EngineInv, EngineTypeOK
<1>. QED
  BY <1>1, <1>2, <1>3, OutsideStays DEF InTransaction

\* The clauses are done: the shadow has the writes of all of them.
LEMMA BeginCommitStays ==
    ASSUME StaysInv, IsolationInv', UNCHANGED deploy, NEW t \in Threads, BeginCommit(t)
    PROVE  StaysFacts'
<1>. USE DEF StaysInv, IsolationInv, EngineInv, EngineTypeOK
<1>1. /\ UNCHANGED <<live, shadow, promoted, fill, query, ip>>
      /\ pc[t] = "running" /\ pc'[t] = "commit" /\ ip[t] > Len(Program(t))
      /\ \A u \in Threads \ {t} : UNCHANGED pc[u]
  BY DEF BeginCommit, Goto, contextVars
<1>2. /\ DOMAIN history' = DOMAIN history
      /\ \A q \in DOMAIN history :
           /\ history'[q].program = history[q].program
           /\ history'[q].fate = "committed" => history[q].fate = "committed"
  BY <1>1, FateKeepsCommitted DEF BeginCommit, Fates
<1>3. OwnersWrite' /\ FillsForScans'
  BY <1>1, <1>2, OwnersWriteKept, FillsForScansKept
<1>4. ASSUME OneWriter
      PROVE  ShadowsFaithful' /\ CommittedInTables'
  <2>1. CommittedInTables'
    BY <1>1, <1>2, <1>4, StaysKept
  <2>2. ShadowFacts(t)'
    <3>1. /\ Mutating(t)' <=> Mutating(t)
          /\ Txn(t)' = Txn(t) /\ Program(t)' = Program(t)
          /\ InTransaction(t) /\ InTransaction(t)'
          /\ TypesBefore("mutate", t)' = TypesBefore("mutate", t)
      BY <1>1 DEF Mutating, Program, Txn, InTransaction, TypesBefore
    <3>. QED
      BY <1>1, <1>4, <3>1 DEF ShadowFacts, ShadowsFaithful
  <2>3. ASSUME NEW u \in Threads, u # t
        PROVE  ShadowFacts(u)'
    BY <1>1, <1>4, <2>3, OthersFaithful
  <2>. QED
    BY <2>1, <2>2, <2>3 DEF ShadowsFaithful
<1>. QED
  BY <1>3, <1>4 DEF StaysFacts, OneWriter, MayWrite

\* The only writer replaces a table by one that contains it.
LEMMA PromoteStays ==
    ASSUME StaysInv, IsolationInv', UNCHANGED deploy, NEW t \in Threads, PromoteOne(t)
    PROVE  StaysFacts'
<1>. USE DEF StaysInv, IsolationInv, EngineInv, EngineTypeOK
<1>1. PICK e \in Types : Promote(t, e)
  BY DEF PromoteOne
<1>2. /\ UNCHANGED <<shadow, fill, pc, query, ip, history>>
      /\ pc[t] = "commit"
      /\ live' = [live EXCEPT ![e] = shadow[t][e]]
      /\ promoted' = [promoted EXCEPT ![t] = @ \union {e}]
      /\ shadow[t][e] # NoTable
  BY <1>1 DEF PromoteOne, Promote, Written, engineVars
<1>3. OwnersWrite'
  BY <1>2, OwnersWriteKept
<1>4. FillsForScans'
  BY <1>2, FillsForScansKept
<1>5. ASSUME OneWriter
      PROVE  ShadowsFaithful' /\ CommittedInTables'
  <2>1. ShadowFacts(t)
    BY <1>5 DEF ShadowsFaithful
  <2>2. /\ Mutating(t) /\ live[e] \subseteq shadow[t][e]
        /\ live'[e] = shadow[t][e]
        /\ \A f \in Types : f # e => live'[f] = live[f]
    BY <1>2, <2>1 DEF ShadowFacts, ContextTypeOK
  <2>3. CommittedInTables'
    BY <1>2, <1>5, <2>2, StaysKept
  <2>4. ShadowFacts(t)'
    <3>1. /\ Mutating(t)' <=> Mutating(t)
          /\ Txn(t)' = Txn(t) /\ Program(t)' = Program(t)
          /\ InTransaction(t)' <=> InTransaction(t)
          /\ TypesBefore("mutate", t)' = TypesBefore("mutate", t)
      BY <1>2 DEF Mutating, Program, Txn, InTransaction, TypesBefore
    <3>2. promoted'[t] = promoted[t] \union {e} /\ promoted[t] \subseteq Types
      BY <1>2 DEF ContextTypeOK
    <3>3. \A f \in Types : shadow'[t][f] # NoTable => live'[f] \subseteq shadow'[t][f]
      BY <1>2, <2>1, <2>2 DEF ShadowFacts
    <3>4. \A f \in promoted'[t] :
            pc'[t] = "commit" /\ shadow'[t][f] # NoTable /\ live'[f] = shadow'[t][f]
      BY <1>2, <2>1, <2>2, <3>2 DEF ShadowFacts
    <3>. QED
      BY <1>2, <2>1, <3>1, <3>3, <3>4 DEF ShadowFacts
  <2>5. ASSUME NEW u \in Threads, u # t
        PROVE  ShadowFacts(u)'
    <3>1. UNCHANGED <<pc[u], query[u], ip[u], shadow[u], promoted[u]>>
      BY <1>2, <2>5 DEF ContextTypeOK
    <3>. QED
      BY <1>5, <2>2, <2>5, <3>1, OthersFaithful
  <2>. QED
    BY <2>3, <2>4, <2>5 DEF ShadowsFaithful
<1>. QED
  BY <1>3, <1>4, <1>5 DEF StaysFacts, OneWriter, MayWrite

\* When commit_query is through, every table it wrote has the query in it.
LEMMA CommitStays ==
    ASSUME StaysInv, IsolationInv', UNCHANGED deploy, NEW t \in Threads, Commit(t)
    PROVE  StaysFacts'
<1>. USE DEF StaysInv, IsolationInv, EngineInv, EngineTypeOK
<1>1. /\ UNCHANGED <<live, query, ip>> /\ DropShadow(t)
      /\ UNCHANGED fill \/ NewLookupCache(fill)
      /\ promoted[t] = Written(t)
      /\ pc[t] = "commit" /\ pc'[t] = "committed"
      /\ \A u \in Threads \ {t} : UNCHANGED pc[u]
  BY DEF Commit, EndCommit, Goto
<1>2. /\ DOMAIN history' = DOMAIN history
      /\ \A q \in DOMAIN history :
           /\ history'[q].program = history[q].program
           /\ \/ history'[q].fate = history[q].fate
              \/ Mutating(t) /\ q = Txn(t)
  BY <1>1, FateKeepsCommitted DEF Commit, Fates
<1>3. OwnersWrite' /\ FillsForScans'
  BY <1>1, <1>2, OwnersWriteKept, FillsForScansKept
<1>4. ASSUME OneWriter
      PROVE  ShadowsFaithful' /\ CommittedInTables'
  <2>1. ASSUME Mutating(t), NEW e \in TypesWith("mutate", Program(t))
        PROVE  Txn(t) \in live[e]
    <3>1. Program(t) \in Seq(Clauses)
      BY <2>1, ProgramTyped DEF Mutating
    <3>2. PICK i \in DOMAIN Program(t) : Program(t)[i].op = "mutate" /\ Program(t)[i].type = e
      BY <2>1 DEF TypesWith
    <3>3. ShadowFacts(t) /\ InTransaction(t)
      BY <1>1, <1>4 DEF ShadowsFaithful, InTransaction
    <3>4. i < ip[t]
      BY <1>1, <2>1, <3>1, <3>3 DEF ShadowFacts
    <3>5. e \in TypesBefore("mutate", t)
      BY <3>2, <3>4 DEF TypesBefore
    <3>6. Txn(t) \in shadow[t][e] /\ shadow[t][e] # NoTable /\ e \in Types
      <4>1. Program(t)[i] \in Clauses
        BY <3>1, <3>2
      <4>. QED
        BY <2>1, <3>2, <3>3, <3>5, <4>1 DEF ShadowFacts, Clauses
    <3>7. e \in promoted[t]
      BY <1>1, <3>6 DEF Written
    <3>. QED
      BY <3>3, <3>6, <3>7 DEF ShadowFacts
  <2>2. CommittedInTables'
    <3>1. ASSUME NEW q \in DOMAIN history, history'[q].fate = "committed",
                 NEW e \in TypesWith("mutate", history[q].program)
          PROVE  q \in live[e]
      <4>1. CASE history[q].fate = "committed"
        BY <1>4, <3>1, <4>1 DEF CommittedInTables, OneWriter
      <4>2. CASE Mutating(t) /\ q = Txn(t)
        BY <2>1, <3>1, <4>2 DEF OwnersWrite
      <4>. QED
        BY <1>2, <3>1, <4>1, <4>2
    <3>. QED
      BY <1>1, <1>2, <3>1 DEF CommittedInTables
  <2>3. ShadowFacts(t)'
    BY <1>1, <1>4, OutsideFaithful DEF InTransaction
  <2>4. ASSUME NEW u \in Threads, u # t
        PROVE  ShadowFacts(u)'
    <3>1. UNCHANGED <<pc[u], query[u], ip[u], shadow[u], promoted[u]>>
      BY <1>1, <2>4 DEF DropShadow, ContextTypeOK
    <3>. QED
      BY <1>1, <1>4, <3>1, OthersFaithful
  <2>. QED
    BY <2>2, <2>3, <2>4 DEF ShadowsFaithful
<1>. QED
  BY <1>3, <1>4 DEF StaysFacts, OneWriter, MayWrite

LEMMA AlarmStays ==
    ASSUME StaysInv, IsolationInv', UNCHANGED deploy, AlarmFires
    PROVE  StaysFacts'
<1>. USE DEF StaysInv, IsolationInv, EngineInv, EngineTypeOK
<1>1. Main \in Threads
  BY EngineAssumption
<1>2. CASE AlarmOutside \/ AlarmAfterCommit
  <2>1. /\ UNCHANGED <<live, shadow, promoted, fill, query, ip, history>>
        /\ pc'[Main] \in {"idle", "done"} /\ ~InTransaction(Main)
        /\ \A u \in Threads \ {Main} : UNCHANGED pc[u]
    BY <1>1, <1>2 DEF AlarmOutside, AlarmAfterCommit, Goto, contextVars, InTransaction
  <2>. QED
    BY <1>1, <2>1, OutsideStays DEF InTransaction
<1>3. CASE AlarmInLookup
  <2>1. /\ UNCHANGED <<live, shadow, promoted, fill, ip>>
        /\ pc[Main] = "lookup" /\ pc'[Main] = "idle" /\ query'[Main] = NoQuery
        /\ \A u \in Threads \ {Main} : UNCHANGED <<pc[u], query[u]>>
    BY <1>1, <1>3 DEF AlarmInLookup, Goto, contextVars
  <2>2. /\ DOMAIN history' = DOMAIN history
        /\ \A q \in DOMAIN history :
             /\ history'[q].program = history[q].program
             /\ history'[q].fate = "committed" => history[q].fate = "committed"
    BY <1>1, <1>3, <2>1, FateKeepsCommitted DEF AlarmInLookup, InClauses, Fates
  <2>. QED
    BY <1>1, <2>1, <2>2, OutsideStays DEF InTransaction
<1>4. CASE AlarmInClause
  BY <1>1, <1>4, AbortStays DEF AlarmInClause, InClauses
<1>5. CASE AlarmInCommit
  BY <1>1, <1>5, AbortStays DEF AlarmInCommit
<1>. QED
  BY <1>2, <1>3, <1>4, <1>5 DEF AlarmFires

LEMMA StaysInit == Init => StaysInv
<1>. SUFFICES ASSUME Init PROVE StaysInv
  OBVIOUS
<1>1. OwnersWrite /\ FillsForScans
  BY DEF Init, OwnersWrite, FillsForScans, Mutating
<1>2. ShadowsFaithful
  BY DEF Init, ContextInit, NoTables, ShadowsFaithful, ShadowFacts, Mutating
<1>3. CommittedInTables
  BY DEF Init, CommittedInTables
<1>. QED
  BY <1>1, <1>2, <1>3, IsolationInit DEF StaysInv

LEMMA NextStays ==
    ASSUME StaysInv, [Next]_vars
    PROVE  StaysInv'
<1>1. IsolationInv'
  BY NextIsolated DEF StaysInv
<1>2. UNCHANGED deploy
  BY DeploymentKept
<1>3. StaysFacts'
  <2>1. CASE UNCHANGED vars
    BY <2>1 DEF StaysInv, StaysFacts, OwnersWrite, FillsForScans, ShadowsFaithful, ShadowFacts,
                CommittedInTables, OneWriter, MayWrite, Mutating, InTransaction, TypesBefore, Program, Txn,
                Clause, vars, contextVars, engineVars
  <2>2. ASSUME NEW t \in Threads, Fail(t)
        PROVE  StaysFacts'
    BY <1>1, <1>2, <2>2, AbortStays DEF Fail, InLoop, InClauses
  <2>. QED
    BY <1>1, <1>2, <2>1, <2>2, StartStays, LookupStepsStay, ScanStepsStay, MutateStays,
       BeginCommitStays, PromoteStays, CommitStays, AlarmStays
    DEF Next, Advance
<1>. QED
  BY <1>1, <1>3 DEF StaysInv, StaysFacts

\* With a single writing thread, a query whose commit is through stays in every
\* table it wrote: no other query, no failure and no alarm at any point ever
\* replaces such a table by one without it.
THEOREM CommittedStaysCorrect == Spec => []CommittedStays
<1>1. StaysInv => CommittedStays
  <2>. SUFFICES ASSUME StaysInv, Cardinality(deploy.writers) = 1
                PROVE  CommittedInTables
    BY DEF CommittedStays, CommittedInTables
  <2>1. IsFiniteSet(deploy.writers)
    <3>1. deploy.writers \in SUBSET Threads
      BY EngineAssumption DEF StaysInv, IsolationInv, EngineInv, EngineTypeOK
    <3>. QED
      BY <3>1, EngineAssumption, FS_Subset
  <2>2. OneWriter
    BY <2>1, FS_Singleton DEF OneWriter, MayWrite
  <2>. QED
    BY <2>2 DEF StaysInv
<1>. QED
  BY <1>1, StaysInit, NextStays, PTL DEF Spec

-----------------------------------------------------------------------------
(***************************************************************************)
(* A single caller, off the alarm's reach.  What its query has scanned so  *)
(* far is what the canonical tables hold, because nobody else can change   *)
(* them, and a mutation empties the cache before the next query asks.      *)
(***************************************************************************)
Reading(t) == query[t] # NoQuery /\ ~IsMutation(Program(t))
Publishing(t) == Mutating(t) /\ pc[t] \in {"commit", "committed"}

OthersQuiet == \A t \in Threads \ deploy.callers : pc[t] = "idle"

FillFacts(t) == pc[t] = "filling" => (fill[t] # NoFill => fill[t].df = live[fill[t].type])

SeenFacts(t) ==
    /\ pc[t] \in {"idle", "lookup"} => seen[t] = NothingSeen
    /\ Reading(t) /\ pc[t] \in {"running", "filling", "commit", "committed"} =>
         /\ pc[t] \in {"commit", "committed"} => ip[t] > Len(Program(t))
         /\ \A e \in Types :
              seen[t][e] = IF e \in TypesBefore("scan", t) THEN live[e] ELSE Unread

MemoryLive ==
    (\A t \in Threads : ~Publishing(t)) =>
      \A p \in ReadPrograms : memory[p] # NoResult => memory[p] = CurrentResult(p)

CoherenceFacts ==
    /\ ~alarm /\ OthersQuiet /\ MemoryLive
    /\ \A t \in Threads : FillFacts(t) /\ SeenFacts(t)
CoherenceInv == StaysInv /\ FreshInv /\ (SequentialCaller => CoherenceFacts)

\* With one caller, the thread that moves is the caller, and the others are idle.
LEMMA SoleCaller ==
    ASSUME EngineInv, SequentialCaller, OthersQuiet, NEW t \in Threads,
           pc[t] # "idle" \/ t \in deploy.callers
    PROVE  /\ deploy.callers = {t}
           /\ \A u \in Threads \ {t} : pc[u] = "idle"
           /\ OneWriter
<1>1. IsFiniteSet(deploy.callers)
  <2>1. deploy.callers \in SUBSET Threads
    BY EngineAssumption DEF EngineInv, EngineTypeOK
  <2>. QED
    BY <2>1, EngineAssumption, FS_Subset
<1>2. t \in deploy.callers
  BY DEF OthersQuiet
<1>3. deploy.callers = {t}
  BY <1>1, <1>2, FS_Singleton DEF SequentialCaller
<1>. QED
  BY <1>3 DEF OthersQuiet, OneWriter, MayWrite

\* Of the others nothing is to be shown.
LEMMA CallerSteps ==
    ASSUME CoherenceInv, SequentialCaller, EngineInv', UNCHANGED deploy, NEW t \in Threads,
           pc[t] # "idle" \/ t \in deploy.callers,
           \A u \in Threads \ {t} : UNCHANGED <<pc[u], seen[u]>>,
           ~alarm', FillFacts(t)', SeenFacts(t)', MemoryLive'
    PROVE  CoherenceFacts'
<1>1. deploy.callers = {t} /\ \A u \in Threads \ {t} : pc[u] = "idle"
  BY SoleCaller DEF CoherenceInv, CoherenceFacts, FreshInv
<1>2. OthersQuiet'
  BY <1>1 DEF OthersQuiet
<1>3. ASSUME NEW u \in Threads, u # t
      PROVE  FillFacts(u)' /\ SeenFacts(u)'
  BY <1>1, <1>3 DEF FillFacts, SeenFacts, CoherenceInv, CoherenceFacts
<1>. QED
  BY <1>2, <1>3 DEF CoherenceFacts

\* The cache may forget while no mutation is being published.
LEMMA MemoryForgets ==
    ASSUME CoherenceInv, SequentialCaller, NEW t \in Threads, pc[t] # "idle" \/ t \in deploy.callers,
           UNCHANGED live, ~Publishing(t),
           \A p \in ReadPrograms : memory'[p] \in {memory[p], NoResult}
    PROVE  MemoryLive'
<1>1. \A u \in Threads \ {t} : pc[u] = "idle"
  BY SoleCaller DEF CoherenceInv, CoherenceFacts, FreshInv
<1>2. \A u \in Threads : ~Publishing(u)
  BY <1>1 DEF Publishing
<1>3. \A p \in ReadPrograms : CurrentResult(p)' = CurrentResult(p)
  BY DEF CurrentResult
<1>. QED
  BY <1>2, <1>3 DEF MemoryLive, CoherenceInv, CoherenceFacts

\* Nothing has been scanned before the first clause.
LEMMA NothingBefore ==
    ASSUME EngineInv, NEW t \in Threads, query[t] # NoQuery, ip[t] = 1, NEW op
    PROVE  TypesBefore(op, t) = {}
<1>1. Program(t) \in Seq(Clauses)
  BY ProgramTyped
<1>. QED
  BY <1>1 DEF TypesBefore

LEMMA EntryCoherent ==
    ASSUME CoherenceInv, SequentialCaller, EngineInv', UNCHANGED deploy, NEW t \in Threads,
           \/ \E p \in Programs, timed \in BOOLEAN : Start(t, p, timed)
           \/ CacheHit(t) \/ CacheMiss(t)
    PROVE  CoherenceFacts'
<1>. USE DEF CoherenceInv, CoherenceFacts, FreshInv, EngineInv, EngineTypeOK
<1>1. CASE \E p \in Programs, timed \in BOOLEAN : Start(t, p, timed)
  <2>1. PICK p \in Programs, timed \in BOOLEAN : Start(t, p, timed)
    BY <1>1
  <2>2. /\ t \in deploy.callers
        /\ pc[t] = "idle" /\ pc' = [pc EXCEPT ![t] = "lookup"]
        /\ UNCHANGED <<seen, live, memory>>
        /\ alarm' = (alarm \/ ArmsAlarm(t, timed))
        /\ timed => deploy.timed
    BY <2>1 DEF Start, Goto, contextVars, cacheVars, Cache!Ask
  <2>3. ~alarm'
    BY <2>2 DEF ArmsAlarm, SequentialCaller
  <2>4. FillFacts(t)' /\ SeenFacts(t)'
    BY <2>2 DEF FillFacts, SeenFacts
  <2>5. MemoryLive'
    BY <2>2, MemoryForgets DEF Publishing
  <2>. QED
    BY <2>2, <2>3, <2>4, <2>5, CallerSteps
<1>2. CASE CacheHit(t)
  <2>1. /\ pc[t] = "lookup" /\ pc' = [pc EXCEPT ![t] = "idle"]
        /\ UNCHANGED <<seen, live, memory, alarm>>
    BY <1>2 DEF CacheHit, Goto, contextVars, Cache!Hit
  <2>2. FillFacts(t)' /\ SeenFacts(t)'
    BY <2>1 DEF FillFacts, SeenFacts
  <2>3. MemoryLive'
    BY <2>1, MemoryForgets DEF Publishing
  <2>. QED
    BY <2>1, <2>2, <2>3, CallerSteps
<1>3. CASE CacheMiss(t)
  <2>1. /\ pc[t] = "lookup" /\ pc' = [pc EXCEPT ![t] = "running"]
        /\ ip' = [ip EXCEPT ![t] = 1]
        /\ UNCHANGED <<seen, live, alarm, query>>
        /\ \A p \in ReadPrograms : memory'[p] \in {memory[p], NoResult}
    BY <1>3 DEF CacheMiss, BeginQuery, Goto, Cache!Miss, Cache!Without
  <2>2. FillFacts(t)' /\ SeenFacts(t)'
    <3>1. Reading(t)' => TypesBefore("scan", t)' = {}
      <4>. SUFFICES ASSUME Reading(t)' PROVE TypesBefore("scan", t)' = {}
        OBVIOUS
      <4>1. Program(t)' \in Seq(Clauses) /\ ip'[t] = 1
        BY <2>1, ProgramTyped DEF Reading, Program
      <4>. QED
        BY <4>1 DEF TypesBefore
    <3>2. seen'[t] = NothingSeen
      BY <2>1 DEF SeenFacts
    <3>. QED
      BY <2>1, <3>1, <3>2 DEF FillFacts, SeenFacts, NothingSeen
  <2>3. MemoryLive'
    BY <2>1, MemoryForgets DEF Publishing
  <2>. QED
    BY <2>1, <2>2, <2>3, CallerSteps
<1>. QED
  BY <1>1, <1>2, <1>3

\* A scan that is through has seen the canonical table of its clause.
LEMMA ScanSeesLive ==
    ASSUME CoherenceInv, SequentialCaller, EngineInv', NEW t \in Threads,
           ip[t] \in DOMAIN Program(t), Clause(t).op = "scan", Clause(t).type \in Types,
           pc[t] \in {"running", "filling"}, pc' = [pc EXCEPT ![t] = "running"],
           See(t, Clause(t).type, live[Clause(t).type]), NextClause(t),
           UNCHANGED <<live, query>>
    PROVE  SeenFacts(t)'
<1>. USE DEF CoherenceInv, CoherenceFacts, FreshInv, EngineInv, EngineTypeOK
<1>. DEFINE c == Clause(t).type
<1>1. /\ seen'[t][c] = live[c]
      /\ \A e \in Types : e # c => seen'[t][e] = seen[t][e]
      /\ ip'[t] = ip[t] + 1 /\ pc'[t] = "running"
  BY DEF See, NextClause, Results
<1>2. Reading(t)' => /\ Reading(t) /\ Program(t)' = Program(t) /\ Program(t) \in Seq(Clauses)
  BY ProgramTyped DEF Reading, Program
<1>3. Reading(t)' => TypesBefore("scan", t)' = TypesBefore("scan", t) \union {c}
  BY <1>1, <1>2 DEF TypesBefore, Clause
<1>4. Reading(t)' => \A e \in Types :
        seen[t][e] = IF e \in TypesBefore("scan", t) THEN live[e] ELSE Unread
  BY <1>2 DEF SeenFacts
<1>. QED
  BY <1>1, <1>3, <1>4 DEF SeenFacts

LEMMA ScanCoherent ==
    ASSUME CoherenceInv, SequentialCaller, EngineInv', UNCHANGED deploy, NEW t \in Threads,
           ScanClause(t) \/ FillClause(t) \/ Spin(t)
    PROVE  CoherenceFacts'
<1>. USE DEF CoherenceInv, CoherenceFacts, FreshInv, EngineInv, EngineTypeOK
<1>. DEFINE c == Clause(t).type
<1>1. /\ pc[t] \in {"running", "filling"} /\ UNCHANGED <<live, memory, alarm, query>>
      /\ \A u \in Threads \ {t} : UNCHANGED <<pc[u], seen[u]>>
  BY DEF ScanClause, FillClause, Spin, ScanCached, ScanSource, ScanFill, See, Goto, InLoop,
         contextVars, cacheVars
<1>2. MemoryLive'
  BY <1>1, MemoryForgets DEF Publishing
<1>3. FillFacts(t)' /\ SeenFacts(t)'
  <2>1. CASE ScanClause(t)
    <3>1. pc[t] = "running" /\ c \in Types /\ Clause(t).op = "scan" /\ ip[t] \in DOMAIN Program(t)
      <4>1. pc[t] = "running" /\ Clause(t) \in Clauses /\ query[t] # NoQuery
        BY <2>1, ClauseTyped DEF ScanClause, InLoop, QueryKnown
      <4>. QED
        BY <2>1, <4>1, ProgramTyped DEF ScanClause, InLoop, Clauses
    <3>2. CASE /\ ScanCached(t, c) /\ See(t, c, lookup_cache[c])
               /\ NextClause(t) /\ UNCHANGED pc
      <4>1. NoCommitUnderWay
        <5>1. \A u \in Threads : pc[u] # "commit"
          BY <3>1, SoleCaller
        <5>. QED
          BY <5>1 DEF PromotesInCommit, NoCommitUnderWay
      <4>2. lookup_cache[c] = live[c]
        BY <3>1, <3>2, <4>1, LookupInvFresh DEF LookupCacheFresh, ScanCached
      <4>3. pc' = [pc EXCEPT ![t] = "running"]
        BY <3>1, <3>2
      <4>4. SeenFacts(t)'
        BY <1>1, <3>1, <3>2, <4>2, <4>3, ScanSeesLive
      <4>. QED
        BY <4>3, <4>4 DEF FillFacts
    <3>3. CASE ScanSource(t, c) /\ Goto(t, "filling") /\ UNCHANGED <<seen, ip>>
      <4>1. fill'[t] = [type |-> c, df |-> live[c], current |-> TRUE]
        BY <3>3 DEF ScanSource, ContextTypeOK
      <4>2. FillFacts(t)'
        BY <1>1, <4>1 DEF FillFacts
      <4>3. SeenFacts(t)'
        <5>1. /\ Reading(t)' <=> Reading(t)
              /\ Program(t)' = Program(t)
              /\ TypesBefore("scan", t)' = TypesBefore("scan", t)
          BY <1>1, <3>3 DEF Reading, Program, TypesBefore
        <5>2. pc'[t] = "filling"
          BY <3>3 DEF Goto
        <5>. QED
          BY <1>1, <3>1, <3>3, <5>1, <5>2 DEF SeenFacts
      <4>. QED
        BY <4>2, <4>3
    <3>. QED
      BY <2>1, <3>2, <3>3 DEF ScanClause
  <2>2. CASE FillClause(t)
    <3>1. /\ pc[t] = "filling" /\ pc' = [pc EXCEPT ![t] = "running"]
          /\ fill[t] # NoFill /\ NextClause(t)
          /\ See(t, fill[t].type, fill[t].df)
      BY <2>2 DEF FillClause, ScanFill, Goto
    <3>2. fill[t] \in Fills
      BY <3>1 DEF ContextTypeOK, Fills
    <3>3. /\ ip[t] \in DOMAIN Program(t) /\ Clause(t).op = "scan"
          /\ fill[t].type = c /\ fill[t].df = live[c] /\ c \in Types
      BY <3>1, <3>2 DEF StaysInv, FillsForScans, FillFacts, Fills
    <3>4. SeenFacts(t)'
      BY <1>1, <3>1, <3>3, ScanSeesLive
    <3>. QED
      BY <3>1, <3>4 DEF FillFacts
  <2>3. CASE Spin(t)
    BY <2>3 DEF Spin, Goto, FillFacts, SeenFacts
  <2>. QED
    BY <2>1, <2>2, <2>3
<1>4. ~alarm'
  BY <1>1
<1>. QED
  BY <1>1, <1>2, <1>3, <1>4, CallerSteps

\* Mutations, and queries that fail, change no canonical table.
LEMMA WriteCoherent ==
    ASSUME CoherenceInv, SequentialCaller, EngineInv', UNCHANGED deploy, NEW t \in Threads,
           MutateClause(t) \/ Fail(t) \/ Return(t)
    PROVE  CoherenceFacts'
<1>. USE DEF CoherenceInv, CoherenceFacts, FreshInv, EngineInv, EngineTypeOK
<1>1. /\ pc[t] \in {"running", "done"} /\ UNCHANGED <<live, memory>>
      /\ \A u \in Threads \ {t} : UNCHANGED <<pc[u], seen[u]>>
      /\ ~alarm'
  <2>1. CASE MutateClause(t)
    BY <2>1 DEF MutateClause, Mutate, InLoop, cacheVars
  <2>2. CASE Fail(t)
    BY <2>2 DEF Fail, Abort, Rollback, InLoop, Goto, cacheVars
  <2>3. CASE Return(t)
    BY <2>3 DEF Return, Goto, contextVars, cacheVars
  <2>. QED
    BY <2>1, <2>2, <2>3
<1>2. MemoryLive'
  BY <1>1, MemoryForgets DEF Publishing
<1>3. FillFacts(t)' /\ SeenFacts(t)'
  <2>1. CASE MutateClause(t)
    <3>1. pc' = pc /\ query' = query /\ pc[t] = "running" /\ InLoop(t) /\ Clause(t).op = "mutate"
      BY <2>1 DEF MutateClause, InLoop
    <3>2. IsMutation(Program(t))
      <4>1. query[t] # NoQuery
        BY <3>1 DEF QueryKnown
      <4>2. ip[t] \in DOMAIN Program(t)
        BY <3>1, <4>1, ProgramTyped DEF InLoop
      <4>3. Clause(t).type \in TypesWith("mutate", Program(t))
        BY <3>1, <4>2 DEF Clause, TypesWith
      <4>. QED
        BY <4>3 DEF IsMutation
    <3>. QED
      BY <3>1, <3>2 DEF FillFacts, SeenFacts, Reading, Program
  <2>2. CASE Fail(t)
    BY <2>2 DEF Fail, Abort, Goto, FillFacts, SeenFacts
  <2>3. CASE Return(t)
    BY <2>3 DEF Return, Goto, FillFacts, SeenFacts, Reading
  <2>. QED
    BY <2>1, <2>2, <2>3
<1>. QED
  BY <1>1, <1>2, <1>3, CallerSteps

\* A commit promotes the tables of a mutation, which then empties the cache; a
\* query that only reads leaves the tables alone, and its result is current.
LEMMA CommitCoherent ==
    ASSUME CoherenceInv, SequentialCaller, EngineInv', UNCHANGED deploy, NEW t \in Threads,
           BeginCommit(t) \/ PromoteOne(t) \/ Commit(t)
    PROVE  CoherenceFacts'
<1>. USE DEF CoherenceInv, CoherenceFacts, FreshInv, EngineInv, EngineTypeOK
<1>1. /\ pc[t] \in {"running", "commit"} /\ UNCHANGED <<memory, query, ip, seen>>
      /\ pc'[t] \in {"commit", "committed"}
      /\ \A u \in Threads \ {t} : UNCHANGED <<pc[u], seen[u]>>
      /\ ~alarm'
  BY DEF BeginCommit, PromoteOne, Commit, Goto, engineVars, contextVars, cacheVars
<1>2. CASE Mutating(t)
  <2>1. Publishing(t)'
    BY <1>1, <1>2 DEF Publishing, Mutating, Program
  <2>2. MemoryLive'
    BY <2>1 DEF MemoryLive
  <2>3. FillFacts(t)' /\ SeenFacts(t)'
    BY <1>1, <1>2 DEF FillFacts, SeenFacts, Reading, Mutating, Program
  <2>. QED
    BY <1>1, <2>2, <2>3, CallerSteps
<1>3. CASE ~Mutating(t)
  <2>1. UNCHANGED live
    <3>1. CASE PromoteOne(t)
      <4>1. PICK e \in Types : Promote(t, e)
        BY <3>1 DEF PromoteOne
      <4>2. shadow[t][e] # NoTable
        BY <4>1 DEF Promote, Written
      <4>3. ShadowFacts(t)
        BY <1>1, SoleCaller DEF StaysInv, ShadowsFaithful
      <4>. QED
        BY <1>3, <4>2, <4>3 DEF ShadowFacts
    <3>2. CASE BeginCommit(t) \/ Commit(t)
      BY <3>2 DEF BeginCommit, Commit, EndCommit, contextVars
    <3>. QED
      BY <3>1, <3>2
  <2>2. MemoryLive'
    BY <1>1, <1>3, <2>1, MemoryForgets DEF Publishing
  <2>3. ip[t] > Len(Program(t)) \/ (Reading(t) => pc[t] = "commit")
    BY DEF BeginCommit, PromoteOne, Commit
  <2>4. FillFacts(t)' /\ SeenFacts(t)'
    BY <1>1, <2>1, <2>3 DEF FillFacts, SeenFacts, Reading, Program, TypesBefore
  <2>. QED
    BY <1>1, <2>2, <2>4, CallerSteps
<1>. QED
  BY <1>2, <1>3

\* The result that is stored is the result the query would give now.
LEMMA PublishCoherent ==
    ASSUME CoherenceInv, SequentialCaller, EngineInv', UNCHANGED deploy, NEW t \in Threads,
           Publish(t)
    PROVE  CoherenceFacts'
<1>. USE DEF CoherenceInv, CoherenceFacts, FreshInv, EngineInv, EngineTypeOK
<1>1. /\ pc[t] = "committed" /\ pc'[t] = "done" /\ query[t] # NoQuery
      /\ UNCHANGED <<live, query, seen>>
      /\ \A u \in Threads \ {t} : UNCHANGED <<pc[u], seen[u]>>
      /\ ~alarm'
  BY DEF Publish, Goto, contextVars, QueryKnown
<1>2. deploy.callers = {t} /\ \A u \in Threads \ {t} : pc[u] = "idle"
  BY <1>1, SoleCaller
<1>3. \A p \in ReadPrograms : CurrentResult(p)' = CurrentResult(p)
  BY <1>1 DEF CurrentResult
<1>4. MemoryLive'
  <2>1. CASE IsMutation(Program(t))
    <3>1. memory' = [p \in ReadPrograms |-> NoResult]
      BY <1>2, <2>1 DEF Publish, Cache!Invalidate, Cache!Without
    <3>. QED
      BY <3>1 DEF MemoryLive
  <2>2. CASE ~IsMutation(Program(t))
    <3>1. Program(t) \in ReadPrograms /\ Program(t) \in Seq(Clauses)
      BY <1>1, <2>2, ProgramTyped DEF ReadPrograms
    <3>2. seen[t] = CurrentResult(Program(t))
      <4>1. TypesBefore("scan", t) = TypesWith("scan", Program(t))
        <5>1. \A j \in DOMAIN Program(t) : j < ip[t]
          BY <1>1, <2>2, <3>1 DEF SeenFacts, Reading
        <5>. QED
          BY <5>1 DEF TypesBefore, TypesWith
      <4>2. \A e \in Types :
              seen[t][e] = IF e \in TypesBefore("scan", t) THEN live[e] ELSE Unread
        BY <1>1, <2>2 DEF SeenFacts, Reading
      <4>3. seen[t] = [e \in Types |-> seen[t][e]]
        BY DEF Results
      <4>. QED
        BY <4>1, <4>2, <4>3 DEF CurrentResult
    <3>3. \A u \in Threads : ~Publishing(u)
      BY <1>2, <2>2 DEF Publishing, Mutating
    <3>4. \A p \in ReadPrograms : memory[p] # NoResult => memory[p] = CurrentResult(p)
      BY <3>3 DEF MemoryLive
    <3>5. memory' = [memory EXCEPT ![Program(t)] = seen[t]] \/ memory' = memory
      BY <2>2 DEF Publish, Cache!Remember, cacheVars
    <3>6. \A p \in ReadPrograms : memory'[p] # NoResult => memory'[p] = CurrentResult(p)
      BY <3>1, <3>2, <3>4, <3>5
    <3>. QED
      BY <1>3, <3>6 DEF MemoryLive
  <2>. QED
    BY <2>1, <2>2
<1>5. FillFacts(t)' /\ SeenFacts(t)'
  BY <1>1 DEF FillFacts, SeenFacts
<1>. QED
  BY <1>1, <1>4, <1>5, CallerSteps

LEMMA CoherenceInit == Init => CoherenceInv
<1>. SUFFICES ASSUME Init PROVE CoherenceInv
  OBVIOUS
<1>1. ~alarm
  BY Zenon DEF Init
<1>2. OthersQuiet /\ MemoryLive
  BY EngineAssumption DEF Init, Cache!Init, OthersQuiet, MemoryLive
<1>3. \A t \in Threads : FillFacts(t) /\ SeenFacts(t)
  BY DEF Init, FillFacts, SeenFacts
<1>. QED
  BY <1>1, <1>2, <1>3, StaysInit, FreshInit DEF CoherenceInv, CoherenceFacts

LEMMA NextCoherent ==
    ASSUME CoherenceInv, [Next]_vars
    PROVE  CoherenceInv'
<1>1. StaysInv' /\ FreshInv' /\ UNCHANGED deploy
  BY NextStays, NextKeepsFresh, DeploymentKept DEF CoherenceInv
<1>2. EngineInv'
  BY <1>1 DEF FreshInv
<1>3. ASSUME SequentialCaller
      PROVE  CoherenceFacts'
  <2>1. CASE UNCHANGED vars
    BY <1>3, <2>1
    DEF CoherenceInv, CoherenceFacts, OthersQuiet, MemoryLive, FillFacts, SeenFacts, Reading,
        Publishing, Mutating, Program, TypesBefore, CurrentResult,
        vars, contextVars, engineVars, cacheVars
  <2>2. ~AlarmFires
    BY <1>3 DEF CoherenceInv, CoherenceFacts, AlarmFires, AlarmOutside, AlarmInLookup,
                AlarmInClause, AlarmInCommit, AlarmAfterCommit, Rings
  <2>. QED
    BY <1>1, <1>2, <1>3, <2>1, <2>2, EntryCoherent, ScanCoherent, WriteCoherent,
       CommitCoherent, PublishCoherent
    DEF Next, Advance
<1>. QED
  BY <1>1, <1>3 DEF CoherenceInv, SequentialCaller

\* For a single caller whose queries no signal interrupts, every result in the
\* result cache is, between queries, the one that running the query would give:
\* whatever mutations committed, failed or were rolled back in the meantime.
THEOREM SequentialCoherenceCorrect == Spec => []SequentialCoherence
<1>1. CoherenceInv => SequentialCoherence
  BY DEF CoherenceInv, CoherenceFacts, MemoryLive, Publishing, SequentialCoherence, NoStaleResult
<1>. QED
  BY <1>1, CoherenceInit, NextCoherent, PTL DEF Spec
=============================================================================
