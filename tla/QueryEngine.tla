----------------------------- MODULE QueryEngine -----------------------------
(***************************************************************************)
(* Star.execute_query (star.py) from the moment it arms its timeout to its *)
(* return: the result-cache fast path, the clause loop and the transaction *)
(* of clause_executor.py around it, the cache update, the cleanup of       *)
(* timeout_handler.py.  Queries run in several threads on one Star.        *)
(*                                                                         *)
(* The result cache enters as its contract (CacheContract; ResultCache is  *)
(* shown to implement it).  The alarm signal is delivered to the main      *)
(* thread at any point between two of its steps and raises there.          *)
(* The cooperative deadline is the exception a clause may raise at any     *)
(* time (Fail): it is looked at between clauses only.                      *)
(***************************************************************************)
EXTENDS TransactionalContext, Sequences

CONSTANTS
    Main,           \* the main thread
    Programs,       \* query texts: sequences of clauses
    Deployments,    \* the ways the Star is used that are to be explored
    NoQuery, NoResult, Unread,
    TxnBound        \* how many mutating queries are run

Clauses == [op : {"scan", "mutate"}, type : Types]

ASSUME EngineAssumption ==
    /\ Main \in Threads /\ IsFiniteSet(Threads)
    /\ TxnBound \in Nat /\ Txns = 1 .. TxnBound
    /\ Programs \subseteq Seq(Clauses)
    /\ Deployments \subseteq [callers : SUBSET Threads, writers : SUBSET Threads,
                              cached : BOOLEAN, timed : BOOLEAN,
                              lockTimeouts : BOOLEAN]
    /\ \A p \in Programs, timed \in BOOLEAN, n \in Txns \union {0} :
         [program |-> p, timed |-> timed, txn |-> n] # NoQuery

TypesWith(op, p) == {p[i].type : i \in {j \in DOMAIN p : p[j].op = op}}
IsMutation(p) == TypesWith("mutate", p) # {}
ReadPrograms == {p \in Programs : ~IsMutation(p)}
Results == [Types -> {Unread} \union Version]
NothingSeen == [e \in Types |-> Unread]

VARIABLES
    deploy,     \* who calls, who writes, whether results are cached, whether
                \* queries have timeouts, whether the cache lock can time out
    pc,         \* how far execute_query is in each thread
    query,      \* the query it runs
    ip,         \* the clause it is at
    seen,       \* what its scans have returned
    alarm,      \* a SIGALRM is pending
    stray,      \* history: an alarm interrupted code it was not set for
    history,    \* history: every mutating query, with its fate
    memory, era, asked, answer  \* the result cache, as its contract sees it

engineVars == <<deploy, pc, query, ip, seen, alarm, stray, history>>
cacheVars == <<memory, era, asked, answer>>
vars == <<contextVars, engineVars, cacheVars>>

Cache == INSTANCE CacheContract
            WITH Keys <- ReadPrograms, Frames <- Results, NoFrame <- NoResult

Fates == {"running", "committing", "committed", "rolledBack", "interrupted"}

Init ==
    /\ ContextInit
    /\ Cache!Init
    /\ deploy \in Deployments
    /\ pc = [t \in Threads |-> "idle"]
    /\ query = [t \in Threads |-> NoQuery]
    /\ ip = [t \in Threads |-> 1]
    /\ seen = [t \in Threads |-> NothingSeen]
    /\ alarm = FALSE
    /\ stray = FALSE
    /\ history = <<>>

Goto(t, where) == pc' = [pc EXCEPT ![t] = where]
Program(t) == query[t].program
Txn(t) == query[t].txn
\* Marks what has become of the mutating query of t, if it is one.
Fate(t, fate) ==
    history' = IF IsMutation(Program(t))
               THEN [history EXCEPT ![Txn(t)].fate = fate] ELSE history
-----------------------------------------------------------------------------
(***************************************************************************)
(* Entry and the cache fast path.                                          *)
(***************************************************************************)
ArmsOffMain(t, timed) == timed /\ t # Main     \* mutant: thread test inverted

\* TimeoutHandler.__enter__ arms SIGALRM only in the main thread; an alarm that
\* is already pending is replaced.
ArmsAlarm(t, timed) == timed /\ t = Main

Start(t, p, timed) ==
    /\ pc[t] = "idle"
    /\ t \in deploy.callers
    /\ IsMutation(p) => t \in deploy.writers /\ Len(history) < TxnBound
    /\ timed => deploy.timed
    /\ query' = [query EXCEPT ![t] = [program |-> p, timed |-> timed,
                                      txn |-> IF IsMutation(p) THEN Len(history) + 1 ELSE 0]]
    /\ history' = IF IsMutation(p)
                  THEN Append(history, [program |-> p, fate |-> "running"]) ELSE history
    /\ alarm' = (alarm \/ ArmsAlarm(t, timed))
    /\ Goto(t, "lookup")
    /\ IF p \in ReadPrograms THEN Cache!Ask(t, p) ELSE UNCHANGED cacheVars
    /\ UNCHANGED <<contextVars, deploy, ip, seen, stray>>

\* A hit returns at once: the try statement whose finally clause cancels the
\* alarm has not been entered.
CacheHit(t) ==
    /\ pc[t] = "lookup"
    /\ deploy.cached
    /\ Cache!Hit(t, Program(t))
    /\ Goto(t, "idle")
    /\ query' = [query EXCEPT ![t] = NoQuery]
    /\ UNCHANGED <<contextVars, deploy, ip, seen, alarm, stray, history>>

CacheMissFromZero(t) ==     \* mutant: the clause loop starts one too early
    /\ pc[t] = "lookup"
    /\ Cache!Miss(t)
    /\ BeginQuery(t)
    /\ ip' = [ip EXCEPT ![t] = 0]
    /\ Goto(t, "running")
    /\ UNCHANGED <<deploy, query, seen, alarm, stray, history>>

\* A miss is possible at any time: the entry may be evicted or expired.  The
\* result of a mutating query is never stored, so looking it up always misses.
CacheMiss(t) ==
    /\ pc[t] = "lookup"
    /\ Cache!Miss(t)
    /\ BeginQuery(t)
    /\ ip' = [ip EXCEPT ![t] = 1]
    /\ Goto(t, "running")
    /\ UNCHANGED <<deploy, query, seen, alarm, stray, history>>
-----------------------------------------------------------------------------
(***************************************************************************)
(* The clause loop of execute_query_inner.                                 *)
(***************************************************************************)
InLoop(t) == pc[t] = "running" /\ ip[t] <= Len(Program(t))
Clause(t) == Program(t)[ip[t]]
NextClause(t) == ip' = [ip EXCEPT ![t] = @ + 1]
See(t, e, df) == seen' = [seen EXCEPT ![t][e] = df]

ScanClause(t) ==
    /\ InLoop(t) /\ Clause(t).op = "scan"
    /\ \/ /\ ScanCached(t, Clause(t).type)
          /\ See(t, Clause(t).type, lookup_cache[Clause(t).type])
          /\ NextClause(t)
          /\ UNCHANGED pc
       \/ /\ ScanSource(t, Clause(t).type)
          /\ Goto(t, "filling")
          /\ UNCHANGED <<seen, ip>>
    /\ UNCHANGED <<deploy, query, alarm, stray, history, cacheVars>>

FillClause(t) ==
    /\ pc[t] = "filling"
    /\ See(t, fill[t].type, fill[t].df)
    /\ ScanFill(t)
    /\ NextClause(t)
    /\ Goto(t, "running")
    /\ UNCHANGED <<deploy, query, alarm, stray, history, cacheVars>>

MutateClause(t) ==
    /\ InLoop(t) /\ Clause(t).op = "mutate"
    /\ Mutate(t, Clause(t).type, Txn(t))
    /\ NextClause(t)
    /\ UNCHANGED <<deploy, pc, query, seen, alarm, stray, history, cacheVars>>

\* A clause that computes for longer than anybody will wait.
Spin(t) ==
    /\ InLoop(t)
    /\ Goto(t, "spinning")
    /\ UNCHANGED <<contextVars, deploy, query, ip, seen, alarm, stray, history, cacheVars>>

\* An exception leaves execute_query_binding_frame before it has committed.
Abort(t, fate) ==
    /\ Rollback(t)
    /\ Fate(t, fate)
    /\ Goto(t, "done")

\* check_timeout or the clause itself raises.
Fail(t) ==
    /\ InLoop(t)
    /\ Abort(t, "rolledBack")
    /\ UNCHANGED <<deploy, query, ip, seen, alarm, stray, cacheVars>>
-----------------------------------------------------------------------------
(***************************************************************************)
(* commit_query, the cache update and the return.                          *)
(***************************************************************************)
BeginCommit(t) ==
    /\ pc[t] = "running" /\ ip[t] > Len(Program(t))
    /\ Goto(t, "commit")
    /\ Fate(t, "committing")
    /\ UNCHANGED <<contextVars, deploy, query, ip, seen, alarm, stray, cacheVars>>

PromoteOne(t) ==
    /\ pc[t] = "commit"
    /\ \E e \in Types : Promote(t, e)
    /\ UNCHANGED <<engineVars, cacheVars>>

Commit(t) ==
    /\ pc[t] = "commit"
    /\ EndCommit(t)
    /\ Fate(t, "committed")
    /\ Goto(t, "committed")
    /\ UNCHANGED <<deploy, query, ip, seen, alarm, stray, cacheVars>>

\* When the write lock of the result cache times out, which takes another caller
\* to hold it, put and invalidate do nothing and say nothing.
PublishReadsOnly(t) ==      \* mutant: a mutation does not invalidate
    /\ pc[t] = "committed"
    /\ IF IsMutation(Program(t)) THEN UNCHANGED cacheVars
       ELSE deploy.cached /\ Cache!Remember(Program(t), seen[t])
    /\ Goto(t, "done")
    /\ UNCHANGED <<contextVars, deploy, query, ip, seen, alarm, stray, history>>

Publish(t) ==
    /\ pc[t] = "committed"
    /\ IF IsMutation(Program(t))
       THEN \/ Cache!Invalidate
            \/ deploy.lockTimeouts /\ deploy.callers # {t} /\ UNCHANGED cacheVars
       ELSE \/ deploy.cached /\ Cache!Remember(Program(t), seen[t])
            \/ UNCHANGED cacheVars
    /\ Goto(t, "done")
    /\ UNCHANGED <<contextVars, deploy, query, ip, seen, alarm, stray, history>>

ReturnStillArmed(t) ==      \* mutant: the alarm is not cancelled
    /\ pc[t] = "done"
    /\ query' = [query EXCEPT ![t] = NoQuery]
    /\ seen' = [seen EXCEPT ![t] = NothingSeen]
    /\ ip' = [ip EXCEPT ![t] = 1]
    /\ Goto(t, "idle")
    /\ UNCHANGED <<contextVars, deploy, alarm, stray, history, cacheVars>>

\* The finally clause.  TimeoutHandler.__exit__ cancels the alarm only if this
\* query has set one.
Return(t) ==
    /\ pc[t] = "done"
    /\ alarm' = (alarm /\ ~ArmsAlarm(t, query[t].timed))
    /\ query' = [query EXCEPT ![t] = NoQuery]
    /\ seen' = [seen EXCEPT ![t] = NothingSeen]
    /\ ip' = [ip EXCEPT ![t] = 1]
    /\ Goto(t, "idle")
    /\ UNCHANGED <<contextVars, deploy, stray, history, cacheVars>>
-----------------------------------------------------------------------------
(***************************************************************************)
(* SIGALRM raises QueryTimeoutError wherever the main thread is.           *)
(***************************************************************************)
Timed(t) == query[t] # NoQuery /\ query[t].timed

Rings ==
    /\ alarm
    /\ alarm' = FALSE
    /\ stray' = (stray \/ ~Timed(Main))

\* In the caller's code: execute_query is not there to catch it.
AlarmOutside ==
    /\ Rings /\ pc[Main] = "idle"
    /\ UNCHANGED <<contextVars, deploy, pc, query, ip, seen, history, cacheVars>>

\* During the cache lookup: the exception leaves execute_query at once.
AlarmInLookup ==
    /\ Rings /\ pc[Main] = "lookup"
    /\ Goto(Main, "idle")
    /\ query' = [query EXCEPT ![Main] = NoQuery]
    /\ Fate(Main, "rolledBack")
    /\ Cache!Miss(Main)
    /\ UNCHANGED <<contextVars, deploy, ip, seen>>

AlarmInClause ==
    /\ Rings /\ pc[Main] \in {"running", "filling", "spinning"}
    /\ Abort(Main, "rolledBack")
    /\ UNCHANGED <<deploy, query, ip, seen, cacheVars>>

\* In commit_query: its finally clause and the rollback drop the shadow, and
\* the tables that are already assigned stay.
AlarmInCommit ==
    /\ Rings /\ pc[Main] = "commit"
    /\ Abort(Main, "interrupted")
    /\ UNCHANGED <<deploy, query, ip, seen, cacheVars>>

\* After the commit: the result is lost and the cache is not updated.
AlarmAfterCommit ==
    /\ Rings /\ pc[Main] \in {"committed", "done"}
    /\ Goto(Main, "done")
    /\ UNCHANGED <<contextVars, deploy, query, ip, seen, history, cacheVars>>

AlarmFires ==
    AlarmOutside \/ AlarmInLookup \/ AlarmInClause \/ AlarmInCommit \/ AlarmAfterCommit
-----------------------------------------------------------------------------
Advance(t) ==
    \/ CacheHit(t) \/ CacheMiss(t)
    \/ ScanClause(t) \/ FillClause(t) \/ MutateClause(t) \/ Fail(t)
    \/ BeginCommit(t) \/ PromoteOne(t) \/ Commit(t) \/ Publish(t) \/ Return(t)

Next ==
    \/ \E t \in Threads : \/ \E p \in Programs, timed \in BOOLEAN : Start(t, p, timed)
                          \/ Advance(t)
                          \/ Spin(t)
    \/ AlarmFires

\* Threads run, and the operating system delivers a signal that is due.  A
\* clause that spins is not made to end.
Fairness == WF_vars(AlarmFires) /\ \A t \in Threads : WF_vars(Advance(t))

Spec == Init /\ [][Next]_vars /\ Fairness
-----------------------------------------------------------------------------
PCs == {"idle", "lookup", "running", "filling", "spinning", "commit", "committed", "done"}

\* Every thread is at a place of execute_query, and results are made of versions.
EngineTypeOK ==
    /\ ContextTypeOK
    /\ deploy \in Deployments
    /\ pc \in [Threads -> PCs]
    /\ query \in [Threads -> {NoQuery} \union
                    [program : Programs, timed : BOOLEAN, txn : Txns \union {0}]]
    /\ ip \in [Threads -> Nat \ {0}]
    /\ seen \in [Threads -> Results]
    /\ alarm \in BOOLEAN /\ stray \in BOOLEAN
    /\ history \in Seq([program : Programs, fate : Fates])
    /\ memory \in [ReadPrograms -> {NoResult} \union Results]

\* Versions of tables that somebody other than their writer can get hold of.
Visible ==
    {live[e] : e \in Types} \union {lookup_cache[e] : e \in Types}
    \union {fill[t].df : t \in {u \in Threads : fill[u] # NoFill}}
    \union {seen[t][e] : t \in Threads, e \in Types}
    \union {memory[k][e] : k \in {m \in ReadPrograms : memory[m] # NoResult}, e \in Types}

\* Isolation: no table, cache or result shows the writes of a query that has
\* not finished all its clauses, nor of one that failed in them.
NoDirtyRead ==
    \A v \in Visible \ {NoTable, Unread} : \A q \in v :
      history[q].fate \in {"committing", "committed", "interrupted"}

\* With a single writing thread (the model of ADR-004), what a query committed
\* stays in every table it wrote, whoever reads, fails or is interrupted.
CommittedStays ==
    Cardinality(deploy.writers) = 1 =>
      \A q \in DOMAIN history : history[q].fate = "committed" =>
        \A e \in TypesWith("mutate", history[q].program) : q \in live[e]

\* All of a query's writes are in the tables, or none of them.
AllOrNothing ==
    (\A t \in Threads : pc[t] # "commit") =>
      \A q \in DOMAIN history :
        LET wrote == TypesWith("mutate", history[q].program)
        IN  (\A e \in wrote : q \in live[e]) \/ (\A e \in wrote : q \notin live[e])

\* What the query would return if it ran now, alone.
CurrentResult(p) ==
    [e \in Types |-> IF e \in TypesWith("scan", p) THEN live[e] ELSE Unread]

\* When nothing runs, a cached result is the result that running the query
\* would give.
NoStaleResult ==
    (\A t \in Threads : pc[t] = "idle") =>
      \A p \in ReadPrograms : memory[p] # NoResult => memory[p] = CurrentResult(p)

\* The result cache is coherent for a single caller whose queries are not
\* interrupted by a signal, however they fail.
SequentialCaller == Cardinality(deploy.callers) = 1
                    /\ ~(deploy.timed /\ Main \in deploy.callers)
SequentialCoherence == SequentialCaller => NoStaleResult

\* An alarm is pending only while the query that set it runs, so it cannot
\* interrupt anything else.
NoStrayAlarm == ~stray /\ (alarm => Timed(Main))
AlarmConfined == ~deploy.cached => NoStrayAlarm

\* A query with a timeout returns in the main thread even if a clause of it
\* never ends.
TimedQueryReturns == Timed(Main) ~> pc[Main] = "idle"
=============================================================================
