# TLA+ models of PyCypher

PyCypher runs Cypher queries over tables (pandas, Polars, DuckDB) that are
registered as the nodes and relationships of a graph; `nmetl` builds pipelines
on it, `shared` holds logging, metrics and an audit log.  This directory models
the stateful core of `packages/pycypher`; its query language from the parse tree
to the tables; the four engines of frames, the planner and the out-of-core
relation engine; the run of a pipeline; and the services around them.  TLC checks
the models, and TLAPS the theorems.

Throughout, `P/` stands for `src/packages/pycypher/src/pycypher/`, and `N/` for
`src/packages/nmetl/src/nmetl/`.

## The system

A `Star` owns a `Context` (tables, per-query scopes, caches), a `ResultCache`,
a `MutationEngine`, a `ClauseExecutor` and the pattern-matching machinery.  One
`Star` may be used from several threads (`execute_query_async` runs each query
in a worker thread).  `Star.execute_query` does, in this order:

1. push an execution scope, ask the rate limiter, arm the timeout;
2. look the query up in the result cache; a hit returns here;
3. parse, validate, and run the clauses one by one between `begin_query` and
   `commit_query` (or `rollback_query`);
4. invalidate the result cache after a mutation, or store the result;
5. disarm the timeout, drop what is left of the scope.

| part | state | operations | what is hard | what makes it correct |
|---|---|---|---|---|
| result cache lock (`P/result_cache.py`) | three counters, owner, two condition variables | acquire/release for reading and writing, with timeouts | notifies that meet timeouts, writer preference | exclusion, exact counters, no lost wake-up, writers proceed |
| result cache (`P/result_cache.py`) | LRU map, byte count, generation | get, put, invalidate, clear, stats | lock timeouts in every operation, multi-step put | exact bytes, LRU eviction, a hit is the last value stored since the last invalidation |
| Context (`P/relational_models.py`, `P/execution_scope.py`) | tables, shadow tables per query, lookup cache, data epoch | begin, commit, rollback, savepoint | a commit of several assignments beside readers in other threads, exceptions in it | isolation, atomicity, caches agree with the tables |
| scans (`P/scan_operators.py`, `P/binding_frame.py`) | fill the lookup cache | scan, property lookup, mutate | a slow fill that meets a commit | the cache is never older than the tables |
| query execution (`P/star.py`, `P/clause_executor.py`, `P/pipeline.py`) | where each query is | execute_query | every step may fail or be interrupted | no dirty reads, committed work stays, the result cache is coherent |
| timeouts (`P/timeout_handler.py`) | pending SIGALRM, deadline | enter, exit, alarm | an exception between any two steps | the alarm interrupts its own query only; a timed query returns |
| graph indexes (`P/graph_index.py`) | indexes per type, epoch | lazy build, invalidate, lookup | build while a commit runs | an index agrees with the table whenever no commit runs |
| mutation engine (`P/mutation_engine.py`) | writes shadow tables and live attribute maps | CREATE, SET, DELETE, MERGE, REMOVE, FOREACH | identifiers, errors between clauses, reading own writes | distinct identifiers, each clause changes what it names only, all or nothing, a lookup finds what was written |
| expressions and aggregates (`P/*_evaluator.py`, `P/aggregation_planner.py`, `P/relation_sql.py`) | none between calls | filter, group, aggregate | null, predicates split between SQL and pandas, three ways to aggregate side by side | the three-valued logic of Cypher; a group's values are those of its rows |
| paths and joins (`P/path_expander.py`, `P/leapfrog_triejoin.py`, `P/frame_joiner.py`) | none between calls | expand, shortest path, join | bounds, cycles, limits | agree with the relational definition |
| rate limiter (`P/rate_limiter.py`) | token buckets | acquire, reset | concurrent callers, lazy buckets | never more than burst + rate x time, one global limiter |
| cluster (`P/cluster.py`) | workers, router counter | register, deregister, route, health | workers that leave while a query is routed | a query goes to a registered active worker; counters return to zero |
| circuit breaker and table registry (`P/backend_engine.py`, `P/backends/table_registry.py`) | failure counts, states, tables and their entries | success, failure, probe; register, merge, drop | unlocked dictionaries; statements that fail one by one | opens and closes when it should, no permanent outage; a table is the merge of its sources |
| multi-query composition (`P/multi_query_*.py`) | dependency graph | analyse, order, combine | cycles | an order that respects dependencies, or an error |
| audit chain, intent registry (`packages/shared`) | hash chain, claims | append, rotate, verify; register, release | rotation, concurrent appends | the chain verifies after any legal calls; no conflict goes unseen |
| parser, tree and its rewriting (`P/grammar_rule_mixins/`, `P/ast_converter.py`, `P/ast_rewriter.py`) | none between calls | parse tree to tree, tree to text, combining and renaming | literals of the grammar never reach a rule method; every construct passes four programs | the tree says all that was typed; printing, combining and renaming keep the meaning |
| semantic validation (`P/semantic_validator.py`, `P/validate_ast`) | a scope replaced at WITH | two validators | they look at trees, the executor at frames | a query is refused exactly if it would use an undefined variable |
| engines of frames (`P/backend_engine.py`, `P/backends/`) | none, or lazy relations | scan, filter, join, aggregate, sort, ... | four libraries with their own idea of null and order | each does what one algebra says |
| planner and optimizer (`P/query_analyzer.py`, `P/query_planner.py`, `P/query_optimizer.py`, `P/cardinality_estimator.py`, `P/lazy_eval.py`) | statistics, feedback, join plans | analyse, reorder, hint, budget, feed back | feedback of one query changes the plan of the next | which rows a query returns or writes does not depend on the plan |
| relation engine (`P/relation_engine.py`, `P/plan/`, `P/relation_sql.py`) | tables, sequences, bridged functions, handles | register, cycle, translate, emit, run | writes run between the stages of a lazy query; the connection is replaced | what has a plan does what its clauses mean |
| pipeline (`N/cli/pipeline.py`, `N/config.py`, `N/nmetl_cli.py`) | outputs, error tracker, scratch database | run, dry run, validate, list | faults and kills anywhere, error policies, deferred reads | a consumer never before its producer; the exit code says what was written |
| language server, ingestion, scalar functions, sinks | mostly none | conversions and I/O | | see *Not modelled* |

## Modules

| module | models |
|---|---|
| `AbstractRWLock` | what a readers-writer lock promises |
| `ReadWriteLock` | the lock of the result cache |
| `CacheContract` | what `execute_query` expects from its result cache |
| `ResultCache` | the cache on top of `ReadWriteLock` (it extends that module) |
| `TransactionalContext` | tables, shadows, lookup cache, epoch; scans and writes |
| `QueryEngine` | `execute_query` in several threads: extends `TransactionalContext`, uses the result cache as an instance of `CacheContract` |
| `TransactionalContext_proofs`, `QueryEngine_proofs` | lemmas about the operations of the context, theorems about the engine |
| `ResultCache_proofs` | the theorems about the lock and the cache, and that they implement `AbstractRWLock` and `CacheContract` |
| `GraphIndex` | the four kinds of index, their lock and epoch, beside commits: extends `TransactionalContext` |
| `GraphIndex_proofs` | the theorems about the indexes |
| `PropertyGraph` | what a query may do to a graph, whatever its clauses |
| `CypherValues` | null, the chosen rows of a list, functions written over others |
| `GraphQuery` | binding frames, their joins, filters and cached columns; reading and writing clauses on tables of rows; shown to implement `PropertyGraph` |
| `Paths`, `LeapfrogTriejoin` | path searches; the join of three and more frames |
| `Expressions` | WHERE in memory and in SQL; aggregates over frames and groups |
| `Composition` | several queries validated, ordered and combined |
| `Language_proofs` | the theorems about `GraphQuery`, `Paths`, `LeapfrogTriejoin` and `Expressions` |
| `Cluster`, `RateLimiter`, `CircuitBreaker`, `TableRegistry`, `FileIntent`, `AuditChain`, `QueryMetrics` | one service each; `Clock` is the time two of them measure |
| `Services_proofs` | the theorems about seven of the services and all of them together, and about `Composition` |
| `DataInduction` | lemmas about numbers, finite sets and sequences that several of the proofs need |
| `Backends` | what every engine promises of a frame; what the four do |
| `Syntax`, `Scopes`, `FrontEnd` | parse tree to tree; variables as executed and as validated twice; queries as they are typed, and their trees as text, combined, renamed |
| `Planner` | analysis, plans and feedback, and the clauses they steer |
| `RelationPlan`, `RelationEngine`, `RelationQuestions` | queries as plans; tables and the SQL of a plan; a menu of queries |
| `Pipeline` | `nmetl run`, its dry run, `validate`, `list-queries` |
| `Engines_proofs` | the theorems about `Pipeline` and `Backends` |
| `MC*` | instances for TLC |

Composition: `ResultCache` runs its operations inside the acquire and release
steps of `ReadWriteLock` and is shown to implement `CacheContract`;
`QueryEngine` runs its steps on the state of `TransactionalContext` and calls
the cache through the same `CacheContract`.  `GraphIndex` runs on the same
context with indexes in the place of the lookup cache.  `GraphQuery` runs a whole
query on its operators for frames; its tables have rows where those of
`TransactionalContext` have sets of writers, because here one thread asks what a
clause does to the data and there several ask whose data they see.  `FrontEnd`
extends `Scopes` and `Syntax`, and `RelationEngine` extends
`RelationPlan`.  Four MC modules put independent parts
side by side: a behaviour is one of a single part (`focus`).

### ReadWriteLock

One action is one critical section of `_state_lock`, so `acquire_read` is split
where `Condition.wait` releases the mutex: `AcquireRead` (up to the first wait),
`WakeRead` (after a notify), `TimeoutRead` (after the deadline), and the same for
writers.  `pc[t]` says whether a thread is outside, asleep in a wait set, woken,
or holding.  Giving up is allowed whenever the loop condition still holds, since
the deadline may have passed at any re-check; the loop tests the counters first,
so a thread that finds the lock free takes it however late it is.

### ResultCache

Each operation is a `Call` (the early returns and the first lock attempt), the
lock's own steps, one step per critical part - `put` is `PutRemoveOld`, any
number of `PutEvict`, `PutInsert` - and `Leave`.  `TimedOut` is the
`CacheLockTimeoutError` that every operation catches.  `entries` is the
`OrderedDict` as a sequence, `TotalBytes` the last of its running sums; whether
a found entry is too old is a free choice (`ExpiryOn`).  `recency` (pairs of
stored keys, the first used before the second) and `invalidations` are history
variables.

### TransactionalContext and QueryEngine

The contents of a table is the set of mutating queries whose writes it holds:
enough to tell dirty, torn, lost and stale states apart.  A scan is two steps
(read the source, put it in the dict looked at before); a commit is one step per
table and one for the rest.  The flag `current` of a pending fill says whether
the dict it will go to is still the one in `_property_lookup_cache`.  A query is
a program of scan and write clauses; `Fail` is any exception in a clause,
including the cooperative timeout; the `Alarm...` actions deliver SIGALRM to the
main thread in each region of `execute_query`, with the cleanup that region has.
`deploy` picks, at the start, who calls, who writes, whether results are cached
and whether there are timeouts.

### GraphIndex

A lookup is `GetIndex` (take the lock, compare epochs, drop or answer), `Cached`
or `Insert` (build from the live table as it then is, keep, answer), each its own
step; `PromoteTable` and `EndOfCommit` of another thread come between, since a
commit does not take the manager's lock.  Indexes are built as data (neighbours
by node, identifiers by value, sorted arrays with the clipped binary search) from
the rows of a table version, and `answer` records what a lookup returned.
`contents` lists what each table has held and `committed` how far into it the last
returned commit is; a lookup notes the latter when it begins.  The identifiers of
an entity table are distinct integers (`IndexAssumption`), as the sorted arrays
need; `Sorted` puts each at the position that says how many come before it.

### GraphQuery, PropertyGraph

`live` and `live_rels` are the registered tables, `shadow` and `shadow_rels` the
copies of the query, `frame` the current frame with its cached property columns.
One action is one dispatched clause: `ProcessMatch` (patterns, joins of paths,
WHERE, OPTIONAL), `ProcessWith`, `CreateClause`, `SetClause`, `RemoveClause`,
`DeleteClause`, `Merge`, `Foreach`, and `Raise` for an error or the deadline; then
`Commit` or `Rollback`.  A FOREACH, and a MERGE with ON CREATE SET, go on write by
write: `todo` is what is left, a list of frames and the inner clauses still to run on
each, and `Continue` runs the next, which may be a FOREACH itself and puts its rounds
first; any of them may raise, and then none of the rest is run.  Patterns scan the committed tables and
lookups read the copy, as in the code.  A mutation is a fold over rows, items and
paths of a record of the copies, whether there was no error, after which nothing
more is written, the frame of a SET and the variables of a CREATE.  The body of a
FOREACH has a frame of its own per row and element, as `process_foreach` builds it
(`Loops`); its variable has a type if the list names nodes of one type.
`coerce_join` picks one of the shared variables from a Python set: the model takes any.  In the refinement `committed` is what the tables hold and
`working` what the query sees: every step grows, changes or shrinks tables.

### Paths, LeapfrogTriejoin, Expressions, Composition

Each is an algorithm run step by step from every input of an instance and
compared with a definition that knows nothing of it: `Hop` by hop against the set
of all walks; `Meet` and `Leap` against the pairwise join (an iterator is its
frame and the position `cursor` has for it); a predicate pushed to
SQL conjunct by conjunct and evaluated for the rest against `Meaning`, the
three-valued logic as an order, with quantifiers that are unknown where their elements
leave it open (`QuantifierMeant`; `Decided` names the rows where none is unknown);
grouped aggregates against the ungrouped ones over
each group's rows; rounds of the topological sort against the edges it came from.
Expressions are trees: `Terms` has every expression with all of its parts, `Depth`
says how deep they are nested, and what is defined by recursion over them (`Evaluate`,
`SqlValue`, `Meaning`) is a recursive function from expressions to columns, the value
on every row: `evaluate` too evaluates the arguments' columns first.

The other modules of trees and plans (`Syntax` and what extends it, `RelationPlan`,
`RelationEngine`) have RECURSIVE operators, and no theorem is about them.

### Syntax, Scopes, FrontEnd

An expression is `[kind, of, args, binds]` as a parse tree and as a syntax tree;
`Syntax` has an operator per rule method and per converter method, and keeps what
they lose (a label's negation, the brackets of a range, a YIELD).  `Typing` in
`FrontEnd` adds one clause and computes everything the program would say of the
query so far.  `Scopes` runs a query on sets of columns: what each clause needs,
binds and drops, with the columns `compute_live_columns` lets go between clauses;
beside it are the two validators.  `FrontEnd` also prints a tree the way
`ast_rewriter.py` does, and reads it again.

### Backends

A frame is a sequence of columns and one of rows; a lazy frame also has the order
it was asked for, and its rows are any sequence that agrees with it.  `Backends`
has one action per operation of `BackendEngine`, each with a definition per engine
where they differ (null keys, dropped groups, the sum of nothing), and
`EnginesAgree` says that each step is one the algebra of frames at its head
allows.  A promise names a family of rows (for a join one for every pair that
matches, for a distinct one for every row there is) and the rows of the result are
those, each once, in any order (`Arranges`); null keys are left to the engine.

`BackendsAssumption` has what the frames, groups and aggregations given to TLC
must be.  One part is about the code: `PandasBackend.aggregate` keys its
dictionary by source column (`P/backends/pandas_backend.py:150-154`), so of two
functions of one column it computes only the second, where the SQL engines and
Polars compute both.  The agreement is claimed, checked and proved for
aggregations of different columns when pandas is one of the engines.

### Planner

`Ask` takes a query through `Analyze` (the computation graph and its passes, the
rules, the statistics, corrected estimates, the memory budget, the engine switch,
the order of MATCH clauses and the hint) and `RunClause` runs the clauses on
frames, with join plans and the hint consulted where the code does.  A DuckDB that
the analysis switches to is a new one without tables (`"duckdb_empty"`), so that the
statistics made after the switch, and in later queries, are still those of the frames
(`P/query_planner.py:589`).  Feedback stays for the next query of the session.  The reference runs the same clauses as
typed.

### RelationPlan, RelationEngine

`translate` has a rule per clause, as `P/plan/translate.py`; `Block`, `Sql` and
`Materialised` are the three ways `Emitter` turns a plan into rows: fused
patterns, subqueries with properties joined back by id, and writes run from the
bottom.  `Meanings` is what the clauses mean one after another; it shares the
projection and the expressions with the model, and has its own patterns, joins and
writes.  What DuckDB itself computes is taken for granted.

### Pipeline

A query text is what the command knows of it: where it is, whether it parses and
translates, what it reads and writes.  `Order`, `DryRun`, `LoadSource`,
`RunInMemory`, `Classify`, `StreamToSink`, `WriteInMemory`, `Finish` are the
stages of `run_impl`; each may meet a fault and hands it to the error policy
(`Handle`), `Killed` stops a run anywhere, and `Rerun` starts the next one.
`topological_sort` is two functions of the number of rounds: `Remaining`, the
identifiers that are left, and `Result`, the queries so far; more rounds than there
are queries change nothing.

### The services

`Cluster` routes in three steps (list, choose, count in), which registrations
and status changes come between; `routed` and `dispatched` are histories of what
each worker was given, since the table changed and ever.  `RateLimiter` looks a bucket up and consumes
from it in two steps; `LockGlobal`, `CreateGlobal` are the double-checked
creation.  `CircuitBreaker` records an outcome assignment by assignment and asks for
the available engines statement by statement, one engine after another (`ReadState`,
`ReadTime`, `HalfOpen`), because nothing locks the three dictionaries.  `TableRegistry` has one step per SQL
statement, each of which may fail (`FailStatement`).  `FileIntent`, `AuditChain`
and `QueryMetrics` have one step per method, as their locks (or their single
thread) make them.  The intents of a path are a set, because a registration has a
number of its own and nothing depends on their order, and a registry may have no
`repo_root`, in which case a file has a path for each of its spellings; `archive` keeps the records
that rotation drops, and `max_records` is any of `Limits`, chosen at the start.

## Runs

| run | instance | what it shows |
|---|---|---|
| `rwlock` | 4 threads | `CountersExact`, `Exclusion`, `NoLostWriterWakeup`, the refinement `ImplementsPromise`, and `SomeWriterProceeds` |
| `result_cache` | 2 threads, 3 keys, results of 1, 2 and 3 units in a cache of 2, 1 invalidation | `BookkeepingExact`, `EvictionIsLru`, the refinement `ImplementsContract`, and `EveryCallReturns` |
| `query_engine` | main thread and worker, 2 tables, 2 mutating queries, 6 deployments | `EngineTypeOK`, `NoDirtyRead`, `CommittedStays`, `SequentialCoherence`, `LookupCacheFresh`, `AlarmConfined`, and `TimedQueryReturns` |
| `graph_index` | reader and writer, 2 types, 2 mutating queries, 3 lookups | `IndexFresh`, `NoStaleLookup`, `LookupReturns` |
| `services` | one service per behaviour | `ClusterBalanced`, `AdmissionExact`, `BreakerExact`, `LedgersExact` (audit chain and intents), `StoresExact` (tables, metrics and the cluster's totals), `Recovers` |
| `language` | one part per behaviour: 2 queries of 4 clauses in all; 33 graphs of 3 nodes; joins of 3 and 4 frames; 880 predicates; up to 3 aggregated rows; 2 or 3 composed queries | the refinement `ImplementsGraph`, `KeepsCacheCurrent`, `ExpansionIsWalks`, `LeapfrogIsJoin`, `EvaluationExact` (predicates and aggregates), `ProducersFirst` |
| `front_end` | every query of up to 3 of 28 clauses | `OnlyKnownLosses`, `PruningInvisible`, `ValidationExact`, `RewritesKeepMeaning` |
| `engines` | one part per behaviour: 3 operations on small frames in 4 engines; some hundred configurations, 2 faults, 2 runs; 2 of some twenty queries planned; 6 sources and 2 of some thirty queries for the relation engine | `EnginesAgree`, `ConsumersAfterProducers`, `EndsAsReported`, `PlansKeepRows`, `RelationsKeepMeaning` |
| `stale_result` | shared `Star` with result cache | violates `NoStaleResult` |
| `stray_alarm` | main thread, cache and timeout | violates `NoStrayAlarm` |
| `torn_commit` | main thread with timeout | violates `AllOrNothing` |
| `stranded_reader` | 3 threads | violates `NoStrandedReader` |

Bounds.  Four threads are the least with which two readers hold the lock while
one writer sleeps and another arrives, and with which two writers and two
readers wait at once.  Three keys and room for two small results let one put
evict nothing, one entry or two, and overwrite; the result of the first query
comes in two sizes, so an old value differs from a new one; one invalidation
separates two generations (`GenerationBound`).  Two tables make a commit of two
assignments, the least that can tear; two mutating queries (`TxnBound`) let one
commit while another runs, fails or is interrupted.

Four clauses (`ClauseBound`) split over two queries are MATCH, look up, write
and look up again in one query, or a query that finds what another committed;
tables and frames have at most three rows (`RowBound`), so a row can be there
before, beside and after the one that is changed.  The FOREACHs (`Foreaches`) are one
over values with a body of two clauses, one over a node that sets, removes, sets and
deletes, and one that nests the second before a write of its own.  Three nodes with all subsets
of five edges have cycles, loops, diamonds and dead ends; unbounded searches stop
after four hops (`MaxUnboundedHops`), frontiers and results at four and nine
rows, so that both limits are met and missed.  Columns of two rows with three
keys, and three rows with five, give runs of equal keys and leaps over several.
Predicates are all atoms, negations, pairs and some nestings over ten rows with
all combinations of value, null and missing property.  In the services two
clients, workers, callers, engines, agents or threads meet; windows hold two
samples, buckets two tokens, the breaker opens at two failures; each has a bound
on its operations (`DispatchBound`, `RegistrationBound`, `IntentBound`,
`RecordBound`, `EventBound`, `LimiterBound`, `TimeBound`).

Three clauses (`MaxClauses`) from 28 are a pattern, a projection or a write over
it, and what reads that; the menu has each construct the converter treats
specially once.  Three operations (`OperationBound`) on frames of at most four
rows (`RowBound`), with repeated rows and nulls in every column, join, group and
order a frame that is lazy or not.  Two faults (`FaultBound`) reach a fault while
another is handled, two runs (`RunBound`) the sweep after a kill.  Two queries of a
session (`SessionBound`) are what feedback needs; the sizes at which plans change
(`Sizes`) are scaled down so that five nodes lie on both sides.  Sources of the
relation engine have repeated, null and dangling keys, and a connection that is
replaced every three sources (`CycleEvery`); two questions (`QuestionBound`) let
one read or create after what another wrote, created or deleted.

Fairness.  The lock assumes that a holder releases (callers do in a finally
clause) and that a notified thread runs; it does not assume that timeouts fire.
The cache assumes in addition that a thread inside an operation continues, and
strong fairness of timeouts: the deadline is absolute, so a thread that is woken
and sent back to wait again and again still reaches it.  The engine assumes that
threads run and that a due SIGALRM is delivered; a clause may spin for ever, so
`TimedQueryReturns` rests on the alarm alone.  `query_engine` does not check for
deadlock, because a query without timeout whose clause spins stays there.
`LookupReturns` assumes that a thread inside a lookup goes on.  `Recovers`
(`BreakerFairness`) assumes that time passes, that a selection goes on, and that
checked selections for large data keep being made (strongly: they are not always
possible while one is under way); it does not assume that nobody else records
outcomes.  The other runs with CHECK_DEADLOCK FALSE end when their operations or
algorithm do.

## What the runs found

* **Stale results** (`P/result_cache.py:403`).  A result is stored under the
  generation at the time of storing.  Reader computes, writer commits and
  invalidates, reader stores: the old result is served until the next mutation.
  A single caller is safe (`SequentialCoherence`).
* **Stray alarm** (`P/star.py:762`).  A cache hit returns before the try
  statement whose finally clause disarms the timeout.  Without a result cache
  the alarm stays with its query (`AlarmConfined`).
* **Torn commit** (`P/relational_models.py:622`).  An exception between two
  assignments of `commit_query` keeps the first.
* **Stranded readers** (`P/result_cache.py:122`).  A writer that gives up does
  not wake the readers it was holding back.  In the result cache readers are
  only `stats` calls, which fall back to reading without the lock.

Behaviour met while modelling that the models keep and no run is about:

* a literal property of a labelled node pattern is applied by the index only:
  once the query has written the type, the pattern matches every row
  (`P/scan_operators.py:440`);
* FOREACH and MERGE do not make the frame forget its cached columns
  (`P/clause_executor.py:450`): a property they set is read as it was.
  `KeepsCacheCurrent` shows that no other clause does so;
* a quantifier counts a null element as no match (`P/collection_evaluator.py:574`,
  `:618`): NONE over a list with a null in it is true where three-valued logic says
  unknown, and NOT of an ANY keeps rows it should drop; `EvaluationExact` is stated
  for the rows on which no quantifier is unknown;
* a null grouping key makes `aggregate_items` fail, or lose the group
  (`P/aggregation_planner.py:330` drops nulls, `P/aggregation_evaluator.py:489`
  keeps them); `EvaluationExact` is stated for the other keys;
* the breadth-first search forgets rows that share their start and tip with
  another (`P/path_expander.py:374`): other variables of those rows are lost;
  `allShortestPaths` returns one of the tied paths; a walk of length zero is found
  on DuckDB only; undirected variable-length patterns go to the right only;
* two frames are joined on one of their shared variables (`P/frame_joiner.py:98`);
* OPTIONAL MATCH with a WHERE ignores it when a frame exists;
* a variable repeated in two paths of one CREATE makes two nodes
  (`P/mutation_engine.py:520`);
* DETACH DELETE misses relationships of types that this query created, and takes
  those of other types that happen to have the identifier (`P/mutation_engine.py:699`);
* SET of several properties keeps the old value under a null, SET of one writes it;
* IN takes its list of the first row before looking, an IndexError without rows
  (`P/string_predicate_evaluator.py:177`);
* `MultiQueryRewriter` does not validate: a repeated query identifier may lose a
  query; two queries that MERGE the same type are refused as cyclic
  (`P/multi_query_analyzer.py:206`);
* a label registered without an identifier and then with one keeps the duplicate
  rows of its new source (`P/backends/table_registry.py:317`);
* a half-open breaker admits every caller, not one probe, and a thread that read that
  a breaker was open and then that its timeout is over makes it half-open even if a
  success or a reset has closed it in between (`P/backend_engine.py:529`);
* without a `repo_root` the intent registry compares paths as they are spelled, so two
  agents may hold one file without either being told (`packages/shared/src/shared/file_intent.py:270`).

In the front end (outside the menu of `front_end`, or the forms its properties name):

* the tree loses the WHERE of a node pattern (`P/ast_converter.py:1183`), the labels of
  SET and REMOVE (`P/ast_converter.py:900`) and a SKIP or LIMIT given by a variable
  (`P/ast_converter.py:655`); the grammar's literals are lost too: a range open at one
  end is the single length it names, `!` before a label is dropped, and which of the
  two shortest-path functions was written is not kept.  The menu has all of these, and
  `OnlyKnownLosses` says that nothing else is lost and nothing added: the words of the
  text, these taken out (`Said`), are exactly those of the tree;
* the validators refuse a name that a comprehension binds, allow one that a MERGE
  only mentions, and disagree with each other about the scope after WITH:
  `ValidationExact` is about the forms `Straight` and `SimpleQuery` describe, and
  lets RETURN mention the names it gives;
* a printed tree may be no Cypher (`str()` of a model), or another query
  (comparisons lose their parentheses): `ReprintKeepsQuery` and `CombinedAgrees`
  are about `Printable` trees;
* renaming keeps the names of result columns: what it misses afterwards is compared
  for queries whose variables are bound by patterns (`BindsByPattern`).

In the planner:

* `LimitPushdownRule` looks at neither WHERE nor SET nor a second MATCH nor a
  nested aggregate: a variable-length search stops at the limit before later
  filters, and rows or writes are lost (`P/query_optimizer.py:263`);
* a reordered MATCH may begin with a repeated node without label, which is scanned
  over all tables; another MATCH of it then fails (`P/query_analyzer.py:414`);
* join plans left by one query may be taken by the next, `fuse_filters` would drop
  one of three filters in a row (no query builds them), and the engine is switched
  only when a reordering is suggested; none of these changes rows.

In the relation engine:

* an OPTIONAL MATCH after WITH, UNWIND, SET or another MATCH has a plan and no SQL:
  it fails while it runs, after a SET below it was written, though eligibility is
  said to be translation (`P/relation_engine.py:912`,
  `docs/developer_guide/relation_plan.md:98`); `RelationsKeepMeaning` excepts it;
* the label written on the bound node of an OPTIONAL MATCH is ignored;
* DELETE leaves relationships, and the first CREATE of a label starts above the
  largest identifier there is: a new node may have the relationships of a deleted
  one (`P/plan/emit_duckdb.py:457`);
* properties that SET adds are remembered by variable across WITH: the same name
  for another label passes translation and fails in DuckDB;
* WHERE of WITH is applied before ORDER BY and LIMIT, in both engines.

In the pipeline:

* reads with outputs are deferred in a streaming run, so a mutation that depends on
  a query of the form SET ... RETURN with an output runs before it, against
  `N/cli/pipeline.py:726`; `ConsumersAfterProducers` excepts these;
* errors of loading and parsing end a streaming run whatever `--on-error` says, a
  cloud output in memory ends in an uncaught NotImplementedError, the error policy
  of a source and `--output-dir` are not looked at, and the dry run resolves paths
  from the directory of the configuration where the run uses the working directory;
* a read with two outputs and side effects runs twice; of two queries with the same
  identifier one may be lost.

## Proofs

`ResultCache_proofs` proves of the lock, for every finite set of threads
(`ThreadsAssumption`), the safety invariants of the `rwlock` run, the types and the
refinement of `AbstractRWLock`.

* `LockInv` is the conjunction of `LockTypeOK`, `CountersExact` and `Exclusion`.
  Exclusion is not inductive alone: a thread enters because a counter is 0, and
  only exactness of the counters turns that into "nobody is inside"; exactness
  in turn needs exclusion for `write_owner` and the types for the arithmetic.
* The counters are cardinalities of sets of threads, so each lemma (one per way
  a thread can move: enter, stay out, give up, release) first says how the three
  sets change and then uses the library facts on adding and removing an element.
  The same lemma says which step of `AbstractRWLock` the move is, which makes
  the refinement theorem short.
* `NotifyKeepsSets`: a notify moves a thread between two kinds of waiting, so
  no counted set changes.  `NotifyWakesSomeone`: after a notify no writer
  sleeps, or one is woken; `NoLostWriterWakeupCorrect` follows because only a
  release makes the lock free.

`QueryEngine_proofs` proves the six invariants of the `query_engine` run for
every set of threads, tables, query texts and deployments (`ContextAssumption`,
`EngineAssumption`).  Each rests on `EngineInv`: the types, and two facts about
which query a thread runs (a thread is idle exactly when it has none; a mutating
query has its entry in the history), without which a step could mark the fate of
a query that does not exist.

* `LookupCacheFresh` says nothing of the states in the middle of a commit, so it
  is not inductive.  `LookupInv` does: only a table that a running commit has
  already assigned may be cached in an older version, or be on its way into the
  current dict.  `TransactionalContext_proofs` shows, operation by operation, that
  the context keeps it; the engine adds that only a committing thread has
  promoted anything (`PromotesInCommit`).
* `NoDirtyRead`: the invariant names the *settled* queries (past their last
  clause) and says that everything visible contains settled queries only, and a
  shadow those and the query of its own thread; that a query in its clauses is
  not settled yet (`FatesKnown`); and that two threads never run the same
  mutating query (`TxnsDistinct`), so no thread can unsettle another's.  The
  proof holds for every deployment, with two writers and hard timeouts too.
* `AlarmConfined`: a pending alarm belongs to the query of the main thread.

* `CommittedStays` is about deployments with one writing thread.  `StaysInv` adds
  to isolation that a shadow contains the canonical table it was copied from
  (nobody else can have changed it), has the writes of every clause that is done,
  and equals every table it has already been promoted to; so a promotion loses
  nothing, and the end of a commit finds the query in all it wrote.
* `SequentialCoherence` is about one caller off the reach of the alarm.  Between
  queries the result cache agrees with the tables; within one, what has been
  scanned so far is what the tables hold (`SeenFacts`), and from the first promoted
  table to the invalidation nothing is claimed of the cache, because the only
  thread that could ask is the one that is busy.

Of the cache it proves, for all threads, keys, results, sizes and limits
(`CacheAssumption`), `BookkeepingExact`, `EvictionIsLru` and the refinement of
`CacheContract`.  `CacheInv` is `LockInv`, `DataInv` (distinct keys, no entry from a
later generation, exact bytes within the limit, entries in the order of `recency`)
and `Placed`: between the parts of a put its thread holds the lock, its key is not
stored, and the result fits.  The lock's theorem is used, not repeated: only its
writer reaches the data (`WriterAlone`), and the steps of waiting are invisible.
Per operation one lemma says what becomes of the invariant and which step of the
contract it is: a get is a `Hit` or a `Miss`, an eviction forgets a key, the last
part of a put remembers one.  The mapping is a function of the list of entries,
so moving an entry to the end (`TouchCorrect`) changes recency and nothing else.

`GraphIndex_proofs` proves `IndexFresh` and `NoStaleLookup` for all graphs,
threads, queries and lookups, with `~ ConcurrentInvalidate` as hypothesis: nothing
in the repository calls `invalidate()` while a lookup is under way, and with such a
call the theorems are false (a lookup in flight would bring back an old index under
the new epoch).  `BuildAnswers` says of each kind of index that it
answers what the rows say that it was built from, with binary search over the
sorted identifiers; the invariant says that an index kept under the present epoch,
the table a lookup has read, and the answer it has given, are of a version no older
than the commits that had returned when the lookup began.

`Services_proofs` proves the properties of seven services for all their constants.

* `AdmissionCorrect`: after n admissions since a time, they and the tokens left are
  paid for by the burst and the refill since (`Affords`); a refill, an admission and
  a refusal each keep this.  `GlobalInv` counts limiters against resets.
  `LimiterAssumption` takes rate, burst and unit to be positive, as the constructor
  does.
* `ChainCorrect`: records kept and rotated away are the archive, record by record;
  a rotation empties the segment and names its ends, so `Previous` finds the last
  HMAC in the records, in the rotation records or nowhere.
* `ConflictsCorrect`: a registration has a larger number than all before it, and was
  told of every intent of another agent that its path then had.
* `BreakerCorrect`: nothing locks the breaker's dictionaries, so nothing can be said
  once an outcome of an engine was recorded beside another recording, or beside a
  thread about to half-open its breaker; while none has, at most one thread
  records, and how far it got says how the breaker and the history differ
  (`Midway`).
* `ClusterCorrect`: `TurnsInv` is the inductive form of round robin's fairness: what
  each active worker was given are its turns among the calls since the table
  changed, and of consecutive calls no place has two turns more than another.  A
  worker's load and outcomes are counts of clients, which a client's step changes
  by its own share (`CallMoves`).
* `MetricsCorrect`: a window is the tail of what was recorded (`TailOf`), and pushing
  a sample on a full one leaves a tail.  A thread that took its time stamp early may
  record late; for each sample, those recorded after it with an earlier stamp and the
  threads still to record one are together at most as many as the threads (`StampsOK`),
  which bounds what a rate can miss.
* `RegistryCorrect`: `StepFits` says at each statement of a registration what the
  table, the staged table and the sources are to each other; `Settled` says that the
  table of any other label, and of this one until its old table is dropped, holds its
  sources.  The invariant is kept by a join because each column of the result is the
  newest source's (`JoinKeeps`), and by a union because lengths add up
  (`UnionKeeps`).  The one assumption is that identifiers are numbers and rows come in
  an order (`RegistryAssumption`).
* `TotalsInvSuffices`: the totals of the cluster's health add up because the queries
  at each worker do, for a sum over any finite set of workers.
* `ServicesCorrect`: the specification the run checks, with a step of one service
  leaving the others alone but for the time that passes, keeps all of these.

The same module proves `ProducersFirst` of `CompositionSpec`, for all submissions
whose queries RETURN at their end only, as the grammar has it.  `OrderSoFar` is the
inductive form: what is sorted needs only what is sorted, and after the first round
whatever is left needs something, so a query that needs nothing is never overtaken.
A round that finds nothing ready has found the knot itself: each query that is left
needs one that is left.  `CombinedSoFar` keeps the RETURNs of all but the last query
out of the text.  That no order exists for a knot is what `Knotted` means and is not
stated beyond it.

`Language_proofs` proves of `GraphQuery`, for all patterns, clauses and tables, that it
implements `PropertyGraph` and `KeepsCacheCurrent`.  `QueryAssumption` takes the rows
of a registered table to have distinct integers as identifiers (`_dedup_on_id`; of
identifiers that are no integers `_next_ids` ignores the largest), a MATCH to have a
path, and a pattern or an item to name finitely many properties.

* `QueryInv`: the tables and the copies are such tables, and the frame has rows.
  `Wrote` says of two states of the copies that one of the three writes leads from
  the first to the second, whichever types it touches; each write includes doing
  nothing and doing it twice (`WroteFacts`), so what an item, a path or a row does
  carries over to a list of them.
* CREATE (`ProcessCreateMakes`): `NextIdsFacts` says that new identifiers are in no
  row that is seen, `RowsAppended` that rows with such identifiers make a table grow.
  `Made` remembers that every variable of the CREATE is bound to such identifiers.
* MERGE that creates appends and then sets properties, of old rows too: two steps of
  the specification, as ON CREATE SET may name any variable of the frame.  What is left
  of it, or of a FOREACH, is `Pending`: a list of frames with rows and of clauses of the
  instance, which unrolling a FOREACH (`LoopsPend`) and running the next clause
  (`NextPends`) keep, so that `InnerWrites` applies to whatever comes next.
* SET and REMOVE (`SetPropertiesWrites`, `MutateWrites`) keep the identifiers in
  order; DELETE (`ProcessDeleteShrinks`) keeps some rows in order, of each table.
* `Matched` says of a frame that its cached columns are what a lookup would find;
  scans, hops, filters, joins and projections keep it or cache nothing, so a MATCH
  gives such a frame (`MatchFramesMatch`, `MergedFramesMatch`).  A CREATE may write an
  entity table only if it made a variable, and then its frame is new.

`LeapfrogJoins`: for any columns of numbers (`LeapfrogAssumption`: numpy sorts them;
three or more, `can_use_leapfrog`), the leapfrog join is the pairwise join, row for row,
and never meets the bound of its loop.

* `LeapInv` has the keys found common to all columns and behind every iterator, and no
  iterator past a common key that is still to be found: only the two together say that
  at an iterator's end nothing is missing.  The iterators are a permutation of the
  frames in the order of their keys, so that first and last are least and greatest.
* The iterations so far are at most the distance all iterators have gone
  (`Travelled`), which stays below the sum of the lengths until one is at its end
  (`TravelledFacts`): that is the comment beside the bound in `_leapfrog_intersect`.
* A stable sort puts every position in one place (`StableOrderFacts`): by counting, as
  no two positions have as many before them.
* `Enumerates` says that a list has every member of a set once; extending the tuples
  of one frame by the next keeps it (`ExtendedEnumerates`), and so does putting the
  chunks of different keys behind one another (`FlattenedEnumerates`).

`ExpansionFindsWalks`: for any lists of edges and starts, ranges of numbers and limits
of numbers (`PathsAssumption`), the variable-length search and shortestPath find what
`ExpansionIsWalks` says.

* `WalksOfLength` is a function over all lengths, so that it has a value has to be
  shown (`WalksFound`); walks forget their start row between start value and tip
  (`Reached`), and the walks one step longer need only that (`ReachedNext`).  This is
  why keeping one row per start value and tip (`FirstOfEachFacts`) loses nothing.
* `Searching` is the inductive form: the frontier is at the ends of the walks of the
  last length, and the rows enumerate the walks of the lengths so far, fewer than the
  limit.  An empty frontier stays empty, so a search that ends early has all walks.
* A limit is met exactly: the rows are as many as the smaller of the limit and the
  number of walks, which needs that there are finitely many (`WalksFinite`).
* The rows of a later search step cannot tie with a shorter one; with one row per
  pair and length, the rows of fewest hops are one per pair, and `OnePerPair` takes
  nothing away.  The end bound before is compared row by row, which is the bound pairs
  only if no start value is there twice.

`EvaluationIsExact`: for any predicates, rows and aggregated items, WHERE and grouped
aggregates do what `EvaluationExact` says.  `ExpressionAssumption` says how many
arguments an expression has, that connectives stand over logical operands (the code
does not look), that parts are less deep than the whole, and that the rows include
those with a quantifier's element bound.

* The library has no induction over trees; `TermInduction` gets it from `Depth`, and
  `TermRecursion` a function for every rule that makes the column of an expression
  from those of its arguments.  Two functions that obey a rule are the same
  (`FollowersAgree`), so it is enough to compare rules, on one expression and one row.
* `EvaluatorMeans` does that for the evaluators: a chain from the left is the least,
  the greatest or the parity of its operands (`ChainMeans`), WHENs laid over the ELSE
  from the last are the first that matches (`CaseMeans`), IN is the best of the
  comparisons (`InListMeans`), counting matches says which elements match
  (`QuantifierMeans`).  That connectives have truth values under them is needed: of
  other values the least means nothing.
* `SqlMeans` does it for what is compiled to SQL; so columns from the evaluators and
  from SQL are equal, and equal to `Counted` (`EvaluatesCounted`,
  `SqlEvaluatesCounted`): the meaning but for quantifiers, which count.  Where
  no quantifier is unknown that is the meaning: counting answers what `QuantifierMeant`
  does whenever that is known (`QuantifierKnown`), and a part that is decided has the
  same value in both (`DecidedMeans`).
* `FilterInv` is the inductive form: the rows that are left, and true for every
  conjunct that remains, are the given rows for which the predicate counts as true.  A predicate is
  true where its conjuncts are (`ConjunctsMean`), and choosing rows twice is choosing
  those in both sets (`RowsInTwice`): so it does not matter which conjuncts SQL took.
* `AggregateGroupsKeeps` compares a group's values with the same aggregate over its rows
  (`GroupValueIs`).  Each key without a null is the key of one row, since the keys have
  no repeats (`DropDuplicatesFacts`), and the columns that are put beside them by
  position fit, since the same keys in the same order are left when none has a null.

`Engines_proofs` proves `ConsumersAfterProducers` and `EndsAsReported` of
`PipelineSpec`, for all jobs, any number of faults and of runs.
`PipelineAssumption` says which commands and policies there are, and that sources,
queries and outputs are lists.

* The order (`ReorderedFacts`): nobody needs a query of the same round or of a later
  one (`RoundsNeedNothing`), the list after n rounds is those rounds one behind
  another (`SortedTo`), and a sort that ends has taken every query (`RoundsTakeAll`).
  The queries that do not load follow; nothing is claimed of their place, since they
  never run.
* `InOrderSoFar` is the inductive form of `ConsumersAfterProducers`.  What was executed
  needs nothing that is still to run and will run: that is why executing the next
  query puts no producer behind its consumer (`TakeKeeps`), passing over one that
  failed puts none there (`SkipKeeps`), and a read put off is a consumer but not a
  producer that counts (`LateKeeps`).
* `Accounted` is that of the end: each selected query is still to run, failed, or was
  executed and its outputs are written, failed or waiting, or is a read that was put
  off and whose outputs all wait or failed; a step takes something off one of the
  lists and puts it on another.  Exit code 0 is `Finish`
  alone, where both lists are found empty: `EndsAsReported` does not assume that they
  are.  Of a put-off read all of whose outputs failed it claims no execution.
* `Verdict` holds the cause of an end against the configuration; that a dry run has
  seen an unreadable query needs that the list to run has only what `Order` put there.
* `StateIs` has the state as parameters, so each step says what it is for the new
  values, and `JobStays`, once, that what depends on the job alone does not change.

The same module proves `EnginesAgree` of `BackendsSpec`, for all frames, keys, groups,
aggregations of different columns and bounds (`BackendsAssumption`): one lemma for
each operation, and one for each action that cites it.

* `Arranges` is an equivalence kept by doing the same to every row
  (`ArrangesMapped`), by choosing rows by what they are (`ArrangesSelected`) and by
  putting lists behind one another (`ArrangesConcatenated`).  Most operations follow
  from these, whatever order the engine had the rows in before.
* `Good` is the inductive invariant: every row has the columns of the frame, and an
  eager frame that was sorted is in that order.  Without the second, the first rows
  of a frame would not be the least ones after `sort` and `limit`; a lazy frame need
  not be in order, as fetching it sorts it (`ToDfFacts`).
* A join makes its rows in the order of the pairs; a pair is one number, so that no
  pair is there twice (`JoinRowsArrange`).  pandas' broadcast join starts from the
  other side, and the rows are the same as matching rows have the same keys
  (`JoinSwapped`).
* UNION ALL goes by position and concat by name.  They agree if the columns are the
  same in the same order, which is what `Compatible` asks (`UnionStep`).
* Groups: each key has one row and, but for keys with nulls, every key has one
  (`AreGroups`).  pandas drops the null keys (`WithoutNullsFacts`), and its dictionary
  loses no aggregation as the sources differ.

The provers know nothing of `SelectSeq`, `:>` and `@@`, nor of an operator passed as an
argument: `CypherValues` has what is needed of the first three (`RowsAt`, `Put`,
`Over`), and the folds of the model are tied to runs along the list, one per fold
(`LeftFoldRuns`, `FoldsAre`).

`DataInduction`: the library's induction theorems take the property as an operator
argument, which no installed prover instantiates.  Stated with a set instead of an
operator, induction goes through: `SetInduction` shows that a set of naturals with 0
and all successors is all of them, and `{n \in Nat : P(n)}` is the set.  With it the
recursive functions of the models (the byte count is one) are shown to exist and to
change as expected when an element is added or taken out.  `SubsetInduction` is the
same for the subsets of a finite set; with it the library's fold over a set is shown
to be a sum (`SumStep`, `SumChange`, `SumOfParts`), and the numbers of a finite set
to have one ascending sequence (`AscendingSequence`).  `NatRecursion` gives a function
defined by recursion over the naturals its values, as the rounds of a sort need.

Only model-checked:

* liveness (`SomeWriterProceeds`, `EveryCallReturns`, `TimedQueryReturns`,
  `LookupReturns`, `Recovers`): fairness is beyond the prover;
* what the modules with RECURSIVE operators say (`Syntax`, `Scopes`, `FrontEnd`,
  `Planner`, `RelationPlan`, `RelationEngine`): `OnlyKnownLosses`, `PruningInvisible`,
  `ValidationExact`, `RewritesKeepMeaning`, `RelationsKeepMeaning`, `PlansKeepRows`.

## Plan

All modules of the plan are written, and proved about where the provers reach.
Beyond that: the Neo4j sink with its retries, the data sources of the ingestion,
string and arithmetic evaluators.

## Not modelled

Lark's parser, scalar functions, ingestion, the language server, sinks and
exporters are conversions or I/O: their state is a value passed along, or a
dictionary with one writer.  The relational operators are pandas', DuckDB's,
Polars' and Spark's own, and the commands of `nmetl` beside `run`, `validate` and
`list-queries` print.  The rest of the repository that is counted is tests'
helpers, benchmarks, examples and deployment.

Of the modelled parts the following is left out: asynchronous exceptions inside
`ResultCache` (an alarm between acquiring the lock and the try statement);
savepoints; attribute maps; coercion of identifiers between int and str; column
types; CALL and UNION; path variables and undirected hops; in `GraphQuery`,
UNWIND, the modifiers of RETURN and unlabelled nodes, which `Planner` has; the
memory of a Context in the relation engine, and its merged sources;
arithmetic, string predicates, comprehensions and user functions in expressions
(`/` is one place where SQL and pandas differ: true division in
`P/relation_sql.py:284`, truncating in `P/arithmetic_evaluator.py:53`).
