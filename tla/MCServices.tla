------------------------------ MODULE MCServices ------------------------------
(* The services around the engine, which share no state: a behaviour is one  *)
(* of a single service, picked in the initial state; the others stand still. *)
EXTENDS Cluster, RateLimiter, CircuitBreaker, TableRegistry, FileIntent, AuditChain, QueryMetrics

VARIABLE focus

limiterOnly == <<bucketVars, globalVars>>
metricsOnly == <<total_queries, total_errors, slow_queries, error_counts, timings,
                 query_stamps, error_stamps, stamp, query_history, error_history>>
allVars == <<now, clusterVars, limiterOnly, breakerVars, registryVars, intentVars, auditVars,
             metricsOnly, focus>>

\* Only the service in focus has all its initial states.
MCInit ==
    /\ focus \in {"cluster", "buckets", "global", "breaker", "entities", "relationships", "intents", "audit", "metrics"}
    /\ ClockInit /\ ClusterInit /\ LimiterInit /\ BreakerInit /\ RegistryInit /\ IntentInit
    /\ AuditInit /\ MetricsInit
    /\ focus # "cluster" => router = "round_robin"
    /\ focus # "buckets" => per_caller
    /\ focus # "breaker" => healthy = [b \in Backends |-> b = Fallback]
    /\ focus # "intents" => rooted
    /\ focus # "audit" => max_records = 0

ClusterStep ==
    /\ focus = "cluster" /\ ClusterNext
    /\ UNCHANGED <<now, limiterOnly, breakerVars, registryVars, intentVars, auditVars, metricsOnly, focus>>
BucketStep ==
    /\ focus = "buckets" /\ BucketNext
    /\ UNCHANGED <<clusterVars, breakerVars, registryVars, intentVars, auditVars, metricsOnly, focus>>
GlobalStep ==
    /\ focus = "global" /\ GlobalNext
    /\ UNCHANGED <<clusterVars, breakerVars, registryVars, intentVars, auditVars, metricsOnly, focus>>
BreakerStep ==
    /\ focus = "breaker" /\ BreakerNext
    /\ UNCHANGED <<now, clusterVars, limiterOnly, registryVars, intentVars, auditVars, metricsOnly, focus>>
\* The tables of different labels share nothing: one label at a time.
RegistryStep ==
    /\ focus \in {"entities", "relationships"} /\ RegistryNext
    /\ job' # NoJob => (job'.label \in EntityLabels <=> focus = "entities")
    /\ UNCHANGED <<now, clusterVars, limiterOnly, breakerVars, intentVars, auditVars, metricsOnly, focus>>
IntentStep ==
    /\ focus = "intents" /\ IntentNext
    /\ UNCHANGED <<now, clusterVars, limiterOnly, breakerVars, registryVars, auditVars, metricsOnly, focus>>
AuditStep ==
    /\ focus = "audit" /\ AuditNext
    /\ UNCHANGED <<now, clusterVars, limiterOnly, breakerVars, registryVars, intentVars, metricsOnly, focus>>
MetricsStep ==
    /\ focus = "metrics" /\ MetricsNext
    /\ UNCHANGED <<clusterVars, limiterOnly, breakerVars, registryVars, intentVars, auditVars, focus>>

MCNext ==
    \/ ClusterStep \/ BucketStep \/ GlobalStep \/ BreakerStep
    \/ RegistryStep \/ IntentStep \/ AuditStep \/ MetricsStep

MCSpec == MCInit /\ [][MCNext]_allVars /\ (focus = "breaker" => BreakerFairness)

MCChain == <<"polars", "pandas">>

\* Two enrichments of an entity that overlap in a column and an identifier, the
\* first finer than the entity, and one without identity.
MCSources == {
    [id_col |-> TRUE, cols |-> {"a"},
     rows |-> <<[id |-> 1, val |-> [a |-> "x"]], [id |-> 1, val |-> [a |-> "y"]]>>],
    [id_col |-> TRUE, cols |-> {"a", "b"}, rows |-> <<[id |-> 2, val |-> [a |-> "y", b |-> "x"]]>>],
    [id_col |-> FALSE, cols |-> {"a"}, rows |-> <<[id |-> 0, val |-> [a |-> "x"]]>>]}
--------------------------------------------------------------------------------
\* The coordinator's books balance and its round robin spreads (cluster.py).
ClusterBalanced == LoadAccounted /\ RoundRobinFair

\* The ledgers lose nothing: neither the chain of audit records nor the
\* conflicts between the agents' intents (audit_chain.py, file_intent.py).
LedgersExact == ChainUnbroken /\ EveryConflictTold

\* What is made of what was submitted says it: the tables made of sources, the
\* windows of recent samples and the totals of the cluster's health
\* (table_registry.py, metrics.py, cluster.py).
StoresExact == TableMatchesSources /\ WindowsAreRecent /\ TotalsAddUp
=============================================================================
