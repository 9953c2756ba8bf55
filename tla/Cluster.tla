------------------------------- MODULE Cluster -------------------------------
(***************************************************************************)
(* ClusterCoordinator, the two routers and LocalWorker of cluster.py.      *)
(*                                                                         *)
(* A query is routed in three steps that are each atomic and that other    *)
(* clients, registrations and status changes come between: the active      *)
(* workers are listed under the coordinator's lock, the router chooses one *)
(* of that list, and the worker counts the query in.  The least-loaded     *)
(* router asks one worker after the other.  What Star.execute_query does   *)
(* in the worker is only its outcome.  Latencies are left out.             *)
(***************************************************************************)
EXTENDS Integers, FiniteSetsExt, SequencesExt

CONSTANTS
    Clients,            \* threads that call ClusterCoordinator.execute_query
    WorkerIds,
    Status,             \* what a health check may report; only "active" is routed to
    DispatchBound       \* queries routed in a behaviour

ASSUME ClusterAssumption == IsFiniteSet(Clients) /\ IsFiniteSet(WorkerIds) /\ DispatchBound \in Nat

VARIABLES
    workers,    \* ClusterCoordinator._workers, in order of registration
    status,     \* LocalWorker._status
    counter,    \* RoundRobinRouter._counter
    active,     \* LocalWorker._active_queries
    executed,   \* LocalWorker._queries_executed
    errors,     \* LocalWorker._errors
    router,     \* which router the coordinator was given
    call,       \* where each client is in execute_query
    routed,     \* history: queries routed to each worker since the routing table changed
    dispatched  \* history: queries ever routed to each worker

clusterVars == <<workers, status, counter, active, executed, errors, router, call, routed, dispatched>>
callHistory == <<routed, dispatched>>

NoCall == [at |-> "no_call"]    \* the client is not in execute_query

NoneRouted == [w \in WorkerIds |-> 0]

ClusterInit ==
    /\ workers = <<>>
    /\ status = [w \in WorkerIds |-> "active"]
    /\ counter = 0
    /\ active = NoneRouted
    /\ executed = NoneRouted
    /\ errors = NoneRouted
    /\ router \in {"round_robin", "least_loaded"}
    /\ call = [c \in Clients |-> NoCall]
    /\ routed = NoneRouted
    /\ dispatched = NoneRouted

Registered == ToSet(workers)

\* The workers whose status is active, in order of registration.
ActivePlaces == {i \in DOMAIN workers : status[workers[i]] = "active"}
PlaceNumber(k) ==
    CHOOSE i \in ActivePlaces : Cardinality({j \in ActivePlaces : j < i}) = k - 1
ActiveWorkers == [k \in 1 .. Cardinality(ActivePlaces) |-> workers[PlaceNumber(k)]]

RegisterWorker(w) ==
    /\ w \notin Registered
    /\ workers' = Append(workers, w)
    /\ routed' = NoneRouted
    /\ UNCHANGED <<status, counter, active, executed, errors, router, call, dispatched>>

DeregisterWorker(w) ==
    /\ w \in Registered
    /\ \E i \in DOMAIN workers : workers[i] = w /\ workers' = RemoveAt(workers, i)
    /\ routed' = NoneRouted
    /\ UNCHANGED <<status, counter, active, executed, errors, router, call, dispatched>>

\* A worker drains, fails or comes back.  (No code in the repository does this to
\* a LocalWorker; the Worker protocol and the coordinator provide for it.)
SetStatus(w, s) ==
    /\ status[w] # s
    /\ status' = [status EXCEPT ![w] = s]
    /\ routed' = NoneRouted
    /\ UNCHANGED <<workers, counter, active, executed, errors, router, call, dispatched>>
-----------------------------------------------------------------------------
ListActive(c) ==
    /\ call[c] = NoCall
    /\ counter < DispatchBound
    /\ call' = [call EXCEPT ![c] = [at |-> "select", candidates |-> ActiveWorkers, loads |-> <<>>]]
    /\ UNCHANGED <<workers, status, counter, active, executed, errors, router, callHistory>>

\* RuntimeError: no active workers available.
NoneAvailable(c) ==
    /\ call[c].at = "select" /\ call[c].candidates = <<>>
    /\ call' = [call EXCEPT ![c] = NoCall]
    /\ UNCHANGED <<workers, status, counter, active, executed, errors, router, callHistory>>

\* A choice from a list that is no longer the active one ends the history too.
RouteTo(c, w) ==
    /\ call' = [call EXCEPT ![c] = [at |-> "dispatch", worker |-> w]]
    /\ routed' = IF call[c].candidates = ActiveWorkers
                 THEN [routed EXCEPT ![w] = @ + 1] ELSE NoneRouted
    /\ dispatched' = [dispatched EXCEPT ![w] = @ + 1]
    /\ counter' = counter + 1
    /\ UNCHANGED <<workers, status, active, executed, errors, router>>

RoundRobin(c) ==
    /\ call[c].at = "select" /\ call[c].candidates # <<>>
    /\ router = "round_robin"
    /\ RouteTo(c, call[c].candidates[(counter % Len(call[c].candidates)) + 1])

\* min(workers, key=health_check().active_queries): one health check at a time,
\* the first of the least loaded wins.
AskLoad(c) ==
    /\ call[c].at = "select"
    /\ router = "least_loaded"
    /\ Len(call[c].loads) < Len(call[c].candidates)
    /\ LET w == call[c].candidates[Len(call[c].loads) + 1]
       IN  call' = [call EXCEPT ![c].loads = Append(@, active[w])]
    /\ UNCHANGED <<workers, status, counter, active, executed, errors, router, callHistory>>

LeastLoaded(c) ==
    /\ call[c].at = "select" /\ call[c].candidates # <<>>
    /\ router = "least_loaded"
    /\ Len(call[c].loads) = Len(call[c].candidates)
    /\ LET loads == call[c].loads
           least == CHOOSE i \in DOMAIN loads : \A j \in DOMAIN loads :
                      loads[i] < loads[j] \/ (loads[i] = loads[j] /\ i <= j)
       IN  RouteTo(c, call[c].candidates[least])
-----------------------------------------------------------------------------
\* LocalWorker.execute_query: counted in, run, counted as executed or as an
\* error, counted out.
CountIn(c) ==
    /\ call[c].at = "dispatch"
    /\ active' = [active EXCEPT ![call[c].worker] = @ + 1]
    /\ call' = [call EXCEPT ![c].at = "run"]
    /\ UNCHANGED <<workers, status, counter, executed, errors, router, callHistory>>

Succeed(c) ==
    /\ call[c].at = "run"
    /\ executed' = [executed EXCEPT ![call[c].worker] = @ + 1]
    /\ call' = [call EXCEPT ![c].at = "out"]
    /\ UNCHANGED <<workers, status, counter, active, errors, router, callHistory>>

FailWithoutFinally(c) ==    \* mutant: the error path does not count the query out
    /\ call[c].at = "run"
    /\ errors' = [errors EXCEPT ![call[c].worker] = @ + 1]
    /\ call' = [call EXCEPT ![c] = NoCall]
    /\ UNCHANGED <<workers, status, counter, active, executed, router, callHistory>>

FailQuery(c) ==
    /\ call[c].at = "run"
    /\ errors' = [errors EXCEPT ![call[c].worker] = @ + 1]
    /\ call' = [call EXCEPT ![c].at = "out"]
    /\ UNCHANGED <<workers, status, counter, active, executed, router, callHistory>>

CountOut(c) ==
    /\ call[c].at = "out"
    /\ active' = [active EXCEPT ![call[c].worker] = @ - 1]
    /\ call' = [call EXCEPT ![c] = NoCall]
    /\ UNCHANGED <<workers, status, counter, executed, errors, router, callHistory>>

ClusterNext ==
    \/ \E w \in WorkerIds : RegisterWorker(w) \/ DeregisterWorker(w)
                              \/ \E s \in Status : SetStatus(w, s)
    \/ \E c \in Clients :
         \/ ListActive(c) \/ NoneAvailable(c) \/ RoundRobin(c) \/ AskLoad(c) \/ LeastLoaded(c)
         \/ CountIn(c) \/ Succeed(c) \/ FailQuery(c) \/ CountOut(c)

ClusterSpec == ClusterInit /\ [][ClusterNext]_clusterVars
-----------------------------------------------------------------------------
\* cluster_health(), as far as it counts.
ClusterHealth ==
    [total_workers |-> Len(workers),
     active_workers |-> Len(ActiveWorkers),
     total_queries |-> FoldFunctionOnSet(+, 0, executed, Registered),
     total_errors |-> FoldFunctionOnSet(+, 0, errors, Registered)]

ClientsAt(w, places) == {c \in Clients : call[c].at \in places /\ call[c].worker = w}

\* The load a router reads is exact: a worker's active queries are the clients
\* between counting in and counting out, whatever became of their queries, and
\* every query routed to a worker is one that it executed, one of its errors or
\* still under way.
LoadAccounted ==
    \A w \in WorkerIds :
      /\ active[w] = Cardinality(ClientsAt(w, {"run", "out"}))
      /\ executed[w] + errors[w] + Cardinality(ClientsAt(w, {"dispatch", "run"})) = dispatched[w]

\* The cluster's totals, with the workers that have left and the queries under
\* way, are the queries routed.
TotalsAddUp ==
    LET underWay == Cardinality(UNION {ClientsAt(w, {"dispatch", "run"}) : w \in WorkerIds})
        Gone(count) == FoldFunctionOnSet(+, 0, count, WorkerIds \ Registered)
    IN  ClusterHealth.total_queries + Gone(executed)
          + ClusterHealth.total_errors + Gone(errors) + underWay = counter

\* Round robin spreads: as long as nobody joins, leaves or changes status, no
\* worker has been given two queries more than another, although each client
\* lists the workers before it takes its turn.
RoundRobinFair ==
    router = "round_robin" =>
      \A w, v \in ToSet(ActiveWorkers) : routed[w] <= routed[v] + 1
=============================================================================
