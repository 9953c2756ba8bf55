---------------------------- MODULE MCQueryEngine ----------------------------
(***************************************************************************)
(* The main thread and a worker, two tables, and two query texts: one that *)
(* reads both tables, one that reads a table and then writes both.         *)
(***************************************************************************)
EXTENDS QueryEngine

CONSTANTS worker, a, b

Scan(e) == [op |-> "scan", type |-> e]
Write(e) == [op |-> "mutate", type |-> e]

MCPrograms == {<<Scan(a), Scan(b)>>, <<Scan(a), Write(a), Write(b)>>}
MCTxns == 1 .. TxnBound

Use(callers, writers, cached, timed, lockTimeouts) ==
    [callers |-> callers, writers |-> writers, cached |-> cached, timed |-> timed,
     lockTimeouts |-> lockTimeouts]

\* One caller off the main thread; the main thread with hard timeouts, without
\* and with a result cache; a writer beside a reader, with a result cache or with hard
\* timeouts; two writers.
MCDeployments == {
    Use({worker}, {worker}, TRUE, TRUE, FALSE),
    Use({Main}, {Main}, FALSE, TRUE, FALSE),
    Use({Main}, {Main}, TRUE, TRUE, FALSE),
    Use({Main, worker}, {worker}, TRUE, FALSE, TRUE),
    Use({Main, worker}, {worker}, FALSE, TRUE, FALSE),
    Use({Main, worker}, {Main, worker}, FALSE, FALSE, FALSE)}

\* Two threads share a Star with a result cache: no timeouts of any kind.
SharedCache == {Use({Main, worker}, {worker}, TRUE, FALSE, FALSE)}
\* The main thread alone with a result cache and a timeout, and without cache.
TimedMainCached == {Use({Main}, {Main}, TRUE, TRUE, FALSE)}
TimedMain == {Use({Main}, {Main}, FALSE, TRUE, FALSE)}
=============================================================================
