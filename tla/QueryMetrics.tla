----------------------------- MODULE QueryMetrics -----------------------------
(***************************************************************************)
(* QueryMetrics of shared/metrics.py: counters and bounded windows of      *)
(* samples that Star.execute_query records into and a snapshot reads.      *)
(*                                                                         *)
(* Every method holds the lock from its first access to its last, so each  *)
(* is one step; the time stamp is taken before the lock.  One window       *)
(* stands for the eight of samples, one for time stamps of queries, one     *)
(* for those of errors.  Percentiles and rates other than the recent ones  *)
(* are arithmetic on the windows and are left out.                         *)
(***************************************************************************)
EXTENDS Clock, Integers, Sequences, SequencesExt, FiniteSetsExt

CONSTANTS
    Metered,      \* threads that run queries
    MaxSamples,     \* _MAX_SAMPLES
    RateWindow,     \* _RATE_WINDOW_S, in ticks
    SlowThreshold,  \* SLOW_QUERY_THRESHOLD_S
    Elapsed,        \* durations of queries
    ErrorTypes,
    NotRecording,
    EventBound      \* queries and errors recorded in a behaviour

\* _MAX_SAMPLES is 1000, and half of it at least one.
ASSUME MetricsAssumption ==
    /\ IsFiniteSet(Metered) /\ IsFiniteSet(ErrorTypes)
    /\ MaxSamples \in Nat /\ MaxSamples >= 2
    /\ RateWindow \in Nat /\ SlowThreshold \in Int /\ Elapsed \subseteq Int
    /\ NotRecording \notin Nat

VARIABLES
    total_queries, total_errors, slow_queries,
    error_counts,       \* _error_counts
    timings,            \* _timings_ms and the other windows of samples
    query_stamps,       \* _query_timestamps
    error_stamps,       \* _error_timestamps
    stamp,              \* the time stamp a recording has taken
    query_history, error_history  \* history: all queries and errors since the reset

metricsVars == <<now, total_queries, total_errors, slow_queries, error_counts, timings,
                 query_stamps, error_stamps, stamp, query_history, error_history>>

MetricsInit ==
    /\ total_queries = 0 /\ total_errors = 0 /\ slow_queries = 0
    /\ error_counts = [e \in ErrorTypes |-> 0]
    /\ timings = <<>> /\ query_stamps = <<>> /\ error_stamps = <<>>
    /\ stamp = [r \in Metered |-> NotRecording]
    /\ query_history = <<>> /\ error_history = <<>>

\* A full window loses its older half before a sample is appended.
Push(window, sample) ==
    Append(IF Len(window) >= MaxSamples THEN SubSeq(window, MaxSamples \div 2 + 1, Len(window))
           ELSE window, sample)

\* `now = time.monotonic()`, before the lock is taken.
TakeStamp(r) ==
    /\ stamp[r] = NotRecording
    /\ total_queries + total_errors < EventBound
    /\ stamp' = [stamp EXCEPT ![r] = now]
    /\ UNCHANGED <<now, total_queries, total_errors, slow_queries, error_counts, timings,
                   query_stamps, error_stamps, query_history, error_history>>

RecordQuery(r, elapsed) ==
    /\ stamp[r] # NotRecording
    /\ total_queries' = total_queries + 1
    /\ slow_queries' = slow_queries + (IF elapsed > SlowThreshold THEN 1 ELSE 0)
    /\ query_stamps' = Push(query_stamps, stamp[r])
    /\ timings' = Push(timings, elapsed)
    /\ query_history' = Append(query_history, <<elapsed, stamp[r]>>)
    /\ stamp' = [stamp EXCEPT ![r] = NotRecording]
    /\ UNCHANGED <<now, total_errors, error_counts, error_stamps, error_history>>

RecordError(r, type) ==
    /\ stamp[r] # NotRecording
    /\ total_errors' = total_errors + 1
    /\ error_counts' = [error_counts EXCEPT ![type] = @ + 1]
    /\ error_stamps' = Push(error_stamps, stamp[r])
    /\ error_history' = Append(error_history, stamp[r])
    /\ stamp' = [stamp EXCEPT ![r] = NotRecording]
    /\ UNCHANGED <<now, total_queries, slow_queries, timings, query_stamps, query_history>>

ResetMetrics ==
    /\ total_queries' = 0 /\ total_errors' = 0 /\ slow_queries' = 0
    /\ error_counts' = [e \in ErrorTypes |-> 0]
    /\ timings' = <<>> /\ query_stamps' = <<>> /\ error_stamps' = <<>>
    /\ query_history' = <<>> /\ error_history' = <<>>
    /\ UNCHANGED <<now, stamp>>

MetricsNext ==
    \/ \E r \in Metered :
         \/ TakeStamp(r)
         \/ \E elapsed \in Elapsed : RecordQuery(r, elapsed)
         \/ \E type \in ErrorTypes : RecordError(r, type)
    \/ ResetMetrics
    \/ Tick /\ UNCHANGED <<total_queries, total_errors, slow_queries, error_counts, timings,
                           query_stamps, error_stamps, stamp, query_history, error_history>>

MetricsSpec == ClockInit /\ MetricsInit /\ [][MetricsNext]_metricsVars

\* snapshot(): the queries and errors of the rate window.
Recent(stamps) == Cardinality({i \in DOMAIN stamps : stamps[i] + RateWindow >= now})
-----------------------------------------------------------------------------
\* What a snapshot reports is about the newest events: every window is the tail
\* of what was recorded, at least half full once it has overflowed and never
\* over its limit; the counters agree with one another; and the recent rates
\* count every event of the rate window up to what half a window holds.
WindowsAreRecent ==
    LET durations == [i \in DOMAIN query_history |-> query_history[i][1]]
        stamps == [i \in DOMAIN query_history |-> query_history[i][2]]
        least(all) == Min({Len(all), MaxSamples - MaxSamples \div 2})
        ok(window, all) == /\ IsSuffix(window, all)
                           /\ Len(window) <= MaxSamples
                           /\ Len(window) >= least(all)
    IN  /\ ok(timings, durations) /\ ok(query_stamps, stamps) /\ ok(error_stamps, error_history)
        /\ total_queries = Len(query_history) /\ total_errors = Len(error_history)
        /\ FoldFunctionOnSet(+, 0, error_counts, ErrorTypes) = total_errors
        /\ slow_queries = Cardinality({i \in DOMAIN query_history : durations[i] > SlowThreshold})
        /\ Recent(query_stamps) >= Min({Recent(stamps), MaxSamples - MaxSamples \div 2}) - Cardinality(Metered)
=============================================================================
