---------------------------- MODULE CircuitBreaker ----------------------------
(***************************************************************************)
(* CircuitBreaker and backend selection of backend_engine.py.              *)
(*                                                                         *)
(* The breaker has no lock: its dictionaries are read and written one      *)
(* statement at a time by every thread that selects a backend: to ask for  *)
(* the available engines, one after another, and to record what a health   *)
(* check said.  `age` is the time since _last_failure_time, up to the      *)
(* recovery timeout.  Whether an engine can be created and answers its     *)
(* health check is up to the environment.  Instrumentation is left out.    *)
(***************************************************************************)
EXTENDS Naturals, Sequences, SequencesExt

CONSTANTS
    Selectors,      \* threads that select backends
    Chain,          \* _FALLBACK_CHAIN, the last of it always works
    Installed,      \* the engines whose factories succeed
    Threshold,      \* failure_threshold
    Timeout         \* recovery_timeout, in ticks

ASSUME BreakerAssumption ==
    Threshold \in Nat \ {0} /\ Timeout \in Nat /\ Installed \subseteq ToSet(Chain)

VARIABLES
    state,          \* CircuitBreaker._states
    failures,       \* CircuitBreaker._failures, up to Threshold
    age,            \* since CircuitBreaker._last_failure_time
    healthy,        \* what check_backend_health would say of each engine
    selection,      \* where each thread is in select_backend
    failed,         \* history: failed checks since the last success or reset
    overlapped      \* history: an outcome of the engine was recorded while another
                    \* thread recorded one or was about to half-open its breaker

breakerVars == <<state, failures, age, healthy, selection, failed, overlapped>>

Backends == ToSet(Chain)
Fallback == Last(Chain)

\* A selection: the engines still to be asked, and those found available.
NotSelecting == [at |-> "idle", asks |-> <<>>, candidates |-> <<>>, checked |-> FALSE, hinted |-> FALSE,
                 query |-> FALSE, count |-> 0]

BreakerInit ==
    /\ state = [b \in Backends |-> "closed"]
    /\ failures = [b \in Backends |-> 0]
    /\ age = [b \in Backends |-> Timeout]
    /\ healthy \in {h \in [Backends -> BOOLEAN] : h[Fallback]}
    /\ selection = [c \in Selectors |-> NotSelecting]
    /\ failed = [b \in Backends |-> 0]
    /\ overlapped = [b \in Backends |-> FALSE]

CappedInc(n) == IF n < Threshold THEN n + 1 ELSE n

MoveTo(c, place) == selection' = [selection EXCEPT ![c].at = place]
At(c, place) == selection[c].at = place
Becomes(c, s) == selection' = [selection EXCEPT ![c] = s]

\* Threads that record an outcome of an engine, and threads that have read that
\* its breaker is open and may half-open it.
Recording == {"zero", "close", "read", "write", "stamp", "open"}
Recorders(b) ==
    {c \in Selectors : selection[c].at \in Recording /\ Head(selection[c].candidates) = b}
Askers(b) == {c \in Selectors : selection[c].at \in {"look", "promote"} /\ Head(selection[c].asks) = b}
-----------------------------------------------------------------------------
Trying(names, checked, hinted) ==
    [NotSelecting EXCEPT !.at = "try", !.candidates = names, !.checked = checked, !.hinted = hinted]
\* The next engine is asked; without one, a selection for a query ends, and
\* another tries the available engines, or the fallback.
Onward(s) ==
    IF s.asks # <<>> THEN [s EXCEPT !.at = "ask"]
    ELSE IF s.query THEN NotSelecting
    ELSE [s EXCEPT !.at = "try", !.candidates = IF @ = <<>> THEN <<Fallback>> ELSE @]

\* select_backend(hint="auto") for many rows: the engines are asked in order.
SelectLarge(c, checked) ==
    /\ At(c, "idle")
    /\ Becomes(c, Onward([NotSelecting EXCEPT !.asks = Chain, !.checked = checked]))
    /\ UNCHANGED <<state, failures, age, healthy, failed, overlapped>>

SelectSmall(c, checked) ==
    /\ At(c, "idle")
    /\ Becomes(c, Trying(<<Fallback>>, checked, FALSE))
    /\ UNCHANGED <<state, failures, age, healthy, failed, overlapped>>

\* An explicit hint asks the breaker nothing; an engine that cannot be created
\* is a ValueError.
SelectHinted(c, b, checked) ==
    /\ At(c, "idle")
    /\ b \in Installed
    /\ Becomes(c, Trying(<<b>>, checked, TRUE))
    /\ UNCHANGED <<state, failures, age, healthy, failed, overlapped>>

\* select_backend_for_query: the first engine but the fallback that is available
\* and can be created, or, for a query of many joins, one engine alone. When the
\* former finds none the latter may come after it, as another selection.
SelectForQuery(c) ==
    /\ At(c, "idle")
    /\ \E names \in {Front(Chain)} \union {<<b>> : b \in Backends \ {Fallback}} :
           Becomes(c, Onward([NotSelecting EXCEPT !.asks = names, !.query = TRUE]))
    /\ UNCHANGED <<state, failures, age, healthy, failed, overlapped>>

\* is_available: the state is read; of an open breaker the time; and when the
\* timeout is over the state is written. A selection for a query ends with an
\* engine that is available and can be created.
Answered(s, available) ==
    IF available /\ s.query /\ Head(s.asks) \in Installed THEN NotSelecting
    ELSE Onward([s EXCEPT !.asks = Tail(@), !.candidates = IF available THEN Append(@, Head(s.asks)) ELSE @])

ReadState(c) ==
    /\ At(c, "ask")
    /\ LET b == Head(selection[c].asks)
       IN  \/ /\ state[b] # "open"
              /\ Becomes(c, Answered(selection[c], TRUE))
              /\ UNCHANGED overlapped
           \/ /\ state[b] = "open"
              /\ MoveTo(c, "look")
              /\ overlapped' = [overlapped EXCEPT ![b] = @ \/ Recorders(b) # {}]
    /\ UNCHANGED <<state, failures, age, healthy, failed>>

NeverAgain(b) == FALSE      \* mutant: the recovery timeout is not looked at
RecoveryDue(b) == age[b] >= Timeout
ReadTime(c) ==
    /\ At(c, "look")
    /\ IF RecoveryDue(Head(selection[c].asks)) THEN MoveTo(c, "promote")
       ELSE Becomes(c, Answered(selection[c], FALSE))
    /\ UNCHANGED <<state, failures, age, healthy, failed, overlapped>>

HalfOpen(c) ==
    /\ At(c, "promote")
    /\ state' = [state EXCEPT ![Head(selection[c].asks)] = "half_open"]
    /\ Becomes(c, Answered(selection[c], TRUE))
    /\ UNCHANGED <<failures, age, healthy, failed, overlapped>>

\* The selection ends with the first engine, unchecked; without candidates with
\* the fallback; or it skips one that cannot be created.
TryNext(c) ==
    /\ At(c, "try")
    /\ LET s == selection[c] IN
         \/ /\ s.candidates = <<>>
            /\ selection' = [selection EXCEPT ![c] = NotSelecting]
         \/ /\ s.candidates # <<>> /\ Head(s.candidates) \notin Installed
            /\ selection' = [selection EXCEPT ![c].candidates = Tail(@)]
         \/ /\ s.candidates # <<>> /\ Head(s.candidates) \in Installed /\ ~s.checked
            /\ selection' = [selection EXCEPT ![c] = NotSelecting]
    /\ UNCHANGED <<state, failures, age, healthy, failed, overlapped>>

\* The health check, and the entry into record_success or record_failure.
Check(c) ==
    /\ At(c, "try")
    /\ LET s == selection[c]
           b == Head(s.candidates)
       IN  /\ s.candidates # <<>> /\ b \in Installed /\ s.checked
           /\ MoveTo(c, IF healthy[b] THEN "zero" ELSE "read")
           /\ overlapped' = [overlapped EXCEPT ![b] = @ \/ Recorders(b) \union Askers(b) # {}]
           /\ failed' = [failed EXCEPT ![b] = IF healthy[b] THEN 0 ELSE CappedInc(@)]
    /\ UNCHANGED <<state, failures, age, healthy>>

KeepsFailures(c) ==         \* mutant: a success closes the breaker but keeps the count
    /\ At(c, "zero")
    /\ MoveTo(c, "close")
    /\ UNCHANGED <<state, failures, age, healthy, failed, overlapped>>

\* record_success: two statements, and the engine is the one selected.
ZeroFailures(c) ==
    /\ At(c, "zero")
    /\ failures' = [failures EXCEPT ![Head(selection[c].candidates)] = 0]
    /\ MoveTo(c, "close")
    /\ UNCHANGED <<state, age, healthy, failed, overlapped>>

CloseBreaker(c) ==
    /\ At(c, "close")
    /\ state' = [state EXCEPT ![Head(selection[c].candidates)] = "closed"]
    /\ selection' = [selection EXCEPT ![c] = NotSelecting]
    /\ UNCHANGED <<failures, age, healthy, failed, overlapped>>

\* record_failure: the count is read, then written; the time; the comparison.
ReadFailures(c) ==
    /\ At(c, "read")
    /\ selection' = [selection EXCEPT ![c].count = failures[Head(selection[c].candidates)], ![c].at = "write"]
    /\ UNCHANGED <<state, failures, age, healthy, failed, overlapped>>

WriteFailures(c) ==
    /\ At(c, "write")
    /\ failures' = [failures EXCEPT ![Head(selection[c].candidates)] = CappedInc(selection[c].count)]
    /\ MoveTo(c, "stamp")
    /\ UNCHANGED <<state, age, healthy, failed, overlapped>>

StampFailure(c) ==
    /\ At(c, "stamp")
    /\ age' = [age EXCEPT ![Head(selection[c].candidates)] = 0]
    /\ MoveTo(c, "open")
    /\ UNCHANGED <<state, failures, healthy, failed, overlapped>>

OpensAtThreshold(b) ==
    state' = [state EXCEPT ![b] = IF failures[b] >= Threshold THEN "open" ELSE @]

\* A hinted engine that fails raises RuntimeError; another candidate is tried.
OpenBreaker(c) ==
    /\ At(c, "open")
    /\ OpensAtThreshold(Head(selection[c].candidates))
    /\ selection' = IF selection[c].hinted THEN [selection EXCEPT ![c] = NotSelecting]
                    ELSE [selection EXCEPT ![c].candidates = Tail(@), ![c].at = "try"]
    /\ UNCHANGED <<failures, age, healthy, failed, overlapped>>

\* reset(backend_name)
ResetBreaker(b) ==
    /\ state' = [state EXCEPT ![b] = "closed"]
    /\ failures' = [failures EXCEPT ![b] = 0]
    /\ age' = [age EXCEPT ![b] = Timeout]
    /\ failed' = [failed EXCEPT ![b] = 0]
    /\ overlapped' = [overlapped EXCEPT ![b] = @ \/ Recorders(b) \union Askers(b) # {}]
    /\ UNCHANGED <<healthy, selection>>

Ages ==
    /\ \E b \in Backends : age[b] < Timeout
    /\ age' = [b \in Backends |-> IF age[b] < Timeout THEN age[b] + 1 ELSE Timeout]
    /\ UNCHANGED <<state, failures, healthy, selection, failed, overlapped>>

HealthChanges(b) ==
    /\ b # Fallback
    /\ healthy' = [healthy EXCEPT ![b] = ~@]
    /\ UNCHANGED <<state, failures, age, selection, failed, overlapped>>

Continue(c) ==
    ReadState(c) \/ ReadTime(c) \/ HalfOpen(c) \/ TryNext(c) \/ Check(c) \/ ZeroFailures(c) \/ CloseBreaker(c)
      \/ ReadFailures(c) \/ WriteFailures(c) \/ StampFailure(c) \/ OpenBreaker(c)

BreakerNext ==
    \/ \E c \in Selectors :
         \/ \E checked \in BOOLEAN :
              \/ SelectLarge(c, checked) \/ SelectSmall(c, checked)
              \/ \E b \in Backends : SelectHinted(c, b, checked)
         \/ SelectForQuery(c)
         \/ Continue(c)
    \/ \E b \in Backends : ResetBreaker(b) \/ HealthChanges(b)
    \/ Ages

\* Time passes, a selection goes on, and large checked selections keep being
\* made; nothing is assumed of the other callers.
BreakerFairness ==
    /\ WF_breakerVars(Ages)
    /\ \A c \in Selectors :
         WF_breakerVars(Continue(c)) /\ SF_breakerVars(SelectLarge(c, TRUE))

BreakerSpec == BreakerInit /\ [][BreakerNext]_breakerVars /\ BreakerFairness
-----------------------------------------------------------------------------
\* As long as no thread has recorded an outcome of an engine while another one
\* recorded an outcome of it too or was about to half-open its breaker, the
\* breaker is closed exactly while fewer than `failure_threshold` checks have
\* failed since the last success, through hints, half-open probes and resets,
\* and the count agrees.
BreakerExact ==
    \A b \in Backends :
      ~overlapped[b] /\ Recorders(b) = {} =>
        /\ failures[b] = failed[b]
        /\ (state[b] = "closed") <=> (failed[b] < Threshold)

\* No permanent outage: an engine that stays healthy from some time on is
\* selected again, whatever the unlocked recordings of several threads have
\* made of the breaker before.
Recovers ==
    LET first == Chain[1]
    IN  <>[](healthy[first]) => <>[](state[first] = "closed")
=============================================================================
