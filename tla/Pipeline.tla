------------------------------- MODULE Pipeline -------------------------------
(* nmetl run, validate and list-queries (cli/pipeline.py, cli/common.py,     *)
(* config.py, ingestion/output_writer.py). A configuration is read and       *)
(* checked; its queries are put in the order of their dependencies and run   *)
(* one after another, in memory or streamed through a scratch database; the  *)
(* results go to the outputs that name the query.                            *)
(*                                                                           *)
(* A query text is [place, parses, supported, returns, reads, writes]: where *)
(* its file is, whether it is Cypher, whether the relation engine translates *)
(* it, whether it ends in RETURN, and what it consumes and produces. A       *)
(* source is found beside the configuration, in the working directory, or    *)
(* both. Queries and outputs are named by their positions.                   *)
EXTENDS CypherValues, Naturals, Sequences, FiniteSets, SequencesExt

CONSTANTS
    None,
    Jobs,          \* [command, file, ids, on_error]
    FaultBound,    \* steps that the world makes fail
    RunBound       \* runs of the same job, after kills

ASSUME PipelineAssumption ==
    \A j \in Jobs :
        /\ j.command \in {"run", "dry run", "validate", "list"}
        /\ j.on_error \in {None, "fail", "warn", "skip"}
        /\ j.file.state \in {"read", "absent", "not yaml"}
        /\ j.file.state = "read" =>
             /\ j.file.sources \in Seq(Range(j.file.sources))
             /\ j.file.queries \in Seq(Range(j.file.queries))
             /\ j.file.output \in Seq(Range(j.file.output))

VARIABLES
    job, stage,
    streaming,     \* the run goes through the scratch database
    sourcesLeft,
    todo,          \* queries not yet run
    sinks,         \* <<query, output>> pairs not yet written
    history,       \* queries in the order in which they were executed
    written, failed,
    exit, cause,   \* the exit code, and what led to it
    scratch,       \* this run's scratch database exists
    orphans,       \* "fresh" and "old" scratch databases of killed runs
    runs, faults

work == <<sourcesLeft, todo, sinks>>
outcome == <<history, written, failed>>
ending == <<exit, cause, scratch>>
world == <<orphans, runs, faults>>
pipelineVars == <<job, stage, streaming, work, outcome, ending, world>>

PipelineInit ==
    /\ job \in Jobs
    /\ stage = "load" /\ streaming = FALSE
    /\ sourcesLeft = <<>> /\ todo = <<>> /\ sinks = <<>>
    /\ history = <<>> /\ written = {} /\ failed = {}
    /\ exit = None /\ cause = None /\ scratch = FALSE
    /\ orphans = {} /\ runs = 1 /\ faults = 0

config == job.file
--------------------------------------------------------------------------------
(* What config.py accepts. *)

SourceAccepted(s) == IF s.scheme = "sql" THEN s.query ELSE s.extension
FunctionAccepted(f) == f.form \in {"callable", "module with names"}
QueryAccepted(q) == (q.inline = None) # (q.source = None)
VersionAccepted == config.version \in {"supported", "older"}
UniqueSourceIds == \A s, t \in DOMAIN config.sources : config.sources[s].id = config.sources[t].id => s = t
ConfigAccepted ==
    /\ VersionAccepted /\ UniqueSourceIds
    /\ \A s \in Range(config.sources) : SourceAccepted(s)
    /\ \A f \in Range(config.functions) : FunctionAccepted(f)
    /\ \A q \in Range(config.queries) : QueryAccepted(q)
    /\ \A o \in Range(config.output) : o.extension

Id(q) == config.queries[q].id
TextOf(q) == IF config.queries[q].inline # None THEN config.queries[q].inline ELSE config.queries[q].source
Loads(q) == TextOf(q).place = "found"     \* neither missing nor outside the configuration's directory
SinksOf(q) == {o \in DOMAIN config.output : config.output[o].query = Id(q)}
--------------------------------------------------------------------------------
(* The order of the queries. *)

Selected == {q \in DOMAIN config.queries : job.ids = {} \/ Id(q) \in job.ids}
Needs(q, other) == q # other /\ TextOf(q).reads \intersect TextOf(other).writes # {}

\* topological_sort of the queries that load: in every round those that need
\* none of the rest, as written. It raises when nobody is ready, or when an
\* identifier is ready twice.
Nodes == {q \in Selected : Loads(q)}
Ids(nodes) == {Id(q) : q \in nodes}
DependsOn(q) == Ids({other \in Nodes : Needs(q, other)})
Ready(remaining) == {q \in Nodes : Id(q) \in remaining /\ DependsOn(q) \intersect remaining = {}}
Remaining[n \in Nat] == IF n = 0 THEN Ids(Nodes) ELSE Remaining[n - 1] \ Ids(Ready(Remaining[n - 1]))
Round(n) == Ready(Remaining[n - 1])
Sortable ==
    /\ Remaining[Cardinality(Nodes)] = {}
    /\ \A n \in 1..Cardinality(Nodes) : \A q, other \in Round(n) : Id(q) = Id(other) => q = other

Result[n \in Nat] == IF n = 0 THEN <<>> ELSE Result[n - 1] \o InOrder(Round(n))
SortedDownwards == Reverse(Result[Cardinality(Nodes)])   \* mutant: consumers first
Sorted == Result[Cardinality(Nodes)]

\* The queries that load, sorted, then the others; as written if any step fails.
LastWithId(id) == CHOOSE q \in Selected : Id(q) = id /\ \A other \in Selected : Id(other) = id => other <= q
Analysable ==
    /\ Cardinality(Selected) > 1 /\ Nodes # {}
    /\ \A q \in Nodes : TextOf(q).parses
    /\ Sortable
Reordered ==
    IF Analysable THEN [i \in DOMAIN Sorted |-> LastWithId(Id(Sorted[i]))] \o InOrder(Selected \ Nodes)
    ELSE InOrder(Selected)
--------------------------------------------------------------------------------
\* The end of the command; a streaming run deletes its database on the way out.
End(code, why) ==
    /\ stage' = "ended" /\ exit' = code /\ cause' = why /\ scratch' = FALSE
    /\ UNCHANGED <<job, streaming>>
Goes(next) == stage' = next /\ UNCHANGED <<job, streaming, ending>>
Stays == Goes(stage)
Fault == faults < FaultBound /\ faults' = faults + 1 /\ UNCHANGED <<orphans, runs>>

\* ErrorPolicyTracker.handle: end, or note what failed and go on.
HandleAlways(what) == failed' = failed \union {what} /\ Stays     \* mutant: "fail" goes on
Handle(what) ==
    IF job.on_error \in {None, "fail"} THEN End(1, "policy") /\ UNCHANGED failed
    ELSE failed' = failed \union {what} /\ Stays

\* load_config: an error of its own, or what comes after it.
LoadConfig(Accepted) ==
    IF config.state = "absent" THEN End(IF job.command = "validate" THEN 1 ELSE 2, "config")
    ELSE IF config.state = "not yaml" \/ ~ConfigAccepted THEN End(2, "config")
    ELSE Accepted
Run ==
    /\ stage = "load" /\ job.command \in {"run", "dry run"}
    /\ LoadConfig(Goes("order"))
    /\ UNCHANGED <<work, outcome, world>>
Validate ==
    /\ stage = "load" /\ job.command = "validate"
    /\ LoadConfig(End(0, "done"))
    /\ UNCHANGED <<work, outcome, world>>
ListQueries ==
    /\ stage = "load" /\ job.command = "list"
    /\ LoadConfig(End(0, "done"))
    /\ UNCHANGED <<work, outcome, world>>

StreamingRequested == config.backend = "duckdb" /\ config.relation_engine
Order ==
    /\ stage = "order"
    /\ todo' = Reordered /\ sourcesLeft' = config.sources
    /\ Goes(IF job.command = "dry run" THEN "dry run" ELSE IF config.backend = "duckdb" THEN "open" ELSE "sources")
    /\ UNCHANGED <<sinks, outcome, world>>

\* Files are looked for beside the configuration; remote ones are not looked at.
DryRunErrors ==
    \/ \E s \in Range(config.sources) : s.scheme = "file" /\ s.at = "working directory"
    \/ \E q \in Range(Reordered) : ~Loads(q) \/ ~TextOf(q).parses
    \/ \E o \in Range(config.output) :
           \/ o.query \notin {Id(q) : q \in DOMAIN config.queries}
           \/ ~o.cloud /\ ~o.writable
DryRun ==
    /\ stage = "dry run"
    /\ End(IF DryRunErrors THEN 1 ELSE 0, "dry run")
    /\ UNCHANGED <<work, outcome, world>>

\* Old databases of killed runs are swept before the new one is made.
OpenScratch ==
    /\ stage = "open"
    /\ orphans' = orphans \ {"old"}
    /\ streaming' = StreamingRequested /\ scratch' = StreamingRequested
    /\ stage' = (IF StreamingRequested THEN "functions" ELSE "sources")
    /\ UNCHANGED <<job, work, outcome, exit, cause, runs, faults>>

\* User functions come before the sources when streaming, after them in memory.
RegisterFunctions ==
    /\ stage = "functions"
    /\ IF \E f \in Range(config.functions) : ~f.importable THEN End(1, "functions")
       ELSE Goes(IF streaming THEN "sources" ELSE "queries")
    /\ UNCHANGED <<work, outcome, world>>

\* The source's own on_error is not asked.
LoadSource ==
    /\ stage = "sources" /\ sourcesLeft # <<>>
    /\ LET s == Head(sourcesLeft)
       IN  \/ /\ s.scheme = "file" => s.at # "config directory"
              /\ sourcesLeft' = Tail(sourcesLeft) /\ Stays /\ UNCHANGED world
           \/ /\ s.scheme = "file" /\ s.at = "config directory"
              /\ End(1, "missing source") /\ UNCHANGED <<sourcesLeft, world>>
           \/ Fault /\ End(1, "unreadable source") /\ UNCHANGED sourcesLeft
    /\ UNCHANGED <<todo, sinks, outcome>>
SourcesLoaded ==
    /\ stage = "sources" /\ sourcesLeft = <<>>
    /\ Goes(IF streaming THEN "queries" ELSE "functions")
    /\ UNCHANGED <<work, outcome, world>>
--------------------------------------------------------------------------------
(* In memory: load, execute, write to each sink. *)

Pairs(q) == LET outputs == InOrder(SinksOf(q)) IN [i \in DOMAIN outputs |-> <<q, outputs[i]>>]
Executed(q) == history' = Append(history, q)

RunInMemory ==
    /\ stage = "queries" /\ ~streaming /\ sinks = <<>> /\ todo # <<>>
    /\ LET q == Head(todo)
       IN  \/ Loads(q) /\ TextOf(q).parses /\ Executed(q) /\ sinks' = Pairs(q) /\ Stays /\ UNCHANGED <<failed, world>>
           \/ ~(Loads(q) /\ TextOf(q).parses) /\ Handle(<<q, 0>>) /\ UNCHANGED <<history, sinks, world>>
           \/ Loads(q) /\ TextOf(q).parses /\ Fault /\ Handle(<<q, 0>>) /\ UNCHANGED <<history, sinks>>
    /\ todo' = Tail(todo)
    /\ UNCHANGED <<sourcesLeft, written>>

\* Cloud destinations are not written: a NotImplementedError, which nothing
\* catches here.
Refused(sink) == config.output[sink[2]].cloud
WriteInMemory ==
    /\ stage = "queries" /\ ~streaming /\ sinks # <<>>
    /\ LET sink == Head(sinks)
       IN  \/ ~Refused(sink) /\ written' = written \union {sink} /\ Stays /\ UNCHANGED <<failed, world>>
           \/ ~Refused(sink) /\ Fault /\ Handle(sink) /\ UNCHANGED written
           \/ Refused(sink) /\ End(1, "uncaught") /\ UNCHANGED <<written, failed, world>>
    /\ sinks' = Tail(sinks)
    /\ UNCHANGED <<sourcesLeft, todo, history>>

(* Streaming: mutations and reads without sinks run as they are classified;  *)
(* the others afterwards, once for each sink.                                *)
Mutation(q) == ~TextOf(q).returns /\ TextOf(q).writes # {}
Translatable(q) == TextOf(q).supported /\ (TextOf(q).returns \/ TextOf(q).writes # {})
Deferred(q) == TextOf(q).returns /\ SinksOf(q) # {}
Classify ==
    /\ stage = "queries" /\ streaming /\ todo # <<>>
    /\ LET q == Head(todo)
       IN  \/ /\ ~(Loads(q) /\ TextOf(q).parses)
              /\ End(1, "uncaught") /\ UNCHANGED <<history, sinks, failed, world>>
           \/ /\ Loads(q) /\ TextOf(q).parses /\ ~Translatable(q)
              /\ Handle(<<q, 0>>) /\ UNCHANGED <<history, sinks, world>>
           \/ /\ Loads(q) /\ TextOf(q).parses /\ Translatable(q)
              /\ \/ /\ Deferred(q)
                    /\ sinks' = sinks \o Pairs(q) /\ Stays /\ UNCHANGED <<history, failed, world>>
                 \/ ~Deferred(q) /\ Executed(q) /\ Stays /\ UNCHANGED <<sinks, failed, world>>
                 \/ ~Deferred(q) /\ Fault /\ Handle(<<q, 0>>) /\ UNCHANGED <<history, sinks>>
    /\ todo' = Tail(todo)
    /\ UNCHANGED <<sourcesLeft, written>>

\* stream_query_to_uri executes the query, then copies its result out.
StreamToSink ==
    /\ stage = "queries" /\ streaming /\ todo = <<>> /\ sinks # <<>>
    /\ LET sink == Head(sinks)
       IN  \/ Fault /\ Handle(sink) /\ UNCHANGED <<history, written>>
           \/ /\ Executed(sink[1])
              /\ IF Refused(sink) THEN Handle(sink) /\ UNCHANGED <<written, world>>
                 ELSE \/ written' = written \union {sink} /\ Stays /\ UNCHANGED <<failed, world>>
                      \/ Fault /\ Handle(sink) /\ UNCHANGED written
    /\ sinks' = Tail(sinks)
    /\ UNCHANGED <<sourcesLeft, todo>>

Finish ==
    /\ stage = "queries" /\ todo = <<>> /\ sinks = <<>>
    /\ End(0, "done")
    /\ UNCHANGED <<work, outcome, world>>

\* The process dies; its database stays. Perhaps a day passes; the job runs again.
Killed ==
    /\ scratch /\ runs < RunBound
    /\ stage' = "killed" /\ scratch' = FALSE /\ orphans' = orphans \union {"fresh"}
    /\ UNCHANGED <<job, streaming, work, outcome, exit, cause, runs, faults>>
Rerun ==
    /\ stage = "killed"
    /\ \/ UNCHANGED orphans
       \/ orphans' = {"old"}
    /\ runs' = runs + 1 /\ stage' = "load" /\ streaming' = FALSE
    /\ history' = <<>> /\ written' = {} /\ failed' = {} /\ sourcesLeft' = <<>> /\ todo' = <<>> /\ sinks' = <<>>
    /\ UNCHANGED <<job, ending, faults>>

PipelineNext ==
    \/ Run \/ Validate \/ ListQueries \/ Order \/ DryRun \/ OpenScratch \/ RegisterFunctions \/ LoadSource \/ SourcesLoaded
    \/ RunInMemory \/ WriteInMemory \/ Classify \/ StreamToSink \/ Finish \/ Killed \/ Rerun
PipelineSpec == PipelineInit /\ [][PipelineNext]_pipelineVars
--------------------------------------------------------------------------------
Before(i, j) == \E k \in DOMAIN history : history[k] = i /\ \A l \in DOMAIN history : history[l] = j => k < l
DistinctIds == \A q, other \in Selected : Id(q) = Id(other) => q = other

\* A query runs only after every query that produces what it consumes and runs
\* at all, whichever were selected and whichever failed; when streaming this is
\* so of producers without a sink, since reads with sinks are put off.
ConsumersAfterProducers ==
    stage \in {"queries", "ended"} /\ config.state = "read" /\ ConfigAccepted /\ Analysable /\ DistinctIds =>
        \A q, other \in Range(history) : Needs(q, other) /\ ~(streaming /\ Deferred(other)) => Before(other, q)

\* A run that exits with 0, whatever was then still to do, executed every query
\* it was asked for and wrote it to every output, or the policy said to go on
\* and the failure was noted: of the query, or of its outputs. A read that is
\* put off is executed for each of its outputs; it may be that none of them was
\* reached. A run whose policy is to go on ends early for its configuration,
\* sources and functions only, and for the errors nobody catches: a cloud output
\* in memory, a query that cannot be read when streaming. The output of a
\* mutation without RETURN is not written when streaming.
WrittenOrNoted(q) == \A o \in SinksOf(q) : <<q, o>> \in written \union failed
NothingSkipped ==
    stage = "ended" /\ job.command = "run" =>
        /\ exit = 0 => /\ failed # {} => job.on_error \in {"warn", "skip"}
                       /\ DistinctIds => \A q \in Selected :
                              \/ <<q, 0>> \in failed
                              \/ q \in Range(history) /\ ((streaming /\ Mutation(q)) \/ WrittenOrNoted(q))
                              \/ streaming /\ Deferred(q) /\ \A o \in SinksOf(q) : <<q, o>> \in failed
        /\ cause = "policy" => job.on_error \in {None, "fail"}
        /\ cause = "uncaught" => IF streaming THEN \E q \in Selected : ~Loads(q) \/ ~TextOf(q).parses
                                 ELSE \E o \in Range(config.output) : o.cloud

\* Where the two directories agree, a dry run that reports no error has seen
\* every missing file and unreadable query a run could stop at.
DryRunPredicts ==
    LET sameDirectory == \A s \in Range(config.sources) : s.at = "both"
    IN  stage = "ended" /\ cause \in {"missing source", "uncaught"} /\ sameDirectory =>
            DryRunErrors \/ \E o \in Range(config.output) : o.cloud

\* The scratch database does not outlive a run that ends by itself, and a run
\* that streams finds none that is a day old.
ScratchGone ==
    /\ stage = "ended" => ~scratch
    /\ scratch => "old" \notin orphans

\* The exit code, the outputs, a dry run and the scratch database tell what was
\* done.
EndsAsReported == NothingSkipped /\ DryRunPredicts /\ ScratchGone
================================================================================
