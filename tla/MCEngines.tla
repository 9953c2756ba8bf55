------------------------------- MODULE MCEngines -------------------------------
(* What executes queries: the engines of frames, nmetl run, the planner, and  *)
(* the relation engine (the instance R, as its names are those of the others). *)
(* A behaviour is one of a single part, picked in the initial state.          *)
EXTENDS Backends, Pipeline, Planner

CONSTANTS EntitySources, RelationshipSources, UserFunctions, CycleEvery, Questions, QuestionBound
VARIABLES tables, connection, loading, answered, focus
R == INSTANCE RelationEngine
relationVars == <<tables, connection, loading, answered>>
engineVars == <<backendVars, pipelineVars, plannerVars, relationVars, focus>>

AnyFrame == CHOOSE f \in FirstFrames : ~f.lazy
AnyJob == CHOOSE j \in Jobs : j.command = "list"
IdleBackends == engine = "pandas" /\ frame = AnyFrame /\ BackendsInit
IdlePlanner == host = "pandas" /\ budget = Null /\ PlannerInit
IdlePipeline == job = AnyJob /\ PipelineInit
MCInit ==
    /\ focus \in {"backends", "pipeline", "planner", "relation"}
    /\ IF focus = "backends" THEN BackendsInit ELSE IdleBackends
    /\ IF focus = "pipeline" THEN PipelineInit ELSE IdlePipeline
    /\ IF focus = "planner" THEN PlannerInit ELSE IdlePlanner
    /\ R!RelationInit
BackendsStep == focus = "backends" /\ BackendsNext /\ UNCHANGED <<pipelineVars, plannerVars, relationVars, focus>>
PipelineStep == focus = "pipeline" /\ PipelineNext /\ UNCHANGED <<backendVars, plannerVars, relationVars, focus>>
PlannerStep == focus = "planner" /\ PlannerNext /\ UNCHANGED <<backendVars, pipelineVars, relationVars, focus>>
RelationStep == focus = "relation" /\ R!RelationNext /\ UNCHANGED <<backendVars, pipelineVars, plannerVars, focus>>
MCNext == BackendsStep \/ PipelineStep \/ PlannerStep \/ RelationStep
MCSpec == MCInit /\ [][MCNext]_engineVars

\* RelationEngine's property: a query with a plan does what its clauses mean.
RelationsKeepMeaning == R!RelationsKeepMeaning
--------------------------------------------------------------------------------
(* Sources of nodes and relationships, and the queries asked of them. *)
Menu == INSTANCE RelationQuestions
MCEntitySources == Menu!Sources
MCRelationshipSources == Menu!Joins
MCUserFunctions == Menu!Udfs
MCQuestions == Menu!AllQuestions
--------------------------------------------------------------------------------
(* Small frames with repeated rows and null keys. *)

\* Wide rows of "__ID__" and "v"; the right-hand frames have "__ID__" and "w".
Row(i, v) == (IdColumn :> i) @@ ("v" :> v)
WRow(i, w) == (IdColumn :> i) @@ ("w" :> w)
FrameOf(cols, rows, lazy) == [cols |-> cols, rows |-> rows, lazy |-> lazy, order |-> <<>>]
IdV == <<IdColumn, "v">>
MCFirstFrames ==
    {FrameOf(IdV, rows, lazy) : lazy \in BOOLEAN, rows \in {
        <<>>, <<Row(1, 2), Row(1, 2), Row(2, 1)>>, <<Row(2, 1), Row(Null, 2), Row(1, Null)>>}}
MCOthers ==
    {FrameOf(<<IdColumn, "w">>, <<WRow(1, 1), WRow(Null, 2), WRow(1, Null)>>, lazy) : lazy \in BOOLEAN}
    \union {FrameOf(<<"v", IdColumn>>, <<Row(1, 2), Row(3, 2)>>, lazy) : lazy \in BOOLEAN}
    \union {FrameOf(IdV, <<Row(2, 1)>>, TRUE), FrameOf(<<"u">>, <<"u" :> 1, "u" :> 2>>, FALSE)}
Spec(out, src, func) == [out |-> out, src |-> src, func |-> func]
MCAggregations == {<<Spec("s", "v", "sum"), Spec("n", IdColumn, "count")>>, <<Spec("m", "v", "max")>>, <<Spec("m", "v", "min")>>}
MCRenamings == {<<"v", "x">>, <<IdColumn, "v">>, <<"w", "v">>}
MCJoinKeys == {{IdColumn}, {"v"}}
MCGroupKeys == {{}, {IdColumn}}
--------------------------------------------------------------------------------
(* Configurations of up to three queries that feed one another. *)

Text(place, parses, supported, returns, reads, writes) ==
    [place |-> place, parses |-> parses, supported |-> supported, returns |-> returns, reads |-> reads, writes |-> writes]
Creates == Text("found", TRUE, TRUE, FALSE, {}, {"Person"})
MovesOn == Text("found", TRUE, TRUE, TRUE, {"Person"}, {"City"})
Counts == Text("found", TRUE, TRUE, TRUE, {"City"}, {})
Circular == Text("found", TRUE, TRUE, FALSE, {"City"}, {"Person"})
Exotic == Text("found", TRUE, FALSE, TRUE, {"Person"}, {})
Garbled == Text("found", FALSE, TRUE, TRUE, {}, {})
Missing == Text("missing", TRUE, TRUE, TRUE, {}, {})
Inline(id, text) == [id |-> id, inline |-> text, source |-> None]
FromFile(id, text) == [id |-> id, inline |-> None, source |-> text]
Output(query, cloud) == [query |-> query, cloud |-> cloud, writable |-> TRUE, extension |-> TRUE]
Source(id, at) == [id |-> id, scheme |-> "file", at |-> at, extension |-> TRUE, query |-> FALSE]

QueryLists == {
    <<Inline("q1", Counts), Inline("q2", MovesOn), Inline("q3", Creates)>>,
    <<Inline("q1", MovesOn), Inline("q2", Circular)>>,
    <<FromFile("q1", Missing), Inline("q2", Counts), Inline("q3", MovesOn)>>,
    <<Inline("q1", Garbled), Inline("q2", Creates)>>,
    <<Inline("q1", Exotic), Inline("q2", Creates)>>,
    <<Inline("q1", Counts), Inline("q1", MovesOn)>>}
OutputLists == {
    <<>>, <<Output("q1", FALSE), Output("q2", FALSE), Output("q1", FALSE)>>, <<Output("q2", TRUE), Output("q1", FALSE)>>,
    <<Output("q4", FALSE)>>, <<[Output("q1", FALSE) EXCEPT !.writable = FALSE]>>}
Plain(queries, output, backend, relation_engine) ==
    [state |-> "read", version |-> "supported", backend |-> backend, relation_engine |-> relation_engine, queries |-> queries,
     output |-> output, sources |-> <<Source("s", "both")>>, functions |-> <<>>]
Base == Plain(<<Inline("q1", Creates), Inline("q2", MovesOn)>>, <<Output("q2", FALSE)>>, "duckdb", TRUE)
RefusedConfigurations == {
    [Base EXCEPT !.version = "newer"], [Base EXCEPT !.sources = <<Source("s", "both"), Source("s", "both")>>],
    [Base EXCEPT !.queries = <<[Inline("q1", Creates) EXCEPT !.source = Creates]>>],
    [Base EXCEPT !.sources = <<[Source("s", "both") EXCEPT !.scheme = "sql"]>>],
    [Base EXCEPT !.functions = <<[form |-> "module", importable |-> TRUE]>>]}
Odd == {
    [Base EXCEPT !.version = "older", !.sources = <<Source("s", "config directory")>>],
    [Base EXCEPT !.sources = <<Source("s", "working directory"), [Source("t", "both") EXCEPT !.scheme = "sql", !.query = TRUE]>>],
    [Base EXCEPT !.functions = <<[form |-> "callable", importable |-> FALSE]>>, !.backend = "pandas"],
    [Base EXCEPT !.functions = <<[form |-> "module with names", importable |-> TRUE]>>]}
Configurations ==
    {Plain(q, o, e[1], e[2]) : q \in QueryLists, o \in OutputLists,
                               e \in {<<"pandas", FALSE>>, <<"duckdb", FALSE>>, <<"duckdb", TRUE>>}}
    \union RefusedConfigurations \union Odd \union {[state |-> "absent"], [state |-> "not yaml"]}
Job(command, file, ids, on_error) == [command |-> command, file |-> file, ids |-> ids, on_error |-> on_error]
MCJobs ==
    {Job("run", c, {}, policy) : c \in Configurations, policy \in {None, "fail", "warn", "skip"}}
    \union {Job(command, c, {}, None) : command \in {"dry run", "validate", "list"}, c \in Configurations}
    \union {Job("run", Base, {"q2"}, "warn")}
--------------------------------------------------------------------------------
(* Queries on a graph of two kinds of nodes and three of relationships. *)

Node(id, label, x) == [id |-> id, label |-> label, x |-> x]
Arc(type, from, to) == [type |-> type, from |-> from, to |-> to]
MCGraph ==
    [nodes |-> <<Node(1, "A", 1), Node(2, "A", 2), Node(3, "A", Null), Node(11, "B", 2), Node(12, "B", 3)>>,
     edges |-> <<Arc("K", 1, 2), Arc("K", 2, 3), Arc("K", 1, 11), Arc("K", 2, 11), Arc("K", 3, 1),
                 Arc("L", 1, 12), Arc("M", 1, 11), Arc("M", 2, 12)>>]
MCSizes == [row |-> 10, cell |-> 8, broadcast |-> 2, switch |-> 100, history |-> 1, histogram_rows |-> 2, bins |-> 2]

At(var, label) == [kind |-> "node", var |-> var, label |-> label]
Hop(type) == [kind |-> "hop", label |-> type, length |-> Null]
Far(type, least, most) == [kind |-> "hop", label |-> type, length |-> <<least, most>>]
Path(elements) == [elements |-> elements, shortest |-> FALSE]
Match(paths, where) == [op |-> "match", optional |-> FALSE, paths |-> paths, where |-> where]
Optional(paths) == [Match(paths, Null) EXCEPT !.optional = TRUE]
Return(vars) == [op |-> "return", vars |-> vars, count |-> "none", distinct |-> FALSE, order |-> FALSE, skip |-> Null, limit |-> Null]
First(n, vars) == [Return(vars) EXCEPT !.limit = n]
With(vars, where, distinct) == [op |-> "with", vars |-> vars, where |-> where, distinct |-> distinct]
Cmp(var, op, value) == [op |-> op, var |-> var, value |-> value]
KnownX(var) == [op |-> "known", var |-> var]
Every(args) == [op |-> "and", args |-> args]
Some(args) == [op |-> "or", args |-> args]
Not(arg) == [op |-> "not", arg |-> arg]
a == At("a", "A")
a_ == At("a", Null)
b == At("b", Null)
AllA == Match(<<Path(<<a>>)>>, Null)
AllB == Match(<<Path(<<At("b", "B")>>)>>, Null)
FarMatch(where) == Match(<<Path(<<a, Far("K", 1, 2), b>>)>>, where)
Asks ==
    {<<AllA, AllB, Return({"a", "b"})>>,
     <<Match(<<Path(<<a>>)>>, Cmp("a", ">", 1)), Match(<<Path(<<a_, Hop("L"), At("c", Null)>>)>>, Null), Return({"a", "c"})>>,
     <<AllA, Match(<<Path(<<a_, Hop("L"), At("c", Null)>>)>>, Null), Match(<<Path(<<a_, Hop("M"), At("d", Null)>>)>>, Null), Return({"a", "d"})>>,
     <<AllA, Match(<<Path(<<At("b", "B")>>)>>, Cmp("a", "=", 2)), First(1, {"b"})>>,
     <<Match(<<Path(<<a, Hop("K"), b>>)>>, Cmp("a", "=", 1)), [First(1, {"b"}) EXCEPT !.order = TRUE]>>,
     <<Match(<<Path(<<a, Hop("K"), b>>)>>, Not(Cmp("b", "<", 2))), [Return({"b"}) EXCEPT !.distinct = TRUE]>>,
     <<Match(<<Path(<<a>>), Path(<<At("b", "B")>>)>>, Every(<<Cmp("a", "<", 2), KnownX("b")>>)), Return({"a", "b"})>>,
     <<Match(<<Path(<<a, Hop("K"), b>>), Path(<<a, Hop("K"), At("c", "A"), Hop("K"), b>>)>>, Some(<<Cmp("a", "<>", 1), Not(Not(KnownX("c")))>>)), Return({"a"})>>,
     <<FarMatch(Null), First(2, {"a", "b"})>>, <<FarMatch(Null), [First(1, {"a", "b"}) EXCEPT !.skip = 1]>>,
     <<FarMatch(Cmp("b", "=", 2)), First(1, {"b"})>>, <<FarMatch(Null), [op |-> "set", var |-> "b"], First(1, {"b"})>>,
     <<FarMatch(Null), [First(1, {}) EXCEPT !.count = "nested"]>>, <<FarMatch(Null), [First(1, {}) EXCEPT !.count = "top"]>>,
     <<FarMatch(Null), AllB, First(1, {"b"})>>,
     <<AllA, With({"a"}, KnownX("a"), TRUE), Match(<<Path(<<a_, Hop("K"), b>>)>>, Cmp("b", ">", 1)), First(2, {"b"})>>,
     <<AllA, Optional(<<Path(<<a_, Hop("L"), At("c", Null)>>)>>), Return({"a", "c"})>>,
     <<[op |-> "unwind", var |-> "v", values |-> <<1, 2>>], AllB, First(3, {"v", "b"})>>,
     <<Match(<<[Path(<<a, Far("K", 1, 3), b>>) EXCEPT !.shortest = TRUE]>>, Null), Match(<<Path(<<At("c", "B")>>)>>, Null), Return({"a", "b", "c"})>>,
     <<AllA, [op |-> "set", var |-> "a"]>>,
     <<Match(<<Path(<<a, Hop("K"), b, Hop("K"), a>>)>>, Null), Return({"a", "b"})>>}
================================================================================
