------------------------------- MODULE MCLanguage -------------------------------
(* The parts of the query language that work without one another: a          *)
(* behaviour is one of a single part, picked in the initial state; the       *)
(* others stand still.                                                       *)
EXTENDS GraphQuery, Paths, LeapfrogTriejoin, Expressions, Composition

CONSTANTS a, b, each   \* variables of a query; `each` is that of a FOREACH

VARIABLE focus

partVars == <<pathVars, leapfrogVars, expressionVars, aggregationVars, compositionVars>>
languageVars == <<vars, partVars, focus>>

IdleQuery ==
    /\ live = NoTables /\ live_rels = NoTables /\ shadow = NoTables /\ shadow_rels = NoTables
    /\ frame = NoFrame /\ todo = <<>> /\ phase = "idle" /\ clauses = 0 /\ queries = QueryBound
IdlePaths ==
    /\ edges = <<>> /\ starts = <<>> /\ range = <<1, 1>> /\ direction = "right" /\ limit = NoLimit
    /\ duckdb = FALSE /\ hop = 1 /\ frontier = <<>> /\ walks = <<>> /\ search = "idle"
IdleJoin == columns = <<>> /\ iterators = <<>> /\ cursor = <<>> /\ steps = 0 /\ keys = <<>> /\ joining = "idle"
IdleFilter ==
    /\ where = <<>> /\ passing = <<>> /\ given = <<>> /\ lazy = FALSE
    /\ residual = <<>> /\ filtering = "idle"
IdleAggregation == aggRows = <<>> /\ aggItems = <<>> /\ aggregated = <<>> /\ aggregation = "idle"
IdleComposition ==
    /\ submission = <<>> /\ validates = TRUE /\ remaining = {} /\ order = <<>>
    /\ joined = 0 /\ combined = <<>> /\ composing = "idle"

MCInit ==
    /\ focus \in {"query", "paths", "join", "filter", "aggregation", "composition"}
    /\ IF focus = "query" THEN Init ELSE IdleQuery
    /\ IF focus = "paths" THEN PathsInit ELSE IdlePaths
    /\ IF focus = "join" THEN LeapfrogInit ELSE IdleJoin
    /\ IF focus = "filter" THEN ExpressionInit ELSE IdleFilter
    /\ IF focus = "aggregation" THEN AggregationInit ELSE IdleAggregation
    /\ IF focus = "composition" THEN CompositionInit ELSE IdleComposition

QueryStep == focus = "query" /\ Next /\ UNCHANGED <<partVars, focus>>
PathsStep ==
    /\ focus = "paths" /\ PathsNext
    /\ UNCHANGED <<vars, leapfrogVars, expressionVars, aggregationVars, compositionVars, focus>>
JoinStep ==
    /\ focus = "join" /\ LeapfrogNext
    /\ UNCHANGED <<vars, pathVars, expressionVars, aggregationVars, compositionVars, focus>>
FilterStep ==
    /\ focus = "filter" /\ ExpressionNext
    /\ UNCHANGED <<vars, pathVars, leapfrogVars, aggregationVars, compositionVars, focus>>
AggregationStep ==
    /\ focus = "aggregation" /\ AggregationNext
    /\ UNCHANGED <<vars, pathVars, leapfrogVars, expressionVars, compositionVars, focus>>
CompositionStep ==
    /\ focus = "composition" /\ CompositionNext
    /\ UNCHANGED <<vars, pathVars, leapfrogVars, expressionVars, aggregationVars, focus>>

MCNext == QueryStep \/ PathsStep \/ JoinStep \/ FilterStep \/ AggregationStep \/ CompositionStep
MCSpec == MCInit /\ [][MCNext]_languageVars
--------------------------------------------------------------------------------
(* Queries on two persons who know one another, or a person and a city. *)

Person(i, x, y) == [id |-> i, props |-> [p \in Props |-> IF p = "x" THEN x ELSE y]]
Knows(i, s, t) == [id |-> i, src |-> s, tgt |-> t]
MCInitialTables ==
    {[entities |-> "Person" :> <<Person(1, 1, Null), Person(2, 2, 1)>>, rels |-> "KNOWS" :> <<Knows(1, 1, 2)>>],
     [entities |-> ("Person" :> <<Person(1, 1, 1)>>) @@ ("City" :> <<Person(2, 1, 1)>>), rels |-> <<>>]}

Node(v, t) == [var |-> v, label |-> t, props |-> <<>>]
NodeX(v, t, x) == [var |-> v, label |-> t, props |-> "x" :> x]
Single(n) == [from |-> n, rel |-> NoRel, to |-> n]
Path(n, r, m) == [from |-> n, rel |-> r, to |-> m]
MCPatterns == {
    <<Single(Node(a, "Person"))>>, <<Single(NodeX(b, "Person", 1))>>,
    <<Path(Node(a, "Person"), "KNOWS", NodeX(b, "Person", 2))>>,
    <<Path(Node(b, "Person"), "KNOWS", Node(b, "Person"))>>,
    <<Single(Node(b, "City")), Single(Node(a, "Person"))>>}
ToCity == <<Path(Node(a, "Person"), "KNOWS", Node(b, "City"))>>
MCCreations == {
    <<Single(NodeX(a, "Person", 1)), Single(Node(b, "City"))>>,
    ToCity}
MCPredicates == {[var |-> a, prop |-> "x", value |-> 1], [var |-> b, prop |-> "x", value |-> 2]}
Value(v) == [op |-> "value", value |-> v]
LookUp(v, p) == [op |-> "lookup", var |-> v, prop |-> p]
Variable(v) == [op |-> "variable", var |-> v]
Item(v, values) == [var |-> v, values |-> values]
SetToElement == <<Item(a, "x" :> Variable(each))>>
SetFromLookup == <<Item(a, "x" :> Value(2)), Item(a, "y" :> LookUp(a, "x"))>>
MCSettings == {
    SetToElement, SetFromLookup,
    <<Item(b, ("x" :> Value(1)) @@ ("y" :> LookUp(a, "y")))>>}
MCOnMatches == {<<>>, <<Item(b, "x" :> Value(1))>>}
MCOnCreates == {<<>>, <<Item(b, "y" :> LookUp(b, "x")), Item(a, "x" :> Value(2))>>}
MCRemovals == {<<a, "x">>}
MCProjections == {{a}, {b}}

\* FOREACHs over values, over a node, one in another.
Loop(list, body) == [var |-> each, list |-> list, body |-> body]
Creates(paths) == [op |-> "create", paths |-> paths]
Sets(items) == [op |-> "set", items |-> items]
Removes(v, p) == [op |-> "remove", var |-> v, prop |-> p]
Deletes(v) == [op |-> "delete", var |-> v, detach |-> TRUE]
Nests(loop) == [op |-> "foreach", loop |-> loop]
OverValues == Loop(<<Value(1), Value(2)>>, <<Sets(SetToElement), Creates(ToCity)>>)
OverNode == Loop(<<Variable(a)>>, <<Sets(SetFromLookup), Removes(each, "x"), Sets(SetFromLookup), Deletes(each)>>)
Nesting == Loop(<<Value(1)>>, <<Nests(OverNode), Sets(SetToElement)>>)
MCForeaches == {OverValues, OverNode, Nesting}
MCInnerClauses == UNION {Range(loop.body) : loop \in MCForeaches}
--------------------------------------------------------------------------------
(* Searches over the edges among three nodes. *)

EdgeUniverse == {<<1, 2>>, <<2, 3>>, <<3, 1>>, <<1, 3>>, <<2, 2>>}
AsSequence(S) == FoldSet(LAMBDA e, list : Append(list, e), <<>>, S)
MCEdgeLists == {AsSequence(S) : S \in SUBSET EdgeUniverse} \union {<<<<1, 2>>, <<1, 2>>, <<2, 3>>>>}
StartAt(n, end) == [start |-> n, end |-> end]
MCStartRows == {<<>>, <<StartAt(1, 3)>>, <<StartAt(1, 3), StartAt(2, 1)>>, <<StartAt(1, 3), StartAt(1, 2)>>}
MCRanges == {<<1, Unbounded>>, <<0, 2>>, <<2, 3>>}

(* Joins of three and of four frames, and of three longer ones without repeats. *)
ColumnsOf(n, keyset) == UNION {[1..k -> keyset] : k \in 0..n}
Increasing == {c \in [1..3 -> 1..5] : c[1] < c[2] /\ c[2] < c[3]}
MCJoinedFrames == [1..3 -> ColumnsOf(2, 1..3)] \union [1..4 -> ColumnsOf(2, 1..2)]
                  \union [1..3 -> Increasing]
--------------------------------------------------------------------------------
(* Predicates on all the values of two properties, null and missing among them. *)

Expr(op, args, of) == [op |-> op, args |-> args, of |-> of]
Prop(p) == Expr("property", <<>>, p)
Lit(v) == Expr("literal", <<>>, v)
Cmp(rel, x, y) == Expr("compare", <<x, y>>, rel)
Comparisons == {Cmp("=", Prop("x"), Lit(1)), Cmp("<", Prop("x"), Prop("y")), Cmp("<>", Prop("y"), Lit(Null))}
Memberships == {
    Expr("in", <<Prop("x")>>, <<1, Null>>), Expr("not_in", <<Prop("x")>>, <<2, Null>>),
    Expr("not_in", <<Prop("y")>>, <<1>>), Expr("in", <<Prop("x")>>, <<>>)}
Quantified == {
    Expr("any", <<Cmp("=", Prop("it"), Prop("x"))>>, <<1, Null>>),
    Expr("all", <<Cmp("<=", Prop("it"), Prop("y"))>>, <<1, 2>>),
    Expr("none", <<Cmp("=", Prop("it"), Lit(Null))>>, <<1>>),
    Expr("single", <<Expr("not_in", <<Prop("x")>>, <<1>>)>>, <<2>>)}
Cases == {
    Cmp("=", Expr("case", <<Lit(2), Cmp("=", Prop("x"), Lit(1)), Lit(1), Cmp("<=", Prop("x"), Lit(2)), Prop("y")>>, ""), Lit(2)),
    Cmp("=", Expr("simple_case", <<Lit(2), Prop("y"), Lit(1), Lit(1), Lit(2), Prop("x")>>, ""), Lit(1))}
NullChecks == {Expr("is_null", <<Prop("x")>>, ""), Expr("is_not_null", <<Prop("y")>>, "")}
Atoms == Comparisons \union Memberships \union Quantified \union Cases \union NullChecks
Negations == {Expr("not", <<e>>, "") : e \in Atoms}
Pairs == {Expr(op, <<e, f>>, "") : op \in {"and", "or", "xor"}, e, f \in Atoms}
Nested == {Expr("and", <<e, Expr("not", <<Expr("or", <<f, g>>, "")>>, "")>>, "") :
               e \in Comparisons \union Memberships, f, g \in Comparisons \union NullChecks}
MCWherePredicates == Atoms \union Negations \union Pairs \union Nested

PartsOf(S) == UNION {Range(e.args) : e \in S}
MCTerms ==
    LET once == MCWherePredicates \union PartsOf(MCWherePredicates)
        twice == once \union PartsOf(once)
        thrice == twice \union PartsOf(twice)
    IN  thrice \union PartsOf(thrice)
MCDepth[e \in MCTerms] ==
    IF e.args = <<>> THEN 0 ELSE 1 + Max({MCDepth[e.args[i]] : i \in DOMAIN e.args})

PropertyRow(x, y) == [x |-> x, y |-> y]
EveryRow == <<PropertyRow(1, 1), PropertyRow(1, 2), PropertyRow(2, 1), PropertyRow(2, 2), PropertyRow(1, Null),
              PropertyRow(2, Null), PropertyRow(Null, 1), PropertyRow(Null, Null), [x |-> 1], [y |-> 2]>>
MCFrameRows == {<<>>, EveryRow}
MCBindings == Range(EveryRow) \union {Put(row, "it", v) : row \in Range(EveryRow), v \in {1, 2, Null}}
--------------------------------------------------------------------------------
(* Aggregates over at most three rows, ungrouped or grouped by two items. *)

KeyedRows(groups) == UNION {[1..n -> {[key |-> k, val |-> v] : k \in groups, v \in {1, 2, Null}}] : n \in 1..3}
MCAggregatedRows == KeyedRows({<<>>}) \union KeyedRows({<<1, 1>>, <<2, 1>>, <<1, Null>>})
Aggregate(func, distinct) == [func |-> func, distinct |-> distinct]
MCAggregateItems == {
    <<Aggregate("sum", FALSE), Aggregate("count", TRUE)>>, <<Aggregate("avg", TRUE), Aggregate("next", FALSE)>>,
    <<Aggregate("next", FALSE)>>, <<Aggregate("collect", TRUE), Aggregate("count_star", FALSE)>>,
    <<Aggregate("min", FALSE), Aggregate("max", TRUE)>>}
--------------------------------------------------------------------------------
(* Two queries with any identifiers, or three with their own. *)

Clause(kind, nodes, rels, sets, reads) ==
    [kind |-> kind, nodes |-> nodes, rels |-> rels, sets |-> sets, reads |-> reads]
MCWithStar == Clause("with", <<>>, {}, {}, {})
Reads(v, p) == Clause("return", <<>>, {}, {}, {<<v, p>>})
People == "p" :> {"Person"}
Cities == "c" :> {"City"}
QueryTexts == {
    <<Clause("create", People, {}, {}, {})>>,
    <<Clause("match", People, {}, {}, {}), Reads("p", "x")>>,
    <<Clause("match", People, {}, {}, {}), Clause("set", <<>>, {}, {<<"p", "x">>}, {}), Reads("p", "y")>>,
    <<Clause("match", People @@ Cities, {}, {}, {}), Clause("merge", "p" :> {}, {"LIVES_IN"}, {}, {})>>,
    <<Clause("match", Cities, {"LIVES_IN"}, {}, {}), Clause("delete", <<>>, {}, {}, {}), Reads("p", "x")>>,
    <<Clause("merge", Cities, {}, {}, {})>>}
QueryIds == <<"q1", "q2", "q3">>
MCSubmissions ==
    UNION {[1..n -> [id : Range(QueryIds), clauses : QueryTexts]] : n \in 1..2}
    \union {[q \in 1..3 |-> [id |-> QueryIds[q], clauses |-> texts[q]]] : texts \in [1..3 -> QueryTexts]}
================================================================================
