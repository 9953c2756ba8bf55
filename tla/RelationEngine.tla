----------------------------- MODULE RelationEngine -----------------------------
(* The out-of-core path of nmetl run: files become tables of a scratch       *)
(* database, and each query its plan (RelationPlan), which Emitter turns     *)
(* into SQL and runs. A table is a sequence of rows [id, at], at the         *)
(* properties that a column has a value for; a relationship has endpoints    *)
(* and the labels its source declares for them. In rows of variables a node  *)
(* or relationship is its id. What DuckDB's operators and functions compute  *)
(* is its own, and so is the order of rows that tie; column types, the names *)
(* of columns, and tables of a Context's memory are left out, and so is SET  *)
(* of the id column. A label has one source: TableRegistry merges several.   *)
EXTENDS RelationPlan, Integers, FiniteSetsExt, BagsExt

CONSTANTS
    EntitySources,       \* a sequence of [label, keyed, integer, props, rows]
    RelationshipSources, \* of [label, keyed, multi, source_label, target_label, props, rows]
    UserFunctions,       \* of [name, wrapped, positional, typed, accepted]
    CycleEvery,          \* the connection is closed and opened after so many sources, if not 0
    Questions,           \* queries
    QuestionBound

VARIABLES
    tables,              \* [rows, edges, cols, sequences]
    connection,          \* [udf_names, created, live]: known and created functions, labels with a live handle
    loading,             \* [entities, relationships, cycled]: sources registered, and since the last cycle
    answered             \* [asked, query, status, rows, ambiguous, before]

relationVars == <<tables, connection, loading, answered>>
Labels_of(sources) == {sources[i].label : i \in DOMAIN sources}
EntityLabels == Labels_of(EntitySources)
SourceOf(label) == CHOOSE s \in Range(EntitySources) : s.label = label
IsKeyed(label) == SourceOf(label).keyed
--------------------------------------------------------------------------------
(* Registration. *)

KeepFirst(rows, key) ==
    LET first == {i \in DOMAIN rows : \A j \in 1..i - 1 : key[j] # key[i]}
        order == SetToSortSeq(first, <)
    IN  [k \in DOMAIN order |-> rows[order[k]]]
Renumbered_(rows) == [i \in DOMAIN rows |-> [rows[i] EXCEPT !.id = i - 1]]
Key(rows) == [i \in DOMAIN rows |-> rows[i].id]
Endpoints(rows) == [i \in DOMAIN rows |-> <<rows[i].source, rows[i].target>>]

\* register_relation: an id column has no value twice; without one, the id
\* is DuckDB's rowid.
EntityRows(s) == IF s.keyed THEN KeepFirst(s.rows, Key(s.rows)) ELSE Renumbered_(s.rows)

\* _relationship_streaming_sql: the first row of an id, then of a pair of
\* endpoints unless several are allowed; ids are given last, to what is left.
DedupId(s, rows) == IF s.keyed THEN KeepFirst(rows, Key(rows)) ELSE rows
DedupEndpoints(s, rows) == IF s.multi THEN rows ELSE KeepFirst(rows, Endpoints(rows))
FinalId(s, rows) == IF s.keyed THEN rows ELSE Renumbered_(rows)
Labelled(s, rows) ==
    [i \in DOMAIN rows |-> [id |-> rows[i].id, source |-> rows[i].source, target |-> rows[i].target, at |-> rows[i].at,
                            source_label |-> s.source_label, target_label |-> s.target_label]]
RelationshipRows(s) == Labelled(s, FinalId(s, DedupEndpoints(s, DedupId(s, s.rows))))

\* bridge_user_functions: what the registry wraps, with annotations that
\* have a DuckDB type, once.
duckdb_types(f) == f.positional /\ f.typed
Bridgeable(f, c) == f.wrapped /\ duckdb_types(f) /\ f.name \notin c.udf_names /\ f.accepted
bridge_user_functions(c) ==
    LET new == {f.name : f \in {g \in UserFunctions : Bridgeable(g, c)}}
    IN  [c EXCEPT !.udf_names = @ \union new, !.created = @ \union new]
rebridge_user_functions(c) == bridge_user_functions([c EXCEPT !.udf_names = {}])

\* cycle_streaming_connection: the tables are in the file, the functions and
\* the handles were the connection's.
Reopened(c) == [c EXCEPT !.created = {}, !.live = {}]
resync_streaming_sources(c, labels) == [c EXCEPT !.live = labels]
cycle_streaming_connection(c, labels) == rebridge_user_functions(resync_streaming_sources(Reopened(c), labels))
Due(n) == CycleEvery # 0 /\ n >= CycleEvery

RelationInit ==
    /\ tables = [rows |-> <<>>, edges |-> <<>>, cols |-> <<>>, sequences |-> [l \in EntityLabels |-> Null]]
    /\ connection = bridge_user_functions([udf_names |-> {}, created |-> {}, live |-> {}])
    /\ loading = [entities |-> 0, relationships |-> 0, cycled |-> 0]
    /\ answered = [asked |-> 0, status |-> "none"]

Counted(field) ==
    loading' = [loading EXCEPT ![field] = @ + 1, !.cycled = IF Due(@ + 1) THEN 0 ELSE @ + 1]
Handles(new) ==
    connection' = IF Due(loading.cycled + 1) THEN cycle_streaming_connection(connection, DOMAIN tables.rows \union new)
                  ELSE [connection EXCEPT !.live = @ \union new]

RegisterStreamingSource ==
    /\ loading.entities < Len(EntitySources)
    /\ LET s == EntitySources[loading.entities + 1]
       IN  /\ tables' = [tables EXCEPT !.rows = @ @@ (s.label :> EntityRows(s)), !.cols = @ @@ (s.label :> s.props)]
           /\ Handles({s.label})
    /\ Counted("entities")
    /\ UNCHANGED answered

\* A source without its endpoint columns ends the run: there is none here.
RegisterStreamingRelationship ==
    /\ loading.entities = Len(EntitySources)
    /\ loading.relationships < Len(RelationshipSources)
    /\ LET s == RelationshipSources[loading.relationships + 1]
       IN  tables' = [tables EXCEPT !.edges = @ @@ (s.label :> RelationshipRows(s)), !.cols = @ @@ (s.label :> s.props)]
    /\ Handles({})
    /\ Counted("relationships")
    /\ UNCHANGED answered

Loaded == loading.entities = Len(EntitySources) /\ loading.relationships = Len(RelationshipSources)

\* Catalog: the registered tables.
Catalog ==
    [entities |-> [l \in DOMAIN tables.rows |->
        [attr |-> tables.cols[l], writable |-> TRUE, id_is_integer |-> ~IsKeyed(l) \/ SourceOf(l).integer]],
     relationships |-> [l \in DOMAIN tables.edges |-> [attr |-> tables.cols[l]]],
     udfs |-> connection.udf_names]
--------------------------------------------------------------------------------
(* The values of expressions, as DuckDB computes them. An environment has    *)
(* for a node or relationship [id, at], for anything else its value.         *)

Call(op, v) ==
    CASE op = "=" -> v[1] = v[2]
      [] op = "<>" -> v[1] # v[2]
      [] op = "<" -> v[1] < v[2]
      [] op = ">" -> v[1] > v[2]
      [] op = "+" -> v[1] + v[2]
      [] op = "-" -> v[1] - v[2]
      [] op \in Casts -> v[1]
      [] OTHER -> 2 * v[1]          \* a function of the user's
Computed(op, v) ==
    CASE op = "and" -> IF FALSE \in Range(v) THEN FALSE ELSE IF Null \in Range(v) THEN Null ELSE TRUE
      [] op = "or" -> IF TRUE \in Range(v) THEN TRUE ELSE IF Null \in Range(v) THEN Null ELSE FALSE
      [] op = "is null" -> v[1] = Null
      [] op = "is not null" -> v[1] # Null
      [] op = "list" -> v
      [] op = "case" -> IF v[1] = TRUE THEN v[2] ELSE v[3]
      [] Null \in Range(v) -> Null
      [] op = "not" -> ~v[1]
      [] OTHER -> Call(op, v)
ValueIn(at, prop) == IF prop \in DOMAIN at THEN at[prop] ELSE Null
RECURSIVE Ev(_, _)
Ev(e, env) ==
    CASE e.op = "value" -> e.value
      [] e.op = "variable" -> env[e.variable]
      [] e.op = "id" -> env[e.variable].id
      [] e.op = "property" -> ValueIn(env[e.variable].at, e.property)
      [] OTHER -> Computed(e.op, [i \in DOMAIN e.args |-> Ev(e.args[i], env)])
Holds(predicates, env) == \A i \in DOMAIN predicates : Ev(predicates[i], env) = TRUE
Kept(envs, predicates) == SelectSeq(envs, LAMBDA env : Holds(predicates, env))

Present(values) == SelectSeq(values, LAMBDA v : v # Null)
Aggregate(func, values) ==
    CASE func = "count" -> Len(values)
      [] values = <<>> -> Null
      [] func = "sum" -> FoldLeft(LAMBDA n, m : n + m, 0, values)
      [] func = "min" -> Min(Range(values))
      [] func = "max" -> Max(Range(values))
Counted_(e, env, scope) ==
    IF e.args[1].op # "variable" THEN Ev(e.args[1], env)
    ELSE IF e.args[1].variable \notin names(scope) THEN TRUE
    ELSE IF IsBound(scope, e.args[1].variable, {NODE, REL}) THEN env[e.args[1].variable].id
    ELSE env[e.args[1].variable]
Distinct(values) == KeepFirst(values, values)
AggregateOf(e, envs, scope) ==
    IF e.op = "count *" THEN Len(envs)
    ELSE Aggregate(e.op, IF e.distinct THEN Distinct(Present([i \in DOMAIN envs |-> Counted_(e, envs[i], scope)]))
                         ELSE Present([i \in DOMAIN envs |-> Counted_(e, envs[i], scope)]))

\* ORDER BY with nulls last, whichever the direction.
Before_(x, y, ascending) == x # Null /\ (y = Null \/ IF ascending THEN x < y ELSE x > y)
Precedes_(r, s, order) ==
    \E k \in DOMAIN order :
        /\ Before_(r[order[k].column], s[order[k].column], order[k].ascending)
        /\ \A j \in 1..k - 1 : r[order[j].column] = s[order[j].column]
Sorted(rows, order) == IF order = <<>> THEN rows ELSE SortSeq(rows, LAMBDA r, s : Precedes_(r, s, order))
Offset(clause) == IF clause.skip = Null THEN 0 ELSE clause.skip
Limited(rows, clause) ==
    IF clause.limit = Null THEN rows ELSE SubSeq(rows, Offset(clause) + 1, Min({Len(rows), Offset(clause) + clause.limit}))
--------------------------------------------------------------------------------
(* Emitter: what the SQL of a plan selects. *)

Whole_(row) == [id |-> row.id, at |-> row.at]
Absent == [id |-> Null, at |-> <<>>]
RowsOf(db, scope, var) ==
    IF KindOf(scope, var) = NODE THEN db.rows[LabelOf(scope, var)] ELSE db.edges[LabelOf(scope, var)]
RowOf(scope, env) == [n \in names(scope) |-> IF KindOf(scope, n) = SCALAR THEN env[n] ELSE env[n].id]

\* _edge_endpoint_predicates: a declared label must be the pattern's.
LabelFits(declared, label) == declared \in {Null, label}
Near(plan, edge) == IF plan.rel.right THEN edge.source ELSE edge.target
Far(plan, edge) == IF plan.rel.right THEN edge.target ELSE edge.source
EdgeFits(plan, edge, from, from_label) ==
    /\ Near(plan, edge) = from /\ from # Null
    /\ LabelFits(edge.source_label, IF plan.rel.right THEN from_label ELSE plan.to_label)
    /\ LabelFits(edge.target_label, IF plan.rel.right THEN plan.to_label ELSE from_label)
EdgesAt(db, plan, env) ==
    SelectSeq(db.edges[plan.rel.labels[1]],
              LAMBDA e : EdgeFits(plan, e, env[plan.from_var].id, LabelOf(plan.child.scope, plan.from_var)))
NodesAt(db, plan, edge) == SelectSeq(db.rows[plan.to_label], LAMBDA n : n.id = Far(plan, edge))
Extended(plan, env, edge, node) ==
    env @@ (plan.to_var :> node) @@ (IF plan.rel.variable = Null THEN <<>> ELSE plan.rel.variable :> edge)
EndsOf(db, plan, env, edge) ==
    [k \in DOMAIN NodesAt(db, plan, edge) |-> Extended(plan, env, Whole_(edge), Whole_(NodesAt(db, plan, edge)[k]))]
HopsFrom(db, plan, env, edges) == FlattenSeq([i \in DOMAIN edges |-> EndsOf(db, plan, env, edges[i])])

\* An optional hop is one LEFT JOIN with the edges that have an end.
OrAbsent(plan, env, hops) == IF hops = <<>> /\ plan.optional THEN <<Extended(plan, env, Absent, Absent)>> ELSE hops
TwoLeftJoins(db, plan, env) ==     \* mutant: the edges, and then their ends
    LET edges == EdgesAt(db, plan, env)
    IN  OrAbsent(plan, env, FlattenSeq([i \in DOMAIN edges |-> OrAbsent(plan, env, EndsOf(db, plan, env, edges[i]))]))
Hopped(db, plan, env) == OrAbsent(plan, env, HopsFrom(db, plan, env, EdgesAt(db, plan, env)))

\* _block: properties are read where the pattern was matched.
RECURSIVE Block(_, _)
Block(db, plan) ==
    CASE plan.node = "Scan" -> [i \in DOMAIN db.rows[plan.label] |-> plan.var :> Whole_(db.rows[plan.label][i])]
      [] plan.node = "Filter" -> Kept(Block(db, plan.child), plan.predicates)
      [] plan.node = "Expand" -> FlattenSeq([i \in DOMAIN Block(db, plan.child) |-> Hopped(db, plan, Block(db, plan.child)[i])])

\* join_clauses: from rows of ids, the properties that are read, by LEFT JOIN.
Carried(scope, row) ==
    [n \in names(scope) |-> IF KindOf(scope, n) = SCALAR THEN row[n] ELSE [id |-> row[n], at |-> <<>>]]
Fetched_(env, var, found) ==
    IF found = <<>> THEN <<env>> ELSE [k \in DOMAIN found |-> [env EXCEPT ![var].at = found[k].at]]
LeftJoin(db, scope, envs, var) ==
    FlattenSeq([i \in DOMAIN envs |->
        Fetched_(envs[i], var, SelectSeq(RowsOf(db, scope, var), LAMBDA r : r.id = envs[i][var].id /\ r.id # Null))])
JoinedBack(db, scope, rows, vars) ==
    LET joined[k \in 0..Len(vars)] ==
            IF k = 0 THEN [i \in DOMAIN rows |-> Carried(scope, rows[i])] ELSE LeftJoin(db, scope, joined[k - 1], vars[k])
    IN  joined[Len(vars)]

\* _sql_Project: GROUP BY what is not an aggregate, DISTINCT, then WHERE,
\* ORDER BY and LIMIT over the columns.
ItemValue(item, env) == IF item.passthrough THEN env[item.expression.variable].id ELSE Ev(item.expression, env)
Plain_(items) == SelectSeq(items, LAMBDA item : ~item.aggregate)
GroupKey(items, env) == [i \in DOMAIN items |-> ItemValue(items[i], env)]
GroupsBy(items, envs, keys) == [k \in DOMAIN keys |-> SelectSeq(envs, LAMBDA env : GroupKey(items, env) = keys[k])]
Groups(items, envs) ==
    CASE \A i \in DOMAIN items : ~items[i].aggregate -> [i \in DOMAIN envs |-> <<envs[i]>>]
      [] Plain_(items) = <<>> -> <<envs>>
      [] OTHER -> GroupsBy(Plain_(items), envs, Distinct([i \in DOMAIN envs |-> GroupKey(Plain_(items), envs[i])]))
OutputRow(plan, group) ==
    [n \in names(plan.scope) |->
        LET item == plan.items[SelectLastInSeq(plan.items, LAMBDA it : it.name = n)]
        IN  IF item.aggregate THEN AggregateOf(item.expression, group, plan.child.scope) ELSE ItemValue(item, group[1])]
Inner(plan, groups) ==
    IF plan.distinct THEN Distinct([g \in DOMAIN groups |-> OutputRow(plan, groups[g])])
    ELSE [g \in DOMAIN groups |-> OutputRow(plan, groups[g])]
PostWhere(db, plan, rows) ==
    IF plan.where = Null THEN rows
    ELSE LET kept == Kept(JoinedBack(db, plan.scope, rows, SetToSeq(Read_from(plan.where))), <<plan.where>>)
         IN  [i \in DOMAIN kept |-> RowOf(plan.scope, kept[i])]
Project(db, plan, envs) == Limited(Sorted(PostWhere(db, plan, Inner(plan, Groups(plan.items, envs))), plan.order_by), plan)

Expressions_(plan) ==
    CASE plan.node = "Filter" -> plan.predicates
      [] plan.node = "Unnest" -> <<plan.expression>>
      [] plan.node = "Project" -> [i \in DOMAIN plan.items |-> plan.items[i].expression]
      [] plan.node = "Mutate" -> [i \in DOMAIN plan.assignments |-> plan.assignments[i].expression]
      [] OTHER -> <<>>
Unnested(plan, envs) ==
    FlattenSeq([i \in DOMAIN envs |->
        LET list == Ev(plan.expression, envs[i])
        IN  IF list = Null THEN <<>> ELSE [k \in DOMAIN list |-> RowOf(plan.child.scope, envs[i]) @@ (plan.var :> list[k])]])
Partners(row, others, on) == SelectSeq(others, LAMBDA r : \A n \in on : row[n] = r[n] /\ row[n] # Null)
Paired(row, others) == [k \in DOMAIN others |-> row @@ others[k]]
JoinRows_(rows, others, on) == FlattenSeq([i \in DOMAIN rows |-> Paired(rows[i], Partners(rows[i], others, on))])
SelectRows(scope, envs) == [i \in DOMAIN envs |-> RowOf(scope, envs[i])]

RECURSIVE Sql(_, _)
\* _source: the child as a block, or as a subquery with properties joined back.
Source(db, child, vars) == IF child.block THEN Block(db, child) ELSE JoinedBack(db, child.scope, Sql(db, child), vars)
ReadsOf(plan) == SetToSeq(ReadBy(Expressions_(plan)))
Sql(db, plan) ==
    CASE plan.block -> SelectRows(plan.scope, Block(db, plan))
      [] plan.node = "Unit" -> <<<<>>>>
      [] plan.node = "Table" -> [i \in DOMAIN plan.rows |-> Restrict(plan.rows[i], names(plan.scope))]
      [] plan.node = "Join" -> JoinRows_(Sql(db, plan.child), Sql(db, plan.other), plan.on)
      [] plan.node = "Filter" -> SelectRows(plan.scope, Kept(Source(db, plan.child, ReadsOf(plan)), plan.predicates))
      [] plan.node = "Unnest" -> Unnested(plan, Source(db, plan.child, ReadsOf(plan)))
      [] plan.node = "Project" -> Project(db, plan, Source(db, plan.child, ReadsOf(plan)))

\* There is no SQL for an optional hop from what is not a pattern block, nor
\* for a function the connection does not have.
RECURSIVE Ops(_)
Ops(e) == {e.op} \union (IF "args" \in DOMAIN e THEN UNION {Ops(e.args[i]) : i \in DOMAIN e.args} ELSE {})
RECURSIVE Emits(_, _)
Emits(plan, functions) ==
    /\ plan.node = "Expand" => plan.block
    /\ \A i \in DOMAIN Expressions_(plan) : Ops(Expressions_(plan)[i]) \intersect {f.name : f \in UserFunctions} \subseteq functions
    /\ "child" \in DOMAIN plan => Emits(plan.child, functions)
    /\ "other" \in DOMAIN plan => Emits(plan.other, functions)
--------------------------------------------------------------------------------
(* Emitter.run: writes. *)

MutateSelect(db, plan) ==
    LET envs == Source(db, plan.child, ReadsOf(plan))
    IN  [i \in DOMAIN envs |-> [row |-> RowOf(plan.child.scope, envs[i]),
                                values |-> [k \in DOMAIN plan.assignments |-> Ev(plan.assignments[k].expression, envs[i])]]]

\* _update_sql: of the rows of one target, the first in the order of the
\* other variables.
OtherColumns(plan) ==
    LET others == SelectSeq(plan.child.scope.bindings, LAMBDA b : b.name # plan.target)
    IN  [i \in DOMAIN others |-> [column |-> others[i].name, ascending |-> TRUE]]
OfTarget(plan, selected, id) == SelectSeq(selected, LAMBDA s : s.row[plan.target] = id)
Firsts(candidates, order) ==
    {c \in Range(candidates) : \A d \in Range(candidates) : ~Precedes_(d.row, c.row, order)}
Chosen(plan, selected, id) == Firsts(OfTarget(plan, selected, id), OtherColumns(plan))
Targets(plan, selected) == {selected[i].row[plan.target] : i \in DOMAIN selected} \ {Null}
Ambiguous(plan, selected) ==
    \E id \in Targets(plan, selected) : Cardinality({c.values : c \in Chosen(plan, selected, id)}) > 1
Assigned(plan) == {plan.assignments[k].property : k \in DOMAIN plan.assignments}
Updated(plan, at, values) ==
    [p \in DOMAIN at \union Assigned(plan) |->
        IF p \in Assigned(plan) THEN values[SelectLastInSeq(plan.assignments, LAMBDA a : a.property = p)] ELSE at[p]]
UpdatedRow(plan, selected, row) ==
    IF row.id \in Targets(plan, selected)
    THEN [row EXCEPT !.at = Updated(plan, @, (CHOOSE c \in Chosen(plan, selected, row.id) : TRUE).values)] ELSE row
\* _run_mutate: columns are added first.
RunMutate(db, plan, selected) ==
    [db EXCEPT !.cols[plan.label] = @ \union Assigned(plan),
               !.rows[plan.label] = [i \in DOMAIN @ |-> UpdatedRow(plan, selected, @[i])]]
RunDelete(db, plan, rows) ==
    [db EXCEPT !.rows[plan.label] = SelectSeq(@, LAMBDA r : \A i \in DOMAIN rows : rows[i][plan.var] # r.id)]

\* _insert_sql: ids come from a sequence made when the label's first node is
\* created, above the largest id there was then.
LargestId(db, label) == Max({0} \union {db.rows[label][i].id : i \in DOMAIN db.rows[label]})
NextId(db, label) ==
    IF IsKeyed(label) /\ db.sequences[label] # Null THEN db.sequences[label] ELSE LargestId(db, label) + 1
NewRow(db, plan) ==
    [id |-> NextId(db, plan.label),
     at |-> [p \in {plan.properties[i][1] : i \in DOMAIN plan.properties} |->
                Ev(plan.properties[SelectLastInSeq(plan.properties, LAMBDA x : x[1] = p)][2], <<>>)]]
RunCreate(db, plan) ==
    [db EXCEPT !.rows[plan.label] = Append(@, NewRow(db, plan)),
               !.sequences[plan.label] = IF IsKeyed(plan.label) THEN NextId(db, plan.label) + 1 ELSE @]

\* _materialise: writes happen from the bottom, each from a table of the rows
\* that reached it; what is above a write reads the tables after it.
Result(source, db, failed, ambiguous) == [source |-> source, db |-> db, failed |-> failed, ambiguous |-> ambiguous]
Failed(m) == Result(Unit, m.db, TRUE, m.ambiguous)
WriteSelected(m, plan, selected) ==
    Result(Table(plan.scope, [i \in DOMAIN selected |-> selected[i].row]), RunMutate(m.db, plan, selected), FALSE,
           m.ambiguous \/ Ambiguous(plan, selected))
WriteDeleted(m, plan, rows) == Result(Table(plan.scope, rows), RunDelete(m.db, plan, rows), FALSE, m.ambiguous)
OverChild(m, plan, functions) ==
    CASE m.failed \/ ~Emits(plan, functions) -> Failed(m)
      [] plan.node = "Mutate" -> WriteSelected(m, plan, MutateSelect(m.db, plan))
      [] plan.node = "Delete" -> WriteDeleted(m, plan, Sql(m.db, plan.child))
      [] OTHER -> Result(plan, m.db, FALSE, m.ambiguous)
OnSource(m, plan, functions) == OverChild(m, [plan EXCEPT !.child = m.source], functions)
RECURSIVE Materialised(_, _, _)
Materialised(db, plan, functions) ==
    IF plan.node = "Create" THEN Result(Unit, RunCreate(db, plan), FALSE, FALSE)
    ELSE IF ~has_side_effects(plan) THEN Result(plan, db, ~Emits(plan, functions), FALSE)
    ELSE OnSource(Materialised(db, plan.child, functions), plan, functions)

Used(query) ==
    UNION {UNION {UNION {Range(n.labels) : n \in Range(p.nodes)} : p \in Range(c.paths)} :
           c \in {d \in Range(query) : d.clause \in {"MATCH", "CREATE"}}}
EndsWithReturn(query) == query # <<>> /\ Last(query).clause = "RETURN"
RowsAnswered(query, m) ==
    IF m.failed \/ ~EndsWithReturn(query) THEN <<>>
    ELSE LET rows == Sql(m.db, m.source)
         IN  [i \in DOMAIN rows |-> [k \in DOMAIN m.source.items |-> rows[i][m.source.items[k].name]]]

Answer(query, status, rows, ambiguous) ==
    answered' = [asked |-> answered.asked + 1, query |-> query, status |-> status, rows |-> rows, ambiguous |-> ambiguous,
                 before |-> tables]
Ran(query, m) ==
    /\ tables' = m.db
    /\ Answer(query, IF m.failed THEN "failed" ELSE "done", RowsAnswered(query, m), m.ambiguous)
Refused(query, status) == Answer(query, status, <<>>, FALSE) /\ UNCHANGED tables

\* execute_relation_query, execute_relation_mutation: nothing is run without a
\* plan, or if it neither returns nor writes; a label without a live handle
\* cannot be looked up.
Execute(query, plan) ==
    IF ~(Used(query) \intersect DOMAIN tables.rows \subseteq connection.live) THEN Refused(query, "failed")
    ELSE IF plan = Unsupported \/ (~EndsWithReturn(query) /\ ~has_side_effects(plan)) THEN Refused(query, "unsupported")
    ELSE Ran(query, Materialised(tables, plan, connection.created))
Ask(query) ==
    /\ Loaded /\ answered.asked < QuestionBound
    /\ Execute(query, translate(query, Catalog))
    /\ UNCHANGED <<connection, loading>>

RelationNext == RegisterStreamingSource \/ RegisterStreamingRelationship \/ \E query \in Questions : Ask(query)
RelationSpec == RelationInit /\ [][RelationNext]_relationVars
--------------------------------------------------------------------------------
(* What a query means: each clause takes rows of variables to rows, looking  *)
(* at the graph as the clauses before have left it. SET may take any row's   *)
(* value of a node that has several, CREATE any id that is free.             *)

NodesOf_(s, path, i) == Range(s.db.rows[NodeLabel(path.nodes[i], s.scope)])
Connects(s, path, i, a, e, b) ==
    LET rel == path.rels[i - 1]
        from == <<a.id, NodeLabel(path.nodes[i - 1], s.scope)>>
        to == <<b.id, NodeLabel(path.nodes[i], s.scope)>>
        Ends(x, y) == /\ e.source = x[1] /\ e.target = y[1]
                      /\ e.source_label \in {Null, x[2]} /\ e.target_label \in {Null, y[2]}
    IN  IF rel.right THEN Ends(from, to) ELSE Ends(to, from)
Walks(s, path) ==
    LET upTo[i \in DOMAIN path.nodes] ==
            IF i = 1 THEN {[nodes |-> <<n>>, edges |-> <<>>] : n \in NodesOf_(s, path, 1)}
            ELSE {[nodes |-> Append(w[1].nodes, w[3]), edges |-> Append(w[1].edges, w[2])] :
                  w \in {x \in upTo[i - 1] \X Range(s.db.edges[path.rels[i - 1].labels[1]]) \X NodesOf_(s, path, i) :
                         Connects(s, path, i, Last(x[1].nodes), x[2], x[3])}}
    IN  upTo[Len(path.nodes)]
Bound_(path, walk) ==
    [v \in Range(PathVariables(path)) |->
        IF \E i \in DOMAIN path.nodes : path.nodes[i].variable = v
        THEN walk.nodes[CHOOSE i \in DOMAIN path.nodes : path.nodes[i].variable = v].id
        ELSE walk.edges[CHOOSE i \in DOMAIN path.rels : path.rels[i].variable = v].id]
Unbound_(path) == [v \in Range(PathVariables(path)) |-> Null]
Agreeing(row, path, walks) ==
    LET agreeing == {w \in walks : \A v \in DOMAIN row \intersect DOMAIN Bound_(path, w) : row[v] = Bound_(path, w)[v]}
    IN  [k \in 1..Cardinality(agreeing) |-> row @@ Bound_(path, SetToSeq(agreeing)[k])]
OrNone(row, path, optional, found) == IF found = <<>> /\ optional THEN <<row @@ Unbound_(path)>> ELSE found

Seen(s, row) ==
    [v \in DOMAIN row |->
        IF KindOf(s.scope, v) = SCALAR THEN row[v]
        ELSE LET found == SelectSeq(RowsOf(s.db, s.scope, v), LAMBDA r : r.id = row[v])
             IN  IF found = <<>> THEN [id |-> row[v], at |-> <<>>] ELSE Whole_(found[1])]
AllSeen(s) == [i \in DOMAIN s.rows |-> Seen(s, s.rows[i])]
Where_(s, predicates) == [s EXCEPT !.rows = SelectSeq(@, LAMBDA row : Holds(predicates, Seen(s, row)))]

PathScope(s, path) == PathPlan(path, s.scope).scope.bindings
Widened(s, path) ==
    [s.scope EXCEPT !.bindings = @ \o SelectSeq(PathScope(s, path), LAMBDA b : b.name \notin names(s.scope)), 
                       !.qualified = Len(path.nodes) > 1 \/ names(s.scope) # {}]
MatchMeaning(s, clause, path) ==
    Where_([s EXCEPT !.scope = Widened(s, path),
                     !.rows = FlattenSeq([i \in DOMAIN s.rows |->
                         OrNone(s.rows[i], path, clause.optional, Agreeing(s.rows[i], path, Walks(s, path)))])],
           InlinePredicates(path) \o WhereOf(clause))

ProjectionOf(s, clause) ==
    LET columns == [i \in DOMAIN clause.items |-> NameOf(clause.items[i], s.scope)]
    IN  Projected(clause, [node |-> "Unit", scope |-> s.scope], OutputScope(clause, s.scope), columns, OrderOf(clause, columns))
Project_(s, p) ==
    LET after == [s EXCEPT !.scope = p.scope, !.rows = Inner(p, Groups(p.items, AllSeen(s)))]
        kept == IF p.where = Null THEN after ELSE Where_(after, <<p.where>>)
    IN  [kept EXCEPT !.rows = Limited(Sorted(@, p.order_by), p)]

UnwindMeaning(s, clause) ==
    [s EXCEPT !.scope.bindings = Append(@, Binding(clause.alias, SCALAR, Null)),
              !.rows = FlattenSeq([i \in DOMAIN @ |->
                  LET list == Ev(clause.expression, Seen(s, @[i]))
                  IN  IF list = Null THEN <<>> ELSE [k \in DOMAIN list |-> @[i] @@ (clause.alias :> list[k])]])]

SetOn(s, clause, at, row) ==
    [p \in DOMAIN at \union {clause.items[k].property : k \in DOMAIN clause.items} |->
        LET k == SelectLastInSeq(clause.items, LAMBDA item : item.property = p)
        IN  IF k > 0 THEN Ev(clause.items[k].expression, Seen(s, row)) ELSE at[p]]
SetMeaning(s, clause, label, target) ==
    LET ids == {s.rows[i][target] : i \in DOMAIN s.rows} \ {Null}
        pickings == {f \in [ids -> DOMAIN s.rows] : \A id \in ids : s.rows[f[id]][target] = id}
    IN  {[s EXCEPT !.db.rows[label] = [i \in DOMAIN @ |->
             IF @[i].id \in ids THEN [@[i] EXCEPT !.at = SetOn(s, clause, @, s.rows[f[s.db.rows[label][i].id]])] ELSE @[i]]] :
         f \in pickings}
DeleteMeaning(s, clause, var) ==
    [s EXCEPT !.db.rows[LabelOf(s.scope, var)] = SelectSeq(@, LAMBDA r : \A i \in DOMAIN s.rows : s.rows[i][var] # r.id)]
CreateMeaning(s, node) ==
    LET label == node.labels[1]
        at == [p \in {node.properties[i][1] : i \in DOMAIN node.properties} |->
                  Ev(node.properties[SelectLastInSeq(node.properties, LAMBDA x : x[1] = p)][2], <<>>)]
        Used_ == {s.db.rows[label][i].id : i \in DOMAIN s.db.rows[label]}
    IN  {[s EXCEPT !.db.rows[label] = Append(@, [id |-> id, at |-> at])] : id \in (0..LargestId(s.db, label) + QuestionBound) \ Used_}

ClauseMeaning(s, clause) ==
    CASE clause.clause = "MATCH" -> {MatchMeaning(s, clause, clause.paths[1])}
      [] clause.clause \in {"WITH", "RETURN"} -> {Project_(s, ProjectionOf(s, clause))}
      [] clause.clause = "UNWIND" -> {UnwindMeaning(s, clause)}
      [] clause.clause = "SET" -> SetMeaning(s, clause, LabelOf(s.scope, clause.items[1].variable), clause.items[1].variable)
      [] clause.clause = "DELETE" -> {DeleteMeaning(s, clause, clause.variables[1])}
      [] clause.clause = "CREATE" -> CreateMeaning(s, clause.paths[1].nodes[1])
Meanings(query, db) ==
    LET upTo[i \in 0..Len(query)] ==
            IF i = 0 THEN {[rows |-> <<<<>>>>, scope |-> NoScope, db |-> db]}
            ELSE UNION {ClauseMeaning(s, query[i]) : s \in upTo[i - 1]}
    IN  upTo[Len(query)]

Returned(query, s) ==
    IF ~EndsWithReturn(query) THEN <<>>
    ELSE [i \in DOMAIN s.rows |-> [k \in DOMAIN s.scope.bindings |-> s.rows[i][s.scope.bindings[k].name]]]
Meant(s) ==
    /\ ToBag(answered.rows) = ToBag(Returned(answered.query, s))
    /\ \A l \in EntityLabels : Range(tables.rows[l]) = Range(s.db.rows[l])

\* An optional hop that does not directly extend the pattern of the first
\* MATCH: it has a plan, and the plan has no SQL.
OptionalOverRows(query) ==
    \E i \in DOMAIN query :
        /\ query[i].clause = "MATCH" /\ query[i].optional
        /\ \E j \in 1..i - 1 : query[j].clause # "MATCH" \/ (j > 1 /\ ~query[j].optional)
IdentifiersUnique ==
    /\ \A l \in DOMAIN tables.rows : Null \notin Range(Key(tables.rows[l])) /\ IsInjective(Key(tables.rows[l]))
    /\ \A l \in DOMAIN tables.edges : IsInjective(Key(tables.edges[l]))

\* A query that has a plan returns what its clauses mean and leaves the nodes
\* they mean, with one value for each property that was SET, whichever order
\* DuckDB has the rows in; it fails only where an optional hop follows other
\* clauses; and ids stay unique, whatever was created and deleted before.
RelationsKeepMeaning ==
    /\ IdentifiersUnique
    /\ answered.status = "failed" => OptionalOverRows(answered.query)
    /\ answered.status = "done" =>
          ~answered.ambiguous /\ \E s \in Meanings(answered.query, answered.before) : Meant(s)
================================================================================
