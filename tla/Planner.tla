-------------------------------- MODULE Planner --------------------------------
(* What QueryAnalyzer.analyze_and_plan decides before the clauses of a query *)
(* run: a graph of operations for the memory estimate, hints of the          *)
(* optimizer's rules, cardinalities corrected by those of earlier queries,   *)
(* the budget, the order of the MATCH clauses, and a limit that paths of     *)
(* variable length may stop at; and then the clauses themselves.             *)
(*                                                                           *)
(* Every node of a pattern has a name, relationships have none and point to  *)
(* the right, two frames share one variable at most, and the starts of a     *)
(* path of variable length are distinct. Labels and types are known, only a  *)
(* node may have none. Fractions are in percent and rounded down.            *)
EXTENDS CypherValues, Integers, FiniteSets, SequencesExt, BagsExt

CONSTANTS
    Graph,            \* [nodes |-> sequence of [id, label, x], edges |-> sequence of [type, from, to]]
    Asked,            \* queries: sequences of clauses
    Budgets,          \* what the Context's memory budget may be: bytes, or Null for the default
    Sizes,            \* [row, cell, broadcast, switch, history, histogram_rows, bins]: the code's thresholds
    SessionBound      \* queries one after another

VARIABLES
    asked,            \* the query as it was written
    tree,             \* its clauses, which planning puts in another order
    phase, position,  \* position: the next clause
    hint,             \* the limit for paths of variable length, or Null
    plan,             \* [graph, rules, cards, joins, peak]
    bound,            \* the current frame
    touched,          \* the nodes that SET has written
    feedback,         \* for each type, the latest <<estimated, actual>> pairs
    host, budget,     \* the engine, "duckdb" with the tables of the Context in it or
                      \* "duckdb_empty", and the memory budget of the Context
    session
plannerVars == <<asked, tree, phase, position, hint, plan, bound, touched, feedback, host, budget, session>>

Percent == 100
DefaultSelectivity == 33
NoPlan == [graph |-> <<>>, rules |-> {}, cards |-> <<>>, joins |-> <<>>, peak |-> 0]
Least(a, b) == IF a < b THEN a ELSE b
Most(a, b) == IF a > b THEN a ELSE b
Total(s) == FoldLeft(LAMBDA n, m : n + m, 0, s)
--------------------------------------------------------------------------------
(* Queries. A clause is MATCH [op, optional, paths, where], WITH [op, vars,  *)
(* where, distinct], RETURN [op, vars, count, distinct, order, skip, limit], *)
(* SET [op, var] or UNWIND [op, var, values]; a path is [elements, shortest] *)
(* and a hop has a length <<least, most>> or Null.                           *)

Is(clause, op) == clause.op = op
Hops(path) == 1..(Len(path.elements) \div 2)
Relation(path, i) == path.elements[2 * i]
Target(path, i) == path.elements[2 * i + 1]
NodesOf(path) == {path.elements[i] : i \in {j \in DOMAIN path.elements : j % 2 = 1}}
VarsOf(m) == UNION {{n.var : n \in NodesOf(m.paths[i])} : i \in DOMAIN m.paths}
ElementsOf(m) == FlattenSeq([i \in DOMAIN m.paths |-> m.paths[i].elements])
Matches(clauses) == SelectSeq(clauses, LAMBDA c : Is(c, "match"))
Wheres(clauses) == SelectSeq(clauses, LAMBDA c : c.op \in {"match", "with"} /\ c.where # Null)

Labels == {Graph.nodes[i].label : i \in DOMAIN Graph.nodes}
Types == {Graph.edges[i].type : i \in DOMAIN Graph.edges}
NodesWith(label) == SelectSeq(Graph.nodes, LAMBDA n : n.label = label)
EdgesWith(type) == SelectSeq(Graph.edges, LAMBDA e : e.type = type)
IdsOf(nodes) == [i \in DOMAIN nodes |-> nodes[i].id]
ValueOf(id) == (CHOOSE n \in Range(Graph.nodes) : n.id = id).x

RECURSIVE Refs(_), Truth(_, _)
Refs(p) == IF p.op \in {"and", "or"} THEN UNION {Refs(q) : q \in Range(p.args)} ELSE IF p.op = "not" THEN Refs(p.arg) ELSE {p.var}
Truth(p, row) ==
    LET all == {Truth(q, row) : q \in Range(p.args)}
        v == ValueOf(row[p.var])
    IN  CASE p.op = "known" -> v # Null
          [] p.op = "not" -> (LET t == Truth(p.arg, row) IN IF t = Null THEN Null ELSE ~t)
          [] p.op = "and" -> IF FALSE \in all THEN FALSE ELSE IF Null \in all THEN Null ELSE TRUE
          [] p.op = "or" -> IF TRUE \in all THEN TRUE ELSE IF Null \in all THEN Null ELSE FALSE
          [] v = Null -> Null
          [] p.op = "=" -> v = p.value
          [] p.op = "<>" -> v # p.value
          [] p.op = "<" -> v < p.value
          [] p.op = ">" -> v > p.value
--------------------------------------------------------------------------------
(* The graph of operations: [nodes, next, out], where nodes[id] is           *)
(* [op, inputs, rows, vars, left, right, where].                             *)

Operation(op, inputs, rows) ==
    [op |-> op, inputs |-> inputs, rows |-> rows, vars |-> {}, left |-> {}, right |-> {}, where |-> Null]
EmptyGraph == [nodes |-> <<>>, next |-> 1, out |-> 0]
AddNode(g, n) == [nodes |-> g.nodes @@ (g.next :> n), next |-> g.next + 1, out |-> g.next]
From(cur) == IF cur = 0 THEN <<>> ELSE <<cur>>
AddScan(g, node, inputs) == AddNode(g, [Operation("scan", inputs, 100) EXCEPT !.vars = {node.var}])

\* Each path starts from the clauses before; a hop joins the scan of its target.
AddPath(g, path, cur) ==
    FoldLeft(LAMBDA acc, i :
                 LET scanned == AddScan(acc, Target(path, i), <<>>)
                 IN  AddNode(scanned, [Operation("join", <<acc.out, scanned.out>>, 200) EXCEPT
                         !.left = {path.elements[2 * i - 1].var}, !.right = {Target(path, i).var}]),
             AddScan(g, path.elements[1], From(cur)), [i \in Hops(path) |-> i])
AddPaths(g, paths, cur) ==
    LET each == FoldLeft(LAMBDA acc, path : LET h == AddPath(acc.g, path, cur) IN [g |-> h, ends |-> Append(acc.ends, h.out)],
                         [g |-> g, ends |-> <<>>], paths)
        Cross(acc, end) == AddNode(acc, Operation("join", <<acc.out, end>>, 500))
    IN  FoldLeft(Cross, [each.g EXCEPT !.out = each.ends[1]], Tail(each.ends))
AddWhere(g, where) ==
    IF where = Null THEN g ELSE AddNode(g, [Operation("filter", From(g.out), 50) EXCEPT !.where = where, !.vars = Refs(where)])
AddClause(g, c) ==
    CASE Is(c, "match") -> AddWhere(AddPaths(g, c.paths, g.out), c.where)
      [] Is(c, "with") -> AddWhere(AddNode(g, Operation("project", From(g.out), 100)), c.where)
      [] Is(c, "unwind") -> AddNode(g, Operation("scan", From(g.out), 200))
      [] Is(c, "return") ->
            LET sorted == IF c.order THEN AddNode(g, Operation("sort", From(g.out), 100)) ELSE g
                cut == IF c.limit = Null THEN sorted ELSE AddNode(sorted, Operation("limit", From(sorted.out), Least(100, c.limit)))
            IN  AddNode(cut, Operation("project", From(cut.out), 100))
      [] OTHER -> g
build_computation_graph(clauses) == FoldLeft(AddClause, EmptyGraph, clauses)

RECURSIVE Visit(_, _, _)
Visit(g, order, id) ==
    IF Contains(order, id) THEN order
    ELSE Append(FoldLeft(LAMBDA o, i : Visit(g, o, i), order, g.nodes[id].inputs), id)
topological_order(g) == IF g.out = 0 THEN <<>> ELSE Visit(g, <<>>, g.out)

\* A pass visits the nodes in order and maps each to a node of a new graph.
Renumbered(ids, i) == IF i \in DOMAIN ids THEN ids[i] ELSE i
NewInputs(ids, inputs) == [i \in DOMAIN inputs |-> Renumbered(ids, inputs[i])]
Rewritten(g, Rewrite(_, _)) ==
    LET start == [g |-> [nodes |-> <<>>, next |-> g.next, out |-> 0], ids |-> <<>>]
        done == FoldLeft(Rewrite, start, topological_order(g))
    IN  [done.g EXCEPT !.out = Renumbered(done.ids, g.out)]
Copied(g, acc, id) ==
    LET h == AddNode(acc.g, [g.nodes[id] EXCEPT !.inputs = NewInputs(acc.ids, @)])
    IN  [g |-> h, ids |-> (id :> h.out) @@ acc.ids]
Above(g, id, op) == g.nodes[id].op = "filter" /\ Len(g.nodes[id].inputs) = 1 /\ g.nodes[g.nodes[id].inputs[1]].op = op

\* No query puts one filter on another, so that nothing is fused.
fuse_filters(g) == Rewritten(g, LAMBDA acc, id : Copied(g, acc, id))

\* The join below has been copied already; the new one takes its place.
Below(g, acc, id, side) ==
    LET join == g.nodes[id].inputs[1]
        inputs == NewInputs(acc.ids, g.nodes[join].inputs)
        filtered == AddNode(acc.g, [g.nodes[id] EXCEPT !.inputs = <<inputs[side]>>])
        joined == AddNode(filtered, [g.nodes[join] EXCEPT !.inputs = [inputs EXCEPT ![side] = filtered.out]])
    IN  [g |-> joined, ids |-> (id :> joined.out) @@ (join :> joined.out) @@ acc.ids]
PushFilter(g, acc, id) ==
    LET join == g.nodes[g.nodes[id].inputs[1]]
        refs == g.nodes[id].vars
    IN  IF ~Above(g, id, "join") \/ refs = {} THEN Copied(g, acc, id)
        ELSE IF refs \subseteq join.left THEN Below(g, acc, id, 1)
        ELSE IF refs \subseteq join.right THEN Below(g, acc, id, 2)
        ELSE Copied(g, acc, id)
push_filters_down(g) == Rewritten(g, LAMBDA acc, id : PushFilter(g, acc, id))

\* Joins and sorts hold their inputs as well.
estimate_memory(g) ==
    LET Held(id) == LET n == g.nodes[id] IN
            n.rows + IF n.op \in {"join", "sort"} THEN Total([i \in DOMAIN n.inputs |-> g.nodes[n.inputs[i]].rows]) ELSE 0
    IN  Sizes.row * FoldLeft(LAMBDA peak, id : Most(peak, Held(id)), 0, topological_order(g))
--------------------------------------------------------------------------------
(* Estimates. Statistics of a column are exact: tables are never so large    *)
(* that they are sampled.                                                    *)

KnownValues(label) == SelectSeq([i \in DOMAIN NodesWith(label) |-> NodesWith(label)[i].x], LAMBDA v : v # Null)
\* Bins are closed above in DuckDB and below in numpy, whose last one is closed.
BinOf(v, low, span, bins, engine) ==
    LET offset == (v - low) * bins
    IN  IF engine = "duckdb" THEN Most(1, (offset + span - 1) \div span) ELSE Least(bins, offset \div span + 1)
Histogram(known, low, high, bins, engine) ==
    IF low = high \/ Len(known) < Sizes.histogram_rows THEN <<>>
    ELSE [b \in 1..bins |-> Len(SelectSeq(known, LAMBDA v : BinOf(v, low, high - low, bins, engine) = b))]
Statistics(known, distinct, rows, engine) ==
    LET low == CHOOSE v \in distinct : \A w \in distinct : v <= w
        high == CHOOSE v \in distinct : \A w \in distinct : v >= w
    IN  [ndv |-> Cardinality(distinct), rows |-> rows, known |-> (Len(known) * Percent) \div Most(1, rows)] @@
        IF known = <<>> THEN [low |-> Null, high |-> Null, histogram |-> <<>>]
        ELSE [low |-> low, high |-> high,
              histogram |-> Histogram(known, low, high, Least(Sizes.bins, Cardinality(distinct)), engine)]
ColumnStatistics(label, engine) ==
    Statistics(KnownValues(label), Range(KnownValues(label)), Len(NodesWith(label)), engine)

equality_selectivity(s) == IF s.ndv = 0 THEN DefaultSelectivity ELSE s.known \div s.ndv
\* With edges, bounds and widths multiplied by the number of bins.
HistogramSelectivity(s, lo, hi) ==
    LET bins == Len(s.histogram)
        span == s.high - s.low
        Overlap(b) == Least(bins * hi, bins * s.low + span * b) - Most(bins * lo, bins * s.low + span * (b - 1))
        rows == Total([b \in 1..bins |-> s.histogram[b] * Most(0, Overlap(b))])
    IN  (rows * Percent) \div (span * Total(s.histogram))
range_selectivity(s, low, high) ==
    LET lo == Most(low, s.low)
        hi == Least(high, s.high)
        floor == Percent \div Most(1, s.rows)
        share == IF s.histogram # <<>> THEN HistogramSelectivity(s, lo, hi) ELSE ((hi - lo) * Percent) \div (s.high - s.low)
    IN  IF lo >= hi THEN floor ELSE Most((share * s.known) \div Percent, floor)

LabelIn(clauses, var) ==
    LET found == SelectSeq(FlattenSeq([i \in DOMAIN Matches(clauses) |-> ElementsOf(Matches(clauses)[i])]),
                           LAMBDA e : e.kind = "node" /\ e.var = var /\ e.label # Null)
    IN  IF found = <<>> THEN Null ELSE found[1].label
ComparisonOf(p, s) ==
    LET ranged == s.low # Null /\ s.low < s.high
    IN  CASE p.op = "=" -> equality_selectivity(s)
          [] p.op = "<>" -> Percent - equality_selectivity(s)
          [] p.op = ">" /\ ranged -> range_selectivity(s, p.value, s.high)
          [] p.op = "<" /\ ranged -> range_selectivity(s, s.low, p.value)
          [] OTHER -> DefaultSelectivity
ComparisonSelectivity(p, clauses, engine) ==
    IF LabelIn(clauses, p.var) \notin Labels THEN DefaultSelectivity
    ELSE ComparisonOf(p, ColumnStatistics(LabelIn(clauses, p.var), engine))
RECURSIVE Selectivity(_, _, _)
Selectivity(p, clauses, engine) ==
    LET each == [i \in DOMAIN p.args |-> Selectivity(p.args[i], clauses, engine)]
    IN  CASE p.op = "and" -> FoldLeft(LAMBDA s, t : (s * t) \div Percent, Percent, each)
          [] p.op = "or" -> FoldLeft(LAMBDA s, t : s + t - (s * t) \div Percent, each[1], Tail(each))
          [] p.op = "not" -> Percent - Selectivity(p.arg, clauses, engine)
          [] p.op = "known" -> DefaultSelectivity
          [] OTHER -> ComparisonSelectivity(p, clauses, engine)
Filtered(card, where, clauses, engine) ==
    IF where = Null THEN card ELSE Most(1, (card * Selectivity(where, clauses, engine)) \div Percent)

\* The rule takes a node without a label for a hundred, the analyzer for one.
PatternCardinality(m, unknown) ==
    LET Known(e, names) == IF e.label \in names THEN e.label ELSE Null
        Joined(card, n) == IF card > 0 THEN Least(card * n, n) ELSE n
        After(acc, e) ==
            IF e.kind = "node" THEN
                LET n == Len(NodesWith(e.label)) IN
                IF acc.hop THEN acc ELSE IF n > 0 THEN [acc EXCEPT !.card = n] ELSE [acc EXCEPT !.card = @ * unknown]
            ELSE [card |-> Joined(acc.card, Len(EdgesWith(e.label))), hop |-> TRUE]
    IN  FoldLeft(After, [card |-> 1, hop |-> FALSE], ElementsOf(m)).card
_estimate_match_cardinality(m) == Filtered(PatternCardinality(m, 100), m.where, <<m>>, host)

\* Stable, as Python's sort.
Ascending(numbers) ==
    SortSeq([i \in DOMAIN numbers |-> i], LAMBDA i, j : numbers[i] < numbers[j] \/ (numbers[i] = numbers[j] /\ i < j))
ByEstimate(run) == Ascending([i \in DOMAIN run |-> _estimate_match_cardinality(run[i])])

PlainMatch(c) == Is(c, "match") /\ ~c.optional
\* The runs of MATCH clauses: the intervals of positions that cannot be longer.
Runs(clauses) ==
    LET ends == {r \in (DOMAIN clauses) \X (DOMAIN clauses) : r[1] < r[2] /\ \A k \in r[1]..r[2] : PlainMatch(clauses[k])}
    IN  {r \in ends : \A s \in ends : s[1] <= r[1] /\ r[2] <= s[2] => s = r}
Movable(run) ==
    /\ \A i \in DOMAIN run : \A j \in DOMAIN run[i].paths : ~run[i].paths[j].shortest
    /\ \A i, j \in DOMAIN run : run[i].where = Null \/ Refs(run[i].where) \intersect VarsOf(run[j]) \subseteq VarsOf(run[i])
apply_match_reordering(clauses) ==
    [k \in DOMAIN clauses |->
        LET around == {r \in Runs(clauses) : r[1] <= k /\ k <= r[2]}
            r == CHOOSE r \in around : TRUE
            run == SubSeq(clauses, r[1], r[2])
        IN  IF around = {} \/ ~Movable(run) THEN clauses[k] ELSE run[ByEstimate(run)[k - r[1] + 1]]]

LastClause(clauses) == clauses[Len(clauses)]
Returns(clauses) == clauses # <<>> /\ Is(LastClause(clauses), "return")
\* The rule looks at the function an item is, not at those inside it.
LimitPushdownRule(clauses) ==
    /\ Returns(clauses) /\ ~\E i \in DOMAIN clauses : Is(clauses[i], "with")
    /\ LET ret == LastClause(clauses) IN ~ret.distinct /\ ~ret.order /\ ret.skip \in {Null, 0} /\ ret.limit # Null /\ ret.count # "top"
extract_limit_hint(clauses) ==
    /\ Len(Matches(clauses)) = 1 /\ ~\E i \in DOMAIN clauses : Is(clauses[i], "with")
    /\ Returns(clauses)
    /\ LET ret == LastClause(clauses) IN ~ret.distinct /\ ~ret.order /\ ret.skip = Null /\ ret.limit # Null /\ ret.count = "none"
HintAnyway(clauses) ==                                  \* mutant: the LIMIT of any RETURN
    IF Returns(clauses) THEN LastClause(clauses).limit ELSE Null
LimitHint(clauses) == IF LimitPushdownRule(clauses) \/ extract_limit_hint(clauses) THEN LastClause(clauses).limit ELSE Null

RECURSIVE Simplifiable(_)
Simplifiable(p) ==
    \/ p.op = "not" /\ (p.arg.op = "not" \/ Simplifiable(p.arg))
    \/ p.op \in {"and", "or"} /\ \E q \in Range(p.args) : Simplifiable(q)
Disordered(clauses) == ByEstimate(Matches(clauses)) # [i \in DOMAIN Matches(clauses) |-> i]
QueryOptimizer(clauses) ==
    {rule \in {"filter_pushdown", "limit_pushdown", "join_reordering", "predicate_simplification", "index_scan"} :
        CASE rule = "filter_pushdown" -> \E i \in DOMAIN Matches(clauses) : Matches(clauses)[i].where # Null
          [] rule = "limit_pushdown" -> LimitPushdownRule(clauses)
          [] rule = "join_reordering" -> Len(Matches(clauses)) >= 2 /\ Disordered(clauses)
          [] rule = "predicate_simplification" -> \E i \in DOMAIN Wheres(clauses) : Simplifiable(Wheres(clauses)[i].where)
          [] rule = "index_scan" -> \E i \in DOMAIN Matches(clauses) : \E e \in Range(ElementsOf(Matches(clauses)[i])) : e.kind = "hop"}
\* The estimates reach the choice of an engine with the hint to reorder only.
\* The new DuckDB has no tables: statistics are those of the frames after it too.
select_backend_for_query(clauses, rules) ==
    IF /\ host = "pandas" /\ "join_reordering" \in rules
       /\ \E i \in DOMAIN Matches(clauses) : _estimate_match_cardinality(Matches(clauses)[i]) >= Sizes.switch
    THEN "duckdb_empty" ELSE host
--------------------------------------------------------------------------------
(* The analysis and its feedback. *)

correction_factor(type) ==
    LET pairs == feedback[type]
        ratio(pair) == (pair[2] * Percent) \div Most(1, pair[1])
    IN  IF pairs = <<>> THEN Percent ELSE Most(1, Least(100 * Percent, Total([i \in DOMAIN pairs |-> ratio(pairs[i])]) \div Len(pairs)))
LabelsIn(m, kind) == LET found == SelectSeq(ElementsOf(m), LAMBDA e : e.kind = kind /\ e.label # Null) IN [i \in DOMAIN found |-> found[i].label]
\* The geometric mean of the corrections lies between them: both ends are tried.
Corrections(m) ==
    LET all == {correction_factor(t) : t \in Range(LabelsIn(m, "node")) \union Range(LabelsIn(m, "hop"))}
    IN  IF all = {} THEN {Percent} ELSE {c \in all : (\A d \in all : c <= d) \/ (\A d \in all : c >= d)}

plan_join(left, right, leftRows, rightRows) ==
    LET smaller == Least(leftRows, rightRows)
        broadcast == smaller <= Sizes.broadcast
    IN  [left |-> left, right |-> right, strategy |-> IF broadcast THEN "broadcast" ELSE "hash",
         bytes |-> IF broadcast THEN smaller * Sizes.row ELSE 2 * smaller * Sizes.row]
JoinPlans(m) ==
    LET nodes == LabelsIn(m, "node")
        hops == LabelsIn(m, "hop")
        largest == FoldLeft(LAMBDA n, label : Most(n, Len(NodesWith(label))), 0, nodes)
    IN  IF nodes = <<>> THEN <<>> ELSE [i \in DOMAIN hops |-> plan_join(nodes[1], hops[i], largest, Len(EdgesWith(hops[i])))]
_analyze_match(m, clauses, correction, engine) ==
    LET card == PatternCardinality(m, 1)
        corrected == IF correction = Percent THEN card ELSE Most(1, (card * correction) \div Percent)
    IN  Filtered(corrected, m.where, clauses, engine)
\* LIMIT and SKIP are plain numbers here, where the analyzer looks for literals.
Cardinalities(clauses, corrections, engine) ==
    Tail(FoldLeft(LAMBDA cards, c :
             LET last == cards[Len(cards)] IN
             Append(cards, CASE Is(c, "match") -> _analyze_match(c, clauses, corrections[c], engine)
                             [] c.op \in {"with", "return"} /\ c.distinct -> (last * 80) \div Percent
                             [] OTHER -> last),
             <<0>>, clauses))
_count_variables(clauses) == Most(1, Cardinality(UNION {VarsOf(Matches(clauses)[i]) : i \in DOMAIN Matches(clauses)}))
Peak(clauses, cards, joins) ==
    Most(1, FoldLeft(Most, 0, cards) * _count_variables(clauses) * Sizes.cell + Total([i \in DOMAIN joins |-> joins[i].bytes]))
Analysis(clauses, corrections, engine) ==
    LET cards == Cardinalities(clauses, corrections, engine)
        joins == FlattenSeq([i \in DOMAIN Matches(clauses) |-> JoinPlans(Matches(clauses)[i])])
    IN  [graph |-> push_filters_down(fuse_filters(build_computation_graph(clauses))), rules |-> QueryOptimizer(clauses),
         cards |-> cards, joins |-> joins, peak |-> Peak(clauses, cards, joins)]

\* What the last clause was estimated at, for the types that were joined.
record_cardinality_feedback(rows) ==
    LET seen == UNION {{plan.joins[i].left, plan.joins[i].right} : i \in DOMAIN plan.joins}
        estimate == LastClause(plan.cards)
        Kept(pairs) == IF Len(pairs) < Sizes.history THEN pairs ELSE Tail(pairs)
    IN  feedback' = [t \in DOMAIN feedback |->
            IF t \in seen /\ (estimate > 0 \/ rows > 0) THEN Append(Kept(feedback[t]), <<estimate, rows>>) ELSE feedback[t]]
--------------------------------------------------------------------------------
(* The clauses. A frame is [types, rows, given]: types has the variables, a  *)
(* label or Null for each; given is FALSE before the first clause.           *)

NoFrame == [types |-> <<>>, rows |-> <<>>, given |-> FALSE]
Many == "__MULTI__"
Holding(f, rows) == [f EXCEPT !.rows = rows]
FirstOnly(s, Key(_)) == SelectSeq([i \in DOMAIN s |-> <<i, s[i]>>], LAMBDA p : \A j \in 1..(p[1] - 1) : Key(s[j]) # Key(p[2]))
Seconds(pairs) == [i \in DOMAIN pairs |-> pairs[i][2]]
ForEach(rows, More(_)) == FlattenSeq([i \in DOMAIN rows |-> More(rows[i])])
coerce_join(f, g) ==
    LET Common == (DOMAIN f.types) \intersect (DOMAIN g.types)
        More(row) == LET found == SelectSeq(g.rows, LAMBDA r : \A v \in Common : r[v] = row[v]) IN [i \in DOMAIN found |-> row @@ found[i]]
    IN  [types |-> g.types @@ f.types, rows |-> ForEach(f.rows, More), given |-> TRUE]
left_join(f, g) ==
    LET new == (DOMAIN g.types) \ (DOMAIN f.types)
        common == (DOMAIN g.types) \intersect (DOMAIN f.types)
        More(row) == LET found == SelectSeq(g.rows, LAMBDA r : \A v \in common : r[v] = row[v])
                     IN  IF found = <<>> THEN <<row @@ [v \in new |-> Null]>> ELSE [i \in DOMAIN found |-> row @@ found[i]]
    IN  [types |-> g.types @@ f.types, rows |-> ForEach(f.rows, More), given |-> TRUE]
Kept(f, where) == IF where = Null THEN f ELSE [f EXCEPT !.rows = SelectSeq(@, LAMBDA row : Truth(where, row) = TRUE)]

\* A node without a label has that of the frame before; one that was scanned in
\* every table has a label there that no table has.
TypeFor(node, before) == IF node.label # Null THEN node.label ELSE IF node.var \in DOMAIN before THEN before[node.var] ELSE Null
node_pattern_to_binding_frame(node, before) ==
    LET label == TypeFor(node, before)
        ids == IdsOf(IF label = Null THEN Graph.nodes ELSE NodesWith(label))
    IN  [types |-> node.var :> IF label = Null THEN Many ELSE label, rows |-> [i \in DOMAIN ids |-> node.var :> ids[i]], given |-> TRUE]
Lost(m, before) == \E i \in DOMAIN m.paths : TypeFor(m.paths[i].elements[1], before) = Many

Edges(rel, tip) == SelectSeq(EdgesWith(rel.label), LAMBDA e : e.from = tip)
_traverse_fixed_hop(f, from, rel, to) ==
    LET More(row) == LET found == SelectSeq(Edges(rel, row[from]), LAMBDA e : to.var \in DOMAIN row => e.to = row[to.var])
                     IN  [i \in DOMAIN found |-> row @@ (to.var :> found[i].to)]
    IN  [f EXCEPT !.rows = ForEach(@, More), !.types = @ @@ (to.var :> to.label)]

\* Breadth first: [row, tip] pairs on the frontier, one for each start and tip.
expand_variable_length_path(f, from, rel, to, limit, shortest) ==
    LET Start(row) == [row |-> row, tip |-> row[from]]
        More(walk) == LET found == Edges(rel, walk.tip) IN [i \in DOMAIN found |-> [walk EXCEPT !.tip = found[i].to]]
        Key(walk) == <<walk.row[from], walk.tip>>
        Found(frontier, hop) == [i \in DOMAIN frontier |-> [row |-> frontier[i].row @@ (to.var :> frontier[i].tip), hop |-> hop]]
        Room(part, found) == IF limit = Null THEN Len(part) ELSE Least(Len(part), limit - Len(found))
        Reach(acc, frontier, hop, part) ==
            [frontier |-> frontier, found |-> acc.found \o SubSeq(part, 1, Room(part, acc.found)),
             full |-> limit # Null /\ hop >= rel.length[1] /\ Len(acc.found) + Room(part, acc.found) >= limit]
        Reached(acc, frontier, hop) == Reach(acc, frontier, hop, IF hop >= rel.length[1] THEN Found(frontier, hop) ELSE <<>>)
        Hop(acc, hop) == IF acc.full THEN acc ELSE Reached(acc, Seconds(FirstOnly(ForEach(acc.frontier, More), Key)), hop)
        walk[hop \in 0..rel.length[2]] ==
            IF hop = 0 THEN [frontier |-> [i \in DOMAIN f.rows |-> Start(f.rows[i])], found |-> <<>>, full |-> FALSE]
            ELSE Hop(walk[hop - 1], hop)
        Nearest(walked) == SelectSeq(walked, LAMBDA w : shortest => \A v \in Range(walked) : v.row = w.row => w.hop <= v.hop)
        Ends(chosen) == [f EXCEPT !.rows = [i \in DOMAIN chosen |-> chosen[i].row], !.types = @ @@ (to.var :> to.label)]
    IN  Ends(Nearest(walk[rel.length[2]].found))

Traverse(f, from, rel, to, limit, shortest) ==
    IF rel.length = Null THEN _traverse_fixed_hop(f, from, rel, to)
    ELSE expand_variable_length_path(f, from, rel, to, IF shortest THEN Null ELSE limit, shortest)
pattern_path_to_binding_frame(path, before, limit) ==
    LET frame[i \in {0} \union Hops(path)] ==
            IF i = 0 THEN node_pattern_to_binding_frame(path.elements[1], before)
            ELSE Traverse(frame[i - 1], path.elements[2 * i - 1].var, Relation(path, i), Target(path, i), limit, path.shortest)
    IN  frame[Len(path.elements) \div 2]
match_to_binding_frame(m, before, limit) ==
    LET frame[i \in DOMAIN m.paths] ==
            LET found == pattern_path_to_binding_frame(m.paths[i], before, limit) IN
            IF i = 1 THEN found ELSE coerce_join(frame[i - 1], found)
    IN  frame[Len(m.paths)]

Attached(m, f, found) ==
    IF m.optional /\ f.given THEN left_join(f, found)
    ELSE Kept(IF f.given THEN coerce_join(f, found) ELSE found, m.where)
ProcessMatch(m, f, limit) ==
    Attached(m, f, match_to_binding_frame(m, f.types, IF m.optional /\ f.given THEN Null ELSE limit))
Projected(f, vars) == [f EXCEPT !.types = Restrict(@, vars), !.rows = [i \in DOMAIN @ |-> Restrict(@[i], vars)]]
Same(row) == row
Distinctly(f, distinct) == IF distinct THEN [f EXCEPT !.rows = Seconds(FirstOnly(@, Same))] ELSE f
Counted(f, ret) == IF ret.count = "none" THEN f ELSE Holding(f, <<[rows |-> Len(f.rows) + IF ret.count = "nested" THEN 1 ELSE 0]>>)
Uncut(f, ret) == Distinctly(Counted(Projected(f, ret.vars), ret), ret.distinct)
Cut(rows, skip, limit) ==
    LET first == 1 + IF skip = Null THEN 0 ELSE skip
    IN  SubSeq(rows, first, IF limit = Null THEN Len(rows) ELSE Least(Len(rows), first + limit - 1))
Unwound(f, c) ==
    LET rows == IF f.given THEN f.rows ELSE <<<<>>>>
        More(row) == [i \in DOMAIN c.values |-> row @@ (c.var :> c.values[i])]
    IN  [types |-> f.types @@ (c.var :> Null), rows |-> ForEach(rows, More), given |-> TRUE]
dispatch_clause(c, f, limit) ==
    CASE Is(c, "match") -> ProcessMatch(c, f, limit)
      [] Is(c, "with") -> Kept(Distinctly(Projected(f, c.vars), c.distinct), c.where)
      [] Is(c, "unwind") -> Unwound(f, c)
      [] Is(c, "return") -> [Uncut(f, c) EXCEPT !.rows = Cut(@, c.skip, c.limit)]
      [] OTHER -> f
Wrote(c, f) == IF Is(c, "set") THEN {f.rows[i][c.var] : i \in DOMAIN f.rows} ELSE {}
--------------------------------------------------------------------------------
PlannerInit ==
    /\ asked = <<>> /\ tree = <<>> /\ phase = "idle" /\ position = 1 /\ hint = Null
    /\ plan = NoPlan /\ bound = NoFrame /\ touched = {} /\ session = 0
    /\ feedback = [t \in Labels \union Types |-> <<>>]
    /\ host \in {"pandas", "duckdb"} /\ budget \in Budgets

Ask ==
    /\ phase \in {"idle", "answered", "failed", "refused"} /\ session < SessionBound
    /\ \E q \in Asked : asked' = q /\ tree' = q
    /\ phase' = "asked" /\ position' = 1 /\ hint' = Null
    /\ plan' = NoPlan /\ bound' = NoFrame /\ touched' = {} /\ session' = session + 1
    /\ UNCHANGED <<feedback, host, budget>>

\* A budget of the Context's own refuses the query, the default one only warns.
Analyze ==
    /\ phase = "asked"
    /\ LET found == Range(Matches(tree)) IN
       \E corrections \in {f \in [found -> UNION {Corrections(m) : m \in found}] : \A m \in found : f[m] \in Corrections(m)} :
           plan' = Analysis(tree, corrections, host)
    /\ host' = select_backend_for_query(tree, plan'.rules)
    /\ IF budget # Null /\ plan'.peak > budget THEN phase' = "refused" /\ UNCHANGED <<tree, hint>>
       ELSE phase' = "running" /\ tree' = apply_match_reordering(tree) /\ hint' = LimitHint(tree)
    /\ UNCHANGED <<asked, position, bound, touched, feedback, budget, session>>

RunClause ==
    /\ phase = "running"
    /\ LET c == tree[position]
           after == dispatch_clause(c, bound, hint)
       IN  IF Is(c, "match") /\ Lost(c, bound.types) THEN phase' = "failed" /\ UNCHANGED <<position, bound, touched, feedback>>
           ELSE /\ bound' = after /\ touched' = touched \union Wrote(c, after) /\ position' = position + 1
                /\ IF position < Len(tree) THEN UNCHANGED <<phase, feedback>>
                   ELSE phase' = "answered" /\ record_cardinality_feedback(IF Is(c, "return") THEN Len(after.rows) ELSE 0)
    /\ UNCHANGED <<asked, tree, hint, plan, host, budget, session>>

PlannerNext == Ask \/ Analyze \/ RunClause
--------------------------------------------------------------------------------
(* What planning promises: nothing but time. *)

\* The query as it was written, without any plan.
AsWritten(clauses) ==
    LET Reach(acc, c, f) == [acc EXCEPT !.f = f, !.before = acc.f, !.touched = @ \union Wrote(c, f)]
        Step(acc, c) ==
            IF acc.lost \/ (Is(c, "match") /\ Lost(c, acc.f.types)) THEN [acc EXCEPT !.lost = TRUE, !.before = acc.f]
            ELSE Reach(acc, c, dispatch_clause(c, acc.f, Null))
        run[i \in 0..Len(clauses)] ==
            IF i = 0 THEN [f |-> NoFrame, before |-> NoFrame, touched |-> {}, lost |-> FALSE] ELSE Step(run[i - 1], clauses[i])
    IN  run[Len(clauses)]

\* The operations that the output needs say the same as the clauses: every
\* condition once, above the scans of all of its variables.
VarsBelow(g, id) == UNION {g.nodes[i].vars : i \in {j \in Range(Visit(g, <<>>, id)) : g.nodes[j].op = "scan"}}
GraphStandsFor(clauses) ==
    LET g == plan.graph
        filters == SelectSeq(topological_order(g), LAMBDA id : g.nodes[id].op = "filter")
        Where(i) == g.nodes[filters[i]].where
        wheres == Wheres(clauses)
    IN  /\ ToBag([i \in DOMAIN filters |-> Where(i)]) = ToBag([i \in DOMAIN wheres |-> wheres[i].where])
        /\ \A i \in DOMAIN filters :
            Refs(Where(i)) \intersect VarsBelow(g, g.out) \subseteq VarsBelow(g, g.nodes[filters[i]].inputs[1])

\* A limit may stop a path of variable length when nothing after it takes or
\* makes rows. The code gives it to other queries too, which then lose rows.
Long(m) == \E e \in Range(ElementsOf(m)) : e.kind = "hop" /\ e.length # Null
LimitIsSafe(clauses) ==
    \/ hint = Null
    \/ \A i \in DOMAIN Matches(clauses) : ~Long(Matches(clauses)[i])
    \/ /\ Len(clauses) = 2 /\ clauses[1].where = Null /\ clauses[2].count = "none"
       /\ Len(clauses[1].paths) = 1 /\ Len(clauses[1].paths[1].elements) = 3
\* A node without a label is scanned in every table, and again by its clause.
ScansTwice(clauses) ==
    \E i, j \in DOMAIN clauses :
        /\ i # j /\ Is(clauses[i], "match") /\ Is(clauses[j], "match")
        /\ LET first == clauses[i].paths[1].elements[1] IN first.label = Null /\ first = clauses[j].paths[1].elements[1]

\* Whatever the rules, the estimates and the feedback of earlier queries: the
\* graph says what the query says; a query in another order, with another engine
\* and a limit inside, returns and writes what it does as written, save that
\* LIMIT may pick other rows; where the limit is not safe it loses rows and makes
\* none up; and it fails only as written, or where an unlabelled node repeats.
Agrees(written) ==
    /\ phase = "answered" =>
        /\ Returns(asked) /\ (LimitIsSafe(asked) \/ LastClause(asked).count = "none") =>
               ToBag(bound.rows) \sqsubseteq ToBag(Uncut(written.before, LastClause(asked)).rows)
        /\ LimitIsSafe(asked) => touched = written.touched /\ (Returns(asked) => Len(bound.rows) = Len(written.f.rows))
    /\ phase = "failed" => written.lost \/ ScansTwice(asked)
PlansKeepRows ==
    /\ phase \in {"running", "answered"} => GraphStandsFor(asked)
    /\ phase \in {"answered", "failed"} => Agrees(AsWritten(asked))
================================================================================
