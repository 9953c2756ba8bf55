------------------------------- MODULE Expressions -------------------------------
(* A WHERE predicate over the rows of a frame: evaluated column by column    *)
(* (boolean_evaluator.py, comparison_evaluator.py,                           *)
(* string_predicate_evaluator.py, collection_evaluator.py), or, on a lazy    *)
(* frame, conjunct by conjunct, compiled to SQL as far as it goes            *)
(* (scan_operators.py, relation_sql.py). A row maps names to values; a name  *)
(* it does not have is null. An expression is [op, args, of]: `args` are     *)
(* expressions; `of` is a name, a value, a list or a comparison. Values are  *)
(* integers, truth values and null; arithmetic, the string predicates and    *)
(* the SQL compiled for user functions are left out. Operands of AND, OR,    *)
(* XOR and NOT are logical: the code does not look at what others are.       *)
EXTENDS CypherValues, Integers, Sequences, FiniteSets, SequencesExt

CONSTANTS
    True, False,
    Terms,            \* the expressions that may be evaluated, with all of their parts
    Depth,            \* how deep the parts of each are nested
    Bindings,         \* the rows they may be evaluated on, with "it" bound or not
    WherePredicates,  \* the WHERE predicates
    FrameRows,        \* sequences of rows
    AggregatedRows,   \* sequences of [key, val]
    AggregateItems    \* sequences of [func, distinct]: the items with an aggregate

VARIABLES
    where,            \* the predicate
    passing,          \* the rows that are left
    given,            \* the rows the filter was given
    lazy,             \* the frame is lazy: SQL may filter it
    residual,         \* conjuncts still to be applied
    filtering,        \* "start", "residual", "done", "index_error"
    aggRows, aggItems,
    aggregated,       \* sequence of [key, values]
    aggregation       \* "pending", "done", "length_error"

expressionVars == <<where, passing, given, lazy, residual, filtering>>
aggregationVars == <<aggRows, aggItems, aggregated, aggregation>>

Truth(b) == IF b THEN True ELSE False
Lookup(row, name) == IF name \in DOMAIN row THEN row[name] ELSE Null

Compares(rel, x, y) ==
    CASE rel = "=" -> x = y
      [] rel = "<>" -> x # y
      [] rel = "<" -> x < y
      [] rel = "<=" -> x <= y

Truths == {True, False, Null}
Quantifiers == {"any", "all", "none", "single"}
Connectives == {"and", "or", "xor", "not"}
Logical(e) ==
    \/ e.op \in Connectives \union Quantifiers \union {"compare", "is_null", "is_not_null", "in", "not_in"}
    \/ e.op = "literal" /\ e.of \in Truths
    \/ e.op = "property" /\ \A row \in Bindings : Lookup(row, e.of) \in Truths

\* How many arguments an expression has, as the parser makes it.
WellFormed(e) ==
    /\ \/ e.op \in {"property", "literal"} /\ e.args = <<>>
       \/ e.op = "compare" /\ Len(e.args) = 2
       \/ e.op \in {"and", "or", "xor"} /\ Len(e.args) >= 1
       \/ e.op \in {"not", "is_null", "is_not_null", "in", "not_in"} \union Quantifiers /\ Len(e.args) = 1
       \/ e.op = "case" /\ Len(e.args) % 2 = 1
       \/ e.op = "simple_case" /\ Len(e.args) >= 2 /\ Len(e.args) % 2 = 0
    /\ e.op \in Connectives => \A i \in DOMAIN e.args : Logical(e.args[i])
    /\ e.op \in Quantifiers \union {"in", "not_in"} => e.of \in Seq(Range(e.of))

ASSUME ExpressionAssumption ==
    /\ True # False /\ True # Null /\ False # Null
    /\ WherePredicates \subseteq Terms
    /\ \A s \in FrameRows : s \in Seq(Bindings)
    /\ \A e \in Terms :
         /\ e.args \in Seq(Terms) /\ WellFormed(e)
         /\ Depth[e] \in Nat /\ \A i \in DOMAIN e.args : Depth[e.args[i]] < Depth[e]
         /\ e.op \in Quantifiers =>
              \A row \in Bindings : \A i \in DOMAIN e.of : Put(row, "it", e.of[i]) \in Bindings
    /\ \A s \in AggregatedRows :
         s \in Seq(Range(s)) /\ \A i \in DOMAIN s : s[i].key \in Seq(Range(s[i].key))

--------------------------------------------------------------------------------
(* The evaluators, one row at a time. *)

KleeneAnd(x, y) == IF x = False \/ y = False THEN False
                   ELSE IF x = Null \/ y = Null THEN Null ELSE True
KleeneOr(x, y) == IF x = True \/ y = True THEN True
                  ELSE IF x = Null \/ y = Null THEN Null ELSE False
KleeneXor(x, y) == IF x = Null \/ y = Null THEN Null ELSE Truth(x # y)
NotTrue(x) == Truth(x # True)              \* mutant: not unknown is true
KleeneNot(x) == IF x = Null THEN Null ELSE Truth(x = False)

Both(op, x, y) ==
    CASE op = "and" -> KleeneAnd(x, y)
      [] op = "or" -> KleeneOr(x, y)
      [] op = "xor" -> KleeneXor(x, y)

\* The operands of a chain, from the left.
Chained(op, values) ==
    LET upto[i \in DOMAIN values] == IF i = 1 THEN values[1] ELSE Both(op, upto[i - 1], values[i])
    IN  upto[Len(values)]

EvaluateComparison(rel, x, y) == IF x = Null \/ y = Null THEN Null ELSE Truth(Compares(rel, x, y))

\* Null is in no list, and not knowably out of a list that has one.
InList(x, list) ==
    IF x = Null THEN IF list = <<>> THEN False ELSE Null
    ELSE IF \E i \in DOMAIN list : list[i] # Null /\ list[i] = x THEN True
    ELSE IF Null \in Range(list) THEN Null ELSE False

\* Of n WHENs, those that match are laid over the ELSE from the last to the
\* first; result[0] is the ELSE, result[k] is that of the WHEN.
EvaluateCase(n, matched, result) ==
    LET laid[k \in 0 .. n] ==
            IF k = 0 THEN result[0] ELSE IF n + 1 - k \in matched THEN result[n + 1 - k] ELSE laid[k - 1]
    IN  laid[n]

\* The matches are counted; a null counts as no match, a null list as empty.
EvaluateQuantifier(kind, matches) ==
    LET count == Cardinality({i \in DOMAIN matches : matches[i] = True})
    IN  Truth(CASE kind = "any" -> count > 0
                [] kind = "all" -> count = Len(matches)
                [] kind = "none" -> count = 0
                [] kind = "single" -> count = 1)

\* A quantifier's predicate sees the row and the element as "it"; the arguments
\* of a CASE are the ELSE, then a condition and a result per WHEN, and for a
\* simple CASE the discriminant at the end. A null condition, and a null on
\* either side of a simple CASE, does not match.
Whens(e) == (Len(e.args) - 1) \div 2
Results(values, n) == [k \in 0 .. n |-> values[2 * k + 1]]
WithElement(row, e, i) == Put(row, "it", e.of[i])
\* columns[i] has the values of the i-th argument, for every row.
EvaluatedAt(e, columns, row) ==
    LET values == [i \in DOMAIN e.args |-> columns[i][row]]
        Matched(k) == IF e.op = "case" THEN values[2 * k] = True
                      ELSE values[2 * k] # Null /\ values[2 * k] = values[Len(e.args)]
    IN  CASE e.op = "property" -> Lookup(row, e.of)
          [] e.op = "literal" -> e.of
          [] e.op = "compare" -> EvaluateComparison(e.of, values[1], values[2])
          [] e.op \in {"and", "or", "xor"} -> Chained(e.op, values)
          [] e.op = "not" -> KleeneNot(values[1])
          [] e.op = "is_null" -> Truth(values[1] = Null)
          [] e.op = "is_not_null" -> Truth(values[1] # Null)
          [] e.op = "in" -> InList(values[1], e.of)
          [] e.op = "not_in" -> KleeneNot(InList(values[1], e.of))
          [] e.op \in {"case", "simple_case"} ->
               EvaluateCase(Whens(e), {k \in 1 .. Whens(e) : Matched(k)}, Results(values, Whens(e)))
          [] e.op \in Quantifiers ->
               EvaluateQuantifier(e.op, [i \in DOMAIN e.of |-> columns[1][WithElement(row, e, i)]])

\* Expressions are evaluated column by column, the arguments first.
EvaluatedColumn(e, columns) == [row \in Bindings |-> EvaluatedAt(e, columns, row)]
Evaluate[e \in Terms] == EvaluatedColumn(e, [i \in DOMAIN e.args |-> Evaluate[e.args[i]]])

\* IN takes its list of the first row before it looks at any: without rows an
\* IndexError, except under a quantifier, which then evaluates nothing.
HasIn[e \in Terms] ==
    \/ e.op \in {"in", "not_in"}
    \/ e.op \notin Quantifiers /\ \E i \in DOMAIN e.args : HasIn[e.args[i]]
EvaluationRaises(e, over) == over = <<>> /\ HasIn[e]

TrueRows(over, column) == RowsAt(over, {i \in DOMAIN over : column[over[i]] = True})
Kept(e, over) == TrueRows(over, Evaluate[e])
--------------------------------------------------------------------------------
(* SQL: what compile_expression compiles, as SQL evaluates it. *)

Compiles[e \in Terms] ==
    /\ e.op \in {"property", "literal", "compare", "and", "or", "not", "is_null", "is_not_null",
                 "case", "simple_case"}
    /\ e.op = "literal" => e.of # Null
    /\ \A i \in DOMAIN e.args : Compiles[e.args[i]]

Sql(b) == IF b THEN True ELSE False
SqlEvaluated(e, columns, row) ==
    LET values == [i \in DOMAIN e.args |-> columns[i][row]]
        whens == 1 .. Whens(e)
        Chosen(taken) == IF taken = {} THEN values[1] ELSE values[2 * Min(taken) + 1]
    IN  CASE e.op = "property" -> Lookup(row, e.of)
          [] e.op = "literal" -> e.of
          [] e.op = "compare" -> IF Null \in Range(values) THEN Null ELSE Sql(Compares(e.of, values[1], values[2]))
          [] e.op = "and" -> IF False \in Range(values) THEN False ELSE IF Null \in Range(values) THEN Null ELSE True
          [] e.op = "or" -> IF True \in Range(values) THEN True ELSE IF Null \in Range(values) THEN Null ELSE False
          [] e.op = "not" -> IF values[1] = Null THEN Null ELSE Sql(values[1] = False)
          [] e.op = "is_null" -> Sql(values[1] = Null)
          [] e.op = "is_not_null" -> Sql(values[1] # Null)
          [] e.op = "case" -> Chosen({k \in whens : values[2 * k] = True})
          [] e.op = "simple_case" ->
               LET disc == values[Len(e.args)]
               IN  Chosen({k \in whens : disc # Null /\ values[2 * k] = disc})
SqlColumn(e, columns) == [row \in Bindings |-> SqlEvaluated(e, columns, row)]
CompiledTerms == {t \in Terms : Compiles[t]}
SqlValue[e \in CompiledTerms] == SqlColumn(e, [i \in DOMAIN e.args |-> SqlValue[e.args[i]]])

SplitConjuncts[e \in Terms] ==
    IF e.op # "and" THEN <<e>> ELSE FlattenSeq([i \in DOMAIN e.args |-> SplitConjuncts[e.args[i]]])
--------------------------------------------------------------------------------

ExpressionInit ==
    /\ where \in WherePredicates /\ given \in FrameRows /\ lazy \in BOOLEAN
    /\ passing = given /\ residual = <<>> /\ filtering = "start"

\* BindingFilter.apply on a frame in memory: the whole predicate.
ApplyInMemory ==
    /\ filtering = "start" /\ ~lazy
    /\ residual' = <<where>> /\ filtering' = "residual"
    /\ UNCHANGED <<where, given, passing, lazy>>

\* On a lazy frame: the compiled conjuncts at once, the others remain.
PushToSql ==
    LET conjuncts == SplitConjuncts[where]
        pushed == {i \in DOMAIN conjuncts : Compiles[conjuncts[i]]}
        columns == [i \in pushed |-> SqlValue[conjuncts[i]]]
    IN  /\ filtering = "start" /\ lazy
        /\ passing' = RowsAt(passing, {k \in DOMAIN passing : \A i \in pushed : columns[i][passing[k]] = True})
        /\ residual' = RowsAt(conjuncts, DOMAIN conjuncts \ pushed)
        /\ filtering' = "residual"
        /\ UNCHANGED <<where, given, lazy>>

ApplyResidual ==
    /\ filtering = "residual" /\ residual # <<>>
    /\ IF EvaluationRaises(Head(residual), passing)
       THEN filtering' = "index_error" /\ UNCHANGED <<passing, residual>>
       ELSE passing' = Kept(Head(residual), passing) /\ residual' = Tail(residual) /\ UNCHANGED filtering
    /\ UNCHANGED <<where, given, lazy>>

EndOfFilter ==
    /\ filtering = "residual" /\ residual = <<>>
    /\ filtering' = "done"
    /\ UNCHANGED <<where, given, passing, lazy, residual>>

ExpressionNext == ApplyInMemory \/ PushToSql \/ ApplyResidual \/ EndOfFilter

--------------------------------------------------------------------------------
(* The three-valued logic Cypher prescribes, by its order false < null < true. *)

Rank(x) == IF x = False THEN 0 ELSE IF x = Null THEN 1 ELSE 2
OfRank(n) == IF n = 0 THEN False ELSE IF n = 1 THEN Null ELSE True

Equal(x, y) == IF x = Null \/ y = Null THEN Null ELSE Truth(x = y)
Among(x, list) == OfRank(Max({0} \union {Rank(Equal(x, list[i])) : i \in DOMAIN list}))
\* A quantifier over the answers of its elements is unknown when the unknown
\* ones could still turn it either way.
QuantifierMeant(kind, matches) ==
    LET matching == {i \in DOMAIN matches : matches[i] = True}
        unknown == {i \in DOMAIN matches : matches[i] = Null}
        failing == DOMAIN matches \ (matching \union unknown)
        Unless(settled, answer, otherwise) ==
            IF settled THEN answer ELSE IF unknown # {} THEN Null ELSE otherwise
    IN  CASE kind = "any" -> Unless(matching # {}, True, False)
          [] kind = "all" -> Unless(failing # {}, False, True)
          [] kind = "none" -> Unless(matching # {}, False, True)
          [] kind = "single" -> Unless(Cardinality(matching) > 1, False, Truth(Cardinality(matching) = 1))
Meant(e, columns, row) ==
    LET values == [i \in DOMAIN e.args |-> columns[i][row]]
        ranks == {Rank(values[i]) : i \in DOMAIN values}
        Taken(k) == IF e.op = "case" THEN values[2 * k] = True
                    ELSE Equal(values[2 * k], values[Len(e.args)]) = True
        whens == {k \in 1 .. Whens(e) : Taken(k)}
    IN  CASE e.op = "and" -> OfRank(Min(ranks))
          [] e.op = "or" -> OfRank(Max(ranks))
          [] e.op = "not" -> OfRank(2 - Rank(values[1]))
          [] e.op = "xor" -> IF Null \in Range(values) THEN Null
                             ELSE Truth(Cardinality({i \in DOMAIN values : values[i] = True}) % 2 = 1)
          [] e.op = "in" -> Among(values[1], e.of)
          [] e.op = "not_in" -> OfRank(2 - Rank(Among(values[1], e.of)))
          [] e.op \in {"case", "simple_case"} ->
               IF whens = {} THEN values[1] ELSE values[2 * Min(whens) + 1]
          [] e.op \in Quantifiers ->
               QuantifierMeant(e.op, [i \in DOMAIN e.of |-> columns[1][WithElement(row, e, i)]])
          [] e.op = "compare" -> IF Null \in {values[1], values[2]} THEN Null
                                 ELSE Truth(Compares(e.of, values[1], values[2]))
          [] e.op = "is_null" -> Truth(values[1] = Null)
          [] e.op = "is_not_null" -> Truth(values[1] # Null)
          [] e.op = "property" -> Lookup(row, e.of)
          [] e.op = "literal" -> e.of
MeaningColumn(e, columns) == [row \in Bindings |-> Meant(e, columns, row)]
Meaning[e \in Terms] == MeaningColumn(e, [i \in DOMAIN e.args |-> Meaning[e.args[i]]])

\* The rows on which no quantifier of the expression is unknown. On the others
\* the code counts an unknown element as no match (collection_evaluator.py:574,
\* 618), and its answer need not be Cypher's: NONE over <<null>> is true.
DecidedAt(e, meaning, parts, row) ==
    IF e.op \in Quantifiers
    THEN meaning[row] # Null /\ \A i \in DOMAIN e.of : parts[1][WithElement(row, e, i)]
    ELSE \A i \in DOMAIN e.args : parts[i][row]
DecidedColumn(e, parts) == LET meaning == Meaning[e] IN [row \in Bindings |-> DecidedAt(e, meaning, parts, row)]
Decided[e \in Terms] == DecidedColumn(e, [i \in DOMAIN e.args |-> Decided[e.args[i]]])

\* Of the rows on which no quantifier is unknown, a WHERE keeps those of which
\* the predicate is true in Cypher's three-valued logic, neither the false nor
\* the unknown ones, whether the evaluators decide, or SQL, or each a part of
\* it, and it only ever drops rows; a predicate with IN on no rows is the only
\* one that raises (BindingFilter.apply).
FilterKeepsTrue ==
    /\ filtering = "done" =>
         LET meaning == Meaning[where]
             decided == Decided[where]
         IN  \E kept \in SUBSET DOMAIN given :
                /\ passing = RowsAt(given, kept)
                /\ \A i \in DOMAIN given : decided[given[i]] => (i \in kept <=> meaning[given[i]] = True)
    /\ filtering = "index_error" =>
         HasIn[where] /\ (given = <<>> \/ (lazy /\ SplitConjuncts[where] # <<where>>))
--------------------------------------------------------------------------------
(* RETURN and WITH with aggregates (aggregation_planner.py,                  *)
(* aggregation_evaluator.py): over the whole frame, or grouped by the items  *)
(* without an aggregate. A row is [key, val]; a key is the sequence of the   *)
(* values of those items, of length zero when there are none. Averages and   *)
(* sums are of integers, kept exact; percentiles and deviations, which share *)
(* the path of collect, are left out.                                        *)

AggregationInit ==
    /\ aggRows \in AggregatedRows /\ aggItems \in AggregateItems
    /\ aggregated = <<>> /\ aggregation = "pending"

Values(rs) == [i \in DOMAIN rs |-> rs[i].val]
DropNa(column) == RowsAt(column, {i \in DOMAIN column : column[i] # Null})
DropDuplicates(column) ==
    RowsAt(column, {i \in DOMAIN column : \A j \in 1 .. (i - 1) : column[j] # column[i]})

Total(column) == FoldLeft(LAMBDA total, v : total + v, 0, column)

\* _AGG_OPS: one aggregate over a column. An average is <<sum, count>>.
AggOp(func, column) ==
    LET present == DropNa(column)
    IN  CASE func = "collect" -> column
          [] func = "count" -> Len(present)
          [] func # "count" /\ func # "collect" /\ present = <<>> -> Null
          [] func = "sum" /\ present # <<>> -> Total(present)
          [] func = "avg" /\ present # <<>> -> <<Total(present), Len(present)>>
          [] func = "min" /\ present # <<>> -> Min(Range(present))
          [] func = "max" /\ present # <<>> -> Max(Range(present))

\* evaluate_aggregation: over a whole frame. "next" is count(v) + 1.
EvaluateAggregation(item, rs) ==
    LET column == IF item.distinct THEN DropDuplicates(Values(rs)) ELSE Values(rs)
    IN  CASE item.func = "count_star" -> Len(rs)
          [] item.func = "next" -> AggOp("count", Values(rs)) + 1
          [] OTHER -> AggOp(item.func, column)

\* pandas' groupby without sorting: the keys in the order they appear, those
\* with a null left out when dropna.
HasNull(key) == Null \in Range(key)
GroupKeys(dropna) ==
    LET keys == DropDuplicates([i \in DOMAIN aggRows |-> aggRows[i].key])
    IN  RowsAt(keys, {i \in DOMAIN keys : ~(dropna /\ HasNull(keys[i]))})
Group(key) == RowsAt(aggRows, {i \in DOMAIN aggRows : aggRows[i].key = key})

\* pandas' own sum and mean of a group, an empty sum being null.
MinCount == 1
NativeAgg(func, column) ==
    LET present == DropNa(column)
    IN  IF func = "sum" THEN IF Len(present) < MinCount THEN Null ELSE Total(present)
        ELSE AggOp(func, column)

\* evaluate_aggregation_grouped: one value per group, null keys among them.
Distinct(item, column) == IF item.distinct THEN DropDuplicates(column) ELSE column
GroupValue(item, rs) ==
    IF item.func = "count_star" THEN Len(rs)
    ELSE IF item.func = "count" THEN Len(DropNa(Distinct(item, Values(rs))))
    ELSE IF ~item.distinct /\ item.func \in {"sum", "avg", "min", "max"} THEN NativeAgg(item.func, Values(rs))
    ELSE AggOp(item.func, Distinct(item, Values(rs)))

GroupedSeries(item) == [i \in DOMAIN GroupKeys(FALSE) |-> GroupValue(item, Group(GroupKeys(FALSE)[i]))]

\* An expression over an aggregate is evaluated on a frame of each group.
IsFallback(item) == item.func = "next"
Vectorized == {i \in DOMAIN aggItems : ~IsFallback(aggItems[i])}

\* aggregate_items without grouping items: one row.
AggregateAll ==
    /\ aggregation = "pending" /\ \A i \in DOMAIN aggRows : aggRows[i].key = <<>>
    /\ aggregated' = <<[key |-> <<>>,
                        values |-> [i \in DOMAIN aggItems |-> EvaluateAggregation(aggItems[i], aggRows)]]>>
    /\ aggregation' = "done" /\ UNCHANGED <<aggRows, aggItems>>

\* With grouping items: the columns of the vectorized items are put beside the
\* keys by position. Without a key to stand beside, they make rows of null keys.
AggregateGroups ==
    LET keys == GroupKeys(TRUE)
        series == GroupKeys(FALSE)
        Series(i) == GroupedSeries(aggItems[i])
        blank == [j \in DOMAIN series[1] |-> Null]
        kept == IF keys = <<>> /\ Vectorized # {} THEN [g \in DOMAIN series |-> blank] ELSE keys
        Value(i, g) == IF IsFallback(aggItems[i]) THEN IF keys = <<>> THEN Null
                                                       ELSE EvaluateAggregation(aggItems[i], Group(keys[g]))
                       ELSE Series(i)[g]
    IN  /\ aggregation = "pending" /\ aggRows # <<>> /\ \A i \in DOMAIN aggRows : aggRows[i].key # <<>>
        /\ IF Vectorized # {} /\ keys # <<>> /\ Len(keys) # Len(series)
           THEN aggregation' = "length_error" /\ UNCHANGED aggregated
           ELSE /\ aggregated' = [g \in DOMAIN kept |->
                                    [key |-> kept[g], values |-> [i \in DOMAIN aggItems |-> Value(i, g)]]]
                /\ aggregation' = "done"
        /\ UNCHANGED <<aggRows, aggItems>>

AggregationNext == AggregateAll \/ AggregateGroups

--------------------------------------------------------------------------------
\* A grouped aggregate has one row for every key without a null, with the values
\* the same aggregates have over the rows of that key alone, whichever of the
\* vectorized, native or fallback ways computed each of them; only a null in a
\* key makes it fail (aggregate_items).
GroupsAgree ==
    LET present == {key \in {aggRows[i].key : i \in DOMAIN aggRows} : ~HasNull(key)}
    IN  /\ aggregation = "length_error" => \E i \in DOMAIN aggRows : HasNull(aggRows[i].key)
        /\ aggregation = "done" =>
             /\ present \subseteq {aggregated[g].key : g \in DOMAIN aggregated}
             /\ \A g \in DOMAIN aggregated : ~HasNull(aggregated[g].key) =>
                  /\ aggregated[g].values = [i \in DOMAIN aggItems |->
                                               EvaluateAggregation(aggItems[i], Group(aggregated[g].key))]
                  /\ \A h \in DOMAIN aggregated : aggregated[h].key = aggregated[g].key => h = g

\* Predicates keep the rows on which they are true, and aggregates are those of
\* their groups, by row or by column (boolean_evaluator.py, aggregation_evaluator.py).
EvaluationExact == FilterKeepsTrue /\ GroupsAgree

\* A filter or an aggregation.
EvaluationInit == ExpressionInit /\ AggregationInit
EvaluationNext ==
    \/ ExpressionNext /\ UNCHANGED aggregationVars
    \/ AggregationNext /\ UNCHANGED expressionVars
EvaluationSpec == EvaluationInit /\ [][EvaluationNext]_<<expressionVars, aggregationVars>>
================================================================================
