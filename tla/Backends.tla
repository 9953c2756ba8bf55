-------------------------------- MODULE Backends --------------------------------
(* The engines behind BackendEngine: PandasBackend, PolarsBackend,           *)
(* DuckDBBackend and SparkBackend, behind InstrumentedBackend, which counts  *)
(* the operations. What pandas, Polars, DuckDB and Spark themselves do is    *)
(* theirs: here is what each backend asks of them, and what they leave open, *)
(* the order of rows above all. A frame of DuckDB may be lazy: a relation    *)
(* that operations are added to; its rows are then in any order that its     *)
(* ORDER BY allows, each time they are fetched. Left out: column types,      *)
(* outer joins, std, var, first and last, several sort columns.              *)
EXTENDS CypherValues, Integers, Sequences, FiniteSets, SequencesExt

CONSTANTS
    IdColumn,         \* "__ID__"
    Engines,          \* a subset of {"pandas", "polars", "duckdb", "spark"}
    FirstFrames,      \* frames: [cols, rows, lazy, order]
    Others,           \* the frames that are scanned, joined and concatenated
    JoinKeys,         \* sets of columns
    Strategies,       \* a subset of {"auto", "broadcast", "merge"}
    Renamings,        \* pairs of columns
    GroupKeys,        \* sets of columns
    Aggregations,     \* sequences of [out, src, func]
    RowCounts,        \* the n of limit and skip
    OperationBound,
    RowBound          \* joins and concatenations are of no more rows

\* A frame has a sequence of columns and a sequence of rows, each a function
\* from the columns; `order` is <<>> or a column and whether it ascends.
Columns(f) == Range(f.cols)
IsFrame(f) ==
    /\ DOMAIN f = {"cols", "rows", "lazy", "order"} /\ f.lazy \in BOOLEAN
    /\ f.cols \in Seq(Columns(f)) /\ f.rows \in Seq(Range(f.rows))
    /\ \A i \in DOMAIN f.rows : f.rows[i] = [c \in Columns(f) |-> f.rows[i][c]]
    /\ f.order = <<>> \/ f.order[1] \in Columns(f)
Outputs(specs) == {specs[i].out : i \in DOMAIN specs}

\* Outputs are the keys of a dictionary; with two functions of one column
\* pandas would compute the second only, under its own name.
ASSUME BackendsAssumption ==
    /\ Engines \subseteq {"pandas", "polars", "duckdb", "spark"} /\ RowCounts \subseteq Nat
    /\ \A f \in FirstFrames \union Others : IsFrame(f)
    /\ \A f \in FirstFrames : f.order = <<>>
    /\ \A by \in GroupKeys : IsFiniteSet(by)
    /\ \A specs \in Aggregations :
         /\ specs \in Seq(Range(specs))
         /\ \A i \in DOMAIN specs : specs[i].func \in {"count", "sum", "min", "max"}
         /\ \A i, j \in DOMAIN specs : i # j =>
              specs[i].out # specs[j].out /\ ("pandas" \in Engines => specs[i].src # specs[j].src)
--------------------------------------------------------------------------------
(* What BackendEngine (backend_engine.py) promises of every engine: the      *)
(* operations on frames as a relational algebra.  A promise is about which   *)
(* rows there are, and how often; their order, like the fate of null keys,   *)
(* is the engine's own.                                                      *)

\* The rows are those of the family, each once, in any order.
Arranges(rows, family) ==
    \E at \in Bijection(DOMAIN rows, DOMAIN family) : \A i \in DOMAIN rows : rows[i] = family[at[i]]
WithRows(f, rows) == [f EXCEPT !.rows = rows]
Padded(row, cols) == [c \in DOMAIN row \union cols |-> IF c \in DOMAIN row THEN row[c] ELSE Null]

ScanPromise(source, after) ==
    Arranges(after.rows, [i \in DOMAIN source.rows |-> Restrict(source.rows[i], {IdColumn})])

FilterPromise(before, keep, after) ==
    Arranges(after.rows, Restrict(before.rows, {i \in DOMAIN before.rows : before.rows[i] \in keep}))

\* Null may pair with null or not, the same for all the rows.  A left join
\* has the rows without a partner too, at <<i, 0>>.
KeysMatch(l, r, on, nullsMatch) == \A c \in on : l[c] = r[c] /\ (l[c] # Null \/ nullsMatch)
MayPair(left, right, on, how, nullsMatch, i, j) == how = "cross" \/ KeysMatch(left.rows[i], right.rows[j], on, nullsMatch)
JoinedRow(left, right, i, j) ==
    IF j = 0 THEN Padded(left.rows[i], Columns(right)) ELSE Over(left.rows[i], right.rows[j])
MatchingPairs(left, right, on, how, nullsMatch) ==
    {p \in (DOMAIN left.rows) \X (DOMAIN right.rows) : MayPair(left, right, on, how, nullsMatch, p[1], p[2])}
Unpaired(left, right, on, how, nullsMatch) ==
    {p \in (DOMAIN left.rows) \X {0} : how = "left" /\ \A q \in MatchingPairs(left, right, on, how, nullsMatch) : q[1] # p[1]}
JoinPromise(before, right, on, how, after) ==
    \E nullsMatch \in BOOLEAN :
        Arranges(after.rows, [p \in MatchingPairs(before, right, on, how, nullsMatch)
                                    \union Unpaired(before, right, on, how, nullsMatch) |->
                                  JoinedRow(before, right, p[1], p[2])])

RenamedRow(row, old, new) ==
    [c \in (DOMAIN row \ {old}) \union {new} |-> IF c = new THEN row[old] ELSE row[c]]
RenamePromise(before, old, new, after) ==
    Arranges(after.rows, [i \in DOMAIN before.rows |-> RenamedRow(before.rows[i], old, new)])

\* Columns go together by name; what a frame does not have is null.
Widened(rows, cols) == [i \in DOMAIN rows |-> Padded(rows[i], cols)]
ConcatPromise(before, other, after) ==
    LET cols == Columns(before) \union Columns(other)
    IN  Arranges(after.rows, Widened(before.rows, cols) \o Widened(other.rows, cols))

DistinctPromise(before, after) == Arranges(after.rows, [row \in Range(before.rows) |-> row])

AssignPromise(before, name, value, after) ==
    Arranges(after.rows, [i \in DOMAIN before.rows |-> Put(before.rows[i], name, value)])

DropPromise(before, cols, after) ==
    Arranges(after.rows, [i \in DOMAIN before.rows |-> Restrict(before.rows[i], Columns(before) \ cols)])

\* What an aggregate of a column may be: the sum of nothing is null or zero.
Present(rows, src) ==
    LET values == [i \in DOMAIN rows |-> rows[i][src]]
    IN  RowsAt(values, {i \in DOMAIN rows : values[i] # Null})
Added(values) == FoldLeft(+, 0, values)
Aggregates(func, values) ==
    CASE func = "count" -> {Len(values)}
      [] func = "sum" -> IF values = <<>> THEN {0, Null} ELSE {Added(values)}
      [] func = "min" -> {IF values = <<>> THEN Null ELSE Min(Range(values))}
      [] func = "max" -> {IF values = <<>> THEN Null ELSE Max(Range(values))}
Summarises(row, group, specs) ==
    \A i \in DOMAIN specs : row[specs[i].out] \in Aggregates(specs[i].func, Present(group, specs[i].src))

\* One row for every group, or one in all without groups, with every output
\* column; a group with a null in its key may be left out.
GroupOf(rows, by, key) == RowsAt(rows, {i \in DOMAIN rows : Restrict(rows[i], by) = key})
AggregatePromise(before, by, specs, after) ==
    LET keys == {Restrict(before.rows[i], by) : i \in DOMAIN before.rows}
    IN  /\ \A row \in Range(after.rows) : DOMAIN row = by \union Outputs(specs)
        /\ IF by = {} THEN Len(after.rows) = 1 /\ Summarises(after.rows[1], before.rows, specs)
           ELSE /\ \A row \in Range(after.rows) : Restrict(row, by) \in keys
                /\ \A key \in keys :
                     \/ Null \in Range(key) /\ \A row \in Range(after.rows) : Restrict(row, by) # key
                     \/ \E i \in DOMAIN after.rows :
                          /\ \A j \in DOMAIN after.rows : Restrict(after.rows[j], by) = key <=> j = i
                          /\ Summarises(after.rows[i], GroupOf(before.rows, by, key), specs)

\* Rows without nulls are in order; where the nulls go is the engine's.
Precedes(row, other, by, ascending) ==
    /\ Null \notin {row[by], other[by]}
    /\ IF ascending THEN row[by] < other[by] ELSE row[by] > other[by]
RowsSorted(rows, by, ascending) ==
    \A i, j \in DOMAIN rows : i < j => ~Precedes(rows[j], rows[i], by, ascending)
SortPromise(before, by, ascending, after) ==
    Arranges(after.rows, before.rows) /\ RowsSorted(after.rows, by, ascending)

\* The rows kept, at these positions, are the first, or the last, of a sorted
\* frame, and any of another.
FirstRows(n, rows) == IF n < Len(rows) THEN n ELSE Len(rows)
LimitPromise(before, n, order, after) ==
    /\ Len(after.rows) = FirstRows(n, before.rows)
    /\ \E kept \in SUBSET DOMAIN before.rows :
         /\ Arranges(after.rows, Restrict(before.rows, kept))
         /\ order # <<>> => \A k \in kept, d \in DOMAIN before.rows \ kept :
                                ~Precedes(before.rows[d], before.rows[k], order[1], order[2])
SkipPromise(before, n, order, after) ==
    /\ Len(after.rows) = Len(before.rows) - FirstRows(n, before.rows)
    /\ \E kept \in SUBSET DOMAIN before.rows :
         /\ Arranges(after.rows, Restrict(before.rows, kept))
         /\ order # <<>> => \A k \in kept, d \in DOMAIN before.rows \ kept :
                                ~Precedes(before.rows[k], before.rows[d], order[1], order[2])
--------------------------------------------------------------------------------
(* What the four engines do. *)

VARIABLES
    engine,
    frame,            \* [cols, rows, lazy, order]; order is <<>> or <<column, ascending>>
    call,             \* the last operation, its arguments and "failed"
    operation_counts

backendVars == <<engine, frame, call, operation_counts>>

Eager(cols, rows) == [cols |-> cols, rows |-> rows, lazy |-> FALSE, order |-> <<>>]
Lazy(cols, rows) == [cols |-> cols, rows |-> rows, lazy |-> TRUE, order |-> <<>>]
Shuffled(rows) == {[i \in DOMAIN rows |-> rows[at[i]]] : at \in Bijection(DOMAIN rows, DOMAIN rows)}
Unordered(f) == {WithRows(f, rows) : rows \in Shuffled(f.rows)}
Without(cols, dropped) == RowsAt(cols, {i \in DOMAIN cols : cols[i] \notin dropped})

\* ORDER BY: pandas and DuckDB have nulls last, Polars first, and Spark first
\* when ascending.
NullsFirst(ascending) == engine = "polars" \/ (engine = "spark" /\ ascending)
Ordered(rows, by, ascending) ==
    {r \in Shuffled(rows) : RowsSorted(r, by, ascending) /\ \A i, j \in DOMAIN r : i < j =>
        /\ r[i][by] = Null /\ r[j][by] # Null => NullsFirst(ascending)
        /\ r[i][by] # Null /\ r[j][by] = Null => ~NullsFirst(ascending)}

\* DuckDBLazyFrame.to_pandas, _to_df: the rows as they are fetched.
Fetched(f) == IF ~f.lazy THEN {f.rows}
              ELSE IF f.order = <<>> THEN Shuffled(f.rows)
              ELSE Ordered(f.rows, f.order[1], f.order[2])
ToDf(f) == {[f EXCEPT !.rows = rows, !.lazy = FALSE] : rows \in Fetched(f)}
--------------------------------------------------------------------------------
(* Joins: pandas pairs null with null, SQL and the others do not. *)

JoinedCols(left, right, on) == left.cols \o Without(right.cols, on)
\* In the order of the left rows; one without partners has, in a left join,
\* the partner 0.
Partners(left, right, on, how, nullsMatch, i) ==
    LET some == {j \in DOMAIN right.rows : MayPair(left, right, on, how, nullsMatch, i, j)}
    IN  IF some = {} /\ how = "left" THEN {0} ELSE some
JoinRows(left, right, on, how, nullsMatch) ==
    LET n == Len(right.rows) + 1
        places == UNION {{i * n + j : j \in Partners(left, right, on, how, nullsMatch, i)} : i \in DOMAIN left.rows}
        order == InOrder(places)
    IN  [k \in DOMAIN order |-> JoinedRow(left, right, order[k] \div n, order[k] % n)]
JoinWith(left, right, on, how, nullsMatch) ==
    Eager(JoinedCols(left, right, on), JoinRows(left, right, on, how, nullsMatch))

\* A broadcast join scans the smaller side first.
PandasJoin(left, right, on, how, strategy) ==
    IF strategy = "broadcast" /\ Len(right.rows) > Len(left.rows) /\ how = "inner"
    THEN {JoinWith(right, left, on, how, TRUE)} ELSE {JoinWith(left, right, on, how, TRUE)}
PolarsJoin(left, right, on, how) == Unordered(JoinWith(left, right, on, how, FALSE))
SparkJoin(left, right, on, how) == Unordered(JoinWith(left, right, on, how, FALSE))
JoinLazy(left, right, on, how) ==
    {Lazy(JoinedCols(left, right, on), JoinRows(left, right, on, how, FALSE))}
DuckDBJoin(left, right, on, how) ==
    IF left.lazy /\ right.lazy THEN JoinLazy(left, right, on, how)
    ELSE Unordered(JoinWith(left, right, on, how, FALSE))
--------------------------------------------------------------------------------
(* Names and duplicates. *)

RenamedCols(cols, old, new) == [i \in DOMAIN cols |-> IF cols[i] = old THEN new ELSE cols[i]]
Renamed(f, old, new) ==
    [cols |-> RenamedCols(f.cols, old, new), rows |-> [i \in DOMAIN f.rows |-> RenamedRow(f.rows[i], old, new)],
     lazy |-> f.lazy, order |-> IF f.order # <<>> /\ f.order[1] = old THEN <<>> ELSE f.order]

\* pd.concat: by name, with nulls where a frame lacks a column.
ConcatByName(f, other) ==
    LET cols == f.cols \o Without(other.cols, Columns(f))
    IN  Eager(cols, [i \in 1..Len(f.rows) + Len(other.rows) |->
            Padded(IF i <= Len(f.rows) THEN f.rows[i] ELSE other.rows[i - Len(f.rows)], Range(cols))])

\* UNION ALL: by position, under the names of the first.
UnionByPosition(f, other) ==
    LET Relabelled(row) == [c \in Columns(f) |-> row[other.cols[CHOOSE i \in DOMAIN f.cols : f.cols[i] = c]]]
    IN  Lazy(f.cols, f.rows \o [i \in DOMAIN other.rows |-> Relabelled(other.rows[i])])
SameWidth(f, other) == Len(f.cols) = Len(other.cols)   \* mutant: names and order are not compared
Compatible(f, other) == f.cols = other.cols
DuckDBConcat(f, other) ==
    IF f.lazy /\ other.lazy /\ Compatible(f, other) THEN {UnionByPosition(f, other)}
    ELSE {ConcatByName(x, y) : x \in ToDf(f), y \in ToDf(other)}
\* pl.concat refuses frames of different columns.
PolarsConcat(f, other) == IF f.cols = other.cols THEN {ConcatByName(f, other)} ELSE {}

DistinctRows(rows) ==
    RowsAt(rows, {i \in DOMAIN rows : \A j \in DOMAIN rows : j < i => rows[j] # rows[i]})
PandasDistinct(f) == {Eager(f.cols, DistinctRows(f.rows))}
PolarsDistinct(f) == Unordered(Eager(f.cols, DistinctRows(f.rows)))
SparkDistinct(f) == Unordered(Eager(f.cols, DistinctRows(f.rows)))
DuckDBDistinct(f) ==
    IF f.lazy THEN {Lazy(f.cols, DistinctRows(f.rows))} ELSE Unordered(Eager(f.cols, DistinctRows(f.rows)))
--------------------------------------------------------------------------------
(* Aggregates; `emptySum` is what the engine has for the sum of nothing. *)

AggregateOf(func, values, emptySum) ==
    CASE func = "count" -> Len(values)
      [] func = "sum" -> IF values = <<>> THEN emptySum ELSE Added(values)
      [] func = "min" -> IF values = <<>> THEN Null ELSE Min(Range(values))
      [] func = "max" -> IF values = <<>> THEN Null ELSE Max(Range(values))
Summary(rows, specs, emptySum) ==
    [out \in Outputs(specs) |->
        LET spec == CHOOSE s \in Range(specs) : s.out = out
        IN  AggregateOf(spec.func, Present(rows, spec.src), emptySum)]

KeysOf(f, by) == DistinctRows([i \in DOMAIN f.rows |-> Restrict(f.rows[i], by)])
Grouped(f, by, keys, specs, emptySum) ==
    Eager(SetToSeq(by) \o [i \in DOMAIN specs |-> specs[i].out],
          [i \in DOMAIN keys |-> Over(keys[i], Summary(GroupOf(f.rows, by, keys[i]), specs, emptySum))])
Whole(f, specs, emptySum) ==
    Eager([i \in DOMAIN specs |-> specs[i].out], <<Summary(f.rows, specs, emptySum)>>)

\* GROUP BY in DuckDB and Spark, group_by in Polars: null is a key like another.
SqlAggregate(f, by, specs, emptySum) ==
    IF by = {} THEN {Whole(f, specs, emptySum)}
    ELSE Unordered(Grouped(f, by, KeysOf(f, by), specs, emptySum))

\* pandas' groupby drops null keys and takes one function per source column:
\* of two specifications of the same column the second replaces the first.
LastPerSource(specs) ==
    RowsAt(specs, {i \in DOMAIN specs : \A j \in DOMAIN specs : j > i => specs[j].src # specs[i].src})
WithoutNulls(keys) == RowsAt(keys, {i \in DOMAIN keys : Null \notin Range(keys[i])})
PandasAggregate(f, by, specs) ==
    IF by = {} THEN {Whole(f, specs, 0)}
    ELSE {Grouped(f, by, WithoutNulls(KeysOf(f, by)), LastPerSource(specs), 0)}
--------------------------------------------------------------------------------
(* InstrumentedBackend: an operation that returns is counted; one that        *)
(* raises is not, and leaves the frame.                                       *)

CountOf(op) == IF op \in DOMAIN operation_counts THEN operation_counts[op] ELSE 0
Record(op) == operation_counts' = Put(operation_counts, op, CountOf(op) + 1)
Attempts == FoldFunction(+, 0, operation_counts) + (IF call # <<>> /\ call.failed THEN 1 ELSE 0)

Outcome(op, args, results) ==
    /\ Attempts < OperationBound /\ (call # <<>> => ~call.failed)
    /\ IF results = {} THEN UNCHANGED <<frame, operation_counts>> ELSE frame' \in results /\ Record(op)
    /\ call' = [op |-> op, args |-> args, failed |-> results = {}]
    /\ UNCHANGED engine

BackendsInit ==
    /\ engine \in Engines /\ frame \in FirstFrames /\ (frame.lazy => engine = "duckdb")
    /\ call = <<>> /\ operation_counts = <<>>

Usable(other) == other.lazy => engine = "duckdb"

ScanEntity ==
    \E source \in Others :
        /\ ~source.lazy /\ IdColumn \in Columns(source)
        /\ Outcome("scan_entity", [source |-> source],
               {Eager(<<IdColumn>>, [i \in DOMAIN source.rows |-> Restrict(source.rows[i], {IdColumn})])})

\* The mask is of the rows with one value in one column.
Filter ==
    \E c \in Columns(frame) : \E v \in {row[c] : row \in Range(frame.rows)} :
        Outcome("filter", [keep |-> {row \in Range(frame.rows) : row[c] = v}],
            {WithRows(f, RowsAt(f.rows, {i \in DOMAIN f.rows : f.rows[i][c] = v})) : f \in ToDf(frame)})

\* The frame has the keys, and no other column of the right frame: the caller
\* has renamed them.
Join ==
    \E right \in Others, on \in JoinKeys, how \in {"inner", "left", "cross"}, strategy \in Strategies :
        LET keys == IF how = "cross" THEN {} ELSE on IN
        /\ Usable(right) /\ Columns(frame) \intersect Columns(right) = keys
        /\ Len(JoinRows(frame, right, keys, how, TRUE)) <= RowBound
        /\ strategy # "auto" => engine = "pandas"
        /\ Outcome("join", [right |-> right, on |-> keys, how |-> how],
               CASE engine = "pandas" -> PandasJoin(frame, right, keys, how, strategy)
                 [] engine = "polars" -> PolarsJoin(frame, right, keys, how)
                 [] engine = "duckdb" -> DuckDBJoin(frame, right, keys, how)
                 [] engine = "spark" -> SparkJoin(frame, right, keys, how))

Rename ==
    \E renaming \in Renamings :
        /\ renaming[1] \in Columns(frame) /\ renaming[2] \notin Columns(frame)
        /\ Outcome("rename", [old |-> renaming[1], new |-> renaming[2]],
               {Renamed(frame, renaming[1], renaming[2])})

Concat ==
    \E other \in Others :
        /\ Usable(other) /\ Len(frame.rows) + Len(other.rows) <= RowBound
        /\ Outcome("concat", [other |-> other],
               CASE engine = "duckdb" -> DuckDBConcat(frame, other)
                 [] engine = "polars" -> PolarsConcat(frame, other)
                 [] OTHER -> {ConcatByName(frame, other)})

Distinct ==
    Outcome("distinct", <<>>,
        CASE engine = "pandas" -> PandasDistinct(frame)
          [] engine = "polars" -> PolarsDistinct(frame)
          [] engine = "duckdb" -> DuckDBDistinct(frame)
          [] engine = "spark" -> SparkDistinct(frame))

\* A scalar in every row, of a new column or one that is there.
AssignColumn ==
    \E name \in {r[2] : r \in Renamings} :
        LET cols(f) == IF name \in Columns(f) THEN f.cols ELSE Append(f.cols, name) IN
        Outcome("assign_column", [name |-> name, value |-> 1],
            {Eager(cols(f), [i \in DOMAIN f.rows |-> Put(f.rows[i], name, 1)]) : f \in ToDf(frame)})

\* Columns the frame does not have are ignored; it keeps at least one.
DropColumns ==
    \E dropped \in JoinKeys :
        LET Narrow(f) == [f EXCEPT !.cols = Without(f.cols, dropped),
                                   !.rows = [i \in DOMAIN f.rows |-> Restrict(f.rows[i], Columns(f) \ dropped)],
                                   !.order = <<>>]
        IN  /\ Columns(frame) \ dropped # {}
            /\ Outcome("drop_columns", [cols |-> dropped], {Narrow(f) : f \in ToDf(frame)})

\* Functions outside the mapping of the SQL engines raise, as do pandas' own.
Aggregate ==
    \E by \in GroupKeys, specs \in Aggregations :
        /\ by \union {specs[i].src : i \in DOMAIN specs} \subseteq Columns(frame)
        /\ by \intersect ({specs[i].src : i \in DOMAIN specs} \union Outputs(specs)) = {}
        /\ Outcome("aggregate", [by |-> by, specs |-> specs],
               CASE engine = "pandas" -> PandasAggregate(frame, by, specs)
                 [] engine = "polars" -> SqlAggregate(frame, by, specs, 0)
                 [] engine \in {"duckdb", "spark"} -> SqlAggregate(frame, by, specs, Null))

\* DuckDB's sort is lazy, for a limit to be added.
Sort ==
    \E c \in Columns(frame), ascending \in BOOLEAN :
        Outcome("sort", [by |-> c, ascending |-> ascending],
            {[frame EXCEPT !.rows = rows, !.lazy = engine = "duckdb", !.order = <<c, ascending>>] :
                rows \in Ordered(frame.rows, c, ascending)})

\* On a lazy frame DuckDB adds the LIMIT to the relation; all else is in order.
Limit ==
    \E n \in RowCounts :
        Outcome("limit", [n |-> n, order |-> frame.order],
            {WithRows(f, SubSeq(f.rows, 1, FirstRows(n, f.rows))) : f \in ToDf(frame)})

Skip ==
    \E n \in RowCounts :
        Outcome("skip", [n |-> n, order |-> frame.order],
            {WithRows(f, SubSeq(f.rows, n + 1, Len(f.rows))) : f \in ToDf(frame)})

BackendsNext ==
    \/ ScanEntity \/ Filter \/ Join \/ Rename \/ Concat \/ Distinct \/ AssignColumn
    \/ DropColumns \/ Aggregate \/ Sort \/ Limit \/ Skip
BackendsSpec == BackendsInit /\ [][BackendsNext]_backendVars
--------------------------------------------------------------------------------

Promised(c, before, after) ==
    CASE c.op = "scan_entity" -> ScanPromise(c.args.source, after)
      [] c.op = "filter" -> FilterPromise(before, c.args.keep, after)
      [] c.op = "join" -> JoinPromise(before, c.args.right, c.args.on, c.args.how, after)
      [] c.op = "rename" -> RenamePromise(before, c.args.old, c.args.new, after)
      [] c.op = "concat" -> ConcatPromise(before, c.args.other, after)
      [] c.op = "distinct" -> DistinctPromise(before, after)
      [] c.op = "assign_column" -> AssignPromise(before, c.args.name, c.args.value, after)
      [] c.op = "drop_columns" -> DropPromise(before, c.args.cols, after)
      [] c.op = "aggregate" -> AggregatePromise(before, c.args.by, c.args.specs, after)
      [] c.op = "sort" -> SortPromise(before, c.args.by, c.args.ascending, after)
      [] c.op = "limit" -> LimitPromise(before, c.args.n, c.args.order, after)
      [] c.op = "skip" -> SkipPromise(before, c.args.n, c.args.order, after)

\* Whatever the engine, the strategy and whether the frame was lazy, an
\* operation that returns has the rows the protocol promises of the rows it
\* was given (BackendEngine, backend_engine.py:99-406).
EnginesAgree == [][call' # <<>> /\ ~call'.failed => Promised(call', frame, frame')]_backendVars

================================================================================
