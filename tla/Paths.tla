---------------------------------- MODULE Paths ----------------------------------
(* Variable-length patterns and shortestPath (path_expander.py): a breadth-  *)
(* first search over the committed edges, one hop per step, or one recursive *)
(* SQL query. A start row is [start, end]; `end` is used by a shortestPath   *)
(* whose two ends an earlier clause has bound. Other columns follow the row. *)
EXTENDS CypherValues, Integers, Sequences, FiniteSets, SequencesExt

CONSTANTS
    EdgeLists,           \* sequences of <<source, target>>
    StartRows,           \* sequences of [start, end]
    Ranges,              \* <<min, max>>; max may be Unbounded
    Unbounded,
    Limits,              \* row limits, NoLimit for none
    NoLimit,
    MaxUnboundedHops, MaxFrontierRows, MaxTotalRows

ASSUME PathsAssumption ==
    /\ \A list \in EdgeLists : list \in Seq(Range(list))
    /\ \A list \in StartRows : list \in Seq(Range(list))
    /\ \A r \in Ranges : r[1] \in Nat /\ r[2] \in Nat \union {Unbounded}
    /\ Limits \subseteq Nat \union {NoLimit}
    /\ MaxUnboundedHops \in Nat

VARIABLES
    edges, starts, range, direction, limit,
    duckdb,      \* whether the backend may take the SQL path
    hop, frontier,  \* sequence of [row, tip], row an index of starts
    walks,       \* result rows: [row, end, hops]
    search       \* "running", "done", "refused", "timed out"; then "one", "all", "one pair", "all pair"

pathVars == <<edges, starts, range, direction, limit, duckdb, hop, frontier, walks, search>>

PathsInit ==
    /\ edges \in EdgeLists /\ starts \in StartRows /\ range \in Ranges
    /\ direction \in {"left", "right", "undirected"}
    /\ limit \in Limits /\ duckdb \in BOOLEAN
    /\ hop = 1
    /\ frontier = [i \in DOMAIN starts |-> [row |-> i, tip |-> starts[i].start]]
    /\ walks = <<>> /\ search = "running"

MaxHops == IF range[2] = Unbounded THEN MaxUnboundedHops ELSE range[2]
MinHops == range[1]

\* An undirected pattern is followed to the right only.
Step(e) == IF direction = "left" THEN <<e[2], e[1]>> ELSE e
Successors(tip) ==
    LET out == RowsAt(edges, {k \in DOMAIN edges : Step(edges[k])[1] = tip})
    IN  [i \in DOMAIN out |-> Step(out[i])[2]]

\* The first of the rows with the same key is kept.
FirstOfEach(rows, keys) == RowsAt(rows, {i \in DOMAIN rows : \A j \in 1..(i - 1) : keys[j] # keys[i]})

DeduplicatedByTip(rows) == FirstOfEach(rows, [i \in DOMAIN rows |-> rows[i].tip])   \* mutant: whatever the start

Deduplicated(rows) == FirstOfEach(rows, [i \in DOMAIN rows |-> <<starts[rows[i].row].start, rows[i].tip>>])

Expanded ==
    Deduplicated(FlattenSeq([i \in DOMAIN frontier |->
        LET tips == Successors(frontier[i].tip)
        IN  [j \in DOMAIN tips |-> [row |-> frontier[i].row, tip |-> tips[j]]]]))

\* The rows of a hop that the limit leaves room for.
Part(rows) ==
    LET room == IF limit = NoLimit THEN Len(rows) ELSE limit - Len(walks)
    IN  [i \in 1..(IF room < Len(rows) THEN room ELSE Len(rows)) |->
            [row |-> rows[i].row, end |-> rows[i].tip, hops |-> hop]]

Keep == UNCHANGED <<edges, starts, range, direction, limit, duckdb>>
End(verdict) == search' = verdict /\ UNCHANGED <<hop, frontier, walks>> /\ Keep

Hop ==
    /\ search = "running" /\ ~duckdb
    /\ hop <= MaxHops /\ Expanded # <<>>
    /\ IF Len(Expanded) > MaxFrontierRows THEN End("refused")
       ELSE /\ frontier' = Expanded /\ hop' = hop + 1 /\ Keep
            /\ walks' = IF hop >= MinHops THEN walks \o Part(Expanded) ELSE walks
            /\ search' = IF hop < MinHops THEN "running"
                         ELSE IF limit # NoLimit /\ Len(walks') >= limit THEN "done"
                         ELSE IF Len(walks') > MaxTotalRows THEN "refused" ELSE "running"

EndOfSearch ==
    /\ search = "running" /\ ~duckdb
    /\ hop > MaxHops \/ Expanded = <<>>
    /\ End("done")

CheckTimeout == search = "running" /\ ~duckdb /\ hop <= MaxHops /\ End("timed out")

\* Without a limit and with distinct starts, one query finds every tip of every
\* length, of length zero too.
DistinctStarts == \A i, j \in DOMAIN starts : starts[i].start = starts[j].start => i = j
WalksOfLength[n \in Nat] ==
    IF n = 0 THEN {<<i, starts[i].start>> : i \in DOMAIN starts}
    ELSE UNION {{<<w[1], tip>> : tip \in Range(Successors(w[2]))} : w \in WalksOfLength[n - 1]}

InSomeOrder(S) == FoldSet(LAMBDA row, list : Append(list, row), <<>>, S)

SqlApplies == limit = NoLimit /\ direction # "undirected" /\ DistinctStarts
ExpandDuckdb ==
    /\ search = "running" /\ duckdb
    /\ IF SqlApplies
       THEN LET found == UNION {{[row |-> w[1], end |-> w[2], hops |-> n] : w \in WalksOfLength[n]} :
                                n \in MinHops..MaxHops}
            IN  /\ walks' = InSomeOrder(found)
                /\ search' = "done" /\ UNCHANGED <<duckdb, frontier>>
       ELSE duckdb' = FALSE /\ UNCHANGED <<walks, search, frontier>>
    /\ UNCHANGED <<edges, starts, range, direction, limit, hop>>

\* shortestPath: an unbounded search from length one, without a limit, of which
\* the rows with the fewest hops of each pair of start and tip remain; with the
\* end bound before, those whose tip is the row's end.
IsShortest(w) ==
    \A v \in Range(walks) :
        starts[v.row].start = starts[w.row].start /\ v.end = w.end => v.hops >= w.hops

OnePerPair(rows) == FirstOfEach(rows, [i \in DOMAIN rows |-> <<starts[rows[i].row].start, rows[i].end>>])
AtTheirEnd(rows) == RowsAt(rows, {i \in DOMAIN rows : rows[i].end = starts[rows[i].row].end})

ShortestPath(mode, endBound) ==
    /\ search = "done" /\ range = <<1, Unbounded>> /\ limit = NoLimit
    /\ LET shortest == RowsAt(walks, {i \in DOMAIN walks : IsShortest(walks[i])})
           chosen == IF mode = "one" THEN OnePerPair(shortest) ELSE shortest
       IN  walks' = IF endBound THEN AtTheirEnd(chosen) ELSE chosen
    /\ search' = IF ~endBound THEN mode ELSE IF mode = "one" THEN "one pair" ELSE "all pair"
    /\ UNCHANGED <<hop, frontier>> /\ Keep

PathsNext ==
    \/ Hop \/ EndOfSearch \/ CheckTimeout \/ ExpandDuckdb
    \/ \E mode \in {"one", "all"}, endBound \in BOOLEAN : ShortestPath(mode, endBound)
PathsSpec == PathsInit /\ [][PathsNext]_pathVars

--------------------------------------------------------------------------------
Endpoints(rows) == {<<starts[w.row].start, w.end, w.hops>> : w \in Range(rows)}
Walks(low, high) ==
    UNION {{<<starts[w[1]].start, w[2], n>> : w \in WalksOfLength[n]} : n \in low..high}

\* The search finds, for every start value, every node a walk of an allowed
\* length reaches, once per length and no other, although it forgets all but
\* one row per start and tip after each hop; a limit only cuts the list
\* (expand_variable_length_path). The walk of length zero needs the SQL path.
\* shortestPath leaves the fewest hops of every pair (one row, in both modes);
\* with its end bound before, of the bound pairs, if no start is there twice.
ExpansionIsWalks ==
    LET low == IF duckdb \/ MinHops > 0 THEN MinHops ELSE 1
        all == Walks(low, MaxHops)
        shortest == {w \in all : \A v \in all : v[1] = w[1] /\ v[2] = w[2] => v[3] >= w[3]}
        cut == IF Cardinality(all) < limit THEN Cardinality(all) ELSE limit
    IN  /\ search \in {"done", "one", "all"} => Cardinality(Endpoints(walks)) = Len(walks)
        /\ search = "done" /\ limit = NoLimit => Endpoints(walks) = all
        /\ search = "done" /\ limit # NoLimit => Endpoints(walks) \subseteq all /\ Len(walks) = cut
        /\ search \in {"one", "all"} => Endpoints(walks) = shortest
        /\ search \in {"one pair", "all pair"} /\ DistinctStarts =>
             Endpoints(walks) = {w \in shortest : \E row \in Range(starts) : row.start = w[1] /\ row.end = w[2]}
================================================================================
