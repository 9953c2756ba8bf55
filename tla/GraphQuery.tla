------------------------------- MODULE GraphQuery -------------------------------
(* A query run clause by clause (clause_executor.py, mutation_engine.py,     *)
(* pattern_matcher.py): every clause reads and replaces the current frame,   *)
(* the writing ones change copies of the tables (the shadow), and the end of *)
(* the query publishes the copies or forgets them. Patterns scan the         *)
(* committed tables; property lookups read the copy when there is one.       *)
(* FOREACH, and a MERGE with ON CREATE SET, are run write by write: what is   *)
(* left of them is in `todo`. Relationship variables, undirected hops,       *)
(* unlabelled nodes, returned values and the lazy DuckDB frames are left out; *)
(* expressions are literals, variables and lookups of a variable that has a  *)
(* type, and every variable is used later, so that none is dropped early.    *)
EXTENDS CypherValues, Integers, Sequences, FiniteSets, SequencesExt

CONSTANTS
    NoFrame,         \* no clause has bound a variable
    EntityTypes, RelTypes, Props,
    InitialTables,   \* set of [entities, rels]: the registered tables
    Patterns,        \* sequences of path patterns of a MATCH; a MERGE has one path
    Creations,       \* sequences of path patterns of a CREATE
    Predicates,      \* WHERE predicates: v.p = value, or NoPredicate
    NoPredicate,
    NoRel,           \* a pattern of a single node
    Settings,        \* sequences of SET items
    OnMatches, OnCreates,
    Removals,        \* <<variable, property>>
    Targets,         \* variables a DELETE may name
    Projections,     \* sets of variables a WITH may keep
    Foreaches,       \* [var, list, body]: FOREACHs, the nested ones among them
    InnerClauses,    \* what a body may hold, as `Inner` reads it
    ClauseBound, QueryBound, RowBound  \* clauses of all queries; rows of a table or frame

\* A table is a list of rows that an integer identifies (_dedup_on_id); a clause
\* is a list of paths, a MATCH of one at least, or of items, each of finitely
\* many properties.
IsList(s) == s \in Seq(Range(s))
IsTable(table) ==
    /\ IsList(table)
    /\ \A i \in DOMAIN table : "id" \in DOMAIN table[i] /\ table[i].id \in Int
    /\ \A i, j \in DOMAIN table : table[i].id = table[j].id => i = j
AreTables(tables) == \A t \in DOMAIN tables : IsTable(tables[t])

ASSUME QueryAssumption ==
    /\ \A t \in InitialTables : AreTables(t.entities) /\ AreTables(t.rels)
    /\ \A paths \in Patterns : paths # <<>>
    /\ \A paths \in Patterns \union Creations :
         IsList(paths) /\ \A i \in DOMAIN paths : IsFiniteSet(DOMAIN paths[i].to.props)
    /\ \A items \in Settings \union OnMatches \union OnCreates :
         IsList(items) /\ \A i \in DOMAIN items : IsFiniteSet(DOMAIN items[i].values)
    /\ \A loop \in Foreaches : loop.list \in Seq(Range(loop.list)) /\ loop.body \in Seq(InnerClauses)
    /\ \A inner \in InnerClauses :
         /\ inner.op \in {"create", "set", "remove", "delete", "foreach"}
         /\ inner.op = "create" => inner.paths \in Creations
         /\ inner.op = "set" => inner.items \in Settings
         /\ inner.op = "foreach" => inner.loop \in Foreaches

--------------------------------------------------------------------------------
(* Binding frames (binding_frame.py, frame_joiner.py): a sequence of rows    *)
(* that give every variable an identifier, the entity type of each variable, *)
(* and the property values that have been looked up so far, one per row.     *)
(* The dataframes under a frame, lazy or not, and the choice of the join     *)
(* algorithm, which permutes rows only, are left out.                        *)

NoCache == <<>>

Frame(rows, types) == [rows |-> rows, types |-> types, cache |-> NoCache]
Vars(fr) == DOMAIN fr.types

\* `self` wins where both frames have a column: the suffixed one is dropped.
MergedRow(left, right) == Over(left, right)
\* The registry of `other` wins where both register a variable.
MergedTypes(l, r) == Over(r.types, l.types)

RowsWith(l, r, Matches(_, _)) ==
    FlattenSeq([i \in DOMAIN l.rows |->
        LET hits == RowsAt(r.rows, {j \in DOMAIN r.rows : Matches(l.rows[i], r.rows[j])})
        IN  [j \in DOMAIN hits |-> MergedRow(l.rows[i], hits[j])]])

CrossJoin(l, r) == Frame(RowsWith(l, r, LAMBDA x, y : TRUE), MergedTypes(l, r))

\* pandas matches null with null.
JoinOn(l, r, v) == Frame(RowsWith(l, r, LAMBDA x, y : x[v] = y[v]), MergedTypes(l, r))

LeftJoin(l, r, v) ==
    LET absent == [w \in Vars(r) \ Vars(l) |-> Null]
        Hits(row) == RowsAt(r.rows, {j \in DOMAIN r.rows : r.rows[j][v] = row[v]})
        Joined(row) == IF Hits(row) = <<>> THEN <<Over(row, absent)>>
                       ELSE [j \in DOMAIN Hits(row) |-> MergedRow(row, Hits(row)[j])]
    IN  Frame(FlattenSeq([i \in DOMAIN l.rows |-> Joined(l.rows[i])]), MergedTypes(l, r))

\* The frames coerce_join may return: it joins on one of the shared variables,
\* whichever the set yields first, and the others stay unconstrained.
CoerceJoins(l, r) ==
    LET common == Vars(l) \intersect Vars(r)
    IN  IF common = {} THEN {CrossJoin(l, r)} ELSE {JoinOn(l, r, v) : v \in common}

OptionalJoins(l, r) ==
    LET common == Vars(l) \intersect Vars(r)
    IN  IF common = {} THEN {CrossJoin(l, r)} ELSE {LeftJoin(l, r, v) : v \in common}

\* An optional match that finds nothing: its new variables are null.
OptionalFailure(fr, types) ==
    LET fresh == DOMAIN types \ Vars(fr)
    IN  IF fresh = {} THEN fr
        ELSE Frame([i \in DOMAIN fr.rows |-> Over(fr.rows[i], [v \in fresh |-> Null])],
                   [v \in Vars(fr) \union fresh |->
                        IF v \in fresh THEN types[v] ELSE fr.types[v]])

\* Filtering carries the cached columns along.
FilterFrame(fr, mask) ==
    LET kept == {i \in DOMAIN fr.rows : mask[i]}
        Take(column) == RowsAt(column, kept)
    IN  [fr EXCEPT !.rows = Take(@), !.cache = [key \in DOMAIN @ |-> Take(@[key])]]

Project(fr, keep) ==
    Frame([i \in DOMAIN fr.rows |-> [v \in keep |-> fr.rows[i][v]]],
          [v \in keep |-> fr.types[v]])

\* get_property: the cached column, or the one Current computes, which is kept.
Column(fr, v, p, Current(_, _, _)) ==
    IF <<v, p>> \in DOMAIN fr.cache THEN fr.cache[v, p]
    ELSE [i \in DOMAIN fr.rows |-> Current(fr.types[v], fr.rows[i][v], p)]

WithColumn(fr, v, p, Current(_, _, _)) ==
    [fr EXCEPT !.cache = Put(@, <<v, p>>, Column(fr, v, p, Current))]

\* mutate: of several rows with the same identifier the last one wins.
LastRow(fr, v, id) == LET at == {i \in DOMAIN fr.rows : fr.rows[i][v] = id}
                      IN  IF at = {} THEN 0 ELSE Max(at)
--------------------------------------------------------------------------------
VARIABLES
    live, live_rels,      \* registered tables: sequences of rows
    shadow, shadow_rels,  \* the copies this query writes
    frame,
    todo,                 \* what is left of a clause: sequence of [frame, body]
    phase,                \* "idle", "clauses", "ended", "failed"
    clauses, queries

vars == <<live, live_rels, shadow, shadow_rels, frame, todo, phase, clauses, queries>>

NoTables == <<>>

Init ==
    /\ \E t \in InitialTables : live = t.entities /\ live_rels = t.rels
    /\ shadow = NoTables /\ shadow_rels = NoTables
    /\ frame = NoFrame /\ todo = <<>> /\ phase = "idle"
    /\ clauses = 0 /\ queries = 0

\* What the evaluators see of a type: its copy, else its table, else nothing.
Seen(copies, tables, t) ==
    IF t \in DOMAIN copies THEN copies[t]
    ELSE IF t \in DOMAIN tables THEN tables[t] ELSE <<>>

Ids(table) == {table[i].id : i \in DOMAIN table}
RowOf(table, id) == CHOOSE i \in DOMAIN table : table[i].id = id

CurrentIn(copies, t, id, p) ==
    LET table == Seen(copies, live, t)
    IN  IF id \in Ids(table) THEN table[RowOf(table, id)].props[p] ELSE Null
Current(t, id, p) == CurrentIn(shadow, t, id, p)

--------------------------------------------------------------------------------
(* Patterns. A node is [var, label, props]; props maps some properties to   *)
(* literals. A path is [from, rel, to]; a single node has rel = NoRel.       *)

\* The filters of a labelled node go to the property index, which answers only
\* while the query has not written the type; otherwise they are lost.
Scan(n) ==
    LET table == live[n.label]
        Answer == RowsAt(table, {i \in DOMAIN table :
                                     \A p \in DOMAIN n.props : table[i].props[p] = n.props[p]})
        found == IF n.label \in DOMAIN shadow THEN table ELSE Answer
    IN  Frame([i \in DOMAIN found |-> [v \in {n.var} |-> found[i].id]], [v \in {n.var} |-> n.label])

\* The filters of the far node are evaluated, and leave their columns cached.
InlineFilter(fr, n, p) ==
    LET read == WithColumn(fr, n.var, p, Current)
    IN  FilterFrame(read, [i \in DOMAIN read.rows |-> read.cache[n.var, p][i] = n.props[p]])

TraverseHop(path) ==
    LET near == Scan(path.from)
        rels == live_rels[path.rel]
        Edges(id) == RowsAt(rels, {i \in DOMAIN rels : rels[i].src = id})
        Follow(row) == [j \in DOMAIN Edges(row[path.from.var]) |->
                            Put(row, path.to.var, Edges(row[path.from.var])[j].tgt)]
        reached == Frame(FlattenSeq([i \in DOMAIN near.rows |-> Follow(near.rows[i])]),
                         Put(near.types, path.to.var, path.to.label))
    IN  FoldSet(LAMBDA p, fr : InlineFilter(fr, path.to, p), reached, DOMAIN path.to.props)

\* (v)-[:R]->(v): the endpoint must equal the variable; its filters are not read.
CyclicHop(path) ==
    LET near == Scan(path.from)
        rels == live_rels[path.rel]
    IN  Frame(FlattenSeq([i \in DOMAIN near.rows |->
                  LET id == near.rows[i][path.from.var]
                      loops == {j \in DOMAIN rels : rels[j].src = id /\ rels[j].tgt = id}
                  IN  [j \in 1..Cardinality(loops) |-> near.rows[i]]]), near.types)

PathVars(path) ==
    [v \in {path.from.var} \union IF path.rel = NoRel THEN {} ELSE {path.to.var} |->
        IF v = path.from.var THEN path.from.label ELSE path.to.label]

TypesRegistered(path) ==
    /\ path.from.label \in DOMAIN live
    /\ path.rel = NoRel \/ path.rel \in DOMAIN live_rels

MatchFrame(path) ==
    IF path.rel = NoRel THEN Scan(path.from)
    ELSE IF path.to.var = path.from.var THEN CyclicHop(path) ELSE TraverseHop(path)

Where(pred, fr) ==
    IF pred = NoPredicate THEN fr
    ELSE LET read == WithColumn(fr, pred.var, pred.prop, Current)
         IN  FilterFrame(read, [i \in DOMAIN read.rows |->
                                   read.cache[pred.var, pred.prop][i] = pred.value])

PatternVars(paths) == FoldLeft(LAMBDA types, path : Over(PathVars(path), types), <<>>, paths)
Registered(paths) == \A i \in DOMAIN paths : TypesRegistered(paths[i])

\* In a first MATCH the predicate goes to the first path that has its variable.
PathFrame(paths, pred, i) ==
    LET at == {j \in DOMAIN paths : pred # NoPredicate /\ pred.var \in DOMAIN PathVars(paths[j])}
    IN  IF at # {} /\ i = Min(at) THEN Where(pred, MatchFrame(paths[i])) ELSE MatchFrame(paths[i])

\* The frames of several paths are joined one after the other.
MatchFrames(paths, pred) ==
    FoldLeft(LAMBDA joined, i : UNION {CoerceJoins(fr, PathFrame(paths, pred, i)) : fr \in joined},
             {PathFrame(paths, pred, 1)}, Tail([i \in DOMAIN paths |-> i]))

\* A predicate on the matched variables alone is applied before the join.
MergedFrames(match, pred) ==
    IF pred # NoPredicate /\ pred.var \in Vars(match)
    THEN CoerceJoins(frame, Where(pred, match))
    ELSE {Where(pred, joined) : joined \in CoerceJoins(frame, match)}
--------------------------------------------------------------------------------
(* Mutations work on a record: the copies; whether no error has been raised, *)
(* after which nothing more is written; the frame of a SET; and of a CREATE  *)
(* the end nodes of the path and the variables made so far with their types. *)

Copies == [shadow |-> shadow, rels |-> shadow_rels, ok |-> TRUE, frame |-> NoFrame,
           ends |-> <<>>, made |-> <<>>, types |-> <<>>]

NextIdsOfTable(copies, tables, t, n) ==     \* mutant: forgets the rows of the copy
    LET used == IF t \in DOMAIN tables THEN Ids(tables[t]) ELSE {}
    IN  [i \in 1..n |-> Max({0} \union used) + i]

\* Identifiers above the largest of the table and of its copy.
NextIds(copies, tables, t, n) ==
    LET used(m) == IF t \in DOMAIN m THEN Ids(m[t]) ELSE {}
        start == Max({0} \union used(copies) \union used(tables)) + 1
    IN  [i \in 1..n |-> start + i - 1]

Appended(copies, tables, t, rows) == Put(copies, t, Seen(copies, tables, t) \o rows)

\* mutate: the copy is made on the first write; only existing rows change.
Mutate(st, fr, v, p, values) ==
    IF ~st.ok \/ v \notin Vars(fr) \/ fr.types[v] \notin DOMAIN live THEN [st EXCEPT !.ok = FALSE]
    ELSE LET t == fr.types[v]
             Written(row) == LET i == LastRow(fr, v, row.id)
                             IN  IF i = 0 THEN row ELSE [row EXCEPT !.props[p] = values[i]]
             base == Seen(st.shadow, live, t)
         IN  [st EXCEPT !.shadow = Put(@, t, [j \in DOMAIN base |-> Written(base[j])])]

\* mutate_batch: with several properties a null leaves the old value.
MutateBatch(st, fr, v, columns) ==
    IF Cardinality(DOMAIN columns) = 1
    THEN LET p == CHOOSE q \in DOMAIN columns : TRUE IN Mutate(st, fr, v, p, columns[p])
    ELSE IF ~st.ok \/ v \notin Vars(fr) \/ fr.types[v] \notin DOMAIN live
    THEN [st EXCEPT !.ok = FALSE]
    ELSE LET t == fr.types[v]
             Kept(i, p, old) == IF p \notin DOMAIN columns \/ columns[p][i] = Null
                                THEN old ELSE columns[p][i]
             Written(row) == LET i == LastRow(fr, v, row.id)
                             IN  IF i = 0 THEN row
                                 ELSE [row EXCEPT !.props = [p \in Props |-> Kept(i, p, @[p])]]
             base == Seen(st.shadow, live, t)
         IN  [st EXCEPT !.shadow = Put(@, t, [j \in DOMAIN base |-> Written(base[j])])]

\* A variable has a type, or only a column, as that of a FOREACH may.
Bound(fr, v) == fr # NoFrame /\ v \in Vars(fr)
Named(fr, v) == Bound(fr, v) \/ (fr # NoFrame /\ \E i \in DOMAIN fr.rows : v \in DOMAIN fr.rows[i])

\* An expression is [op |-> "value", value], [op |-> "variable", var] or
\* [op |-> "lookup", var, prop].
Raises(fr, e) ==
    \/ e.op = "lookup" /\ ~Bound(fr, e.var)
    \/ e.op = "variable" /\ ~Named(fr, e.var)

Reading(st, fr, e) ==
    IF e.op # "lookup" THEN fr
    ELSE WithColumn(fr, e.var, e.prop, LAMBDA t, id, p : CurrentIn(st.shadow, t, id, p))
Evaluated(fr, e) ==
    IF e.op = "lookup" THEN fr.cache[e.var, e.prop]
    ELSE [i \in DOMAIN fr.rows |-> IF e.op = "value" THEN e.value ELSE fr.rows[i][e.var]]

\* set_properties: the items share one evaluator, whose lookups stay cached. An
\* item is [var, values], values from properties to expressions.
SetItem(item, st) ==
    LET raises == \E p \in DOMAIN item.values : Raises(st.frame, item.values[p])
        read == FoldSet(LAMBDA p, fr : Reading(st, fr, item.values[p]), st.frame, DOMAIN item.values)
        columns == [p \in DOMAIN item.values |-> Evaluated(read, item.values[p])]
    IN  IF ~st.ok THEN st
        ELSE IF raises THEN [st EXCEPT !.ok = FALSE]
        ELSE MutateBatch([st EXCEPT !.frame = read], read, item.var, columns)

SetProperties(st, fr, items) ==
    FoldLeft(LAMBDA acc, item : SetItem(item, acc), [st EXCEPT !.frame = fr], items)

\* process_create, path by path: the nodes, then the relationship. A node whose
\* variable the frame binds is used, any other is created, one per row; `made`
\* collects the new variables.
RowCount(fr) == IF fr = NoFrame THEN 1 ELSE Len(fr.rows)

CreateNode(st, fr, n) ==
    IF Bound(fr, n.var) THEN [st EXCEPT !.ends = Append(@, [i \in DOMAIN fr.rows |-> fr.rows[i][n.var]])]
    ELSE LET ids == NextIds(st.shadow, live, n.label, RowCount(fr))
             Value(p) == IF p \in DOMAIN n.props THEN n.props[p] ELSE Null
             rows == [i \in DOMAIN ids |-> [id |-> ids[i], props |-> [p \in Props |-> Value(p)]]]
         IN  [st EXCEPT !.shadow = Appended(@, live, n.label, rows),
                        !.ends = Append(@, ids),
                        !.made = Put(@, n.var, ids), !.types = Put(@, n.var, n.label)]

CreateRelationship(st, fr, rel) ==
    LET ids == NextIds(st.rels, live_rels, rel, RowCount(fr))
        rows == [i \in DOMAIN ids |-> [id |-> ids[i], src |-> st.ends[1][i], tgt |-> st.ends[2][i]]]
    IN  [st EXCEPT !.rels = Appended(@, live_rels, rel, rows)]

CreatePath(st, fr, path) ==
    LET from == CreateNode([st EXCEPT !.ends = <<>>], fr, path.from)
    IN  IF path.rel = NoRel THEN from
        ELSE CreateRelationship(CreateNode(from, fr, path.to), fr, path.rel)

ProcessCreate(st, fr, paths) ==
    FoldLeft(LAMBDA acc, path : CreatePath(acc, fr, path),
             [st EXCEPT !.ends = <<>>, !.made = <<>>, !.types = <<>>], paths)

\* The frame a CREATE leaves: a new one with the new variables, or the old one.
CreatedFrame(st, fr) ==
    IF st.made = <<>> THEN fr
    ELSE Frame([i \in 1..RowCount(fr) |-> Over([v \in DOMAIN st.made |-> st.made[v][i]],
                                              IF fr = NoFrame THEN <<>> ELSE fr.rows[i])],
               Over(st.types, IF fr = NoFrame THEN <<>> ELSE fr.types))

\* process_delete: rows of the variable's type, if it has one; DETACH also drops, from every
\* registered relationship type, the rows that mention one of the identifiers.
ProcessDelete(st, fr, v, detach) ==
    LET t == fr.types[v]
        dead == {fr.rows[i][v] : i \in DOMAIN fr.rows} \ {Null}
        Left(table) == RowsAt(table, {i \in DOMAIN table : table[i].id \notin dead})
        Detached(table) == RowsAt(table, {i \in DOMAIN table :
                                              table[i].src \notin dead /\ table[i].tgt \notin dead})
        entities == [st EXCEPT !.shadow = Put(@, t, Left(Seen(@, live, t)))]
    IN  IF ~Named(fr, v) THEN [st EXCEPT !.ok = FALSE]
        ELSE IF ~Bound(fr, v) THEN st
        ELSE IF dead = {} \/ t \notin DOMAIN st.shadow \union DOMAIN live THEN st
        ELSE IF ~detach THEN entities
        ELSE [entities EXCEPT !.rels =
                 Over([r \in DOMAIN live_rels |-> Detached(Seen(@, live_rels, r))], @)]

RemoveProperties(st, fr, v, p) == Mutate(st, fr, v, p, [i \in DOMAIN fr.rows |-> Null])
--------------------------------------------------------------------------------
Begin ==
    /\ phase = "idle" /\ queries < QueryBound
    /\ phase' = "clauses" /\ queries' = queries + 1
    /\ shadow' = NoTables /\ shadow_rels' = NoTables /\ frame' = NoFrame
    /\ UNCHANGED <<live, live_rels, todo, clauses>>

\* One clause after the other; most are over at once.
Dispatch == phase = "clauses" /\ todo = <<>> /\ clauses < ClauseBound /\ clauses' = clauses + 1
Whole == Dispatch /\ todo' = <<>>

\* The bound of the instance: tables and frames of at most RowBound rows.
Small(copies) == \A t \in DOMAIN copies : Len(copies[t]) <= RowBound
Goes(fr, next) ==
    /\ fr # NoFrame => Len(fr.rows) <= RowBound
    /\ frame' = fr /\ phase' = next
    /\ UNCHANGED <<live, live_rels, queries>>
OnlyFrame == UNCHANGED <<shadow, shadow_rels>>
\* What a mutation leaves; after an error the copies are only there to be dropped.
Leaves(st, fr) ==
    /\ Small(st.shadow) /\ Small(st.rels)
    /\ shadow' = st.shadow /\ shadow_rels' = st.rels
    /\ Goes(fr, IF st.ok THEN "clauses" ELSE "failed")

\* An optional first clause that fails ends the query with an empty result.
ProcessMatch(paths, pred, optional) ==
    LET types == PatternVars(paths)
    IN  /\ Whole /\ OnlyFrame
        \* a predicate on an unbound variable is a Raise
        /\ pred # NoPredicate => pred.var \in DOMAIN types \/ Bound(frame, pred.var)
        /\ IF ~Registered(paths)
           THEN IF optional /\ frame # NoFrame THEN Goes(OptionalFailure(frame, types), "clauses")
                ELSE Goes(frame, IF optional THEN "ended" ELSE "failed")
           ELSE IF frame = NoFrame
           THEN \E match \in MatchFrames(paths, pred) : Goes(match, "clauses")
           ELSE \E match \in MatchFrames(paths, NoPredicate) :
                    IF ~optional THEN \E fr \in MergedFrames(match, pred) : Goes(fr, "clauses")
                    ELSE IF match.rows = <<>> THEN Goes(OptionalFailure(frame, types), "clauses")
                    ELSE \E fr \in OptionalJoins(frame, match) : Goes(fr, "clauses")

ProcessWith(keep) ==
    /\ Whole /\ OnlyFrame
    /\ frame # NoFrame /\ keep \subseteq Vars(frame)
    /\ Goes(Project(frame, keep), "clauses")

CreateClause(paths) ==
    LET st == ProcessCreate(Copies, frame, paths)
    IN  Whole /\ Leaves(st, CreatedFrame(st, frame))

KeptColumns(fr) == fr                      \* mutant: SET keeps the cached columns

\* SET, REMOVE and DELETE need a frame, and forget its cached columns.
Forgotten(fr) == IF fr = NoFrame THEN fr ELSE [fr EXCEPT !.cache = NoCache]
Mutates(st) == Whole /\ Leaves(st, Forgotten(frame))
Unbound == frame = NoFrame /\ Mutates([Copies EXCEPT !.ok = FALSE])

SetClause(items) == Unbound \/ (frame # NoFrame /\ Mutates(SetProperties(Copies, frame, items)))
RemoveClause(v, p) == Unbound \/ (frame # NoFrame /\ Mutates(RemoveProperties(Copies, frame, v, p)))
DeleteClause(v, detach) == Unbound \/ (frame # NoFrame /\ Mutates(ProcessDelete(Copies, frame, v, detach)))

\* The rest of a clause on a frame of its own, and then what was left.
Then(fr, body, rest) == IF body = <<>> THEN rest ELSE <<[frame |-> fr, body |-> body]>> \o rest

\* Any match of the pattern, with any row of the frame, makes it a MATCH. Else
\* the pattern is created, and ON CREATE SET is still to be done on its frame.
Merge(path, onMatch, onCreate) ==
    LET found == TypesRegistered(path) /\ MatchFrame(path).rows # <<>>
        created == ProcessCreate(Copies, frame, <<path>>)
        createdFrame == CreatedFrame(created, frame)
        sets == IF onCreate = <<>> \/ createdFrame = NoFrame THEN <<>>
                ELSE <<[op |-> "on_create", items |-> onCreate]>>
    IN  /\ Dispatch
        /\ IF found
           THEN LET set == SetProperties(Copies, MatchFrame(path), onMatch)
                IN  /\ \E fr \in IF frame = NoFrame \/ ~set.ok THEN {set.frame}
                                 ELSE CoerceJoins(frame, set.frame) : Leaves(set, fr)
                    /\ todo' = <<>>
           ELSE Leaves(created, createdFrame) /\ todo' = Then(createdFrame, sets, <<>>)

\* process_foreach. The list is a sequence of values and variables; its variable
\* takes their type when all the typed ones among them have the same.
Evaluable(fr, list) == \A e \in Range(list) : ~Raises(fr, e)

LoopTypes(fr, loop) ==
    LET types == IF fr = NoFrame THEN <<>> ELSE fr.types
        named == {types[e.var] : e \in {x \in Range(loop.list) : x.op = "variable" /\ x.var \in DOMAIN types}}
    IN  IF Cardinality(named) = 1 THEN Put(types, loop.var, CHOOSE t \in named : TRUE) ELSE types

\* The body is run for every row and element, on a frame of that row alone.
Loops(fr, loop) ==
    LET rows == IF fr = NoFrame THEN <<<<>>>> ELSE fr.rows
        Element(row, e) == IF e.op = "value" THEN e.value ELSE row[e.var]
        Round(row, e) == [frame |-> Frame(<<Put(row, loop.var, Element(row, e))>>, LoopTypes(fr, loop)),
                          body |-> loop.body]
    IN  IF loop.body = <<>> THEN <<>>
        ELSE FlattenSeq([i \in DOMAIN rows |-> [j \in DOMAIN loop.list |-> Round(rows[i], loop.list[j])]])

Foreach(loop) ==
    /\ Dispatch /\ OnlyFrame
    /\ IF Evaluable(frame, loop.list)
       THEN Goes(frame, "clauses") /\ todo' = Loops(frame, loop)
       ELSE Goes(frame, "failed") /\ todo' = <<>>

\* An inner clause on the frame of its round; an inner MERGE is a CREATE. Only
\* the lookups of a SET stay in that frame, what a CREATE binds is dropped.
Inner(fr, inner) ==
    CASE inner.op = "create" -> ProcessCreate(Copies, fr, inner.paths)
      [] inner.op \in {"set", "on_create"} -> SetProperties(Copies, fr, inner.items)
      [] inner.op = "remove" -> RemoveProperties(Copies, fr, inner.var, inner.prop)
      [] inner.op = "delete" -> ProcessDelete(Copies, fr, inner.var, inner.detach)
      [] inner.op = "foreach" -> [Copies EXCEPT !.ok = Evaluable(fr, inner.loop.list)]

\* The next write of a MERGE or a FOREACH. Only that of a MERGE is on the frame
\* of the query, and the columns it looks up stay there.
Continue ==
    LET this == Head(todo)
        inner == Head(this.body)
        st == Inner(this.frame, inner)
        after == IF inner.op = "set" THEN st.frame ELSE this.frame
        rest == Then(after, Tail(this.body), Tail(todo))
    IN  /\ phase = "clauses" /\ todo # <<>>
        /\ Leaves(st, IF inner.op = "on_create" THEN st.frame ELSE frame)
        /\ todo' = IF ~st.ok THEN <<>>
                   ELSE IF inner.op = "foreach" THEN Loops(this.frame, inner.loop) \o rest ELSE rest
        /\ UNCHANGED clauses

\* A clause, or a part of one, that raises for a reason of its own, or the deadline.
Raise ==
    /\ phase = "clauses" /\ OnlyFrame /\ Goes(frame, "failed")
    /\ todo' = <<>> /\ UNCHANGED clauses

Commit ==
    /\ phase \in {"clauses", "ended"} /\ todo = <<>>
    /\ live' = Over(shadow, live) /\ live_rels' = Over(shadow_rels, live_rels)
    /\ shadow' = NoTables /\ shadow_rels' = NoTables
    /\ frame' = NoFrame /\ phase' = "idle"
    /\ UNCHANGED <<todo, clauses, queries>>

Rollback ==
    /\ phase = "failed"
    /\ shadow' = NoTables /\ shadow_rels' = NoTables
    /\ frame' = NoFrame /\ phase' = "idle"
    /\ UNCHANGED <<live, live_rels, todo, clauses, queries>>

AnyMerge ==
    \E paths \in Patterns, onMatch \in OnMatches, onCreate \in OnCreates :
        Len(paths) = 1 /\ Merge(paths[1], onMatch, onCreate)
Next ==
    \/ Begin \/ Commit \/ Rollback \/ Raise
    \/ \E paths \in Patterns, pred \in Predicates \union {NoPredicate}, optional \in BOOLEAN :
         ProcessMatch(paths, pred, optional)
    \/ \E keep \in Projections : ProcessWith(keep)
    \/ \E paths \in Creations : CreateClause(paths)
    \/ \E items \in Settings : SetClause(items)
    \/ \E r \in Removals : RemoveClause(r[1], r[2])
    \/ \E v \in Targets, detach \in BOOLEAN : DeleteClause(v, detach)
    \/ AnyMerge \/ (\E loop \in Foreaches : Foreach(loop)) \/ Continue

Spec == Init /\ [][Next]_vars

--------------------------------------------------------------------------------
\* Every step of a clause is one of the writes of PropertyGraph, on a working copy
\* that a commit publishes whole and a rollback forgets.
Committed(t) == IF t \in RelTypes THEN Seen(NoTables, live_rels, t) ELSE Seen(NoTables, live, t)
Working(t) == IF t \in RelTypes THEN Seen(shadow_rels, live_rels, t) ELSE Seen(shadow, live, t)
AllTypes == EntityTypes \union RelTypes

Graph == INSTANCE PropertyGraph WITH
    Tables <- AllTypes,
    committed <- [t \in AllTypes |-> Committed(t)],
    working <- [t \in AllTypes |-> Working(t)]

\* The graph as the queries see it behaves as PropertyGraph says: identifiers
\* stay distinct, only the named change happens, and a query takes effect as a
\* whole at its commit or not at all (mutation_engine.py, commit_query).
ImplementsGraph == Graph!GraphSpec

\* A property looked up after a write gives what was written: every column the
\* frame has cached holds what a lookup would find now
\* (docs/adr/adr-004-shadow-write-mutations.rst).
CacheCurrent ==
    frame # NoFrame =>
        \A key \in DOMAIN frame.cache : \A i \in DOMAIN frame.rows :
            frame.cache[key][i] = Current(frame.types[key[1]], frame.rows[i][key[1]], key[2])

\* Of all clauses only MERGE and FOREACH, which write and keep the frame's
\* cached columns, ever leave one behind its table (clause_executor.py): SET,
\* REMOVE and DELETE forget them, CREATE only appends, the others do not write.
KeepsCacheCurrent == [][CacheCurrent /\ ~CacheCurrent' => AnyMerge \/ Continue]_vars
================================================================================
