----------------------------- MODULE GraphIndex -----------------------------
(***************************************************************************)
(* GraphIndexManager of graph_index.py, with the scans and property reads  *)
(* that use its indexes, beside commits of other queries.                  *)
(*                                                                         *)
(* The manager keeps four dictionaries of indexes, all of one data epoch.  *)
(* A lookup takes the manager's lock, drops every index when the epoch of  *)
(* the context has moved, and otherwise answers from the dictionary or     *)
(* builds the missing index from the live table.  Commits do not take that *)
(* lock: between any two of the lookup's steps they promote tables and     *)
(* move the epoch.                                                         *)
(*                                                                         *)
(* The contents of a table stays the set of queries whose writes it holds; *)
(* Rows gives the rows of such a version, so that indexes are built from   *)
(* rows and answers are rows.  Entities have one property, relationships   *)
(* are rows with a source and a target.  Left out: coercion of identifiers *)
(* between int and str, and the timing log.                                *)
(***************************************************************************)
EXTENDS TransactionalContext, Integers, Sequences

CONSTANTS
    Entities,       \* the entity types; the other Types are relationship types
    Rows(_, _),     \* Rows(e, v): rows of type e after the queries of v
    Values,         \* property values looked up
    Nodes,          \* identifiers looked up
    Null,
    NoThread, NoIndex, Idle,
    Committers,     \* threads that commit
    ConcurrentInvalidate,   \* whether invalidate() may be called during a lookup
    LookupBound     \* lookups in a behaviour

\* The identifiers of a table are unique; the ends of an edge are identifiers.
ASSUME IndexAssumption ==
    /\ Entities \subseteq Types
    /\ NoThread \notin Threads
    /\ Null \notin Values
    /\ Nodes \subseteq Int
    /\ \A e \in Types, v \in SUBSET Txns : IsFiniteSet(Rows(e, v))
    /\ \A e \in Entities, v \in SUBSET Txns :
         /\ \A r \in Rows(e, v) : r.id \in Int
         /\ \A r, s \in Rows(e, v) : r.id = s.id => r = s
    /\ \A e \in Types \ Entities, v \in SUBSET Txns :
         Rows(e, v) \subseteq [id : Int, source : Nodes, target : Nodes]

VARIABLES
    lock,       \* holder of GraphIndexManager._lock
    epoch,      \* GraphIndexManager._epoch
    index,      \* _adjacency, _property, _label and _vectorized
    lookup,     \* the locals of the lookup each thread is in
    answer,     \* what its last lookup returned
    contents,   \* history: what each table has held so far, the oldest first
    committed,  \* history: how much of that the last commit that returned had seen
    lookups     \* history: number of lookups begun

managerVars == <<lock, epoch, index, lookup, answer, lookups>>
historyVars == <<contents, committed>>
vars == <<contextVars, managerVars, historyVars>>

Kinds == {"adjacency", "property", "label", "vectorized"}
NoIndexes == [k \in Kinds |-> [e \in Types |-> NoIndex]]

Init ==
    /\ ContextInit
    /\ lock = NoThread
    /\ epoch = data_epoch
    /\ index = NoIndexes
    /\ lookup = [t \in Threads |-> Idle]
    /\ answer = [t \in Threads |-> Idle]
    /\ contents = [e \in Types |-> <<live[e]>>]
    /\ committed = [e \in Types |-> 1]
    /\ lookups = 0
-----------------------------------------------------------------------------
\* The four kinds of index, each built from the rows of a table.

AdjacencyIndex(rows) ==
    [outgoing |-> [s \in {r.source : r \in rows} |->
                      {<<r.id, r.target>> : r \in {x \in rows : x.source = s}}],
     incoming |-> [d \in {r.target : r \in rows} |->
                      {<<r.id, r.source>> : r \in {x \in rows : x.target = d}}]]

NeighborsOutgoing(idx, ids) ==
    UNION {{[id |-> n[1], source |-> s, target |-> n[2]] : n \in idx.outgoing[s]}
             : s \in ids \intersect DOMAIN idx.outgoing}

NeighborsIncoming(idx, ids) ==
    UNION {{[id |-> n[1], source |-> n[2], target |-> d] : n \in idx.incoming[d]}
             : d \in ids \intersect DOMAIN idx.incoming}

\* Null values are not indexed.
PropertyValueIndex(rows) ==
    [val \in {r.value : r \in rows} \ {Null} |-> {r.id : r \in {s \in rows : s.value = val}}]

\* np.sort: at position i is the identifier that i - 1 others come before.
Before(ids, id) == {other \in ids : other < id}
Sorted(ids) == [i \in 1..Cardinality(ids) |-> CHOOSE id \in ids : Cardinality(Before(ids, id)) = i - 1]

EntityLabelIndex(rows) == Sorted({r.id : r \in rows})

\* sorted_ids with the property array aligned to it.
VectorizedPropertyStore(rows) ==
    LET sorted_ids == Sorted({r.id : r \in rows})
    IN  [ids |-> sorted_ids,
         values |-> [i \in DOMAIN sorted_ids |-> (CHOOSE r \in rows : r.id = sorted_ids[i]).value]]

\* np.searchsorted, clipped to the last position: where `id` is, if it is there.
SearchSorted(ids, id) ==
    LET below == Cardinality({i \in DOMAIN ids : ids[i] < id})
    IN  IF below < Len(ids) THEN below + 1 ELSE Len(ids)

HasId(idx, id) == Len(idx) > 0 /\ idx[SearchSorted(idx, id)] = id

Fetch(store, id) ==
    IF HasId(store.ids, id) THEN store.values[SearchSorted(store.ids, id)] ELSE Null

Build(k, rows) ==
    CASE k = "adjacency"  -> AdjacencyIndex(rows)
      [] k = "property"   -> PropertyValueIndex(rows)
      [] k = "label"      -> EntityLabelIndex(rows)
      [] k = "vectorized" -> VectorizedPropertyStore(rows)

\* What a caller asks: relationships from `sources` to `targets` (Nodes when the
\* side is not pushed down), the identifiers with a value, whether an identifier
\* has the label, the value of an identifier.
Keys(k) ==
    CASE k = "adjacency"  -> {[sources |-> {n}, targets |-> Nodes] : n \in Nodes}
                             \union ({[sources |-> Nodes, targets |-> {n}] : n \in Nodes})
                             \union ({[sources |-> {n}, targets |-> {m}] : n, m \in Nodes})
      [] k = "property"   -> [value : Values]
      [] k \in {"label", "vectorized"} -> [id : Nodes]

IndexedRelationshipScan(idx, key) ==
    IF key.sources # Nodes
    THEN {r \in NeighborsOutgoing(idx, key.sources) : r.target \in key.targets}
    ELSE NeighborsIncoming(idx, key.targets)

\* Values of different kinds are kept apart by the name of the kind.
Named(k, x) == [kind \in {k} |-> x]

\* The answer, under the name of the kind of index that gave it.
Ask(k, idx, key) ==
    CASE k = "adjacency"  -> Named(k, IndexedRelationshipScan(idx, key))
      [] k = "property"   -> Named(k, IF key.value \in DOMAIN idx THEN idx[key.value] ELSE {})
      [] k = "label"      -> Named(k, HasId(idx, key.id))
      [] k = "vectorized" -> Named(k, Fetch(idx, key.id))

Serves(k, e) == (k = "adjacency") <=> (e \notin Entities)
-----------------------------------------------------------------------------
KeepsOldIndexes(t) ==       \* mutant: forgets to clear one of the dictionaries
    /\ index' = IF lookup[t].seen # epoch
                THEN [NoIndexes EXCEPT !.property = index.property] ELSE index
    /\ epoch' = lookup[t].seen

\* _check_epoch, with the epoch that the thread has read.
CheckEpoch(t) ==
    /\ index' = IF lookup[t].seen # epoch THEN NoIndexes ELSE index
    /\ epoch' = lookup[t].seen

\* A scan or property read takes the index only if its query has not written
\* the type.  The lock is taken and the epoch of the context read.
GetIndex(t, k, e) ==
    /\ lookup[t] = Idle /\ promoted[t] = {}
    /\ Serves(k, e)
    /\ e \notin Written(t)
    /\ lock = NoThread
    /\ lookups < LookupBound
    /\ lookups' = lookups + 1
    /\ lock' = t
    /\ lookup' = [lookup EXCEPT ![t] = [kind |-> k, type |-> e, seen |-> data_epoch,
                                        df |-> NoTable, since |-> committed[e]]]
    /\ answer' = [answer EXCEPT ![t] = Idle]
    /\ UNCHANGED <<contextVars, epoch, index, historyVars>>

Answer(t, idx) ==
    LET l == lookup[t]
    IN  /\ answer' = [answer EXCEPT ![t] = [kind |-> l.kind, type |-> l.type, index |-> Named(l.kind, idx),
                                            since |-> l.since, indexed |-> TRUE]]
        /\ lookup' = [lookup EXCEPT ![t] = Idle]
        /\ lock' = NoThread

\* The index is there, or the source of the table is read.
Cached(t) ==
    /\ lock = t /\ lookup[t].df = NoTable
    /\ CheckEpoch(t)
    /\ LET l == lookup[t] IN
         \/ /\ index'[l.kind][l.type] # NoIndex
            /\ Answer(t, index'[l.kind][l.type])
         \/ /\ index'[l.kind][l.type] = NoIndex
            /\ lookup' = [lookup EXCEPT ![t].df = live[l.type]]
            /\ UNCHANGED <<lock, answer>>
    /\ UNCHANGED <<contextVars, historyVars, lookups>>

AdoptsEpoch(t) ==           \* mutant: the epoch is stored when the index is
    /\ lock = t /\ lookup[t].df # NoTable
    /\ LET l == lookup[t]
           idx == Build(l.kind, Rows(l.type, l.df))
       IN  /\ index' = [index EXCEPT ![l.kind][l.type] = idx]
           /\ Answer(t, idx)
    /\ epoch' = data_epoch
    /\ UNCHANGED <<contextVars, historyVars, lookups>>

InsertIfCurrent(t) ==       \* mutant: an index of an older epoch is not stored, nor built again
    /\ lock = t /\ lookup[t].df # NoTable /\ lookup[t].seen = data_epoch
    /\ LET l == lookup[t]
           idx == Build(l.kind, Rows(l.type, l.df))
       IN  /\ index' = [index EXCEPT ![l.kind][l.type] = idx]
           /\ Answer(t, idx)
    /\ UNCHANGED <<contextVars, epoch, historyVars, lookups>>

Insert(t) ==
    /\ lock = t /\ lookup[t].df # NoTable
    /\ LET l == lookup[t]
           idx == Build(l.kind, Rows(l.type, l.df))
       IN  /\ index' = [index EXCEPT ![l.kind][l.type] = idx]
           /\ Answer(t, idx)
    /\ UNCHANGED <<contextVars, epoch, historyVars, lookups>>

\* invalidate() takes no lock.
Invalidate(t) ==
    /\ lookup[t] = Idle
    /\ ConcurrentInvalidate \/ lock = NoThread
    /\ epoch' = data_epoch
    /\ index' = NoIndexes
    /\ UNCHANGED <<contextVars, lock, lookup, answer, historyVars, lookups>>
-----------------------------------------------------------------------------
\* A labelled node pattern with a literal property: the index answers it, or the
\* scan returns every identifier of the type, whatever value the filter asks for.
FallbackScan(t, e) ==
    /\ lookup[t] = Idle /\ promoted[t] = {}
    /\ e \in Entities /\ e \in Written(t)
    /\ lookups < LookupBound
    /\ lookups' = lookups + 1
    /\ LET v == IF lookup_cache[e] = NoTable THEN live[e] ELSE lookup_cache[e]
       IN  /\ lookup_cache' = [lookup_cache EXCEPT ![e] = v]
           /\ answer' = [answer EXCEPT ![t] =
                [kind |-> "property", type |-> e, since |-> committed[e], indexed |-> FALSE,
                 index |-> Named("property", [val \in Values |-> {r.id : r \in Rows(e, v)}])]]
    /\ UNCHANGED <<live, shadow, promoted, fill, data_epoch, lock, epoch, index, lookup, historyVars>>

\* The writing queries: a clause, a commit table by table, a rollback, and the
\* exception that stops a commit between two tables.
Write(t, e, q) ==
    /\ t \in Committers
    /\ lookup[t] = Idle /\ promoted[t] = {}
    /\ \A d \in Types : q \notin live[d]
    /\ \A d \in Written(t) : shadow[t][d] \ live[d] \subseteq {q}
    /\ e \notin Written(t)
    /\ Mutate(t, e, q)
    /\ UNCHANGED <<managerVars, historyVars>>

PromoteTable(t, e) ==
    /\ lookup[t] = Idle
    /\ Promote(t, e)
    /\ contents' = [contents EXCEPT ![e] = Append(@, live'[e])]
    /\ UNCHANGED <<managerVars, committed>>

EndOfCommit(t) ==
    /\ lookup[t] = Idle /\ Written(t) # {}
    /\ EndCommit(t)
    /\ committed' = [e \in Types |-> Len(contents[e])]
    /\ UNCHANGED <<managerVars, contents>>

Abandon(t) ==
    /\ lookup[t] = Idle /\ Written(t) # {}
    /\ Rollback(t)
    /\ UNCHANGED <<managerVars, historyVars>>

Next ==
    \E t \in Threads :
      \/ \E e \in Types, k \in Kinds : GetIndex(t, k, e)
      \/ Cached(t) \/ Insert(t) \/ Invalidate(t)
      \/ \E e \in Types : FallbackScan(t, e)
      \/ \E e \in Types, q \in Txns : Write(t, e, q)
      \/ \E e \in Types : PromoteTable(t, e)
      \/ EndOfCommit(t) \/ Abandon(t)

\* A thread that is inside a lookup goes on with it.
Spec == Init /\ [][Next]_vars /\ \A t \in Threads : WF_vars(Cached(t) \/ Insert(t))
-----------------------------------------------------------------------------
\* What each question means, read off the rows of a version of the table.
Direct(k, e, key, v) ==
    LET rows == Rows(e, v) IN
    CASE k = "adjacency"  -> Named(k, {r \in rows : r.source \in key.sources /\ r.target \in key.targets})
      [] k = "property"   -> Named(k, {r.id : r \in {s \in rows : s.value = key.value}})
      [] k = "label"      -> Named(k, \E r \in rows : r.id = key.id)
      [] k = "vectorized" -> Named(k, IF \E r \in rows : r.id = key.id
                                      THEN (CHOOSE r \in rows : r.id = key.id).value ELSE Null)

\* The index gives, to every question, the answer of version v of the table.
Answers(k, e, idx, v) == \A key \in Keys(k) : Ask(k, idx, key) = Direct(k, e, key, v)

\* The index gives the answers of something that table e has held since position i.
AnswersSince(k, e, idx, i) ==
    \E j \in i..Len(contents[e]) : Answers(k, e, idx, contents[e][j])

\* While nobody holds the manager's lock and its epoch is the context's, every
\* index it keeps, of all four kinds, answers every question as the rows of one
\* version of the table do, and the table has held that version since the last
\* commit returned: no build that raced with a commit stays under the new epoch.
IndexFresh ==
    lock = NoThread /\ epoch = data_epoch =>
      \A k \in Kinds, e \in Types :
        index[k][e] # NoIndex => AnswersSince(k, e, index[k][e], committed[e])

\* A lookup answered by an index, whatever commits ran beside it, returns what
\* the rows of one version say, one that the table has held since the last
\* commit that had returned when the lookup began.
NoStaleLookup ==
    \A t \in Threads :
      answer[t] # Idle /\ answer[t].indexed =>
        AnswersSince(answer[t].kind, answer[t].type, answer[t].index[answer[t].kind], answer[t].since)

\* A lookup always gets its answer: no commit, abandoned query or invalidate()
\* keeps it from finishing and giving the lock back.
LookupReturns == \A t \in Threads : lookup[t] # Idle ~> lookup[t] = Idle

=============================================================================
