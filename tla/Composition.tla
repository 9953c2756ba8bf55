------------------------------- MODULE Composition -------------------------------
(* Several queries run as one (multi_query_executor.py, input_validator.py,  *)
(* multi_query_analyzer.py, query_combiner.py): a submission is validated,   *)
(* every query's types and properties give the edges of a dependency graph,  *)
(* the graph is sorted in rounds, and the sorted queries are joined by       *)
(* WITH *. A clause is [kind, nodes, rels, sets, reads]: the labels of its   *)
(* variables, its relationship types, and the <<variable, property>> it sets *)
(* and looks up.                                                             *)
EXTENDS Naturals, Sequences, FiniteSets, SequencesExt

CONSTANTS
    Submissions,   \* sequences of queries [id, clauses]
    WithStar       \* the clause WITH *

\* The grammar lets a query RETURN only at its end (query_statement and
\* update_statement of grammar_parser.py).
ASSUME CompositionAssumption ==
    /\ \A s \in Submissions :
         /\ s \in Seq(Range(s))
         /\ \A q \in DOMAIN s :
              /\ s[q].clauses \in Seq(Range(s[q].clauses))
              /\ \A i \in 1 .. (Len(s[q].clauses) - 1) : s[q].clauses[i].kind # "return"
    /\ WithStar.kind # "return"

VARIABLES
    submission,
    validates,     \* MultiQueryExecutor validates, MultiQueryRewriter does not
    remaining,     \* query ids not yet sorted
    order,         \* indexes of the sorted queries
    joined,        \* how many of the sorted queries are combined
    combined,      \* clauses of the combined query
    composing      \* "submitted", "sorting", "sorted", "combined",
                   \* "invalid", "cyclic", "key error"

compositionVars == <<submission, validates, remaining, order, joined, combined, composing>>

CompositionInit ==
    /\ submission \in Submissions /\ validates \in BOOLEAN
    /\ remaining = {} /\ order = <<>> /\ joined = 0 /\ combined = <<>>
    /\ composing = "submitted"

Queries == DOMAIN submission
ClausesOf(q, kinds) == {c \in Range(submission[q].clauses) : c.kind \in kinds}
\* What a query touches: <<type>> or <<label, property>>.
TypesIn(c) == {<<t>> : t \in UNION Range(c.nodes) \union c.rels}

\* Every label a variable has anywhere in the query.
LabelsOf(q, v) ==
    UNION {c.nodes[v] : c \in {d \in ClausesOf(q, {"match", "merge", "create"}) : v \in DOMAIN d.nodes}}
PropertiesAt(q, places) == UNION {{<<label, at[2]>> : label \in LabelsOf(q, at[1])} : at \in places}
Everything(q) == Range(submission[q].clauses)

\* A DELETE produces whatever the query matches; a REMOVE produces nothing.
ProducedTypes(q) ==
    UNION {TypesIn(c) : c \in ClausesOf(q, {"create", "merge"})}
    \union (IF ClausesOf(q, {"delete"}) = {} THEN {}
            ELSE UNION {TypesIn(c) : c \in ClausesOf(q, {"match"})})
Produces(q) == ProducedTypes(q) \union PropertiesAt(q, UNION {c.sets : c \in ClausesOf(q, {"set"})})

ConsumedTypes(q) == UNION {TypesIn(c) : c \in ClausesOf(q, {"match", "merge"})}
Consumes(q) == ConsumedTypes(q) \union PropertiesAt(q, UNION {c.reads : c \in Everything(q)})

Needs(q, other) == q # other /\ Consumes(q) \intersect Produces(other) # {}
Dependents(q) ==                           \* mutant: the edges the other way round
    {submission[other].id : other \in {o \in Queries : Needs(o, q)}}
Dependencies(q) == {submission[other].id : other \in {o \in Queries : Needs(q, o)}}

DuplicateIds == \E q, other \in Queries : q # other /\ submission[q].id = submission[other].id

Validate ==
    /\ composing = "submitted"
    /\ composing' = IF validates /\ DuplicateIds THEN "invalid" ELSE "sorting"
    /\ remaining' = {submission[q].id : q \in Queries}
    /\ UNCHANGED <<submission, validates, order, joined, combined>>

\* The queries none of whose dependencies remain, in the order they came in.
ReadyQueries == {q \in Queries : submission[q].id \in remaining /\ Dependencies(q) \intersect remaining = {}}
Ready == [n \in 1 .. Cardinality(ReadyQueries) |->
            CHOOSE q \in ReadyQueries : Cardinality({p \in ReadyQueries : p < q}) = n - 1]
ReadyIds == {submission[q].id : q \in ReadyQueries}

\* One round of topological_sort. Taking an identifier out twice is a KeyError.
SortRound ==
    /\ composing = "sorting" /\ remaining # {}
    /\ IF Ready = <<>> THEN composing' = "cyclic" /\ UNCHANGED <<remaining, order>>
       ELSE IF Cardinality(ReadyIds) < Len(Ready)
       THEN composing' = "key error" /\ UNCHANGED <<remaining, order>>
       ELSE order' = order \o Ready /\ remaining' = remaining \ ReadyIds /\ UNCHANGED composing
    /\ UNCHANGED <<submission, validates, joined, combined>>

EndOfSort ==
    /\ composing = "sorting" /\ remaining = {}
    /\ composing' = "sorted"
    /\ UNCHANGED <<submission, validates, remaining, order, joined, combined>>

\* A RETURN at the end is taken off, but not from the last query.
StripReturn(clauses) == IF clauses # <<>> /\ Last(clauses).kind = "return" THEN Front(clauses) ELSE clauses

\* The next query of the order, behind WITH * if it is not the first.
Combine ==
    /\ composing = "sorted" /\ joined < Len(order)
    /\ LET clauses == submission[order[joined + 1]].clauses
           text == IF joined + 1 < Len(order) THEN StripReturn(clauses) ELSE clauses
       IN  combined' = combined \o (IF joined > 0 THEN <<WithStar>> \o text ELSE text)
    /\ joined' = joined + 1
    /\ UNCHANGED <<submission, validates, remaining, order, composing>>

EndOfCombine ==
    /\ composing = "sorted" /\ joined = Len(order)
    /\ composing' = "combined"
    /\ UNCHANGED <<submission, validates, remaining, order, joined, combined>>

CompositionNext == Validate \/ SortRound \/ EndOfSort \/ Combine \/ EndOfCombine
CompositionSpec == CompositionInit /\ [][CompositionNext]_compositionVars

--------------------------------------------------------------------------------
\* A nonempty set of queries each of which needs one of the set.
Knotted(qs) == qs # {} /\ \A q \in qs : \E other \in qs : Needs(q, other)

\* Of distinct identifiers, which the validation ensures, the combined query
\* runs every query once, each after all those that create, change or delete
\* what it reads, and is refused only as cyclic, when no such order exists
\* (topological_sort, combine); a query that needs nothing stays before those
\* submitted after it. Without validation a repeated identifier may lose a query.
ProducersFirst ==
    validates \/ ~DuplicateIds =>
        /\ composing \in {"sorted", "combined"} =>
             /\ Len(order) = Cardinality(Queries) /\ Range(order) = Queries
             /\ \A i, j \in DOMAIN order : Needs(order[i], order[j]) => j < i
             /\ \A i, j \in DOMAIN order :
                  i < j /\ order[j] < order[i] => \E q \in Queries : Needs(order[j], q)
        /\ composing = "cyclic" => \E qs \in SUBSET Queries : Knotted(qs)
        /\ composing # "key error"
        /\ \A i \in 1..(Len(combined) - 1) : combined[i].kind # "return"
================================================================================
