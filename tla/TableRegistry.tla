---------------------------- MODULE TableRegistry ----------------------------
(***************************************************************************)
(* TableRegistry of backends/table_registry.py: the tables a DuckDB        *)
(* backend has materialised, one per kind and label, into which every      *)
(* further source of the label is merged.                                  *)
(*                                                                         *)
(* Each SQL statement of a registration is a step, and any of them may     *)
(* fail; DuckDB commits each on its own.  A table is the sequence of its   *)
(* rows, in rowid order; a row has an identifier and a value for each      *)
(* column.  Merging two entity sources is a full outer join on the         *)
(* identifier in which the new source's columns win (DuckDB promises no    *)
(* order of its rows; here it is that of the identifiers); merging         *)
(* relationship sources concatenates them and numbers the rows afresh.     *)
(* Names of columns, their types and the property maps are left out.       *)
(***************************************************************************)
EXTENDS Naturals, Sequences, FiniteSets, SequencesExt

CONSTANTS
    Labels,         \* the labels of both kinds
    EntityLabels,
    Sources,        \* relations: [cols, id_col, rows], rows a sequence of [id, val]
    Null,
    RegistrationBound

\* The rows of a source come in an order, and an identifier is a number.
ASSUME RegistryAssumption ==
    \A s \in Sources :
      /\ s.rows \in Seq(Range(s.rows))
      /\ \A row \in Range(s.rows) : row.id \in Nat

NoTable == [absent |-> TRUE]
NoJob == [step |-> "no_job"]

VARIABLES
    physical,   \* the tables of the connection
    staging,    \* the temporary table of a statement sequence, per label
    entries,    \* _tables: NoTable, or whether the entry has an id_col and its columns
    job,        \* the registration under way
    sources_of, \* history: completed registrations of each label
    torn        \* history: labels whose swap failed between DROP and RENAME

registryVars == <<physical, staging, entries, job, sources_of, torn>>

RegistryInit ==
    /\ physical = [l \in Labels |-> NoTable]
    /\ staging = [l \in Labels |-> NoTable]
    /\ entries = [l \in Labels |-> NoTable]
    /\ job = NoJob
    /\ sources_of = [l \in Labels |-> <<>>]
    /\ torn = {}

ValueOf(table, id, c) ==
    LET at == CHOOSE i \in DOMAIN table.rows : table.rows[i].id = id
    IN  IF c \in table.cols /\ (\E i \in DOMAIN table.rows : table.rows[i].id = id)
        THEN table.rows[at].val[c] ELSE Null

IdsOf(table) == {table.rows[i].id : i \in DOMAIN table.rows}

KeepAll(table) == [cols |-> table.cols, rows |-> table.rows]     \* mutant: a source finer than the entity is not deduplicated

\* The numbers of a finite set, in order.
InOrder(S) ==
    [n \in 1 .. Cardinality(S) |-> CHOOSE x \in S : Cardinality({y \in S : y < x}) = n - 1]

\* _dedup_entity_table: the first row of each identifier, in order.
FirstRows(rows) == {i \in DOMAIN rows : \A j \in 1 .. i - 1 : rows[j].id # rows[i].id}

Dedup(table) ==
    LET order == InOrder(FirstRows(table.rows))
    IN  [cols |-> table.cols, rows |-> [k \in DOMAIN order |-> table.rows[order[k]]]]

\* _merge_entity_table: FULL OUTER JOIN on the identifier.
OuterJoin(old, new) ==
    LET cols == old.cols \union new.cols
        ids == InOrder(IdsOf(old) \union IdsOf(new))
    IN  [cols |-> cols,
         rows |-> [k \in DOMAIN ids |->
                     [id |-> ids[k],
                      val |-> [c \in cols |-> IF c \in new.cols THEN ValueOf(new, ids[k], c)
                                              ELSE ValueOf(old, ids[k], c)]]]]

\* _merge_relationship_table: UNION ALL BY NAME, __ID__ numbered from 0.
UnionAll(old, new) ==
    LET cols == old.cols \union new.cols
        rows == old.rows \o new.rows
        widen(r) == [c \in cols |-> IF c \in DOMAIN r.val THEN r.val[c] ELSE Null]
    IN  [cols |-> cols,
         rows |-> [k \in DOMAIN rows |-> [id |-> k - 1, val |-> widen(rows[k])]]]

Content(s) == [cols |-> s.cols, rows |-> s.rows]
-----------------------------------------------------------------------------
AdvanceTo(step) == job' = [job EXCEPT !.step = step]

\* register_relation: a new label, an entity source to join, one without an
\* identifier (which replaces the table), or further relationships.
StartRegistration(l, s) ==
    /\ job = NoJob
    /\ Len(sources_of[l]) < RegistrationBound
    /\ l \notin torn        \* bound: the properties say nothing of a torn label until it is dropped
    /\ job' = [label |-> l, source |-> s,
               step |-> IF entries[l] = NoTable THEN "drop_old"
                        ELSE IF l \notin EntityLabels THEN "concatenate"
                        ELSE IF entries[l].id_col /\ s.id_col THEN "stage" ELSE "drop_old"]
    /\ UNCHANGED <<physical, staging, entries, sources_of, torn>>

\* DROP TABLE IF EXISTS; CREATE TABLE AS.  A first registration goes on to
\* deduplicate; a replacement does not.
DropOld ==
    /\ job.step = "drop_old"
    /\ physical' = [physical EXCEPT ![job.label] = NoTable]
    /\ AdvanceTo("create")
    /\ UNCHANGED <<staging, entries, sources_of, torn>>

Create ==
    /\ job.step = "create"
    /\ physical' = [physical EXCEPT ![job.label] = Content(job.source)]
    /\ AdvanceTo(IF entries[job.label] = NoTable /\ job.label \in EntityLabels /\ job.source.id_col
            THEN "dedup" ELSE "record")
    /\ UNCHANGED <<staging, entries, sources_of, torn>>

\* The deduplicated copy, and its swap with the table.
DedupNew ==
    /\ job.step = "dedup"
    /\ IF Dedup(physical[job.label]) = physical[job.label]
       THEN AdvanceTo("record") /\ UNCHANGED staging
       ELSE /\ staging' = [staging EXCEPT ![job.label] = Dedup(physical[job.label])]
            /\ AdvanceTo("drop")
    /\ UNCHANGED <<physical, entries, sources_of, torn>>

\* The new side of a merge is materialised and deduplicated in a temporary
\* table, joined with the table, and the result swapped in.
Stage ==
    /\ job.step = "stage"
    /\ physical[job.label] # NoTable
    /\ staging' = [staging EXCEPT ![job.label] =
                     OuterJoin(physical[job.label], Dedup(Content(job.source)))]
    /\ AdvanceTo("drop")
    /\ UNCHANGED <<physical, entries, sources_of, torn>>

Concatenate ==
    /\ job.step = "concatenate"
    /\ physical[job.label] # NoTable
    /\ staging' = [staging EXCEPT ![job.label] =
                     UnionAll(physical[job.label], Content(job.source))]
    /\ AdvanceTo("drop")
    /\ UNCHANGED <<physical, entries, sources_of, torn>>

\* _swap_in_merged_table: DROP TABLE, then ALTER TABLE ... RENAME.
DropTable ==
    /\ job.step = "drop"
    /\ physical' = [physical EXCEPT ![job.label] = NoTable]
    /\ AdvanceTo("rename")
    /\ UNCHANGED <<staging, entries, sources_of, torn>>

Rename ==
    /\ job.step = "rename"
    /\ physical' = [physical EXCEPT ![job.label] = staging[job.label]]
    /\ staging' = [staging EXCEPT ![job.label] = NoTable]
    /\ AdvanceTo("record")
    /\ UNCHANGED <<entries, sources_of, torn>>

RecordEntry ==
    /\ job.step = "record"
    /\ LET l == job.label
           s == job.source
       IN  /\ entries' = [entries EXCEPT ![l] = [id_col |-> s.id_col \/ l \notin EntityLabels,
                                                 cols |-> physical[l].cols]]
           /\ sources_of' = [sources_of EXCEPT ![l] = Append(@, s)]
    /\ job' = NoJob
    /\ UNCHANGED <<physical, staging, torn>>

\* A statement raises.  The finally clause and the next registration drop the
\* temporary tables; nothing puts back a table that was dropped.
FailStatement ==
    /\ job # NoJob
    /\ staging' = [staging EXCEPT ![job.label] = NoTable]
    /\ torn' = IF physical[job.label] = NoTable \/ job.step = "record"
               THEN torn \union {job.label} ELSE torn
    /\ job' = NoJob
    /\ UNCHANGED <<physical, entries, sources_of>>

\* drop(label); clear() drops every label so.
DropLabel(l) ==
    /\ job = NoJob /\ entries[l] # NoTable
    /\ entries' = [entries EXCEPT ![l] = NoTable]
    /\ physical' = [physical EXCEPT ![l] = NoTable]
    /\ sources_of' = [sources_of EXCEPT ![l] = <<>>]
    /\ torn' = torn \ {l}
    /\ UNCHANGED <<staging, job>>

RegistryNext ==
    \/ \E l \in Labels, s \in Sources : StartRegistration(l, s)
    \/ DropOld \/ Create \/ DedupNew \/ Stage \/ Concatenate \/ DropTable \/ Rename
    \/ RecordEntry \/ FailStatement
    \/ \E l \in Labels : DropLabel(l)

RegistrySpec == RegistryInit /\ [][RegistryNext]_registryVars
-----------------------------------------------------------------------------
\* The table each label should hold, from the sources alone: an entity has every
\* identifier of every source, and each column from the last source that has it,
\* first row of the identifier; a relationship has every row of every source.
Newest(ss, c) == CHOOSE i \in DOMAIN ss : c \in ss[i].cols /\ \A j \in i + 1..Len(ss) : c \notin ss[j].cols

HoldsEntity(table, ss) ==
    /\ IdsOf(table) = UNION {IdsOf(ss[i]) : i \in DOMAIN ss}
    /\ Cardinality(IdsOf(table)) = Len(table.rows)
    /\ table.cols = UNION {ss[i].cols : i \in DOMAIN ss}
    /\ \A id \in IdsOf(table), c \in table.cols :
         ValueOf(table, id, c) = ValueOf(Dedup(Content(ss[Newest(ss, c)])), id, c)

HoldsRelationship(table, ss) ==
    /\ Len(table.rows) = FoldFunctionOnSet(+, 0, [i \in DOMAIN ss |-> Len(ss[i].rows)], DOMAIN ss)
    /\ Len(ss) > 1 => Cardinality(IdsOf(table)) = Len(table.rows)

Holds(l, table) ==
    IF l \in EntityLabels THEN HoldsEntity(table, sources_of[l])
    ELSE HoldsRelationship(table, sources_of[l])

\* Between registrations every registered label whose sources all name an
\* identifier holds the data of all of them, one row for each identifier, and
\* its entry has the table's columns, even after registrations that failed,
\* except when one failed after it had dropped the table.
TableMatchesSources ==
    job = NoJob =>
      \A l \in Labels :
        entries[l] # NoTable /\ l \notin torn /\ (\A i \in DOMAIN sources_of[l] : sources_of[l][i].id_col) =>
          /\ physical[l] # NoTable
          /\ entries[l].cols = physical[l].cols
          /\ Holds(l, physical[l])
=============================================================================
