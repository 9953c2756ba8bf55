------------------------ MODULE TransactionalContext ------------------------
(***************************************************************************)
(* Context of relational_models.py with the per-query scopes of            *)
(* execution_scope.py: canonical tables, a private shadow per running      *)
(* query, and the property-lookup cache that every scan goes through.      *)
(*                                                                         *)
(* The contents of a table are abstracted to the set of mutating queries   *)
(* whose writes it contains.  A scan reads the lookup cache and fills it   *)
(* from the canonical table when it has no entry; it never looks at the    *)
(* shadow.  A write copies the canonical table into the shadow first.      *)
(* Commit promotes whole tables, one assignment after the other, and only  *)
(* then replaces the lookup cache by an empty one.  A scan that started    *)
(* before that replacement still holds the old dict and fills that one.    *)
(*                                                                         *)
(* Left out: a property read of a type that the query itself has written   *)
(* looks at the query's shadow and touches nothing shared; a scan with an  *)
(* equality filter may be answered from the property index, and a table in *)
(* DuckDB by a lazy relation (GraphIndexManager is a component of its own).*)
(*                                                                         *)
(* Entity and relationship tables are treated alike; every type exists     *)
(* from the start (registering a type that a CREATE introduces is an       *)
(* assignment of the same kind).                                           *)
(***************************************************************************)
EXTENDS Naturals, FiniteSets

CONSTANTS
    Threads,    \* the threads that run queries on the shared Context
    Types,      \* entity and relationship types
    Txns,       \* identities of mutating queries
    NoTable,    \* the type is not a key of this dict
    NoFill      \* the thread is not between reading a source and caching it

ASSUME ContextAssumption ==
    /\ \A v \in SUBSET Txns : v # NoTable
    /\ \A f \in [type : Types, df : SUBSET Txns, current : BOOLEAN] : f # NoFill

VARIABLES
    live,           \* source_obj of each table of the two mappings
    shadow,         \* scope.shadow and scope.shadow_rels of each thread
    promoted,       \* the types of its shadow that a commit has assigned so far
    lookup_cache,   \* _property_lookup_cache
    fill,           \* what a scan has read and not yet put in the dict it holds
    data_epoch      \* _data_epoch

contextVars == <<live, shadow, promoted, lookup_cache, fill, data_epoch>>

Version == SUBSET Txns
NoTables == [e \in Types |-> NoTable]
Written(t) == {e \in Types : shadow[t][e] # NoTable}

ContextInit ==
    /\ live = [e \in Types |-> {}]
    /\ shadow = [t \in Threads |-> NoTables]
    /\ promoted = [t \in Threads |-> {}]
    /\ lookup_cache = NoTables
    /\ fill = [t \in Threads |-> NoFill]
    /\ data_epoch = 0

\* `self._property_lookup_cache = {}`: a new dict.  Scans that are under way
\* keep a reference to the old one.  `fills` is what becomes of fill otherwise.
NewLookupCache(fills) ==
    /\ lookup_cache' = NoTables
    /\ fill' = [t \in Threads |->
                  IF fills[t] = NoFill THEN NoFill
                  ELSE [fills[t] EXCEPT !.current = FALSE]]

DropShadow(t) ==
    /\ shadow' = [shadow EXCEPT ![t] = NoTables]
    /\ promoted' = [promoted EXCEPT ![t] = {}]
-----------------------------------------------------------------------------
BeginQuery(t) ==
    /\ DropShadow(t)
    /\ UNCHANGED <<live, lookup_cache, fill, data_epoch>>

\* EntityScan.scan and RelationshipScan.scan: the type is in the lookup cache...
ScanCached(t, e) ==
    /\ lookup_cache[e] # NoTable
    /\ UNCHANGED contextVars

\* ... or its source is read, to be cached in the dict just looked at.
ScanSource(t, e) ==
    /\ lookup_cache[e] = NoTable
    /\ fill' = [fill EXCEPT ![t] = [type |-> e, df |-> live[e], current |-> TRUE]]
    /\ UNCHANGED <<live, shadow, promoted, lookup_cache, data_epoch>>

FillAnyDict(t) ==       \* mutant: looks the dict up again when it stores
    /\ fill[t] # NoFill
    /\ lookup_cache' = [lookup_cache EXCEPT ![fill[t].type] = fill[t].df]
    /\ fill' = [fill EXCEPT ![t] = NoFill]
    /\ UNCHANGED <<live, shadow, promoted, data_epoch>>

ScanFill(t) ==
    /\ fill[t] # NoFill
    /\ lookup_cache' = IF fill[t].current
                       THEN [lookup_cache EXCEPT ![fill[t].type] = fill[t].df]
                       ELSE lookup_cache
    /\ fill' = [fill EXCEPT ![t] = NoFill]
    /\ UNCHANGED <<live, shadow, promoted, data_epoch>>

WriteThrough(t, e, q) ==    \* mutant: writes the canonical table
    /\ live' = [live EXCEPT ![e] = @ \union {q}]
    /\ shadow' = [shadow EXCEPT ![t][e] = live[e] \union {q}]
    /\ UNCHANGED <<promoted, lookup_cache, fill, data_epoch>>

\* A mutation clause of query q on type e: copy on first write, then update.
Mutate(t, e, q) ==
    /\ LET base == IF shadow[t][e] = NoTable THEN live[e] ELSE shadow[t][e]
       IN  shadow' = [shadow EXCEPT ![t][e] = base \union {q}]
    /\ UNCHANGED <<live, promoted, lookup_cache, fill, data_epoch>>
-----------------------------------------------------------------------------
PromoteLeavesSome(t, e) ==  \* mutant: an assignment is skipped
    /\ e \in Written(t) \ promoted[t]
    /\ promoted' = [promoted EXCEPT ![t] = Written(t)]
    /\ live' = [live EXCEPT ![e] = shadow[t][e]]
    /\ UNCHANGED <<shadow, lookup_cache, fill, data_epoch>>

\* One assignment of the two loops of commit_query.
Promote(t, e) ==
    /\ e \in Written(t) \ promoted[t]
    /\ promoted' = [promoted EXCEPT ![t] = @ \union {e}]
    /\ live' = [live EXCEPT ![e] = shadow[t][e]]
    /\ UNCHANGED <<shadow, lookup_cache, fill, data_epoch>>

\* The rest of commit_query, once every shadow table is promoted.
EndCommit(t) ==
    /\ promoted[t] = Written(t)
    /\ DropShadow(t)
    /\ IF Written(t) = {} THEN UNCHANGED <<lookup_cache, fill, data_epoch>>
       ELSE NewLookupCache(fill) /\ data_epoch' = data_epoch + 1
    /\ UNCHANGED live

\* rollback_query; a scan that the exception interrupted is given up.
Rollback(t) ==
    /\ DropShadow(t)
    /\ NewLookupCache([fill EXCEPT ![t] = NoFill])
    /\ UNCHANGED <<live, data_epoch>>
-----------------------------------------------------------------------------
\* The types of the shared tables, the shadows and the lookup cache.
ContextTypeOK ==
    /\ live \in [Types -> Version]
    /\ shadow \in [Threads -> [Types -> {NoTable} \union Version]]
    /\ promoted \in [Threads -> SUBSET Types]
    /\ lookup_cache \in [Types -> {NoTable} \union Version]
    /\ fill \in [Threads -> {NoFill} \union [type : Types, df : Version, current : BOOLEAN]]
    /\ data_epoch \in Nat

\* No commit is between its first assignment and its end.
NoCommitUnderWay == \A t \in Threads : promoted[t] = {}

\* Unless a commit is under way, whatever the lookup cache holds is the
\* canonical table: neither a slow scan nor an aborted commit leaves an old one.
LookupCacheFresh ==
    NoCommitUnderWay =>
      \A e \in Types : lookup_cache[e] # NoTable => lookup_cache[e] = live[e]
=============================================================================
