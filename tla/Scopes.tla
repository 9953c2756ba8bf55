--------------------------------- MODULE Scopes ---------------------------------
(* Which variables a query may use where, three times: as it is executed     *)
(* (projection_planner.py, clause_executor.py, with the columns that         *)
(* compute_live_columns lets go between clauses), as SemanticValidator says  *)
(* from the parse tree, and as validate_ast says from the syntax tree.       *)
EXTENDS Syntax

\* The variables that belong to an expression itself, in a parse tree or in a
\* syntax tree, and all that occur in it.
OwnNames(e) ==
    IF e.kind \in {"variable_name", "Variable", "map_projection", "MapProjection", "list_comprehension", "reduce_expression"}
    THEN Range(e.of)
    ELSE IF e.kind = "quantifier_expression" THEN {e.of[2]} ELSE e.binds

RECURSIVE Parts(_)
Parts(e) == {e} \union UNION {Parts(e.args[i]) : i \in DOMAIN e.args}
ReferencedVariables(e) == UNION {OwnNames(part) : part \in Parts(e)}
AllReferenced(exprs) == UNION {ReferencedVariables(e) : e \in exprs}
Patterned(e) == UNION {part.binds : part \in {q \in Parts(e) : q.kind \in {"exists_expression", "inline_pattern_predicate"}}}

Present(names) == names \ {Absent}
Aliases(items) == Present({items[i].alias : i \in DOMAIN items})
Exprs(items) == {items[i].expr : i \in DOMAIN items}
ElementVars(paths, field, parts) ==
    Present(UNION {{e.var : e \in {x \in Range(paths[i][field]) : x.part \in parts}} : i \in DOMAIN paths})
PathVars(paths) == Present({paths[i].var : i \in DOMAIN paths})
--------------------------------------------------------------------------------
(* SemanticValidator on the parse tree: one scope, thrown away by WITH.      *)

VariableScope == [defined |-> {}, used |-> {}]
Define(scope, names) == [scope EXCEPT !.defined = @ \union names]
Use(scope, names) == [scope EXCEPT !.used = @ \union names]
UndefinedVars(scope) == scope.used \ scope.defined

TreeVars(c, parts) == ElementVars(c.paths, "parts", parts)
ValidateWhereClause(scope, where) == Use(scope, ReferencedVariables(where))
ValidateMatchClause(scope, c) ==
    ValidateWhereClause(Define(scope, TreeVars(c, {"node", "hop"}) \union Patterned(c.where)), c.where)
ValidateCreateClause(scope, c) == Define(scope, TreeVars(c, {"node", "hop"}))
ValidateMergeClause(scope, c) == Define(scope, TreeVars(c, {"node"}))
ValidateUnwindClause(scope, c) == Define(scope, {c.var})
ScopeStays(scope, c) == Define(scope, Aliases(c.items) \union AllReferenced(Exprs(c.items)))   \* mutant: WITH hides nothing
\* Every name of an item without an alias is defined by it.
ValidateWithClause(scope, c) ==
    Define(VariableScope, UNION {IF item.alias # Absent THEN {item.alias} ELSE ReferencedVariables(item.expr)
                                   : item \in Range(c.items)})
ValidateReturnClause(scope, c) ==
    Use(Define(scope, Aliases(c.items)),
        AllReferenced(Exprs(c.items) \union Exprs(c.order) \union {c.skip, c.limit}))

RECURSIVE ValidateNodes(_, _)
ValidateNode(scope, c) ==
    CASE c.clause = "match" -> ValidateMatchClause(scope, c)
      [] c.clause = "create" -> ValidateCreateClause(scope, c)
      [] c.clause = "merge" -> ValidateMergeClause(scope, c)
      [] c.clause = "unwind" -> ValidateUnwindClause(scope, c)
      [] c.clause = "with" -> ValidateWithClause(scope, c)
      [] c.clause = "return" -> ValidateReturnClause(scope, c)
      [] c.clause = "call" -> ValidateWhereClause(scope, c.where)
      [] c.clause = "foreach" -> ValidateNodes(scope, c.clauses)
      [] OTHER -> scope
ValidateNodes(scope, clauses) == FoldLeft(ValidateNode, scope, clauses)
ValidatorErrors(clauses) == UndefinedVars(ValidateNodes(VariableScope, clauses))
--------------------------------------------------------------------------------
(* The syntax tree: which variables a clause defines and mentions.           *)

AstVars(c, parts) == ElementVars(c.paths, "elements", parts)
PatternExprs(c) ==
    UNION {UNION {IF e.part = "node" THEN {p[2] : p \in Range(e.properties)} ELSE {e.where} : e \in Range(c.paths[i].elements)}
             : i \in DOMAIN c.paths}
ItemsOf(c) == IF c.clause = "Merge" THEN c.on_create \o c.on_match ELSE c.items
RECURSIVE ClauseExprs(_)
ClauseExprs(c) ==
    CASE c.clause = "Match" -> PatternExprs(c) \union {c.where}
      [] c.clause = "Create" -> PatternExprs(c)
      [] c.clause = "Merge" -> PatternExprs(c) \union Exprs(ItemsOf(c))
      [] c.clause \in {"Set", "Remove"} -> Exprs(c.items)
      [] c.clause = "Delete" -> Range(c.exprs)
      [] c.clause = "Unwind" -> {c.expr}
      [] c.clause = "Call" -> Range(c.args) \union {c.where}
      [] c.clause = "Foreach" -> {c.list} \union UNION {ClauseExprs(inner) : inner \in Range(c.clauses)}
      [] c.clause = "Return" -> Exprs(c.items) \union Exprs(c.order) \union {c.skip, c.limit}
      [] c.clause = "With" -> Exprs(c.items) \union Exprs(c.order) \union {c.skip, c.limit, c.where}

\* Every Variable node of a clause: the ones of patterns, and the others.
RECURSIVE PatternVariables(_)
PatternVariables(c) ==
    CASE c.clause \in {"Match", "Create", "Merge"} -> AstVars(c, {"node", "hop"}) \union PathVars(c.paths)
      [] c.clause = "Foreach" -> UNION {PatternVariables(inner) : inner \in Range(c.clauses)}
      [] OTHER -> {}
RECURSIVE OtherVariables(_)
OtherVariables(c) ==
    AllReferenced(ClauseExprs(c)) \union
        (CASE c.clause \in {"Set", "Remove", "Merge"} -> {item.var : item \in Range(ItemsOf(c))}
           [] c.clause = "Call" -> {y.var : y \in Range(c.yields)}
           [] c.clause = "Foreach" -> UNION {OtherVariables(inner) : inner \in Range(c.clauses)}
           [] OTHER -> {})
CollectVariables(ast) == UNION {PatternVariables(c) \union OtherVariables(c) : c \in Range(ast)}

\* compute_live_columns: what a later clause mentions, or everything.
Changes == {"Set", "Delete", "Create", "Merge", "Foreach"}
ValueVariables(c) == OtherVariables(c)                  \* mutant: a later pattern does not count
ClauseVariables(c) == PatternVariables(c) \union OtherVariables(c)
TakesAll(c) == c.clause \in {"Return", "With"} /\ c.items = <<>>
KeepsAll(ast, i) ==
    \/ i = Len(ast)
    \/ \E j \in i..Len(ast) : ast[j].clause \in Changes \/ TakesAll(ast[j])
    \/ UNION {ClauseVariables(ast[j]) : j \in i..Len(ast)} = {}
LiveColumns(ast, i) == UNION {ClauseVariables(ast[j]) : j \in i..Len(ast)}
--------------------------------------------------------------------------------
(* Execution: the columns of the frame between two clauses.                  *)

InferAlias(e) == IF e.kind = "Variable" THEN e.of[1] ELSE IF e.kind = "PropertyLookup" THEN e.of[1] ELSE Absent
ColumnOf(item) == IF item.alias # Absent THEN item.alias ELSE InferAlias(item.expr)
Projected(c) == Present({ColumnOf(item) : item \in Range(c.items)})

\* CALL with YIELD starts from a frame of its own.
ColumnsAfter(columns, c) ==
    CASE c.clause \in {"Match", "Create", "Merge"} -> columns \union PatternVariables(c)
      [] c.clause = "Unwind" -> columns \union {c.alias}
      [] c.clause \in {"With", "Return"} -> IF c.items = <<>> THEN columns ELSE Projected(c)
      [] c.clause = "Call" /\ c.yields # <<>> ->
             {IF y.alias # Absent THEN y.alias ELSE y.var : y \in Range(c.yields)}
      [] OTHER -> columns

Free(e) ==
    LET bound == UNION {part.binds : part \in Parts(e)} IN ReferencedVariables(e) \ bound
FreeIn(exprs) == UNION {Free(e) : e \in exprs}
\* An ORDER BY or WHERE reads the projected frame or, failing that, the one before.
EitherFrame(exprs, columns, projected) ==
    UNION {IF Free(e) \subseteq projected THEN {} ELSE Free(e) \ columns : e \in exprs}
RECURSIVE NotFound(_, _)
NotFound(columns, c) ==
    LET after == ColumnsAfter(columns, c)
    IN  CASE c.clause = "Match" -> FreeIn(ClauseExprs(c)) \ after
          [] c.clause \in {"Create", "Merge"} -> OtherVariables(c) \ after
          [] c.clause \in {"Set", "Remove", "Delete", "Unwind"} -> OtherVariables(c) \ columns
          [] c.clause = "Call" -> FreeIn(Range(c.args)) \ columns
          [] c.clause = "Foreach" ->
                 (Free(c.list) \ columns) \union
                     UNION {NotFound(columns \union {c.var}, c.clauses[i]) : i \in DOMAIN c.clauses}
          [] c.clause = "Return" ->
                 (FreeIn(Exprs(c.items)) \ columns) \union EitherFrame(Exprs(c.order), columns, after)
          [] c.clause = "With" ->
                 (FreeIn(Exprs(c.items)) \ columns) \union EitherFrame(Exprs(c.order) \union {c.where}, columns, after)

\* What a clause finds in the frame decides what it does: the variables it
\* cannot find, and the ones of its pattern that are bound already.
Finds(columns, c) == [missing |-> NotFound(columns, c), joined |-> PatternVariables(c) \intersect columns]
Kept(ast, i, columns) == IF KeepsAll(ast, i) THEN columns ELSE columns \intersect LiveColumns(ast, i)
Whole(ast, i, columns) == columns
Execution(ast, Keep(_, _, _)) ==
    FoldLeft(LAMBDA run, i : [columns |-> Keep(ast, i, ColumnsAfter(run.columns, ast[i])),
                              found |-> Append(run.found, Finds(run.columns, ast[i]))],
             [columns |-> {}, found |-> <<>>], [i \in DOMAIN ast |-> i])
Unbound(ast) == UNION {f.missing : f \in Range(Execution(ast, Kept).found)}
--------------------------------------------------------------------------------
(* validate_ast on the syntax tree: the whole query is one scope.            *)

Clauses(ast, kinds) == {c \in Range(ast) : c.clause \in kinds}
CollectDefined(ast) ==
    UNION ({PatternVariables(c) : c \in Clauses(ast, {"Match"})} \union {AstVars(c, {"node", "hop"}) : c \in Clauses(ast, {"Create"})}
           \union {{c.alias} : c \in Clauses(ast, {"Unwind"})}
           \union {Present({IF item.alias # Absent THEN item.alias
                            ELSE IF item.expr.kind = "Variable" THEN item.expr.of[1] ELSE Absent : item \in Range(c.items)})
                     : c \in Clauses(ast, {"With"})})
CollectReferenced(ast) ==
    UNION ({OtherVariables(c) : c \in Range(ast)} \union {PatternVariables(c) : c \in Clauses(ast, {"Merge", "Foreach"})})
UndefinedVariables(ast) == CollectReferenced(ast) \ CollectDefined(ast)
UnusedVariables(ast) == CollectDefined(ast) \ CollectReferenced(ast)

MissingLabels(ast) ==
    UNION {{e.var : e \in {x \in UNION {Range(p.elements) : p \in Range(c.paths)} :
                            x.part = "node" /\ x.labels = <<>> /\ x.properties = <<>>}} : c \in Clauses(ast, {"Match"})}
Literals == {"IntegerLiteral", "StringLiteral", "BooleanLiteral"}
Contradicts(e) ==
    /\ e.kind = "Comparison"
    /\ {e.args[1].kind, e.args[2].kind} \subseteq Literals
    /\ CASE e.of = <<"=">> -> e.args[1] # e.args[2] [] e.of = <<"<>">> -> e.args[1] = e.args[2] [] OTHER -> FALSE
AlwaysFalse(ast) == \E c \in Clauses(ast, {"Match"}) : c.where = Plain("BooleanLiteral", <<"false">>, <<>>)
Contradictory(ast) == \E c \in Clauses(ast, {"Match"}) : \E part \in Parts(c.where) : Contradicts(part)
\* RETURN * has no item at all, so this never holds.
ReturnAllWithLimit(ast) ==
    \E c \in Clauses(ast, {"Return"}) : c.limit # NoExpr /\ \E item \in Range(c.items) : item.expr.kind = "ReturnAll"
DeleteWithoutDetach(ast) ==
    UNION {{e.of[1] : e \in {x \in Range(c.exprs) : ~c.detach /\ x.kind = "Variable"}} : c \in Clauses(ast, {"Delete"})}
CartesianProduct(ast) ==
    LET matches == SelectSeq(ast, LAMBDA c : c.clause = "Match")
    IN  \E i \in 1..Len(matches) - 1 : AstVars(matches[i], {"node", "hop"}) \intersect AstVars(matches[i + 1], {"node", "hop"}) = {}
UnboundedHop(ast) ==
    \E c \in Clauses(ast, {"Match", "Create", "Merge"}) : \E p \in Range(c.paths) : \E e \in Range(p.elements) :
        e.part = "hop" /\ e.length # Absent /\ e.length.unbounded

Issues(ast) ==
    ({"UNDEFINED_VAR"} \X UndefinedVariables(ast)) \union ({"UNUSED_VAR"} \X UnusedVariables(ast))
    \union ({"MISSING_LABEL"} \X MissingLabels(ast)) \union ({"MISSING_DETACH"} \X DeleteWithoutDetach(ast))
    \union {issue \in {<<"UNREACHABLE_MATCH", AlwaysFalse(ast)>>, <<"CONTRADICTORY_COMPARISON", Contradictory(ast)>>,
                       <<"NONDETERMINISTIC_LIMIT", ReturnAllWithLimit(ast)>>, <<"CARTESIAN_PRODUCT", CartesianProduct(ast)>>,
                       <<"UNBOUNDED_RELATIONSHIP", UnboundedHop(ast)>>} : issue[2]}
Errors == {"UNDEFINED_VAR", "CONTRADICTORY_COMPARISON"}
\* strict turns every warning into an error; the advice on LIMIT stays one.
ValidateAst(ast, strict) ==
    \A issue \in Issues(ast) : IF strict THEN issue[1] = "NONDETERMINISTIC_LIMIT" ELSE issue[1] \notin Errors
================================================================================
