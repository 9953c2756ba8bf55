-------------------------------- MODULE FrontEnd --------------------------------
(* A query as it is typed, clause after clause, and what the program says of  *)
(* it at each point: its syntax tree, the validators' complaints, the columns *)
(* of its execution, the query printed again, combined with another one, and  *)
(* with other variables. A syntax tree is made into text by ast_rewriter.py,  *)
(* several queries into one by query_combiner.py (texts) and by               *)
(* ASTRewriter.merge_queries (trees), and variable_manager.py renames.        *)
EXTENDS Scopes, TLC

CONSTANTS Menu,        \* the clauses a query is made of
          Other,       \* another query, to be combined with it
          MaxClauses   \* bound: clauses of a query

VARIABLES query,       \* the clauses typed so far
          ast,         \* the syntax tree made of them, or nothing
          other        \* the syntax tree of the other query


\* What str() makes of a model is no Cypher.
Unparseable == Plain("unparseable", <<>>, <<>>)

\* Comparisons are printed without parentheses and read as one chain.
Chain(left, op, right) ==
    LET Ops(t) == IF t.kind = "comparison_expression" THEN t.of ELSE <<>>
        Args(t) == IF t.kind = "comparison_expression" THEN t.args ELSE <<t>>
    IN  Plain("comparison_expression", Ops(left) \o <<op>> \o Ops(right), Args(left) \o Args(right))
\* A key is printed behind its object, whatever that is.
Keyed(object, key) ==
    LET lookup == Plain("property_lookup", <<key>>, <<>>)
        Behind(t) == IF t.kind = "postfix_expression" THEN [t EXCEPT !.args = Append(@, lookup)]
                     ELSE Plain("postfix_expression", <<>>, <<t, lookup>>)
    IN  IF object.kind = "comparison_expression" THEN [object EXCEPT !.args = Append(Front(@), Behind(Last(@)))]
        ELSE Behind(object)

RECURSIVE ExprToCypher(_)
ExprToCypher(e) ==
    CASE e.kind = "Variable" -> Plain("variable_name", e.of, <<>>)
      [] e.kind = "PropertyLookup" -> Keyed(ExprToCypher(e.args[1]), e.of[1])
      [] e.kind = "IntegerLiteral" -> Plain("number_literal", e.of, <<>>)
      [] e.kind = "StringLiteral" -> Plain("string_literal", e.of, <<>>)
      [] e.kind = "BooleanLiteral" -> Plain("boolean_literal", e.of, <<>>)
      [] e.kind = "NullLiteral" -> Plain("null_literal", <<>>, <<>>)
      [] e.kind = "Parameter" -> Plain("parameter", e.of, <<>>)
      [] e.kind = "Comparison" -> Chain(ExprToCypher(e.args[1]), e.of[1], ExprToCypher(e.args[2]))
      [] e.kind = "none" -> NoExpr
      [] OTHER -> Unparseable

PropsToCypher(props) == [i \in DOMAIN props |-> <<props[i][1], ExprToCypher(props[i][2])>>]
NodeToCypher(n) ==
    [part |-> "node", var |-> n.var, labels |-> [i \in DOMAIN n.labels |-> <<[name |-> n.labels[i], negated |-> FALSE]>>],
     properties |-> PropsToCypher(n.properties), where |-> NoExpr]
NoRange == [form |-> "none", low |-> Absent, high |-> Absent]
Pointing(h) == "->"                       \* the direction is never the string "LEFT"
RelationshipToCypher(h) ==
    [part |-> "hop", arrow |-> Pointing(h), var |-> h.var, types |-> h.labels, properties |-> <<>>, range |-> NoRange, where |-> NoExpr]
PathToCypher(p) ==
    [var |-> Absent, shortest |-> "none",
     parts |-> [i \in DOMAIN p.elements |-> IF p.elements[i].part = "node" THEN NodeToCypher(p.elements[i])
                                            ELSE RelationshipToCypher(p.elements[i])]]
PatternToCypher(paths) == [i \in DOMAIN paths |-> PathToCypher(paths[i])]

ReturnItemToCypher(item) == [expr |-> ExprToCypher(item.expr), alias |-> item.alias]
Undirected(item) == [expr |-> ExprToCypher(item.expr), direction |-> Absent, nulls |-> Absent]   \* mutant: DESC is lost
OrderToCypher(item) ==
    [expr |-> ExprToCypher(item.expr), direction |-> IF item.ascending THEN Absent ELSE "desc", nulls |-> Absent]
ReturnLikeToCypher(c) ==
    [distinct |-> c.distinct, star |-> c.items = <<>>, items |-> [i \in DOMAIN c.items |-> ReturnItemToCypher(c.items[i])],
     order |-> [i \in DOMAIN c.order |-> OrderToCypher(c.order[i])],
     skip |-> ExprToCypher(c.skip), limit |-> ExprToCypher(c.limit)]

\* SET, REMOVE, FOREACH and CALL come out as the models print themselves.
ClauseToCypher(c) ==
    CASE c.clause = "Match" ->
             [clause |-> "match", optional |-> c.optional, paths |-> PatternToCypher(c.paths), where |-> ExprToCypher(c.where)]
      [] c.clause = "Create" -> [clause |-> "create", paths |-> PatternToCypher(c.paths)]
      [] c.clause = "Merge" -> [clause |-> "merge", paths |-> PatternToCypher(c.paths), actions |-> <<>>]
      [] c.clause = "Return" -> [clause |-> "return"] @@ ReturnLikeToCypher(c)
      [] c.clause = "With" -> [clause |-> "with", where |-> ExprToCypher(c.where)] @@ ReturnLikeToCypher(c)
      [] c.clause = "Delete" ->
             [clause |-> "delete", detach |-> c.detach, exprs |-> [i \in DOMAIN c.exprs |-> ExprToCypher(c.exprs[i])]]
      [] c.clause = "Unwind" -> [clause |-> "unwind", expr |-> ExprToCypher(c.expr), var |-> c.alias]
      [] OTHER -> [clause |-> "unparseable"]
ToCypher(tree) == [i \in DOMAIN tree |-> ClauseToCypher(tree[i])]

\* The syntax trees that survive: the printer has a form for all they hold.
Printed == {"Variable", "PropertyLookup", "IntegerLiteral", "StringLiteral", "BooleanLiteral", "NullLiteral", "Parameter", "Comparison", "none"}
PlainlyPrinted(e) ==
    \A part \in Parts(e) :
        /\ part.kind \in Printed
        /\ part.kind = "PropertyLookup" => part.args[1].kind # "Comparison"
        /\ part.kind = "Comparison" => part.args[2].kind # "Comparison"
PlainHop(h) == h.direction = "->" /\ h.properties = <<>> /\ h.length = Absent /\ h.where = NoExpr
PlainPaths(paths) ==
    \A i \in DOMAIN paths : paths[i].var = Absent /\ paths[i].shortest = "none"
                            /\ \A e \in Range(paths[i].elements) : e.part = "hop" => PlainHop(e)
PrintableClause(c) ==
    /\ c.clause \in {"Match", "Create", "Merge", "Return", "With", "Delete", "Unwind"}
    /\ \A e \in ClauseExprs(c) : PlainlyPrinted(e)
    /\ c.clause \in {"Match", "Create", "Merge"} => PlainPaths(c.paths)
    /\ c.clause = "Merge" => c.on_create \o c.on_match = <<>>
    /\ c.clause \in {"With", "Return"} => \A i \in DOMAIN c.order : c.order[i].nulls = Absent
Printable(tree) == \A c \in Range(tree) : PrintableClause(c)
--------------------------------------------------------------------------------
(* Several queries in one, each seeing the variables of those before.        *)

WithStar == [clause |-> "With", where |-> NoExpr, distinct |-> FALSE, items |-> <<>>, order |-> <<>>, skip |-> NoExpr, limit |-> NoExpr]
StripReturn(tree) == SelectSeq(tree, LAMBDA c : c.clause # "Return")
MergeQueries(asts) ==
    FlattenSeq([i \in DOMAIN asts |-> (IF i > 1 THEN <<WithStar>> ELSE <<>>) \o
                                      (IF i < Len(asts) THEN StripReturn(asts[i]) ELSE asts[i])])

WithStarText == ClauseToCypher(WithStar)
\* A query that ends in RETURN is printed without it; any other stays as it was written.
StripReturnClause(text) ==
    LET tree == FromCypher(text)
    IN  IF tree = <<>> \/ Last(tree).clause # "Return" THEN text ELSE ToCypher(Front(tree))
CombineFromGraph(texts) ==
    FlattenSeq([i \in DOMAIN texts |-> (IF i > 1 THEN <<WithStarText>> ELSE <<>>) \o
                                       (IF i < Len(texts) THEN StripReturnClause(texts[i]) ELSE texts[i])])
--------------------------------------------------------------------------------
(* VariableManager: Variable nodes get their new name wherever they are;     *)
(* names that are strings (aliases, the variable of UNWIND and FOREACH) and  *)
(* the plain data of a relationship's properties keep theirs.                *)

DetectConflicts(a, b) == CollectVariables(a) \intersect CollectVariables(b)
MaxNameAttempts == 10000
Candidate(base, i) == "__v" \o base \o (IF i = 0 THEN "" ELSE "_" \o ToString(i))
GenerateUniqueName(base, existing) ==
    Candidate(base, CHOOSE i \in 0..MaxNameAttempts :
        Candidate(base, i) \notin existing /\ \A j \in 0..i - 1 : Candidate(base, j) \in existing)

NewName(names, name) == IF name \in DOMAIN names THEN names[name] ELSE name
NewWords(names, words) == [i \in DOMAIN words |-> NewName(names, words[i])]
NamesItsVariable == {"Variable", "MapProjection", "ListComprehension", "Reduce"}
RECURSIVE CopyExpr(_, _)
CopyExpr(e, names) ==
    [e EXCEPT !.of = IF e.kind \in NamesItsVariable THEN NewWords(names, @)
                     ELSE IF e.kind = "Quantifier" THEN <<@[1], NewName(names, @[2])>> ELSE @,
              !.args = [i \in DOMAIN @ |-> CopyExpr(@[i], names)],
              !.binds = {NewName(names, v) : v \in @}]
CopyProperties(properties, names) == [i \in DOMAIN properties |-> <<properties[i][1], CopyExpr(properties[i][2], names)>>]
CopyElement(e, names) ==
    IF e.part = "node" THEN [e EXCEPT !.var = NewName(names, @), !.properties = CopyProperties(@, names)]
    ELSE [e EXCEPT !.var = NewName(names, @), !.where = CopyExpr(@, names)]
CopyPaths(paths, names) ==
    [i \in DOMAIN paths |-> [paths[i] EXCEPT !.var = NewName(names, @),
                                             !.elements = [j \in DOMAIN @ |-> CopyElement(@[j], names)]]]
CopyExprs(exprs, names) == [i \in DOMAIN exprs |-> CopyExpr(exprs[i], names)]
CopyItems(items, names) ==
    [i \in DOMAIN items |-> [items[i] EXCEPT !.var = NewName(names, @), !.expr = CopyExpr(@, names)]]
CopyProjected(items, names) == [i \in DOMAIN items |-> [items[i] EXCEPT !.expr = CopyExpr(@, names)]]
CopyProjection(c, names) ==
    [c EXCEPT !.items = CopyProjected(@, names), !.order = CopyProjected(@, names),
              !.skip = CopyExpr(@, names), !.limit = CopyExpr(@, names)]
RECURSIVE CopyClause(_, _)
CopyClause(c, names) ==
    CASE c.clause = "Match" -> [c EXCEPT !.paths = CopyPaths(@, names), !.where = CopyExpr(@, names)]
      [] c.clause = "Create" -> [c EXCEPT !.paths = CopyPaths(@, names)]
      [] c.clause = "Merge" -> [c EXCEPT !.paths = CopyPaths(@, names), !.on_create = CopyItems(@, names), !.on_match = CopyItems(@, names)]
      [] c.clause \in {"Set", "Remove"} -> [c EXCEPT !.items = CopyItems(@, names)]
      [] c.clause = "Delete" -> [c EXCEPT !.exprs = CopyExprs(@, names)]
      [] c.clause = "Unwind" -> [c EXCEPT !.expr = CopyExpr(@, names)]
      [] c.clause = "Return" -> CopyProjection(c, names)
      [] c.clause = "With" -> [CopyProjection(c, names) EXCEPT !.where = CopyExpr(@, names)]
      [] c.clause = "Call" -> [c EXCEPT !.args = CopyExprs(@, names), !.where = CopyExpr(@, names),
                                        !.yields = [i \in DOMAIN @ |-> [@[i] EXCEPT !.var = NewName(names, @)]]]
      [] c.clause = "Foreach" -> [c EXCEPT !.list = CopyExpr(@, names), !.clauses = [i \in DOMAIN @ |-> CopyClause(@[i], names)]]
RenameVariables(tree, names) == [i \in DOMAIN tree |-> CopyClause(tree[i], names)]

\* The renaming a composition needs: every shared name gets one that is new.
Renaming(shared, taken) ==
    FoldSet(LAMBDA name, names : names @@ (name :> GenerateUniqueName(name, taken \union Range(names))), <<>>, shared)
--------------------------------------------------------------------------------

FrontEndVars == <<query, ast, other>>
Read(clauses) == IF Parses(clauses) THEN FromCypher(clauses) ELSE <<>>
FrontEndInit == query = <<>> /\ ast = <<>> /\ other = Read(Other)
\* The grammar takes reads and writes in any order, and one RETURN at the end.
Typing(kinds) ==
    /\ Len(query) < MaxClauses
    /\ "return" \notin KindsOf(query)
    /\ \E c \in Menu : c.clause \in kinds /\ query' = Append(query, c)
    /\ ast' = Read(query')
    /\ UNCHANGED other
ReadClause == Typing(Reads)
UpdateClause == Typing(Writes)
ReturnLast == Typing({"return"})
FrontEndNext == ReadClause \/ UpdateClause \/ ReturnLast
FrontEndSpec == FrontEndInit /\ [][FrontEndNext]_FrontEndVars

Ready == ast # <<>>
--------------------------------------------------------------------------------
\* The words of a text and of a tree: names, keys, labels, operators, and a word
\* for every choice a clause offers.
Marked(flag, word) == IF flag THEN {word} ELSE {}
ExprWords(exprs) == UNION {UNION {Range(part.of) \union part.binds : part \in Parts(e)} : e \in exprs}
ListWords(list) == {list[i][1] : i \in DOMAIN list} \union ExprWords({list[i][2] : i \in DOMAIN list})
Sorting(descending, item) == Marked(descending, "DESC") \union {item.nulls}
Shape(shortest) == Marked(shortest # "none", "SHORTEST") \union Marked(shortest = "all", "ALL")

FactorWords(factor) == {factor.name} \union Marked(factor.negated, "!")
TextLabelWords(labels) == UNION {UNION {FactorWords(f) : f \in Range(term)} : term \in Range(labels)}
TextNodeWords(n) == {n.var} \union TextLabelWords(n.labels) \union ListWords(n.properties) \union ExprWords({n.where})
TextHopWords(h) ==
    {h.var} \union Range(h.types) \union ListWords(h.properties) \union ExprWords({h.where}) \union {h.arrow}
TextPathWords(paths) ==
    UNION {{p.var} \union Shape(p.shortest)
             \union UNION {IF e.part = "node" THEN TextNodeWords(e) ELSE TextHopWords(e) : e \in Range(p.parts)}
             : p \in Range(paths)}
TextItemWords(items) ==
    UNION {{item.var, item.key} \union ExprWords({item.value}) \union TextLabelWords(item.labels)
             \union Marked(item.item = "all", "*") \union Marked(item.item = "add", "*+") : item \in Range(items)}
TextProjectionWords(c) ==
    {item.alias : item \in Range(c.items)} \union Marked(c.distinct, "DISTINCT")
        \union ExprWords(Exprs(c.items) \union Exprs(c.order) \union {c.skip, c.limit})
        \union UNION {Sorting(item.direction = "desc", item) : item \in Range(c.order)}
RECURSIVE TextWords(_)
TextWords(c) ==
    (CASE c.clause = "match" -> TextPathWords(c.paths) \union ExprWords({c.where}) \union Marked(c.optional, "OPTIONAL")
       [] c.clause = "create" -> TextPathWords(c.paths)
       [] c.clause = "merge" -> TextPathWords(c.paths) \union UNION {TextItemWords(a.items) : a \in Range(c.actions)}
       [] c.clause \in {"set", "remove"} -> TextItemWords(c.items)
       [] c.clause = "delete" -> ExprWords(Range(c.exprs)) \union Marked(c.detach, "DETACH")
       [] c.clause = "unwind" -> ExprWords({c.expr}) \union {c.var}
       [] c.clause = "return" -> TextProjectionWords(c)
       [] c.clause = "with" -> TextProjectionWords(c) \union ExprWords({c.where})
       [] c.clause = "call" -> ExprWords(Range(c.args) \union {c.where}) \union {c.procedure}
                                 \union UNION {{y.field, y.alias} : y \in Range(c.yields)}
       [] c.clause = "foreach" -> {c.var} \union ExprWords({c.list}) \union UNION {TextWords(inner) : inner \in Range(c.clauses)})
    \ {Absent, "NOT"}

TreeElementWords(e) ==
    {e.var} \union Range(e.labels) \union ListWords(e.properties)
        \union (IF e.part = "hop" THEN ExprWords({e.where}) \union {e.direction} ELSE {})
TreePathWords(paths) ==
    UNION {{p.var} \union Shape(p.shortest) \union UNION {TreeElementWords(e) : e \in Range(p.elements)} : p \in Range(paths)}
TreeItemWords(items) == UNION {{item.var, item.key} \union Range(item.labels) : item \in Range(items)}
TreeProjectionWords(c) ==
    {item.alias : item \in Range(c.items)} \union Marked(c.distinct, "DISTINCT")
        \union UNION {Sorting(~item.ascending, item) : item \in Range(c.order)}
RECURSIVE TreeWords(_)
TreeWords(c) ==
    (ExprWords(ClauseExprs(c)) \union
        (CASE c.clause = "Match" -> TreePathWords(c.paths) \union Marked(c.optional, "OPTIONAL")
           [] c.clause = "Create" -> TreePathWords(c.paths)
           [] c.clause = "Merge" -> TreePathWords(c.paths) \union TreeItemWords(ItemsOf(c))
           [] c.clause \in {"Set", "Remove"} -> TreeItemWords(c.items)
           [] c.clause \in {"With", "Return"} -> TreeProjectionWords(c)
           [] c.clause = "Delete" -> Marked(c.detach, "DETACH")
           [] c.clause = "Unwind" -> {c.alias}
           [] c.clause = "Call" -> {c.procedure} \union UNION {{y.var, y.alias} : y \in Range(c.yields)}
           [] c.clause = "Foreach" -> {c.var} \union UNION {TreeWords(inner) : inner \in Range(c.clauses)}))
    \ {Absent}

\* The lengths a range allows, up to a bound: of the text and of the tree.
LengthBound == 4
TextLengths(range) ==
    CASE range.form = "none" -> {1}
      [] range.form = "star" -> 1..LengthBound
      [] range.form = "range" -> (IF range.low = Absent THEN 1 ELSE range.low)..(IF range.high = Absent THEN LengthBound ELSE range.high)
      [] range.form = "fixed" -> {range.low}
TreeLengths(length) ==
    IF length = Absent THEN {1} ELSE length.min..(IF length.unbounded THEN LengthBound ELSE length.max)
HopLengths(paths, field, Lengths(_)) ==
    FlattenSeq([i \in DOMAIN paths |->
        LET hops == SelectSeq(paths[i][field], LAMBDA e : e.part = "hop") IN [j \in DOMAIN hops |-> Lengths(hops[j])]])
PathClauses == {"match", "create", "merge"}

\* What the text says and the tree does not, taken out of the text: the WHERE of
\* a node (ast_converter.py:1183-1197), the `!` of a label (grammar_parser.py's
\* literals do not reach label_factor), the open end of a range, the "all" of
\* ALLSHORTESTPATHS (patterns.py:72, for the same reason), the labels of SET and
\* REMOVE, of which one empty label is left (ast_converter.py:900-914), and a
\* SKIP or LIMIT given by a variable (ast_converter.py:655-668). A WHEN with
\* several operands and a map with a repeated key lose words too; no clause of
\* the menu has one.
Unnegated(labels) == [i \in DOMAIN labels |-> [j \in DOMAIN labels[i] |-> [labels[i][j] EXCEPT !.negated = FALSE]]]
Closed(range) ==
    IF range.form # "range" \/ Absent \notin {range.low, range.high} THEN range
    ELSE [form |-> "fixed", low |-> IF range.low = Absent THEN range.high ELSE range.low, high |-> Absent]
SaidOfElement(e) ==
    IF e.part = "node" THEN [e EXCEPT !.where = NoExpr, !.labels = Unnegated(@)] ELSE [e EXCEPT !.range = Closed(@)]
SaidOfPath(p) ==
    [p EXCEPT !.shortest = IF @ = "all" THEN "one" ELSE @, !.parts = [i \in DOMAIN @ |-> SaidOfElement(@[i])]]
EmptyLabel == <<<<[name |-> "", negated |-> FALSE]>>>>
SaidOfItem(item) == IF item.item = "labels" THEN [item EXCEPT !.labels = EmptyLabel] ELSE item
SaidOf(list, Of(_)) == [i \in DOMAIN list |-> Of(list[i])]
SaidCount(e) == IF e.kind = "variable_name" THEN NoExpr ELSE e
RECURSIVE Said(_)
Said(c) ==
    CASE c.clause \in {"match", "create"} -> [c EXCEPT !.paths = SaidOf(@, SaidOfPath)]
      [] c.clause = "merge" ->
           [c EXCEPT !.paths = SaidOf(@, SaidOfPath),
                     !.actions = [i \in DOMAIN @ |-> [@[i] EXCEPT !.items = SaidOf(@, SaidOfItem)]]]
      [] c.clause \in {"set", "remove"} -> [c EXCEPT !.items = SaidOf(@, SaidOfItem)]
      [] c.clause \in {"with", "return"} -> [c EXCEPT !.skip = SaidCount(@), !.limit = SaidCount(@)]
      [] c.clause = "foreach" -> [c EXCEPT !.clauses = [i \in DOMAIN @ |-> Said(@[i])]]
      [] OTHER -> c

\* The tree says, clause by clause, what the text says and nothing else: every
\* name, key, label, operator, direction and choice is there, for whatever
\* combination of clauses, but for the losses that Said takes out (a doubled
\* NOT, which is none, apart).
SameWords == Ready => \A i \in DOMAIN query : TextWords(Said(query[i])) = TreeWords(ast[i])

\* Every hop matches the lengths it is written with, an open end apart.
LengthsKept ==
    Ready => \A i \in DOMAIN query : query[i].clause \in PathClauses =>
        HopLengths(Said(query[i]).paths, "parts", LAMBDA h : TextLengths(h.range))
            = HopLengths(ast[i].paths, "elements", LAMBDA h : TreeLengths(h.length))

\* Of what a query says its tree loses the forms Said takes out, and no other
\* (grammar_rule_mixins, ast_converter.py).
OnlyKnownLosses == SameWords /\ LengthsKept

--------------------------------------------------------------------------------
\* Letting go of columns that no later clause mentions changes nothing: each
\* clause finds the same variables missing and joins on the same ones.
PruningInvisible == Ready => Execution(ast, Kept).found = Execution(ast, Whole).found

\* The forms SemanticValidator was written for: no variable of an expression's
\* own, no path variable, every computed item named, no WITH *, no YIELD; and,
\* since it reads the text and execution the tree, nothing the tree loses.
PlainExprs(exprs) == \A e \in exprs : \A part \in Parts(e) : part.binds = {}
NamedItems(c) == c.items # <<>> /\ \A item \in Range(c.items) : item.expr.kind = "Variable" \/ item.alias # Absent
Straight(c) ==
    /\ PlainExprs(ClauseExprs(c))
    /\ c.clause \notin {"Call", "Foreach"}
    /\ c.clause \in {"Match", "Create", "Merge"} => PathVars(c.paths) = {}
    /\ c.clause = "Merge" => AstVars(c, {"hop"}) = {}
    /\ c.clause = "With" => NamedItems(c)
StraightQuery == Ready /\ \A i \in DOMAIN ast : Straight(ast[i]) /\ Said(query[i]) = query[i]
NoFalseAlarm == StraightQuery => ValidatorErrors(query) \subseteq Unbound(ast)

\* What RETURN cannot find is reported, unless RETURN itself names something so.
ReturnChecked ==
    (StraightQuery /\ Last(query).clause = "return") =>
        LET found == Execution(ast, Kept).found
        IN  Last(found).missing \subseteq ValidatorErrors(query) \union Aliases(Last(query).items)

\* In queries of MATCH, UNWIND, WITH and RETURN without own variables validate_ast
\* reports the variables that are missing and that no clause binds.
SimpleQuery ==
    Ready /\ \A c \in Range(ast) :
        /\ Straight(c)
        /\ c.clause \in {"Match", "Unwind", "With", "Return"}
        /\ c.clause = "Return" => Aliases(c.items) \intersect AllReferenced(Exprs(c.order)) = {}
EverBound(tree) == UNION {ColumnsAfter({}, c) : c \in {d \in Range(tree) : d.clause # "Return"}}
UndefinedFound == SimpleQuery => UndefinedVariables(ast) = Unbound(ast) \ EverBound(ast)

\* On the forms they know, both validators report what execution would miss.
ValidationExact == NoFalseAlarm /\ ReturnChecked /\ UndefinedFound

--------------------------------------------------------------------------------
\* It is, when its patterns are plain and MERGE does nothing more.
ReprintKeepsQuery == (Ready /\ Printable(ast)) => Read(ToCypher(ast)) = ast

\* Two queries combined as texts are the two combined as trees, and the second
\* one finds every variable it finds on its own.
CombinedAgrees ==
    (Ready /\ Printable(ast)) =>
        LET merged == MergeQueries(<<ast, other>>)
        IN  /\ Read(CombineFromGraph(<<query, Other>>)) = merged
            /\ Unbound(merged) \subseteq Unbound(ast) \union Unbound(other)

\* A query whose shared variables were renamed shares none, and misses what it
\* missed before.
Renamed(tree) ==
    LET names == Renaming(DetectConflicts(tree, other), CollectVariables(tree) \union CollectVariables(other))
    IN  [ast |-> RenameVariables(tree, names), names |-> names]
Same(names, old, new) == new = {NewName(names, v) : v \in old}
\* Only variables that patterns bind are Variable nodes wherever they occur.
BindsByPattern(c) ==
    /\ c.clause \notin {"Unwind", "Foreach", "Call"}
    /\ c.clause \in {"With", "Return"} => \A item \in Range(c.items) : item.alias = Absent
RenameKeepsBinding ==
    Ready => LET new == Renamed(ast)
             IN  /\ DetectConflicts(new.ast, other) = {}
                 /\ (\A c \in Range(ast) : BindsByPattern(c)) => Same(new.names, Unbound(ast), Unbound(new.ast))

\* Printing, combining and renaming leave the query what it was.
RewritesKeepMeaning == ReprintKeepsQuery /\ CombinedAgrees /\ RenameKeepsBinding
================================================================================
