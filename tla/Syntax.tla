--------------------------------- MODULE Syntax ---------------------------------
(* From the parse tree of a query to its syntax tree. Lark parses; the rule  *)
(* methods of CompositeTransformer (grammar_rule_mixins) turn the tree into  *)
(* plain data, and ASTConverter (ast_converter.py) turns that into the       *)
(* models of ast_models. An expression is [kind, of, args, binds] in all     *)
(* three: `of` are the words that belong to it (operators, keys, names),     *)
(* `args` its parts, `binds` the variables it has of its own (a              *)
(* comprehension's, an EXISTS pattern's). Punctuation and keywords that the  *)
(* grammar writes as literals do not reach the rule methods. Left out:       *)
(* numbers' and strings' characters, namespaces, locations.                  *)
EXTENDS Integers, Sequences, FiniteSets, SequencesExt

CONSTANT Absent   \* Python's None

Node(kind, of, args, binds) == [kind |-> kind, of |-> of, args |-> args, binds |-> binds]
Plain(kind, of, args) == Node(kind, of, args, {})
NoExpr == Plain("none", <<>>, <<>>)
--------------------------------------------------------------------------------
(* The rule methods of expressions; `args` are transformed already. *)

Joined(kind, args) == IF Len(args) = 1 THEN args[1] ELSE Plain(kind, <<>>, args)
OrExpression(args) == Joined("Or", args)
XorExpression(args) == Joined("Xor", args)
AndExpression(args) == Joined("And", args)

NotExpression(nots, e) == IF nots % 2 = 1 THEN Plain("Not", <<>>, <<e>>) ELSE e

\* a op b op c is (a op b) op c.
LeftChain(kind, ops, args) ==
    LET chain[i \in 0..Len(ops)] ==
            IF i = 0 THEN args[1] ELSE Plain(kind, <<ops[i]>>, <<chain[i - 1], args[i + 1]>>)
    IN  chain[Len(ops)]
ComparisonExpression(ops, args) == LeftChain("Comparison", ops, args)
StringPredicateExpression(ops, args) == LeftChain("StringPredicate", ops, args)
AddExpression(ops, args) == LeftChain("Arithmetic", ops, args)
MultExpression(ops, args) == LeftChain("Arithmetic", ops, args)
PowerExpression(ops, args) == LeftChain("Arithmetic", [i \in DOMAIN ops |-> "^"], args)
UnaryExpression(sign, e) == Plain("Unary", <<sign>>, <<e>>)
LabelPredicateExpression(labels, e) == IF labels = <<>> THEN e ELSE Plain("LabelPredicate", labels, <<e>>)
NullPredicateExpression(op, e) == Plain("NullCheck", <<op>>, <<e>>)

\* A postfix is a key, an index or a slice; they are applied from the left.
Postfix == [PropertyLookup |-> "PropertyAccess", IndexLookup |-> "IndexAccess", Slicing |-> "Slice"]
PostfixExpression(object, ops) ==
    LET result[i \in 0..Len(ops)] ==
            IF i = 0 THEN object ELSE Plain(Postfix[ops[i].kind], ops[i].of, <<result[i - 1]>> \o ops[i].args)
    IN  result[Len(ops)]
PropertyLookup(key) == Plain("PropertyLookup", key, <<>>)
IndexLookup(args) == Plain("IndexLookup", <<>>, args)
Slicing(args) == Plain("Slicing", <<>>, args)

\* A pattern as a predicate, and EXISTS { pattern }.
ExistsExpression(vars) == Node("Exists", <<>>, <<>>, vars)
InlinePatternPredicate(vars) == Node("Exists", <<>>, <<>>, vars)

FunctionInvocation(of, args) == Plain("FunctionInvocation", of, args)
CountStar == Plain("CountStar", <<>>, <<>>)
SimpleWhen(operands, result) == Plain("SimpleWhen", <<>>, Append(operands, result))
SearchedWhen(args) == Plain("SearchedWhen", <<>>, args)
SimpleCase(operand, whens, else) == Plain("SimpleCase", <<>>, <<operand, else>> \o whens)
SearchedCase(whens, else) == Plain("SearchedCase", <<>>, <<else>> \o whens)
ListComprehension(of, args) == Node("ListComprehension", of, args, Range(of))
PatternComprehension(of, args, vars) == Node("PatternComprehension", of, args, vars)
ReduceExpression(of, args) == Node("Reduce", of, args, Range(of))
QuantifierExpression(of, args) == Node("Quantifier", of, args, {of[2]})

\* `.key`, `key: e` and a variable are elements; of `.*` nothing is left.
MapElement(t, args) ==
    CASE t.kind = "selector" -> Plain("selector", t.of, <<>>)
      [] t.kind = "computed" -> Plain("computed", t.of, args)
      [] t.kind = "everything" -> NoExpr
MapProjection(variable, elements) == Plain("MapProjection", variable, elements)

NumberLiteral(of) == Plain("number", of, <<>>)
StringLiteral(of) == Plain("StringLiteral", of, <<>>)
BooleanLiteral(of) == Plain("boolean", of, <<>>)
NullLiteral == Plain("NullLiteral", <<>>, <<>>)
ListLiteral(args) == Plain("list", <<>>, args)
\* Of two entries with the same key the last one is kept.
LastWins(entries) == SelectSeq([i \in DOMAIN entries |-> <<i, entries[i]>>],
    LAMBDA e : \A j \in DOMAIN entries : j > e[1] => entries[j][1] # e[2][1])
MapLiteral(keys, args) ==
    LET kept == LastWins([i \in DOMAIN keys |-> <<keys[i], args[i]>>])
    IN  Plain("MapLiteral", [i \in DOMAIN kept |-> kept[i][2][1]], [i \in DOMAIN kept |-> kept[i][2][2]])
ParameterName(of) == Plain("Parameter", of, <<>>)
VariableName(of) == Plain("variable", of, <<>>)

\* A parenthesised expression is the expression.
RECURSIVE Transform(_)
Transform(t) ==
    LET args == [i \in DOMAIN t.args |-> Transform(t.args[i])]
        k == t.kind
    IN  CASE k = "or_expression" -> OrExpression(args)
          [] k = "xor_expression" -> XorExpression(args)
          [] k = "and_expression" -> AndExpression(args)
          [] k = "not_expression" -> NotExpression(Len(t.of), args[1])
          [] k = "comparison_expression" -> ComparisonExpression(t.of, args)
          [] k = "string_predicate_expression" -> StringPredicateExpression(t.of, args)
          [] k = "label_predicate_expression" -> LabelPredicateExpression(t.of, args[1])
          [] k = "null_predicate_expression" -> NullPredicateExpression(t.of[1], args[1])
          [] k = "add_expression" -> AddExpression(t.of, args)
          [] k = "mult_expression" -> MultExpression(t.of, args)
          [] k = "power_expression" -> PowerExpression(t.of, args)
          [] k = "unary_expression" -> UnaryExpression(t.of[1], args[1])
          [] k = "postfix_expression" -> PostfixExpression(args[1], Tail(args))
          [] k = "property_lookup" -> PropertyLookup(t.of)
          [] k = "index_lookup" -> IndexLookup(args)
          [] k = "slicing" -> Slicing(args)
          [] k = "exists_expression" -> ExistsExpression(t.binds)
          [] k = "inline_pattern_predicate" -> InlinePatternPredicate(t.binds)
          [] k = "function_invocation" -> FunctionInvocation(t.of, args)
          [] k = "count_star" -> CountStar
          [] k = "simple_when" -> SimpleWhen(Front(args), Last(args))
          [] k = "searched_when" -> SearchedWhen(args)
          [] k = "simple_case" -> SimpleCase(args[1], SubSeq(args, 3, Len(args)), args[2])
          [] k = "searched_case" -> SearchedCase(Tail(args), args[1])
          [] k = "list_comprehension" -> ListComprehension(t.of, args)
          [] k = "pattern_comprehension" -> PatternComprehension(t.of, args, t.binds)
          [] k = "reduce_expression" -> ReduceExpression(t.of, args)
          [] k = "quantifier_expression" -> QuantifierExpression(t.of, args)
          [] k \in {"selector", "computed", "everything"} -> MapElement(t, args)
          [] k = "map_projection" -> MapProjection(t.of, args)
          [] k = "number_literal" -> NumberLiteral(t.of)
          [] k = "string_literal" -> StringLiteral(t.of)
          [] k = "boolean_literal" -> BooleanLiteral(t.of)
          [] k = "null_literal" -> NullLiteral
          [] k = "list_literal" -> ListLiteral(args)
          [] k = "map_literal" -> MapLiteral(t.of, args)
          [] k = "parameter" -> ParameterName(t.of)
          [] k = "variable_name" -> VariableName(t.of)
          [] k = "none" -> NoExpr
--------------------------------------------------------------------------------
(* The rule methods of patterns. A node is [part, var, labels, properties,   *)
(* where], a hop [part, arrow, var, types, properties, range, where]; labels *)
(* are sequences of the alternatives of a label expression, properties are   *)
(* pairs of a key and a value, a range is what follows the star.             *)

Properties(list) == [i \in DOMAIN list |-> <<list[i][1], Transform(list[i][2])>>]
PropertyList(list) ==
    LET kept == LastWins(Properties(list)) IN [i \in DOMAIN kept |-> kept[i][2]]

\* `!` is a literal of the grammar: a negated label is the label.
LabelFactor(factor) == factor.name
\* One alternative is a name; several are data that no label may be.
LabelTerm(factors) == IF Len(factors) = 1 THEN LabelFactor(factors[1]) ELSE Absent
NodeLabels(terms) == [i \in DOMAIN terms |-> LabelTerm(terms[i])]

\* The keys of a filler and those of its map may meet: with "type", "labels" or
\* "where" the map's entries are taken for the pattern's own.
Keys(list) == {list[i][1] : i \in DOMAIN list}
NodePatternFiller(n) ==
    LET clash == Keys(n.properties) \intersect {"type", "labels", "where"}
    IN  [typed |-> "type" \in clash,
         labels |-> IF "labels" \in clash THEN <<Absent>> ELSE NodeLabels(n.labels),
         properties |-> IF clash # {} THEN <<>> ELSE PropertyList(n.properties)]
NodePattern(n) ==
    LET filler == NodePatternFiller(n)
    IN  [part |-> IF filler.typed THEN "mistyped" ELSE "node", var |-> n.var,
         labels |-> filler.labels, properties |-> filler.properties, where |-> Transform(n.where)]

\* `..` is a literal of the grammar: a range with one number is that number.
Length(min, max, unbounded) == [min |-> min, max |-> max, unbounded |-> unbounded]
PathLengthRange(range) ==
    IF range.low # Absent /\ range.high # Absent THEN Length(range.low, range.high, FALSE)
    ELSE LET fixed == IF range.low # Absent THEN range.low ELSE range.high
         IN  Length(fixed, fixed, FALSE)
PathLength(range) ==
    IF range.form = "none" THEN Absent
    ELSE IF range.form = "star" THEN Length(1, Absent, TRUE)
    ELSE PathLengthRange(range)

FullRel(arrow) == CASE arrow = "<-" -> "left" [] arrow = "->" -> "right" [] arrow = "-" -> "any"
RelationshipPattern(h) ==
    [part |-> "hop", direction |-> FullRel(h.arrow), var |-> h.var, types |-> h.types,
     properties |-> PropertyList(h.properties), length |-> PathLength(h.range), where |-> Transform(h.where)]

PatternElement(parts) ==
    [i \in DOMAIN parts |-> IF parts[i].part = "node" THEN NodePattern(parts[i]) ELSE RelationshipPattern(parts[i])]
\* The two names of shortest_path are literals too: neither says "all".
ShortestPath(shortest) == shortest \in {"one", "all"}
PathPattern(p) == [var |-> p.var, shortest |-> ShortestPath(p.shortest), all |-> FALSE, parts |-> PatternElement(p.parts)]
Pattern(paths) == [i \in DOMAIN paths |-> PathPattern(paths[i])]
--------------------------------------------------------------------------------
(* The rule methods of clauses and statements. *)

SetProperty(item) == [item |-> "property", var |-> item.var, key |-> item.key, value |-> Transform(item.value), labels |-> <<>>]
SetLabels(item) == [item |-> "labels", var |-> item.var, key |-> Absent, value |-> NoExpr, labels |-> NodeLabels(item.labels)]
SetAllProperties(item) == [item |-> "all", var |-> item.var, key |-> "*", value |-> Transform(item.value), labels |-> <<>>]
AddAllProperties(item) == [item |-> "add", var |-> item.var, key |-> "*+", value |-> Transform(item.value), labels |-> <<>>]
SetItem(item) ==
    CASE item.item = "property" -> SetProperty(item)
      [] item.item = "labels" -> SetLabels(item)
      [] item.item = "all" -> SetAllProperties(item)
      [] item.item = "add" -> AddAllProperties(item)
SetItems(items) == [i \in DOMAIN items |-> SetItem(items[i])]
RemoveItem(item) == IF item.item = "labels" THEN SetLabels(item) ELSE SetProperty(item)

ReturnItem(item) == [expr |-> Transform(item.expr), alias |-> item.alias]
ReturnItems(items) == [i \in DOMAIN items |-> ReturnItem(items[i])]
NullsPlacement(nulls) == IF nulls = Absent THEN Absent ELSE IF nulls = "first" THEN "first" ELSE "last"
OrderDirection(direction) == IF direction = Absent THEN "asc" ELSE direction
OrderItem(item) ==
    [expr |-> Transform(item.expr), ascending |-> OrderDirection(item.direction) # "desc",
     nulls |-> NullsPlacement(item.nulls)]
OrderItems(items) == [i \in DOMAIN items |-> OrderItem(items[i])]

\* Of `*` no item is left.
ReturnBody(body) == IF body.star THEN <<>> ELSE ReturnItems(body.items)
Projection(c) ==
    [distinct |-> c.distinct, items |-> ReturnBody(c), order |-> OrderItems(c.order),
     skip |-> Transform(c.skip), limit |-> Transform(c.limit)]

MatchClause(c) == [clause |-> "match", optional |-> c.optional, paths |-> Pattern(c.paths), where |-> Transform(c.where)]
CreateClause(c) == [clause |-> "create", paths |-> Pattern(c.paths)]
MergeAction(action) == [on |-> action.on, items |-> SetItems(action.items)]
MergeClause(c) == [clause |-> "merge", paths |-> Pattern(c.paths),
                   actions |-> [i \in DOMAIN c.actions |-> MergeAction(c.actions[i])]]
SetClause(c) == [clause |-> "set", items |-> SetItems(c.items)]
RemoveClause(c) == [clause |-> "remove", items |-> [i \in DOMAIN c.items |-> RemoveItem(c.items[i])]]
DeleteClause(c) == [clause |-> "delete", detach |-> c.detach, exprs |-> [i \in DOMAIN c.exprs |-> Transform(c.exprs[i])]]
UnwindClause(c) == [clause |-> "unwind", expr |-> Transform(c.expr), var |-> c.var]
WithClause(c) == [clause |-> "with", where |-> Transform(c.where)] @@ Projection(c)
ReturnClause(c) == [clause |-> "return"] @@ Projection(c)
CallClause(c) ==
    [clause |-> "call", procedure |-> c.procedure, args |-> [i \in DOMAIN c.args |-> Transform(c.args[i])],
     yields |-> c.yields, where |-> Transform(c.where)]

RECURSIVE TransformClause(_)
ForeachClause(c) ==
    [clause |-> "foreach", var |-> c.var, list |-> Transform(c.list),
     clauses |-> [i \in DOMAIN c.clauses |-> TransformClause(c.clauses[i])]]
TransformClause(c) ==
    CASE c.clause = "match" -> MatchClause(c)
      [] c.clause = "create" -> CreateClause(c)
      [] c.clause = "merge" -> MergeClause(c)
      [] c.clause = "set" -> SetClause(c)
      [] c.clause = "remove" -> RemoveClause(c)
      [] c.clause = "delete" -> DeleteClause(c)
      [] c.clause = "unwind" -> UnwindClause(c)
      [] c.clause = "with" -> WithClause(c)
      [] c.clause = "return" -> ReturnClause(c)
      [] c.clause = "call" -> CallClause(c)
      [] c.clause = "foreach" -> ForeachClause(c)

\* The statements of the grammar: reads and a RETURN; reads and writes with at
\* least one write, and perhaps a RETURN at the end; one CALL.
Reads == {"match", "unwind", "with", "call"}
Writes == {"create", "merge", "delete", "set", "remove", "foreach"}
KindsOf(clauses) == {clauses[i].clause : i \in DOMAIN clauses}
Body(clauses) == IF clauses # <<>> /\ Last(clauses).clause = "return" THEN Front(clauses) ELSE clauses
IsQueryStatement(clauses) == Body(clauses) # clauses /\ KindsOf(Body(clauses)) \subseteq Reads
IsUpdateStatement(clauses) ==
    KindsOf(Body(clauses)) \subseteq Reads \union Writes /\ KindsOf(clauses) \intersect Writes # {}
IsCallStatement(clauses) == Len(clauses) = 1 /\ clauses[1].clause = "call"
Grammatical(clauses) == IsQueryStatement(clauses) \/ IsUpdateStatement(clauses) \/ IsCallStatement(clauses)

Transformed(clauses) == [i \in DOMAIN clauses |-> TransformClause(clauses[i])]
QueryStatement(done) == [statement |-> "query", clauses |-> Front(done), return |-> <<Last(done)>>]
UpdateStatement(done) == [statement |-> "update", clauses |-> done, return |-> <<>>]
StatementOf(clauses, done) == IF IsQueryStatement(clauses) THEN QueryStatement(done) ELSE UpdateStatement(done)
Statement(clauses) == StatementOf(clauses, Transformed(clauses))
CypherQuery(statements, alls) ==
    [query |-> IF Len(statements) > 1 THEN "union" ELSE "query",
     statements |-> [i \in DOMAIN statements |-> Statement(statements[i])],
     alls |-> IF Len(statements) > 1 THEN alls ELSE <<>>]
--------------------------------------------------------------------------------
(* ASTConverter: expressions. A float or an expression list is not a number  *)
(* of rows; what is not typed data is a literal or a variable.               *)

ConvertVariable(d) == Plain("Variable", d.of, <<>>)
ConvertPrimitive(d, args) ==
    CASE d.kind = "number" -> Plain("IntegerLiteral", d.of, <<>>)
      [] d.kind = "boolean" -> Plain("BooleanLiteral", d.of, <<>>)
      [] d.kind = "list" -> Plain("ListLiteral", <<>>, args)
      [] d.kind = "none" -> NoExpr
ConvertBoolean(d, args) == Plain(d.kind, <<>>, args)
ConvertComparison(d, args) == Plain("Comparison", d.of, args)
ConvertStringPredicate(d, args) == Plain("StringPredicate", d.of, args)
ConvertNullCheck(d, args) == Plain("NullCheck", d.of, args)
ConvertLabelPredicate(d, args) == Plain("LabelPredicate", d.of, args)
ConvertArithmetic(d, args) == Plain("Arithmetic", d.of, args)
ConvertUnary(d, args) == Plain("Unary", d.of, args)
ConvertPropertyAccess(d, args) == Plain("PropertyLookup", d.of, args)
ConvertIndexAccess(args) == Plain("IndexLookup", <<>>, args)
ConvertSlice(args) == Plain("Slicing", <<>>, args)
ConvertLiteral(d, args) == Plain(d.kind, d.of, args)
ConvertFunctionInvocation(d, args) == Plain("FunctionInvocation", d.of, args)
ConvertExists(d) == Node("Exists", <<>>, <<>>, d.binds)
ConvertListComprehension(d, args) == Node("ListComprehension", d.of, args, d.binds)
ConvertPatternComprehension(d, args) == Node("PatternComprehension", d.of, args, d.binds)
ConvertQuantifier(d, args) == Node("Quantifier", d.of, args, d.binds)
ConvertReduce(d, args) == Node("Reduce", d.of, args, d.binds)

\* Of the operands of a WHEN the first is compared; an element that is nothing
\* is skipped.
ConvertSimpleWhen(args) == Plain("WhenClause", <<>>, <<args[1], Last(args)>>)
ConvertSearchedWhen(args) == Plain("WhenClause", <<>>, args)
ConvertSimpleCase(args) == Plain("CaseExpression", <<>>, args)
ConvertSearchedCase(args) == Plain("CaseExpression", <<>>, <<NoExpr>> \o args)
ConvertMapProjection(d, args) ==
    Plain("MapProjection", d.of, SelectSeq(args, LAMBDA element : element # NoExpr))
ConvertMapElement(d, args) == Plain("MapElement", d.of, args)

RECURSIVE Convert(_)
Convert(d) ==
    LET args == [i \in DOMAIN d.args |-> Convert(d.args[i])]
        k == d.kind
    IN  CASE k = "variable" -> ConvertVariable(d)
          [] k \in {"number", "boolean", "list", "none"} -> ConvertPrimitive(d, args)
          [] k \in {"Or", "Xor", "And", "Not"} -> ConvertBoolean(d, args)
          [] k = "Comparison" -> ConvertComparison(d, args)
          [] k = "StringPredicate" -> ConvertStringPredicate(d, args)
          [] k = "NullCheck" -> ConvertNullCheck(d, args)
          [] k = "LabelPredicate" -> ConvertLabelPredicate(d, args)
          [] k = "Arithmetic" -> ConvertArithmetic(d, args)
          [] k = "Unary" -> ConvertUnary(d, args)
          [] k = "PropertyAccess" -> ConvertPropertyAccess(d, args)
          [] k = "IndexAccess" -> ConvertIndexAccess(args)
          [] k = "Slice" -> ConvertSlice(args)
          [] k \in {"StringLiteral", "NullLiteral", "MapLiteral", "Parameter", "CountStar"} -> ConvertLiteral(d, args)
          [] k = "FunctionInvocation" -> ConvertFunctionInvocation(d, args)
          [] k = "Exists" -> ConvertExists(d)
          [] k = "ListComprehension" -> ConvertListComprehension(d, args)
          [] k = "PatternComprehension" -> ConvertPatternComprehension(d, args)
          [] k = "Quantifier" -> ConvertQuantifier(d, args)
          [] k = "Reduce" -> ConvertReduce(d, args)
          [] k = "SimpleWhen" -> ConvertSimpleWhen(args)
          [] k = "SearchedWhen" -> ConvertSearchedWhen(args)
          [] k = "SimpleCase" -> ConvertSimpleCase(args)
          [] k = "SearchedCase" -> ConvertSearchedCase(args)
          [] k = "MapProjection" -> ConvertMapProjection(d, args)
          [] k \in {"selector", "computed"} -> ConvertMapElement(d, args)
--------------------------------------------------------------------------------
(* ASTConverter: patterns, clauses and queries. The properties of a           *)
(* relationship stay plain data, the WHERE of a node is not read.             *)

ConvertNodePattern(n) ==
    [part |-> "node", var |-> n.var, labels |-> n.labels,
     properties |-> [i \in DOMAIN n.properties |-> <<n.properties[i][1], Convert(n.properties[i][2])>>]]
Direction(direction) == CASE direction = "left" -> "<-" [] direction = "right" -> "->" [] OTHER -> "-"
ConvertPathLength(length) == length
ConvertRelationshipPattern(h) ==
    [part |-> "hop", direction |-> Direction(h.direction), var |-> h.var, labels |-> h.types,
     properties |-> h.properties, length |-> ConvertPathLength(h.length), where |-> Convert(h.where)]
ConvertShortestPath(p) == IF ~p.shortest THEN "none" ELSE IF p.all THEN "all" ELSE "one"
ConvertPathPattern(p) ==
    [var |-> p.var, shortest |-> ConvertShortestPath(p),
     elements |-> [i \in DOMAIN p.parts |-> IF p.parts[i].part = "hop" THEN ConvertRelationshipPattern(p.parts[i])
                                            ELSE ConvertNodePattern(p.parts[i])]]
ConvertPattern(paths) == [i \in DOMAIN paths |-> ConvertPathPattern(paths[i])]

ConvertSetProperty(item) == [var |-> item.var, key |-> item.key, expr |-> Convert(item.value), labels |-> <<>>]
\* The labels come as data without a name, which stands for an empty label.
ConvertSetLabels(item) == [var |-> item.var, key |-> Absent, expr |-> NoExpr, labels |-> <<"">>]
ConvertItems(items) ==
    [i \in DOMAIN items |-> IF items[i].item = "labels" THEN ConvertSetLabels(items[i]) ELSE ConvertSetProperty(items[i])]

ConvertReturnItem(item) == [expr |-> Convert(item.expr), alias |-> item.alias]
ConvertOrderByItem(item) == [expr |-> Convert(item.expr), ascending |-> item.ascending, nulls |-> item.nulls]
\* A variable is no number of rows: the SKIP or LIMIT is dropped.
RowCount(d) == IF d.kind = "variable" THEN NoExpr ELSE Convert(d)
ConvertProjection(c) ==
    [distinct |-> c.distinct, items |-> [i \in DOMAIN c.items |-> ConvertReturnItem(c.items[i])],
     order |-> [i \in DOMAIN c.order |-> ConvertOrderByItem(c.order[i])],
     skip |-> RowCount(c.skip), limit |-> RowCount(c.limit)]
ConvertReturnStatement(c) == [clause |-> "Return"] @@ ConvertProjection(c)
ConvertWithClause(c) == [clause |-> "With", where |-> Convert(c.where)] @@ ConvertProjection(c)

ConvertMatchClause(c) ==
    [clause |-> "Match", optional |-> c.optional, paths |-> ConvertPattern(c.paths), where |-> Convert(c.where)]
ConvertCreateClause(c) == [clause |-> "Create", paths |-> ConvertPattern(c.paths)]
CreatesOnly(c) ==                                      \* mutant: ON MATCH is lost
    [clause |-> "Merge", paths |-> ConvertPattern(c.paths), on_match |-> <<>>,
     on_create |-> FlattenSeq([i \in DOMAIN c.actions |-> IF c.actions[i].on = "create" THEN ConvertItems(c.actions[i].items) ELSE <<>>])]
ConvertMergeClause(c) ==
    LET On(what) == FlattenSeq([i \in DOMAIN c.actions |->
                        IF c.actions[i].on = what THEN ConvertItems(c.actions[i].items) ELSE <<>>])
    IN  [clause |-> "Merge", paths |-> ConvertPattern(c.paths), on_create |-> On("create"), on_match |-> On("match")]
ConvertSetClause(c) == [clause |-> "Set", items |-> ConvertItems(c.items)]
ConvertRemoveClause(c) == [clause |-> "Remove", items |-> ConvertItems(c.items)]
ConvertDeleteClause(c) ==
    [clause |-> "Delete", detach |-> c.detach, exprs |-> [i \in DOMAIN c.exprs |-> Convert(c.exprs[i])]]
ConvertUnwindClause(c) == [clause |-> "Unwind", expr |-> Convert(c.expr), alias |-> c.var]
ConvertYieldItem(y) == [var |-> y.field, alias |-> y.alias]
ConvertCall(c) ==
    [clause |-> "Call", procedure |-> c.procedure, args |-> [i \in DOMAIN c.args |-> Convert(c.args[i])],
     yields |-> [i \in DOMAIN c.yields |-> ConvertYieldItem(c.yields[i])], where |-> Convert(c.where)]

RECURSIVE ConvertClause(_)
ConvertForeachClause(c) ==
    [clause |-> "Foreach", var |-> c.var, list |-> Convert(c.list),
     clauses |-> [i \in DOMAIN c.clauses |-> ConvertClause(c.clauses[i])]]
ConvertClause(c) ==
    CASE c.clause = "match" -> ConvertMatchClause(c)
      [] c.clause = "create" -> ConvertCreateClause(c)
      [] c.clause = "merge" -> ConvertMergeClause(c)
      [] c.clause = "set" -> ConvertSetClause(c)
      [] c.clause = "remove" -> ConvertRemoveClause(c)
      [] c.clause = "delete" -> ConvertDeleteClause(c)
      [] c.clause = "unwind" -> ConvertUnwindClause(c)
      [] c.clause = "with" -> ConvertWithClause(c)
      [] c.clause = "return" -> ConvertReturnStatement(c)
      [] c.clause = "call" -> ConvertCall(c)
      [] c.clause = "foreach" -> ConvertForeachClause(c)

ConvertQueryStatement(s) == [i \in 1..Len(s.clauses) + 1 |-> ConvertClause((s.clauses \o s.return)[i])]
ConvertUpdateStatement(s) == [i \in DOMAIN s.clauses |-> ConvertClause(s.clauses[i])]
ConvertStatement(s) == IF s.statement = "query" THEN ConvertQueryStatement(s) ELSE ConvertUpdateStatement(s)
ConvertQuery(q) == FlattenSeq([i \in DOMAIN q.statements |-> ConvertStatement(q.statements[i])])
ConvertUnionQuery(q) == [statements |-> [i \in DOMAIN q.statements |-> ConvertStatement(q.statements[i])], alls |-> q.alls]

\* A label that is no name, and typed data that is no model, raise.
ConvertibleElement(e) == e.part # "mistyped" /\ (e.part = "node" => Absent \notin Range(e.labels))
ConvertiblePaths(paths) == \A i \in DOMAIN paths : \A j \in DOMAIN paths[i].parts : ConvertibleElement(paths[i].parts[j])
Convertible(s) ==
    \A i \in DOMAIN s.clauses : "paths" \in DOMAIN s.clauses[i] => ConvertiblePaths(s.clauses[i].paths)
--------------------------------------------------------------------------------
\* The query as the rest of the program has it: a sequence of clauses.
FromCypher(clauses) == ConvertQuery(CypherQuery(<<clauses>>, <<>>))
Parses(clauses) == Grammatical(clauses) /\ Convertible(Statement(clauses))
================================================================================
