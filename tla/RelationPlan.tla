------------------------------ MODULE RelationPlan ------------------------------
(* pycypher.plan.translate: a query, clause by clause, as a logical plan,    *)
(* or Unsupported. A clause is                                               *)
(*   MATCH    [clause, optional, paths, where]                               *)
(*   WITH     [clause, items, distinct, where, order_by, skip, limit], and   *)
(*   RETURN   the same                                                       *)
(*   UNWIND   [clause, expression, alias]                                    *)
(*   SET      [clause, items]          items of [variable, property, expression] *)
(*   DELETE   [clause, detach, variables]                                    *)
(*   CREATE   [clause, paths]                                                *)
(* a path [nodes, rels, plain] of nodes [variable, labels, properties] and   *)
(* relationships [variable, labels, right, plain], where plain means: no     *)
(* name or shortestPath, and no length, properties or missing direction. An  *)
(* expression is [op] with a variable, a property, a value or args. What is  *)
(* compiled keeps its syntax tree: the SQL of it has the same meaning. A     *)
(* catalog is [entities, relationships, udfs].                               *)
EXTENDS CypherValues, Naturals, Sequences, FiniteSets, SequencesExt, TLC

NODE == "node"
REL == "rel"
SCALAR == "scalar"
Binding(name, kind, label) == [name |-> name, kind |-> kind, label |-> label]
Scope(bindings, qualified, new_props) == [bindings |-> bindings, qualified |-> qualified, new_props |-> new_props]
NoScope == Scope(<<>>, FALSE, {})
Unsupported == [node |-> "Unsupported"]

names(scope) == {scope.bindings[i].name : i \in DOMAIN scope.bindings}
Get(scope, name) == SelectLastInSeq(scope.bindings, LAMBDA b : b.name = name)
KindOf(scope, name) == IF name \in names(scope) THEN scope.bindings[Get(scope, name)].kind ELSE Null
LabelOf(scope, name) == IF name \in names(scope) THEN scope.bindings[Get(scope, name)].label ELSE Null
IsBound(scope, name, kinds) == KindOf(scope, name) \in kinds
--------------------------------------------------------------------------------
(* ScopeCompiler and compile_expression: what has a translation to SQL. *)

AttrOf(scope, cat, var) ==
    LET label == LabelOf(scope, var)
    IN  CASE KindOf(scope, var) = NODE -> cat.entities[label].attr
          [] KindOf(scope, var) = REL -> cat.relationships[label].attr
          [] OTHER -> {}
Resolves(scope, cat, var, prop) == prop \in AttrOf(scope, cat, var) \/ <<var, prop>> \in scope.new_props

Operators == {"=", "<>", "<", ">", "+", "-", "and", "or", "not", "is null", "is not null", "list", "case"}
Casts == {"toInteger", "toFloat"}
Aggregates == {"count", "sum", "min", "max"}
is_aggregate(e) == e.op = "count *" \/ e.op \in Aggregates

RECURSIVE compile_expression(_, _, _)
compile_expression(e, scope, cat) ==
    CASE e.op = "value" -> TRUE
      [] e.op = "variable" -> IsBound(scope, e.variable, {SCALAR})
      [] e.op = "id" -> IsBound(scope, e.variable, {NODE, REL})
      [] e.op = "property" -> IsBound(scope, e.variable, {NODE, REL}) /\ Resolves(scope, cat, e.variable, e.property)
      [] OTHER -> /\ e.op \in Operators \union Casts \union cat.udfs
                  /\ \A i \in DOMAIN e.args : compile_expression(e.args[i], scope, cat)

\* ScopeCompiler.aggregate: count of anything bound counts it, of anything
\* else it counts the rows, unless they are to be distinct.
compile_aggregate(e, scope, cat) ==
    \/ e.op = "count *"
    \/ e.op = "count" /\ e.args[1].op = "variable" /\ (e.args[1].variable \in names(scope) \/ ~e.distinct)
    \/ compile_expression(e.args[1], scope, cat)

\* The variables that a property of is read, joined back by id after a
\* projection.
RECURSIVE Read_from(_)
Read_from(e) ==
    CASE e.op = "property" -> {e.variable}
      [] e.op \in {"value", "variable", "id", "count *"} -> {}
      [] OTHER -> UNION {Read_from(e.args[i]) : i \in DOMAIN e.args}
ReadBy(es) == UNION {Read_from(es[i]) : i \in DOMAIN es}
--------------------------------------------------------------------------------
(* Plans. A chain of scans, expansions and filters is a pattern block. *)

Unit == [node |-> "Unit", scope |-> NoScope, block |-> FALSE]
Scan(scope, var, label) == [node |-> "Scan", scope |-> scope, var |-> var, label |-> label, block |-> TRUE]
Expand(scope, child, from, rel, to, to_label, optional) ==
    [node |-> "Expand", scope |-> scope, child |-> child, from_var |-> from, rel |-> rel, to_var |-> to,
     to_label |-> to_label, optional |-> optional, block |-> child.block]
Filter(child, predicates) ==
    [node |-> "Filter", scope |-> child.scope, child |-> child, predicates |-> predicates, block |-> child.block]
Join(scope, child, other, on) ==
    [node |-> "Join", scope |-> scope, child |-> child, other |-> other, on |-> on, block |-> FALSE]
Table(scope, rows) == [node |-> "Table", scope |-> scope, rows |-> rows, block |-> FALSE]

Writes(plan) == plan.node \in {"Mutate", "Delete", "Create"}
RECURSIVE has_side_effects(_)
has_side_effects(plan) == Writes(plan) \/ ("child" \in DOMAIN plan /\ has_side_effects(plan.child))

\* _filter
Filtered(plan, predicates, cat) ==
    IF predicates = <<>> THEN plan
    ELSE IF \A i \in DOMAIN predicates : compile_expression(predicates[i], plan.scope, cat) THEN Filter(plan, predicates)
    ELSE Unsupported
--------------------------------------------------------------------------------
(* MATCH. *)

\* The label a node of a path has: its own, or that of the bound variable.
NodeLabel(node, scope) ==
    IF Len(node.labels) = 1 THEN node.labels[1]
    ELSE IF node.labels = <<>> /\ node.variable # Null /\ KindOf(scope, node.variable) = NODE THEN LabelOf(scope, node.variable)
    ELSE Null
PathVariables(path) ==
    [i \in DOMAIN path.nodes |-> path.nodes[i].variable]
    \o SelectSeq([i \in DOMAIN path.rels |-> path.rels[i].variable], LAMBDA v : v # Null)
PathSupported(path, scope, cat) ==
    /\ path.plain
    /\ \A i \in DOMAIN path.nodes : path.nodes[i].variable # Null /\ NodeLabel(path.nodes[i], scope) \in DOMAIN cat.entities
    /\ IsInjective(PathVariables(path))
    /\ \A i \in DOMAIN path.rels :
          path.rels[i].plain /\ Len(path.rels[i].labels) = 1 /\ path.rels[i].labels[1] \in DOMAIN cat.relationships

Bindings(bindings, rel, to, label) ==
    bindings \o (IF rel.variable = Null THEN <<>> ELSE <<Binding(rel.variable, REL, rel.labels[1])>>)
             \o <<Binding(to, NODE, label)>>

\* _translate_path: the first node is scanned, every other is a hop away.
PathPlan(path, scope) ==
    LET Label(i) == NodeLabel(path.nodes[i], scope)
        Var(i) == path.nodes[i].variable
        First == Scan(Scope(<<Binding(Var(1), NODE, Label(1))>>, FALSE, scope.new_props), Var(1), Label(1))
        HopTo(plan, i) ==
            Expand(Scope(Bindings(plan.scope.bindings, path.rels[i - 1], Var(i), Label(i)), TRUE, scope.new_props),
                   plan, Var(i - 1), path.rels[i - 1], Var(i), Label(i), FALSE)
        upTo[i \in DOMAIN path.nodes] == IF i = 1 THEN First ELSE HopTo(upTo[i - 1], i)
    IN  upTo[Len(path.nodes)]
InlinePredicates(path) ==
    FlattenSeq([i \in DOMAIN path.nodes |->
        [j \in DOMAIN path.nodes[i].properties |->
            [op |-> "=", args |-> <<[op |-> "property", variable |-> path.nodes[i].variable,
                                     property |-> path.nodes[i].properties[j][1]], path.nodes[i].properties[j][2]>>]]])

\* The rows before and the pattern's are joined on the variables they share.
JoinedOn(plan, sub, shared) ==
    IF \E n \in shared : KindOf(plan.scope, n) # KindOf(sub.scope, n) \/ LabelOf(plan.scope, n) # LabelOf(sub.scope, n)
    THEN Unsupported
    ELSE Join(Scope(plan.scope.bindings \o SelectSeq(sub.scope.bindings, LAMBDA b : b.name \notin shared), TRUE, plan.scope.new_props),
              plan, sub, shared)
Matched(plan, sub) == IF plan.node = "Unit" THEN sub ELSE JoinedOn(plan, sub, names(sub.scope) \intersect names(plan.scope))
FilteredMatch(plan, predicates, cat) == IF plan = Unsupported THEN plan ELSE Filtered(plan, predicates, cat)
WhereOf(clause) == IF clause.where = Null THEN <<>> ELSE <<clause.where>>

\* One hop from a node that is bound, whose label here is not looked at.
OptionalSupported(clause, path, scope, cat) ==
    /\ clause.where = Null /\ path.plain
    /\ Len(path.nodes) = 2
    /\ path.nodes[1].variable # Null /\ path.nodes[2].variable # Null /\ Len(path.nodes[2].labels) = 1
    /\ path.nodes[1].properties = <<>> /\ path.nodes[2].properties = <<>>
    /\ path.rels[1].plain /\ Len(path.rels[1].labels) = 1
    /\ KindOf(scope, path.nodes[1].variable) = NODE
    /\ path.nodes[2].variable \notin names(scope)
    /\ path.rels[1].labels[1] \in DOMAIN cat.relationships
    /\ path.nodes[2].labels[1] \in DOMAIN cat.entities
    /\ path.rels[1].variable \notin names(scope) \union {path.nodes[2].variable}
optional_match(path, plan) ==
    Expand(Scope(Bindings(plan.scope.bindings, path.rels[1], path.nodes[2].variable, path.nodes[2].labels[1]), TRUE, plan.scope.new_props),
           plan, path.nodes[1].variable, path.rels[1], path.nodes[2].variable, path.nodes[2].labels[1], TRUE)

rule_match(clause, plan, cat) ==
    IF Len(clause.paths) # 1 THEN Unsupported
    ELSE IF clause.optional
    THEN IF plan.node # "Unit" /\ OptionalSupported(clause, clause.paths[1], plan.scope, cat)
         THEN optional_match(clause.paths[1], plan) ELSE Unsupported
    ELSE IF PathSupported(clause.paths[1], plan.scope, cat)
    THEN FilteredMatch(Matched(plan, PathPlan(clause.paths[1], plan.scope)), InlinePredicates(clause.paths[1]) \o WhereOf(clause), cat)
    ELSE Unsupported
--------------------------------------------------------------------------------
(* WITH, RETURN and UNWIND. *)

output_name(item, qualified) ==
    CASE item.alias # Null -> item.alias
      [] item.expression.op = "variable" -> item.expression.variable
      [] item.expression.op = "property" ->
            IF qualified THEN item.expression.variable \o "." \o item.expression.property ELSE item.expression.property
      [] OTHER -> Null

\* A node or relationship passes through, under its own name.
Passes(item, scope) == item.expression.op = "variable" /\ IsBound(scope, item.expression.variable, {NODE, REL})
NameOf(item, scope) == IF Passes(item, scope) THEN item.expression.variable ELSE output_name(item, scope.qualified)
ItemSupported(item, scope, cat, is_return) ==
    IF Passes(item, scope) THEN item.alias \in {Null, item.expression.variable} /\ ~is_return
    ELSE /\ output_name(item, scope.qualified) # Null
         /\ IF is_aggregate(item.expression) THEN item.alias # Null /\ compile_aggregate(item.expression, scope, cat)
            ELSE compile_expression(item.expression, scope, cat)
OutputBinding(item, scope) ==
    IF Passes(item, scope) THEN scope.bindings[Get(scope, item.expression.variable)]
    ELSE Binding(output_name(item, scope.qualified), SCALAR, Null)
OutputScope(clause, scope) ==
    Scope([i \in DOMAIN clause.items |-> OutputBinding(clause.items[i], scope)],
          scope.qualified /\ \E i \in DOMAIN clause.items : Passes(clause.items[i], scope), scope.new_props)

\* ORDER BY takes output columns: by name, or as a property that an item is.
OrderColumn(e, items, columns) ==
    LET at == SelectLastInSeq(items, LAMBDA item : item.expression = e)
    IN  CASE e.op = "variable" /\ e.variable \in Range(columns) -> e.variable
          [] e.op = "property" /\ at > 0 -> columns[at]
          [] OTHER -> Null

ProjectItem(item, name, scope) ==
    [name |-> name, expression |-> item.expression, passthrough |-> Passes(item, scope),
     aggregate |-> ~Passes(item, scope) /\ is_aggregate(item.expression)]
Projected(clause, plan, scope, columns, order) ==
    [node |-> "Project", scope |-> scope, child |-> plan, distinct |-> clause.distinct, where |-> clause.where,
     items |-> [i \in DOMAIN clause.items |-> ProjectItem(clause.items[i], columns[i], plan.scope)],
     order_by |-> order, skip |-> clause.skip, limit |-> clause.limit, block |-> FALSE]
OrderOf(clause, columns) ==
    [i \in DOMAIN clause.order_by |->
        [column |-> OrderColumn(clause.order_by[i].expression, clause.items, columns), ascending |-> clause.order_by[i].ascending]]
CheckedProjection(clause, plan, cat, scope, columns, order) ==
    IF /\ IsInjective(columns)
       /\ clause.where # Null => compile_expression(clause.where, scope, cat)
       /\ \A i \in DOMAIN order : order[i].column # Null
       /\ clause.skip # Null => clause.limit # Null
    THEN Projected(clause, plan, scope, columns, order) ELSE Unsupported
NamedProjection(clause, plan, cat, columns) ==
    CheckedProjection(clause, plan, cat, OutputScope(clause, plan.scope), columns, OrderOf(clause, columns))
projection(clause, plan, cat, is_return) ==
    IF clause.items # <<>> /\ \A i \in DOMAIN clause.items : ItemSupported(clause.items[i], plan.scope, cat, is_return)
    THEN NamedProjection(clause, plan, cat, [i \in DOMAIN clause.items |-> NameOf(clause.items[i], plan.scope)])
    ELSE Unsupported
rule_with(clause, plan, cat) == projection(clause, plan, cat, FALSE)
rule_return(clause, plan, cat) == projection(clause, plan, cat, TRUE)

rule_unwind(clause, plan, cat) ==
    IF /\ clause.alias # Null /\ clause.alias \notin names(plan.scope)
       /\ compile_expression(clause.expression, plan.scope, cat)
    THEN [node |-> "Unnest", child |-> plan, expression |-> clause.expression, var |-> clause.alias, block |-> FALSE,
          scope |-> [plan.scope EXCEPT !.bindings = Append(@, Binding(clause.alias, SCALAR, Null))]]
    ELSE Unsupported
--------------------------------------------------------------------------------
(* SET, DELETE and CREATE. *)

SafeName(prop) == prop # "bad name"      \* sanitize_sql_identifier
Written(scope, cat, var) == KindOf(scope, var) = NODE /\ cat.entities[LabelOf(scope, var)].writable

rule_set(clause, plan, cat) ==
    LET target == clause.items[1].variable
        New == {i \in DOMAIN clause.items : ~Resolves(plan.scope, cat, target, clause.items[i].property)}
    IN  IF /\ \A i \in DOMAIN clause.items :
                 /\ clause.items[i].variable = target
                 /\ clause.items[i].property \notin {Null, "*", "*+"}
                 /\ compile_expression(clause.items[i].expression, plan.scope, cat)
           /\ Written(plan.scope, cat, target)
           /\ \A i \in New : SafeName(clause.items[i].property)
        THEN [node |-> "Mutate", child |-> plan, target |-> target, label |-> LabelOf(plan.scope, target),
              assignments |-> clause.items, block |-> FALSE,
              scope |-> [plan.scope EXCEPT !.new_props = @ \union {<<target, clause.items[i].property>> : i \in New}]]
        ELSE Unsupported

rule_delete(clause, plan, cat) ==
    IF ~clause.detach /\ Len(clause.variables) = 1 /\ Written(plan.scope, cat, clause.variables[1])
    THEN [node |-> "Delete", child |-> plan, var |-> clause.variables[1], label |-> LabelOf(plan.scope, clause.variables[1]),
          scope |-> [plan.scope EXCEPT !.bindings = SelectSeq(@, LAMBDA b : b.name # clause.variables[1])], block |-> FALSE]
    ELSE Unsupported

\* One node, on its own, of a table whose identifiers are integers.
CreateSupported(node, cat) ==
    /\ Len(node.labels) = 1 /\ node.labels[1] \in DOMAIN cat.entities
    /\ cat.entities[node.labels[1]].writable /\ cat.entities[node.labels[1]].id_is_integer
    /\ \A i \in DOMAIN node.properties :
          /\ node.properties[i][1] \in cat.entities[node.labels[1]].attr
          /\ compile_expression(node.properties[i][2], NoScope, cat)
rule_create(clause, plan, cat, last) ==
    IF /\ plan.node = "Unit" /\ last /\ Len(clause.paths) = 1
       /\ clause.paths[1].plain /\ clause.paths[1].rels = <<>>
       /\ CreateSupported(clause.paths[1].nodes[1], cat)
    THEN [node |-> "Create", scope |-> NoScope, label |-> clause.paths[1].nodes[1].labels[1],
          properties |-> clause.paths[1].nodes[1].properties, block |-> FALSE]
    ELSE Unsupported
--------------------------------------------------------------------------------
\* RULES: what has no rule, and a RETURN that is not last, are unsupported.
Rule(clause, plan, cat, last) ==
    CASE plan = Unsupported -> plan
      [] clause.clause = "MATCH" -> rule_match(clause, plan, cat)
      [] clause.clause = "WITH" -> rule_with(clause, plan, cat)
      [] clause.clause = "RETURN" /\ last -> rule_return(clause, plan, cat)
      [] clause.clause = "UNWIND" -> rule_unwind(clause, plan, cat)
      [] clause.clause = "SET" -> rule_set(clause, plan, cat)
      [] clause.clause = "DELETE" -> rule_delete(clause, plan, cat)
      [] clause.clause = "CREATE" -> rule_create(clause, plan, cat, last)
      [] OTHER -> Unsupported
Translated(query, cat) ==
    LET upTo[i \in 0..Len(query)] == IF i = 0 THEN Unit ELSE Rule(query[i], upTo[i - 1], cat, i = Len(query))
    IN  upTo[Len(query)]
translate(query, cat) == IF query = <<>> THEN Unsupported ELSE Translated(query, cat)
================================================================================
