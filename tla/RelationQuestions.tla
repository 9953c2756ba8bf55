---------------------------- MODULE RelationQuestions ----------------------------
(* Sources, and queries of every clause, for MCEngines to run RelationEngine on. *)
EXTENDS RelationPlan

RowIn(id, x) == [id |-> id, at |-> ("x" :> x)]
EdgeIn(id, source, target) == [id |-> id, source |-> source, target |-> target, at |-> ("w" :> id)]
Entities(label, keyed, integer, rows) == [label |-> label, keyed |-> keyed, integer |-> integer, props |-> {"x"}, rows |-> rows]
Relationships(label, keyed, multi, labels, rows) ==
    [label |-> label, keyed |-> keyed, multi |-> multi, source_label |-> labels[1], target_label |-> labels[2],
     props |-> {"w"}, rows |-> rows]
Sources ==
    <<Entities("P", TRUE, TRUE, <<RowIn(1, 1), RowIn(2, 2), RowIn(2, 9), RowIn(4, Null)>>),
      Entities("C", TRUE, TRUE, <<RowIn(2, 5), RowIn(7, 5)>>),
      Entities("U", FALSE, TRUE, <<RowIn(5, 3), RowIn(5, 4)>>),
      Entities("S", TRUE, FALSE, <<RowIn(1, 6)>>)>>
Joins ==
    <<Relationships("K", FALSE, FALSE, <<Null, Null>>, <<EdgeIn(0, 1, 2), EdgeIn(0, 1, 2), EdgeIn(0, 2, 4), EdgeIn(0, 2, 9), EdgeIn(0, Null, 1)>>),
      Relationships("L", TRUE, TRUE, <<"P", "C">>, <<EdgeIn(10, 1, 2), EdgeIn(11, 1, 2), EdgeIn(12, 2, 2), EdgeIn(12, 1, 7), EdgeIn(13, 4, 3)>>)>>
Udfs ==
    {[name |-> "twice", wrapped |-> TRUE, positional |-> TRUE, typed |-> TRUE, accepted |-> TRUE],
     [name |-> "bare", wrapped |-> TRUE, positional |-> TRUE, typed |-> FALSE, accepted |-> TRUE]}

N(variable, label) == [variable |-> variable, labels |-> <<label>>, properties |-> <<>>]
N_(variable) == [variable |-> variable, labels |-> <<>>, properties |-> <<>>]
R(variable, label) == [variable |-> variable, labels |-> <<label>>, right |-> TRUE, plain |-> TRUE]
L(variable, label) == [R(variable, label) EXCEPT !.right = FALSE]
Path(nodes, rels) == [nodes |-> nodes, rels |-> rels, plain |-> TRUE]
Match(nodes, rels, where) == [clause |-> "MATCH", optional |-> FALSE, paths |-> <<Path(nodes, rels)>>, where |-> where]
Optional(nodes, rels) == [Match(nodes, rels, Null) EXCEPT !.optional = TRUE]
Value(v) == [op |-> "value", value |-> v]
Var(v) == [op |-> "variable", variable |-> v]
Prop(v, p) == [op |-> "property", variable |-> v, property |-> p]
Id(v) == [op |-> "id", variable |-> v]
Op(op, args) == [op |-> op, args |-> args]
Agg(op, arg, distinct) == [op |-> op, args |-> <<arg>>, distinct |-> distinct]
CountStar == [op |-> "count *", args |-> <<>>]
As(e, alias) == [expression |-> e, alias |-> alias]
It(e) == As(e, Null)
Give(clause, items) ==
    [clause |-> clause, items |-> items, distinct |-> FALSE, where |-> Null, order_by |-> <<>>, skip |-> Null, limit |-> Null]
Return(items) == Give("RETURN", items)
With(items) == Give("WITH", items)
By(e, ascending) == [expression |-> e, ascending |-> ascending]
Unwind(e, alias) == [clause |-> "UNWIND", expression |-> e, alias |-> alias]
Let(variable, property, e) == [variable |-> variable, property |-> property, expression |-> e]
Set(items) == [clause |-> "SET", items |-> items]
Delete(v) == [clause |-> "DELETE", detach |-> FALSE, variables |-> <<v>>]
Create(label, properties) ==
    [clause |-> "CREATE", paths |-> <<Path(<<[variable |-> Null, labels |-> <<label>>, properties |-> properties]>>, <<>>)>>]
p == N("p", "P")
q == N("q", "P")
c == N("c", "C")
AllP == Match(<<p>>, <<>>, Null)
Acquainted == Match(<<p, q>>, <<R(Null, "K")>>, Null)
Writing == {
    <<Create("P", <<<<"x", Value(8)>>>>)>>, <<Create("U", <<>>)>>, <<Create("S", <<>>)>>, <<Create("P", <<<<"z", Value(8)>>>>)>>,
    <<Match(<<p>>, <<>>, Op("is null", <<Prop("p", "x")>>)), Delete("p")>>,
    <<AllP, Set(<<Let("p", "z", Op("+", <<Prop("p", "x"), Value(1)>>))>>)>>,
    <<Match(<<p, c>>, <<R(Null, "L")>>, Null), Set(<<Let("c", "x", Prop("p", "x"))>>)>>,
    <<Match(<<p, c>>, <<R(Null, "L")>>, Null), With(<<It(Var("p")), As(CountStar, "n")>>), Set(<<Let("p", "x", Var("n"))>>)>>,
    <<AllP, Delete("p"), Match(<<c>>, <<>>, Null), Return(<<It(Prop("c", "x"))>>)>>,
    <<AllP, With(<<It(Var("p")), As(Prop("p", "x"), "old")>>), Set(<<Let("p", "x", Value(3))>>), Optional(<<N_("p"), c>>, <<R(Null, "L")>>), Return(<<It(Var("old"))>>)>>,
    <<AllP, Set(<<Let("p", "x", Value(3)), Let("p", "y", Id("p"))>>), With(<<It(Var("p")), As(Prop("p", "y"), "old")>>),
      Set(<<Let("p", "y", Op("+", <<Var("old"), Value(1)>>))>>), Return(<<It(Var("old")), It(Prop("p", "y"))>>)>>}
Reading == {
    <<AllP>>, <<Acquainted, Return(<<It(Prop("p", "x")), It(Prop("q", "x"))>>)>>,
    <<AllP, Optional(<<N_("p"), q>>, <<R(Null, "K")>>), Return(<<As(Id("p"), "i"), As(Agg("count", Var("q"), FALSE), "n"), As(CountStar, "m")>>)>>,
    <<AllP, Optional(<<N_("p"), c>>, <<R("r", "L")>>), Return(<<As(Id("p"), "i"), It(Prop("r", "w")), It(Prop("c", "x"))>>)>>,
    <<AllP, Optional(<<N_("p"), c>>, <<L("r", "K")>>), Return(<<As(Id("p"), "i"), As(Prop("c", "x"), "v")>>)>>,
    <<Match(<<N("u", "U")>>, <<>>, Null), Return(<<It(Prop("u", "x")), As(Id("u"), "i")>>)>>,
    <<Match(<<p, c>>, <<R("r", "L")>>, Op(">", <<Prop("r", "w"), Value(10)>>)), [Return(<<It(Prop("c", "x"))>>) EXCEPT !.distinct = TRUE]>>,
    <<AllP, With(<<It(Var("p"))>>), Match(<<N_("p"), q>>, <<R(Null, "K")>>, Op("<", <<Prop("p", "x"), Prop("q", "x")>>)),
      Return(<<As(Op("twice", <<Prop("q", "x")>>), "d")>>)>>,
    <<AllP, Match(<<[c EXCEPT !.properties = <<<<"x", Value(5)>>>>]>>, <<>>, Null), Return(<<As(Id("p"), "i"), As(Agg("count", Var("c"), TRUE), "n")>>)>>,
    <<AllP, [With(<<It(Var("p")), As(Prop("p", "x"), "v")>>) EXCEPT !.where = Op("is not null", <<Prop("p", "x")>>), !.order_by = <<By(Var("v"), FALSE)>>, !.limit = 1],
      Return(<<It(Prop("p", "x"))>>)>>,
    <<AllP, [Return(<<As(Prop("p", "x"), "v"), As(Id("p"), "i")>>) EXCEPT !.order_by = <<By(Prop("p", "x"), FALSE), By(Var("i"), TRUE)>>, !.skip = 1, !.limit = 1]>>,
    <<AllP, Return(<<As(Agg("sum", Prop("p", "x"), FALSE), "s"), As(Agg("min", Prop("p", "x"), FALSE), "m")>>)>>,
    <<Unwind(Op("list", <<Value(1), Value(2)>>), "v"), Match(<<p>>, <<>>, Op("=", <<Prop("p", "x"), Var("v")>>)), Unwind(Value(Null), "w"), Return(<<It(Var("v"))>>)>>,
    <<AllP, Optional(<<N_("p"), c>>, <<R("r", "L")>>), With(<<It(Var("p")), It(Var("c"))>>),
      Return(<<As(Op("case", <<Op("is null", <<Prop("c", "x")>>), Value(0), Prop("c", "x")>>), "v")>>)>>,
    <<AllP, With(<<It(Var("p"))>>), Optional(<<N_("p"), c>>, <<R(Null, "L")>>), Return(<<It(Prop("c", "x"))>>)>>,
    <<AllP, Return(<<It(Var("p"))>>)>>, <<AllP, Return(<<As(Op("bare", <<Prop("p", "x")>>), "b")>>)>>,
    <<Match(<<c, N("d", "C")>>, <<R(Null, "L")>>, Null), Return(<<As(Id("c"), "i")>>)>>,
    <<Match(<<p>>, <<>>, Op(">", <<Prop("p", "x"), Value(50)>>)), Return(<<As(Agg("max", Prop("p", "x"), FALSE), "m")>>)>>,
    <<Match(<<p, p>>, <<R(Null, "K")>>, Null), Return(<<It(Prop("p", "x"))>>)>>}
AllQuestions == Writing \union Reading
================================================================================
