------------------------------- MODULE MCFrontEnd -------------------------------
(* Clauses in the forms of the repository's parser tests.                    *)
EXTENDS FrontEnd

V(name) == Plain("variable_name", <<name>>, <<>>)
Num(n) == Plain("number_literal", <<n>>, <<>>)
Str(s) == Plain("string_literal", <<s>>, <<>>)
Key(name, key) == Plain("postfix_expression", <<>>, <<V(name), Plain("property_lookup", <<key>>, <<>>)>>)
Compare(l, op, r) == Plain("comparison_expression", <<op>>, <<l, r>>)
Listed(args) == Plain("list_literal", <<>>, args)

N(var, labels, properties) ==
    [part |-> "node", var |-> var, labels |-> [i \in DOMAIN labels |-> <<[name |-> labels[i], negated |-> FALSE]>>],
     properties |-> properties, where |-> NoExpr]
Someone(var) == N(var, <<>>, <<>>)
Filtered(var, where) == [Someone(var) EXCEPT !.where = where]
Without(var, label) == [Someone(var) EXCEPT !.labels = <<<<[name |-> label, negated |-> TRUE]>>>>]
Range1(form, low, high) == [form |-> form, low |-> low, high |-> high]
H(arrow, var, types, range) ==
    [part |-> "hop", arrow |-> arrow, var |-> var, types |-> types, properties |-> <<>>, range |-> range, where |-> NoExpr]
Knows(arrow, var) == H(arrow, var, <<"KNOWS">>, NoRange)
Path(var, parts) == [var |-> var, shortest |-> "none", parts |-> parts]
One(parts) == <<Path(Absent, parts)>>

Match(paths, where) == [clause |-> "match", optional |-> FALSE, paths |-> paths, where |-> where]
OptionalMatch(paths) == [Match(paths, NoExpr) EXCEPT !.optional = TRUE]
Creates(paths) == [clause |-> "create", paths |-> paths]
Merges(paths, actions) == [clause |-> "merge", paths |-> paths, actions |-> actions]
Item(item, var, key, value) == [item |-> item, var |-> var, key |-> key, value |-> value, labels |-> <<>>]
Labels(var, label) == [Item("labels", var, Absent, NoExpr) EXCEPT !.labels = N(var, <<label>>, <<>>).labels]
Sets(items) == [clause |-> "set", items |-> items]
Removes(items) == [clause |-> "remove", items |-> items]
Deletes(detach, exprs) == [clause |-> "delete", detach |-> detach, exprs |-> exprs]
Unwinds(expr, var) == [clause |-> "unwind", expr |-> expr, var |-> var]
Body1(star, items, order) == [distinct |-> FALSE, star |-> star, items |-> items, order |-> order, skip |-> NoExpr, limit |-> NoExpr]
As(expr, alias) == [expr |-> expr, alias |-> alias]
By(expr, direction, nulls) == [expr |-> expr, direction |-> direction, nulls |-> nulls]
Returns(items) == [clause |-> "return"] @@ Body1(FALSE, items, <<>>)
ReturnsStar == [clause |-> "return"] @@ Body1(TRUE, <<>>, <<>>)
Withs(items, where) == [clause |-> "with", where |-> where] @@ Body1(FALSE, items, <<>>)
WithsStar == [clause |-> "with", where |-> NoExpr] @@ Body1(TRUE, <<>>, <<>>)
Calls(args, yields, where) == [clause |-> "call", procedure |-> "f", args |-> args, yields |-> yields, where |-> where]
Foreachs(var, list, clauses) == [clause |-> "foreach", var |-> var, list |-> list, clauses |-> clauses]

Negated(times, e) == Plain("not_expression", [i \in 1..times |-> "NOT"], <<e>>)
Both(a, b) == Plain("and_expression", <<>>, <<a, b>>)
Either(a, b) == Plain("or_expression", <<>>, <<a, b>>)

MatchMenu ==
    {Match(One(<<N("n", <<"Person">>, <<<<"name", Str("'A'")>>>>)>>), NoExpr),
     Match(One(<<Someone("n"), Knows("->", "r"), Someone("m")>>), Compare(Key("n", "age"), "=", Key("m", "age"))),
     Match(<<Path("p", <<Someone("n"), H("<-", Absent, <<"KNOWS">>, Range1("range", 2, 3)), Someone("m")>>)>>, NoExpr),
     Match(<<[Path("q", <<Without("n", "Admin"), H("->", Absent, <<"KNOWS">>, Range1("range", 2, Absent)),
                          Filtered("m", Compare(Key("m", "age"), ">", Key("k", "limit")))>>) EXCEPT !.shortest = "all"]>>, NoExpr),
     OptionalMatch(One(<<Someone("m"), H("-", Absent, <<"KNOWS">>, Range1("star", Absent, Absent)), Someone("k")>>)),
     Match(One(<<Someone("m")>>),
           Both(Negated(2, Compare(Key("m", "age"), ">", Num("1"))),
                Either(Plain("label_predicate_expression", <<"Person">>, <<V("n")>>),
                       Plain("string_predicate_expression", <<"STARTS WITH">>, <<Key("m", "name"), Str("'A'")>>))))}
UpdateMenu ==
    {Creates(One(<<Someone("n"), Knows("->", Absent), N("m", <<"Person">>, <<<<"name", Key("n", "name")>>>>)>>)),
     Merges(One(<<Someone("n"), Knows("->", "r"), Someone("m")>>),
            <<[on |-> "create", items |-> <<Item("property", "n", "since", Num("1"))>>],
              [on |-> "match", items |-> <<Item("property", "m", "seen", Num("2"))>>]>>),
     Merges(One(<<N("m", <<"Person">>, <<>>)>>), <<>>),
     Sets(<<Item("property", "n", "name", Key("m", "name")), Item("add", "n", Absent, Plain("map_literal", <<"a">>, <<V("x")>>))>>),
     Removes(<<Item("property", "n", "name", NoExpr), Labels("n", "Person")>>),
     Sets(<<Labels("m", "Admin"), Item("all", "n", Absent, V("m"))>>),
     Deletes(TRUE, <<V("m")>>),
     Foreachs("v", Key("n", "tags"), <<Sets(<<Item("property", "n", "name", V("v"))>>)>>)}
ReadMenu ==
    {Unwinds(Listed(<<Num("1"), Num("2")>>), "x"),
     Unwinds(Key("n", "tags"), "m"),
     Withs(<<As(V("n"), Absent)>>, NoExpr),
     Withs(<<As(V("n"), "m"), As(Plain("count_star", <<>>, <<>>), "x")>>, Compare(Key("n", "age"), "=", Num("1"))),
     [Withs(<<As(Key("n", "name"), "x")>>, NoExpr) EXCEPT !.order = <<By(V("x"), "desc", "first")>>, !.limit = Num("2")],
     WithsStar,
     Calls(<<V("n")>>, <<[field |-> "m", alias |-> Absent]>>, NoExpr)}
ReturnMenu ==
    {Returns(<<As(V("n"), Absent), As(V("m"), Absent)>>),
     Returns(<<As(Key("n", "name"), "x")>>),
     [Returns(<<As(V("x"), Absent)>>) EXCEPT !.order = <<By(Key("n", "name"), "desc", Absent)>>],
     Returns(<<As(Plain("list_comprehension", <<"v">>, <<Key("n", "tags"), Compare(V("v"), "=", Num("1")), V("v")>>), "x")>>),
     Returns(<<As(Plain("simple_case", <<>>, <<Key("n", "age"), Num("0"), Plain("simple_when", <<>>, <<Num("1"), Key("m", "age")>>)>>), "x")>>),
     ReturnsStar,
     [ReturnsStar EXCEPT !.limit = Num("1"), !.skip = V("x"), !.distinct = TRUE]}
MCMenu == MatchMenu \union UpdateMenu \union ReadMenu \union ReturnMenu
MCOther == <<Match(One(<<N("n", <<"Person">>, <<>>), Knows("->", "__vm"), Someone("m")>>), NoExpr),
             Returns(<<As(Key("m", "name"), "x")>>)>>

================================================================================
