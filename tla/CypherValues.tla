------------------------------ MODULE CypherValues ------------------------------
(* What all of the query language shares: the absent value, what is left of  *)
(* a list of rows by a choice of positions, and functions written over       *)
(* others, as :> and @@ of TLC do, of which the provers know nothing.        *)
EXTENDS Integers, FiniteSets

CONSTANT Null   \* pandas' None, NaN and NA, and SQL's NULL

\* The numbers of a finite set, in order.
InOrder(S) ==
    [n \in 1 .. Cardinality(S) |-> CHOOSE x \in S : Cardinality({y \in S : y < x}) = n - 1]

\* The rows at these positions, in order.
RowsAt(rows, at) == LET order == InOrder(at) IN [k \in DOMAIN order |-> rows[order[k]]]

\* f where it is defined, else g; and f with the value v at x.
Over(f, g) == [x \in DOMAIN f \union DOMAIN g |-> IF x \in DOMAIN f THEN f[x] ELSE g[x]]
Put(f, x, v) == [y \in DOMAIN f \union {x} |-> IF y = x THEN v ELSE f[y]]
================================================================================
