---------------------------- MODULE MCGraphIndex ----------------------------
(* One reader, one writer; nodes 1 and 3 of type P, edges of type R.  Query  *)
(* q1 gives node 1 another value and adds node 2 and an edge; q2 reverts     *)
(* node 1 to null.                                                           *)
EXTENDS GraphIndex

CONSTANTS q1, q2, P, R, x, y

MCRows(e, v) ==
    IF e = P
    THEN {[id |-> 1, value |-> IF q2 \in v THEN Null ELSE IF q1 \in v THEN y ELSE x],
          [id |-> 3, value |-> y]}
         \union (IF q1 \in v THEN {[id |-> 2, value |-> x]} ELSE {})
    ELSE {[id |-> 1, source |-> 1, target |-> 3]}
         \union (IF q1 \in v THEN {[id |-> 2, source |-> 2, target |-> 3]} ELSE {})
=============================================================================
