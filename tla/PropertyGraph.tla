----------------------------- MODULE PropertyGraph -----------------------------
(* What a query may do to the graph, whatever its clauses: work on a copy of *)
(* the committed tables, append rows with fresh identifiers, change rows in  *)
(* place or take rows away, and then publish the whole copy or none of it.   *)
(* A table is a sequence of rows; a row has at least the field id.           *)
EXTENDS Naturals, Sequences

CONSTANT Tables

VARIABLES committed, working

\* Rows appended: the old rows stay as they are, every new identifier is new.
Grows(old, new) ==
    /\ Len(new) >= Len(old)
    /\ \A i \in DOMAIN old : new[i] = old[i]
    /\ \A i \in DOMAIN new, j \in DOMAIN new :
         i < j /\ j > Len(old) => new[i].id # new[j].id

\* Rows changed in place: the same identifiers in the same order.
Changes(old, new) ==
    /\ Len(new) = Len(old)
    /\ \A i \in DOMAIN old : new[i].id = old[i].id

\* Rows taken away: what remains is unchanged and in the same order.
Shrinks(old, new) ==
    /\ \A k \in DOMAIN new : \E i \in DOMAIN old : new[k] = old[i]
    /\ \A k, m \in DOMAIN new, i, j \in DOMAIN old :
         k < m /\ new[k] = old[i] /\ new[m] = old[j] => i < j

GraphInit == working = committed

AppendRows == (\A t \in Tables : Grows(working[t], working'[t])) /\ UNCHANGED committed
ChangeRows == (\A t \in Tables : Changes(working[t], working'[t])) /\ UNCHANGED committed
RemoveRows == (\A t \in Tables : Shrinks(working[t], working'[t])) /\ UNCHANGED committed

Publish == committed' = working /\ UNCHANGED working
Discard == working' = committed /\ UNCHANGED committed

GraphNext == AppendRows \/ ChangeRows \/ RemoveRows \/ Publish \/ Discard

GraphSpec == GraphInit /\ [][GraphNext]_<<committed, working>>
================================================================================
