---------------------------- MODULE MCResultCache ----------------------------
(***************************************************************************)
(* Two threads, three queries and a cache with room for one large result   *)
(* or two small ones: a put can replace an entry, evict one entry and keep *)
(* another, evict two, or find room.  The first query has two results, of  *)
(* different sizes, so that an old and a new one can be told apart.        *)
(***************************************************************************)
EXTENDS ResultCache

CONSTANTS k1, k2, k3, small, large, huge

MCBytesOf == [f \in Frames |-> CASE f = small -> 1 [] f = large -> 2 [] f = huge -> 3]
MCResultsOf == [k \in Keys |-> CASE k = k1 -> {small, large}
                                 [] k = k2 -> {small}
                                 [] k = k3 -> {small, huge}]
=============================================================================
