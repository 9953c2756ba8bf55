---------------------------- MODULE LeapfrogTriejoin ----------------------------
(* The join of three or more frames that share a variable                    *)
(* (leapfrog_triejoin.py): iterators over the sorted join columns leap over  *)
(* one another until they meet. A frame is the sequence of its rows' values  *)
(* of the join variable; a joined row is one row number of each frame. The   *)
(* frames share no other variable.                                           *)
EXTENDS CypherValues, Integers, Sequences, FiniteSets, SequencesExt

CONSTANTS JoinedFrames   \* sequences of at least three frames

\* numpy sorts the columns of numbers.
ASSUME LeapfrogAssumption ==
    \A frames \in JoinedFrames : frames \in Seq(Seq(Int)) /\ Len(frames) >= 3

VARIABLES
    columns,     \* the frames
    iterators,   \* the frames, each with an iterator, in the order of the last sort
    cursor,      \* the position of each frame's iterator
    steps,       \* iterations of the loop so far
    keys,        \* intersection found so far
    joining      \* "running", "done", "bound exceeded"

leapfrogVars == <<columns, iterators, cursor, steps, keys, joining>>

\* The positions of the values, in their order, equal values as they come.
ComesBefore(values, i, j) == values[i] < values[j] \/ (values[i] = values[j] /\ i < j)
StableOrder(values) ==
    [n \in DOMAIN values |-> CHOOSE i \in DOMAIN values :
        Cardinality({j \in DOMAIN values : ComesBefore(values, j, i)}) = n - 1]

SortedKeys(f) == LET rows == StableOrder(columns[f]) IN [i \in DOMAIN rows |-> columns[f][rows[i]]]

AtEnd(f, at) == at[f] > Len(columns[f])
Key(f, at) == SortedKeys(f)[at[f]]

\* The stable sort by key of the iterators.
InKeyOrder(its, at) ==
    LET places == StableOrder([i \in DOMAIN its |-> Key(its[i], at)])
    IN  [i \in DOMAIN its |-> its[places[i]]]

\* The first position, not before the present one, whose key is not less.
Seek(f, target) ==
    Min({p \in cursor[f]..(Len(columns[f]) + 1) :
            p > Len(columns[f]) \/ SortedKeys(f)[p] >= target})

StaysOnKey(f, key) == Seek(f, key)         \* mutant: not past the rows with the key

\* Past all the rows with this key.
PastKey(f, key) == Seek(f, key + 1)

LeapfrogInit ==
    /\ columns \in JoinedFrames
    /\ steps = 0 /\ keys = <<>> /\ cursor = [f \in DOMAIN columns |-> 1]
    /\ LET frames == [f \in DOMAIN columns |-> f]
       IN  IF \E f \in DOMAIN columns : columns[f] = <<>>
           THEN joining = "done" /\ iterators = frames
           ELSE joining = "running" /\ iterators = InKeyOrder(frames, cursor)

MaxIterations == FoldFunctionOnSet(+, 0, [f \in DOMAIN columns |-> Len(columns[f])], DOMAIN columns)

MinKey == Key(iterators[1], cursor)
MaxKey == Key(iterators[Len(iterators)], cursor)

\* The iterators after a step: the loop returns when one is at its end, and
\* raises when its iterations are used up.
Moved(at) ==
    /\ cursor' = at /\ steps' = steps + 1 /\ UNCHANGED columns
    /\ IF \E f \in DOMAIN columns : AtEnd(f, at)
       THEN joining' = "done" /\ UNCHANGED iterators
       ELSE /\ joining' = IF steps' = MaxIterations THEN "bound exceeded" ELSE "running"
            /\ iterators' = InKeyOrder(iterators, at)

Meet ==
    /\ joining = "running" /\ MinKey = MaxKey
    /\ keys' = Append(keys, MinKey)
    /\ Moved([f \in DOMAIN columns |-> PastKey(f, MinKey)])

Leap ==
    /\ joining = "running" /\ MinKey # MaxKey
    /\ Moved([cursor EXCEPT ![iterators[1]] = Seek(iterators[1], MaxKey)])
    /\ UNCHANGED keys

LeapfrogNext == Meet \/ Leap
LeapfrogSpec == LeapfrogInit /\ [][LeapfrogNext]_leapfrogVars

\* The cross product, for each key in turn, of the rows of every frame; the
\* stable sort has left the rows of a key in their order.
RowsWithKey(f, key) == InOrder({i \in DOMAIN columns[f] : columns[f][i] = key})
Extended(chunk, f, key) ==
    FlattenSeq([i \in DOMAIN chunk |->
        [j \in DOMAIN RowsWithKey(f, key) |-> Append(chunk[i], RowsWithKey(f, key)[j])]])
Chunk(key) ==
    LET upTo[n \in 0..Len(columns)] ==
            IF n = 0 THEN <<<<>>>> ELSE Extended(upTo[n - 1], n, key)
    IN  upTo[Len(columns)]
CollectMatchingRows == FlattenSeq([k \in DOMAIN keys |-> Chunk(keys[k])])

\* What joining the frames one after the other gives.
PairwiseJoin ==
    {t \in [DOMAIN columns -> UNION {DOMAIN columns[f] : f \in DOMAIN columns}] :
        \A f \in DOMAIN columns : t[f] \in DOMAIN columns[f] /\ columns[f][t[f]] = columns[1][t[1]]}

\* The leapfrog join gives the rows of the pairwise joins, each once, and the
\* bound of its loop is never what ends it (_leapfrog_intersect).
LeapfrogIsJoin ==
    /\ joining # "bound exceeded"
    /\ joining = "done" => /\ Range(CollectMatchingRows) = PairwiseJoin
                           /\ Len(CollectMatchingRows) = Cardinality(PairwiseJoin)
================================================================================
