----------------------------- MODULE Language_proofs -----------------------------
(* What is proved of the query language. Of a query run clause by clause:    *)
(* every step of it is one of the writes of PropertyGraph, which a commit    *)
(* publishes whole, and no clause but MERGE and FOREACH leaves a cached      *)
(* column behind its table. Of the leapfrog join: it is the join of one      *)
(* frame after the other. Of the variable-length patterns: the search finds  *)
(* the ends of all walks. Of predicates and aggregates: the evaluators, and  *)
(* SQL where it takes over, decide what Cypher means, and a group has the    *)
(* values of its own rows.                                                   *)
EXTENDS GraphQuery, Paths, LeapfrogTriejoin, Expressions, DataInduction, FiniteSetTheorems, TLAPS

--------------------------------------------------------------------------------
(* A query run clause by clause. First, lists of rows. *)

\* A list has its positions 1 .. Len and is made of what it holds there.
LEMMA ListFacts ==
    ASSUME NEW s, IsList(s)
    PROVE  /\ Len(s) \in Nat /\ DOMAIN s = 1 .. Len(s) /\ s = [i \in 1 .. Len(s) |-> s[i]]
           /\ \A i \in DOMAIN s : s[i] \in Range(s)
<1>1. s \in Seq(Range(s))
  BY DEF IsList
<1>. QED
  BY <1>1

\* What has the positions 1 .. n is a list of n.
LEMMA ListOf ==
    ASSUME NEW n \in Nat, NEW s, s = [i \in 1 .. n |-> s[i]]
    PROVE  IsList(s) /\ Len(s) = n /\ DOMAIN s = 1 .. n
<1>1. DOMAIN s = 1 .. n
  OBVIOUS
<1>2. \A i \in 1 .. n : s[i] \in Range(s)
  BY <1>1 DEF Range
<1>3. s \in [1 .. n -> Range(s)]
  BY <1>1, <1>2
<1>4. s \in Seq(Range(s)) /\ Len(s) = n
  BY <1>3
<1>. QED
  BY <1>1, <1>4 DEF IsList

\* The empty list.
LEMMA NoRows == IsList(<<>>) /\ Len(<<>>) = 0 /\ DOMAIN <<>> = {}
  BY DEF IsList

\* One list behind another.
LEMMA JoinedLists ==
    ASSUME NEW s, IsList(s), NEW t, IsList(t)
    PROVE  /\ IsList(s \o t)
           /\ Len(s) \in Nat /\ Len(t) \in Nat /\ Len(s \o t) = Len(s) + Len(t)
           /\ DOMAIN (s \o t) = 1 .. Len(s) + Len(t)
           /\ \A i \in 1 .. Len(s) : (s \o t)[i] = s[i]
           /\ \A i \in 1 .. Len(t) : (s \o t)[Len(s) + i] = t[i]
<1>1. PICK S : S = Range(s) \union Range(t)
  OBVIOUS
<1>2. s \in Seq(S) /\ t \in Seq(S)
  <2>1. \A u : IsList(u) /\ Range(u) \subseteq S => u \in Seq(S)
    <3>. SUFFICES ASSUME NEW u, IsList(u), Range(u) \subseteq S PROVE u \in Seq(S)
      OBVIOUS
    <3>1. Len(u) \in Nat /\ DOMAIN u = 1 .. Len(u) /\ u = [i \in 1 .. Len(u) |-> u[i]]
          /\ \A i \in DOMAIN u : u[i] \in Range(u)
      BY ListFacts
    <3>2. u \in [1 .. Len(u) -> S]
      BY <3>1
    <3>. QED
      BY <3>1, <3>2
  <2>. QED
    BY <1>1, <2>1
<1>3. /\ s \o t \in Seq(S) /\ Len(s) \in Nat /\ Len(t) \in Nat /\ Len(s \o t) = Len(s) + Len(t)
      /\ \A i \in 1 .. Len(s) : (s \o t)[i] = s[i]
  BY <1>2
<1>4. \A i \in 1 .. Len(t) : (s \o t)[Len(s) + i] = t[i]
  <2>. SUFFICES ASSUME NEW i \in 1 .. Len(t) PROVE (s \o t)[Len(s) + i] = t[i]
    OBVIOUS
  <2>1. Len(s) + i \in 1 .. Len(s) + Len(t) /\ ~(Len(s) + i <= Len(s)) /\ (Len(s) + i) - Len(s) = i
    BY <1>3
  <2>. QED
    BY <1>2, <1>3, <2>1, ConcatProperties
<1>5. s \o t = [i \in 1 .. Len(s \o t) |-> (s \o t)[i]]
  <2>1. PICK r \in Seq(S) : r = s \o t
    BY <1>3
  <2>2. r = [i \in 1 .. Len(r) |-> r[i]]
    OBVIOUS
  <2>. QED
    BY <2>1, <2>2
<1>6. PICK n \in Nat : n = Len(s \o t)
  BY <1>3
<1>7. IsList(s \o t) /\ DOMAIN (s \o t) = 1 .. n
  BY <1>5, <1>6, ListOf
<1>. QED
  BY <1>3, <1>4, <1>6, <1>7

\* What is left of a list of rows by a set of positions.
LEMMA RowsAtShape ==
    ASSUME NEW rows, IsList(rows), NEW at, at \subseteq DOMAIN rows
    PROVE  /\ IsFiniteSet(at) /\ Cardinality(at) \in Nat
           /\ IsList(RowsAt(rows, at)) /\ Len(RowsAt(rows, at)) = Cardinality(at)
           /\ DOMAIN RowsAt(rows, at) = DOMAIN InOrder(at)
           /\ DOMAIN InOrder(at) = 1 .. Cardinality(at)
           /\ \A k \in DOMAIN InOrder(at) :
                InOrder(at)[k] \in at /\ RowsAt(rows, at)[k] = rows[InOrder(at)[k]]
           /\ \A j, k \in DOMAIN InOrder(at) : j < k => InOrder(at)[j] < InOrder(at)[k]
           /\ \A i \in at : \E k \in DOMAIN InOrder(at) : InOrder(at)[k] = i
<1>1. IsFiniteSet(at) /\ at \in SUBSET Int
  <2>1. Len(rows) \in Nat /\ DOMAIN rows = 1 .. Len(rows)
    BY ListFacts
  <2>2. IsFiniteSet(1 .. Len(rows))
    BY <2>1, FS_Interval
  <2>. QED
    BY <2>1, <2>2, FS_Subset
<1>2. PICK places : places = InOrder(at)
  OBVIOUS
<1>3. /\ places \in Seq(at) /\ Cardinality(at) \in Nat /\ Len(places) = Cardinality(at)
      /\ DOMAIN places = 1 .. Len(places)
      /\ \A i, j \in 1 .. Len(places) : i < j => places[i] < places[j]
      /\ Range(places) = at
  BY <1>1, <1>2, AscendingSequence DEF InOrder
<1>4. PICK left : left = RowsAt(rows, at)
  OBVIOUS
<1>5. left = [k \in DOMAIN places |-> rows[places[k]]]
  BY <1>2, <1>4 DEF RowsAt
<1>6. left = [k \in 1 .. Cardinality(at) |-> left[k]] /\ \A k \in DOMAIN places : left[k] = rows[places[k]]
  BY <1>3, <1>5
<1>7. IsList(left) /\ Len(left) = Cardinality(at) /\ DOMAIN left = 1 .. Cardinality(at)
  BY <1>3, <1>6, ListOf
<1>8. \A k \in DOMAIN places : places[k] \in at
  BY <1>3
<1>9. \A i \in at : \E k \in DOMAIN places : places[k] = i
  BY <1>3 DEF Range
<1>. QED
  BY <1>1, <1>2, <1>3, <1>4, <1>6, <1>7, <1>8, <1>9

\* FlattenSeq joins one list after another.
FlatOf(f, ss, n) == f = [i \in 1 .. n |-> IF i = 1 THEN ss[i] ELSE f[i - 1] \o ss[i]]

LEMMA FlattenedRuns ==
    ASSUME NEW ss, IsList(ss), Len(ss) # 0
    PROVE  \E f : FlatOf(f, ss, Len(ss)) /\ FlattenSeq(ss) = f[Len(ss)]
<1>. DEFINE S == {n \in Nat : \E f : FlatOf(f, ss, n)}
<1>1. 0 \in S
  <2>1. FlatOf([i \in 1 .. 0 |-> ss[i]], ss, 0)
    BY DEF FlatOf
  <2>. QED
    BY <2>1
<1>2. ASSUME NEW n \in S PROVE n + 1 \in S
  <2>1. PICK f : FlatOf(f, ss, n)
    BY <1>2
  <2>. DEFINE g == [i \in 1 .. (n + 1) |-> IF i = 1 THEN ss[i] ELSE f[i - 1] \o ss[i]]
  <2>2. n \in Nat
    OBVIOUS
  <2>3. \A i \in 1 .. n : g[i] = f[i]
    <3>1. \A i \in 1 .. n : f[i] = IF i = 1 THEN ss[i] ELSE f[i - 1] \o ss[i]
      BY <2>1 DEF FlatOf
    <3>2. \A i \in 1 .. n : i \in 1 .. (n + 1)
      BY <2>2
    <3>. QED
      BY <3>1, <3>2
  <2>4. \A i \in 1 .. (n + 1) : i # 1 => i - 1 \in 1 .. n
    BY <2>2
  <2>5. \A i \in 1 .. (n + 1) : g[i] = IF i = 1 THEN ss[i] ELSE g[i - 1] \o ss[i]
    BY <2>3, <2>4
  <2>6. g = [i \in 1 .. (n + 1) |-> g[i]]
    OBVIOUS
  <2>. HIDE DEF g
  <2>7. FlatOf(g, ss, n + 1)
    BY <2>5, <2>6 DEF FlatOf
  <2>8. \E h : FlatOf(h, ss, n + 1)
    BY <2>7
  <2>. QED
    BY <2>2, <2>8
<1>3. S = Nat
  <2>1. S \in SUBSET Nat
    OBVIOUS
  <2>. HIDE DEF S
  <2>. QED
    BY <1>1, <1>2, <2>1, SetInduction
<1>4. Len(ss) \in Nat
  BY ListFacts
<1>5. \E f : FlatOf(f, ss, Len(ss))
  BY <1>3, <1>4
<1>6. FlattenSeq(ss) = (CHOOSE f : FlatOf(f, ss, Len(ss)))[Len(ss)]
  BY DEF FlattenSeq, FlatOf
<1>. QED
  BY <1>5, <1>6

\* Lists joined to one.
LEMMA FlattenedIsList ==
    ASSUME NEW ss, IsList(ss), \A i \in DOMAIN ss : IsList(ss[i])
    PROVE  IsList(FlattenSeq(ss))
<1>1. Len(ss) \in Nat /\ DOMAIN ss = 1 .. Len(ss)
  BY ListFacts
<1>2. CASE Len(ss) = 0
  BY <1>2 DEF FlattenSeq
<1>3. CASE Len(ss) # 0
  <2>1. PICK f : FlatOf(f, ss, Len(ss)) /\ FlattenSeq(ss) = f[Len(ss)]
    BY <1>3, FlattenedRuns
  <2>. DEFINE L == {n \in Nat : n + 1 <= Len(ss) => IsList(f[n + 1])}
  <2>2. \A i \in 1 .. Len(ss) : f[i] = IF i = 1 THEN ss[i] ELSE f[i - 1] \o ss[i]
    BY <2>1 DEF FlatOf
  <2>3. 0 \in L
    BY <1>1, <1>3, <2>2
  <2>4. ASSUME NEW n \in L PROVE n + 1 \in L
    <3>. SUFFICES ASSUME (n + 1) + 1 <= Len(ss) PROVE IsList(f[(n + 1) + 1])
      OBVIOUS
    <3>0. n \in Nat
      OBVIOUS
    <3>1. (n + 1) + 1 \in 1 .. Len(ss) /\ (n + 1) + 1 # 1 /\ ((n + 1) + 1) - 1 = n + 1 /\ n + 1 <= Len(ss)
      BY <1>1, <3>0
    <3>2. IsList(f[n + 1]) /\ IsList(ss[(n + 1) + 1])
      BY <1>1, <3>1
    <3>3. f[(n + 1) + 1] = f[n + 1] \o ss[(n + 1) + 1]
      BY <2>2, <3>1
    <3>. QED
      BY <3>2, <3>3, JoinedLists
  <2>5. L = Nat
    <3>1. L \in SUBSET Nat
      OBVIOUS
    <3>. HIDE DEF L
    <3>. QED
      BY <2>3, <2>4, <3>1, SetInduction
  <2>6. Len(ss) - 1 \in Nat /\ (Len(ss) - 1) + 1 = Len(ss)
    BY <1>1, <1>3
  <2>7. Len(ss) - 1 \in L
    BY <2>5, <2>6
  <2>. QED
    BY <1>1, <2>1, <2>6, <2>7
<1>. QED
  BY <1>2, <1>3

\* Two lists joined hold what either holds.
LEMMA RangeJoined ==
    ASSUME NEW s, IsList(s), NEW t, IsList(t)
    PROVE  Range(s \o t) = Range(s) \union Range(t)
<1>1. PICK m \in Nat, n \in Nat : m = Len(s) /\ n = Len(t) /\ DOMAIN s = 1 .. m /\ DOMAIN t = 1 .. n
  BY ListFacts
<1>2. PICK r : r = s \o t
  OBVIOUS
<1>3. /\ DOMAIN r = 1 .. m + n
      /\ \A i \in 1 .. m : r[i] = s[i]
      /\ \A i \in 1 .. n : r[m + i] = t[i]
  BY <1>1, <1>2, JoinedLists
<1>4. ASSUME NEW i \in 1 .. m + n PROVE r[i] \in Range(s) \union Range(t)
  <2>1. CASE i \in 1 .. m
    BY <1>1, <1>3, <2>1 DEF Range
  <2>2. CASE i \notin 1 .. m
    <3>1. i - m \in 1 .. n /\ m + (i - m) = i
      BY <1>4, <2>2
    <3>. QED
      BY <1>1, <1>3, <3>1 DEF Range
  <2>. QED
    BY <2>1, <2>2
<1>5. ASSUME NEW i \in 1 .. m PROVE s[i] \in Range(r)
  <2>1. i \in 1 .. m + n
    OBVIOUS
  <2>. QED
    BY <1>3, <2>1 DEF Range
<1>6. ASSUME NEW i \in 1 .. n PROVE t[i] \in Range(r)
  <2>1. m + i \in 1 .. m + n
    OBVIOUS
  <2>. QED
    BY <1>3, <2>1 DEF Range
<1>7. \A x \in Range(r) : x \in Range(s) \union Range(t)
  BY <1>3, <1>4 DEF Range
<1>8. \A x \in Range(s) \union Range(t) : x \in Range(r)
  BY <1>1, <1>5, <1>6 DEF Range
<1>. QED
  BY ONLY <1>2, <1>7, <1>8

\* Lists joined to one hold what each of them holds.
LEMMA FlattenedRange ==
    ASSUME NEW ss, IsList(ss), \A i \in DOMAIN ss : IsList(ss[i])
    PROVE  \A x : x \in Range(FlattenSeq(ss)) <=> \E i \in DOMAIN ss : x \in Range(ss[i])
<1>1. PICK N \in Nat : N = Len(ss) /\ DOMAIN ss = 1 .. N
  BY ListFacts
<1>2. CASE N = 0
  <2>1. FlattenSeq(ss) = ss /\ DOMAIN ss = {}
    BY <1>1, <1>2 DEF FlattenSeq
  <2>. QED
    BY <2>1 DEF Range
<1>3. CASE N # 0
  <2>1. PICK f : FlatOf(f, ss, N) /\ FlattenSeq(ss) = f[N]
    BY <1>1, <1>3, FlattenedRuns
  <2>2. \A i \in 1 .. N : f[i] = IF i = 1 THEN ss[i] ELSE f[i - 1] \o ss[i]
    BY <2>1 DEF FlatOf
  <2>. DEFINE Right(n) == IsList(f[n]) /\ \A x : x \in Range(f[n]) <=> \E i \in 1 .. n : x \in Range(ss[i])
              L == {n \in Nat : n + 1 <= N => Right(n + 1)}
  <2>3. 0 \in L
    <3>1. 1 \in 1 .. N /\ \A i \in 1 .. 1 : i = 1
      BY <1>3
    <3>2. f[1] = ss[1] /\ IsList(ss[1])
      BY <1>1, <2>2, <3>1
    <3>. QED
      BY <3>1, <3>2
  <2>4. ASSUME NEW n \in L PROVE n + 1 \in L
    <3>. SUFFICES ASSUME (n + 1) + 1 <= N PROVE Right((n + 1) + 1)
      OBVIOUS
    <3>1. n \in Nat
      OBVIOUS
    <3>2. PICK k \in 1 .. N : k = (n + 1) + 1
      BY <3>1
    <3>3. k # 1 /\ k - 1 = n + 1 /\ n + 1 <= N
      BY <3>1, <3>2
    <3>4. Right(n + 1)
      BY <3>3
    <3>5. f[k] = f[n + 1] \o ss[k] /\ IsList(ss[k])
      BY <1>1, <2>2, <3>3
    <3>6. IsList(f[k]) /\ Range(f[k]) = Range(f[n + 1]) \union Range(ss[k])
      BY <3>4, <3>5, JoinedLists, RangeJoined
    <3>7. \A i : i \in 1 .. k <=> i \in 1 .. (n + 1) \/ i = k
      BY <3>1, <3>2
    <3>8. Right(k)
      BY ONLY <3>4, <3>6, <3>7
    <3>. QED
      BY <3>2, <3>8
  <2>5. L = Nat
    <3>1. L \in SUBSET Nat
      OBVIOUS
    <3>. HIDE DEF L
    <3>. QED
      BY <2>3, <2>4, <3>1, SetInduction
  <2>6. N - 1 \in Nat /\ (N - 1) + 1 = N
    BY <1>3
  <2>7. Right(N)
    <3>. HIDE DEF Right
    <3>1. N - 1 \in L
      BY <2>5, <2>6
    <3>. QED
      BY <2>6, <3>1
  <2>. QED
    BY <1>1, <2>1, <2>7
<1>. QED
  BY <1>2, <1>3

--------------------------------------------------------------------------------
(* Folds. The operators that the model folds over, told apart by k: the      *)
(* provers know nothing of an operator that is an argument.                  *)

StepOf(k, acc, x) ==
    CASE k.op = "append" -> Append(acc, x)
      [] k.op = "filter" -> InlineFilter(acc, k.node, x)
      [] k.op = "join" -> UNION {CoerceJoins(fr, PathFrame(k.paths, k.pred, x)) : fr \in acc}
      [] k.op = "read" -> Reading(k.st, acc, k.item.values[x])
      [] k.op = "set" -> SetItem(x, acc)
      [] k.op = "create" -> CreatePath(acc, k.frame, x)

Folded(g, k, base, S, pick, elem) ==
    g = [s \in SUBSET S |-> IF s = {} THEN base ELSE StepOf(k, g[s \ {pick[s]}], elem[pick[s]])]

\* What a fold makes of every subset.
LEMMA FoldExists ==
    ASSUME NEW k, NEW base, NEW S, IsFiniteSet(S), NEW pick, NEW elem,
           \A s \in SUBSET S : s # {} => pick[s] \in s
    PROVE  \E g : Folded(g, k, base, S, pick, elem)
<1>. DEFINE D(n) == {s \in SUBSET S : Cardinality(s) <= n}
            Next1(g, s) == IF s = {} THEN base ELSE StepOf(k, g[s \ {pick[s]}], elem[pick[s]])
            Upto(g, n) == g = [s \in D(n) |-> Next1(g, s)]
            N == {n \in Nat : \E g : Upto(g, n)}
<1>1. \A s \in SUBSET S : IsFiniteSet(s) /\ Cardinality(s) \in Nat
  BY FS_Subset, FS_CardinalityType
<1>2. 0 \in N
  <2>. DEFINE g == [s \in D(0) |-> base]
  <2>1. \A s \in D(0) : s = {}
    BY <1>1, FS_EmptySet
  <2>2. \A s \in D(0) : Next1(g, s) = base
    BY <2>1
  <2>3. Upto(g, 0)
    BY <2>2
  <2>. HIDE DEF g, Upto
  <2>. QED
    BY <2>3
<1>3. ASSUME NEW n \in N PROVE n + 1 \in N
  <2>1. n \in Nat
    OBVIOUS
  <2>2. PICK g : Upto(g, n)
    BY <1>3
  <2>. DEFINE h == [s \in D(n + 1) |-> Next1(g, s)]
  <2>3. \A s \in D(n) : s \in D(n + 1)
    BY <1>1, <2>1
  <2>. HIDE DEF Next1
  <2>4. \A s \in D(n) : h[s] = g[s]
    <3>1. \A s \in D(n) : g[s] = Next1(g, s)
      BY <2>2
    <3>2. \A s \in D(n) : h[s] = Next1(g, s)
      BY <2>3
    <3>. QED
      BY ONLY <3>1, <3>2
  <2>5. ASSUME NEW s \in D(n + 1), s # {} PROVE s \ {pick[s]} \in D(n)
    <3>1. pick[s] \in s
      BY <2>5
    <3>2. Cardinality(s \ {pick[s]}) = Cardinality(s) - 1
      BY <1>1, <3>1, FS_RemoveElement
    <3>. QED
      BY <1>1, <2>1, <3>2
  <2>. HIDE DEF h, D
  <2>6. \A s \in D(n + 1) : Next1(g, s) = Next1(h, s)
    BY <2>4, <2>5 DEF Next1
  <2>7. h = [s \in D(n + 1) |-> Next1(h, s)]
    BY <2>6 DEF h
  <2>8. Upto(h, n + 1)
    BY <2>7
  <2>. HIDE DEF Upto
  <2>. QED
    BY <2>1, <2>8
<1>4. N = Nat
  <2>1. N \in SUBSET Nat
    OBVIOUS
  <2>. HIDE DEF N
  <2>. QED
    BY <1>2, <1>3, <2>1, SetInduction
<1>5. Cardinality(S) \in Nat /\ D(Cardinality(S)) = SUBSET S
  <2>1. \A s \in SUBSET S : Cardinality(s) <= Cardinality(S)
    BY FS_Subset
  <2>. QED
    BY <1>1, <2>1
<1>6. PICK g : Upto(g, Cardinality(S))
  BY <1>4, <1>5, ZenonT(60)
<1>. HIDE DEF D
<1>7. g = [s \in SUBSET S |-> Next1(g, s)]
  BY ONLY <1>5, <1>6
<1>. QED
  BY ONLY <1>7 DEF Folded

\* A fold over a list goes through it once, from the left.
Run(run, k, base, seq) ==
    run[0] = base /\ \A i \in 1 .. Len(seq) : run[i] = StepOf(k, run[i - 1], seq[i])

LeftFold(k, base, seq) == FoldLeft(LAMBDA acc, x : StepOf(k, acc, x), base, seq)

\* FoldLeft is the end of a run along the list.
LEMMA LeftFoldRuns ==
    ASSUME NEW k, NEW base, NEW seq, IsList(seq)
    PROVE  \E run : /\ Run(run, k, base, seq)
                    /\ LeftFold(k, base, seq) = run[Len(seq)]
<1>1. Len(seq) \in Nat /\ DOMAIN seq = 1 .. Len(seq)
  BY ListFacts
<1>. DEFINE S == DOMAIN seq
            pick == [s \in SUBSET S |-> Max(s)]
            Good(g) == g = [s \in SUBSET S |-> IF s = {} THEN base
                ELSE StepOf(k, g[s \ {Max(s)}], seq[Max(s)])]
<1>2. IsFiniteSet(S)
  BY <1>1, FS_Interval
<1>3. ASSUME NEW s \in SUBSET S, s # {} PROVE Max(s) \in s /\ \A y \in s : Max(s) >= y
  <2>. DEFINE T == {Len(seq) - x : x \in s}
  <2>1. T \in SUBSET Nat /\ T # {}
    BY <1>1, <1>3
  <2>. HIDE DEF T
  <2>2. PICK n \in T : \A m \in T : n <= m
    BY <2>1, Least
  <2>3. PICK x \in s : n = Len(seq) - x
    BY <2>2 DEF T
  <2>4. ASSUME NEW y \in s PROVE x >= y
    <3>1. Len(seq) - y \in T /\ x \in Int /\ y \in Int
      BY <1>1 DEF T
    <3>. QED
      BY <1>1, <2>2, <2>3, <3>1
  <2>. QED
    BY <2>4 DEF Max
<1>4. \E g : Good(g)
  <2>1. \A s \in SUBSET S : s # {} => pick[s] \in s
    BY <1>3
  <2>2. PICK g : Folded(g, k, base, S, pick, seq)
    BY <1>2, <2>1, FoldExists
  <2>3. Good(g)
    <3>1. \A s \in SUBSET S : pick[s] = Max(s)
      OBVIOUS
    <3>. HIDE DEF pick
    <3>. QED
      BY <2>2, <3>1 DEF Folded
  <2>. HIDE DEF Good
  <2>. QED
    BY <2>3
<1>5. LeftFold(k, base, seq) = (CHOOSE g : Good(g))[S]
  BY DEF LeftFold, FoldLeft, MapThenFoldSet
<1>. HIDE DEF Good
<1>6. PICK g : Good(g) /\ LeftFold(k, base, seq) = g[S]
  BY <1>4, <1>5
<1>. DEFINE run == [i \in 0 .. Len(seq) |-> g[1 .. i]]
<1>7. g[{}] = base /\ \A s \in SUBSET S : s # {} => g[s] = StepOf(k, g[s \ {Max(s)}], seq[Max(s)])
  BY <1>6 DEF Good
<1>8. run[0] = base
  BY <1>1, <1>7
<1>9. ASSUME NEW i \in 1 .. Len(seq) PROVE run[i] = StepOf(k, run[i - 1], seq[i])
  <2>1. 1 .. i \in SUBSET S /\ 1 .. i # {} /\ i \in 1 .. i
    BY <1>1
  <2>2. Max(1 .. i) = i
    <3>1. Max(1 .. i) \in 1 .. i /\ Max(1 .. i) >= i
      BY <1>3, <2>1
    <3>. QED
      BY <1>1, <3>1
  <2>3. (1 .. i) \ {i} = 1 .. (i - 1) /\ i \in 0 .. Len(seq) /\ i - 1 \in 0 .. Len(seq)
    BY <1>1
  <2>4. g[1 .. i] = StepOf(k, g[1 .. (i - 1)], seq[i])
    BY <1>7, <2>1, <2>2, <2>3
  <2>. QED
    BY <2>3, <2>4
<1>10. run[Len(seq)] = g[S]
  BY <1>1
<1>. HIDE DEF run
<1>. QED
  BY <1>6, <1>8, <1>9, <1>10 DEF Run

\* A fold over a set goes through it once, in some order.
SetRun(g, k, base, S) ==
    /\ g[{}] = base
    /\ \A s \in SUBSET S : s # {} => \E x \in s : g[s] = StepOf(k, g[s \ {x}], x)
SetFold(k, base, S) == FoldSet(LAMBDA x, acc : StepOf(k, acc, x), base, S)

\* FoldSet is the end of a run through the set.
LEMMA SetFoldRuns ==
    ASSUME NEW k, NEW base, NEW S, IsFiniteSet(S)
    PROVE  \E g : SetRun(g, k, base, S) /\ SetFold(k, base, S) = g[S]
<1>. DEFINE pick == [s \in SUBSET S |-> AnyOf(s)]
            elem == [x \in S |-> x]
            Good(g) == g = [s \in SUBSET S |-> IF s = {} THEN base
                ELSE StepOf(k, g[s \ {AnyOf(s)}], AnyOf(s))]
<1>1. \A s \in SUBSET S : s # {} => AnyOf(s) \in s
  BY DEF AnyOf
<1>2. \E g : Good(g)
  <2>1. \A s \in SUBSET S : s # {} => pick[s] \in s
    BY <1>1
  <2>2. PICK g : Folded(g, k, base, S, pick, elem)
    BY <2>1, FoldExists
  <2>3. Good(g)
    <3>1. \A s \in SUBSET S : pick[s] = AnyOf(s) /\ (s # {} => elem[AnyOf(s)] = AnyOf(s))
      BY <1>1
    <3>. HIDE DEF pick, elem
    <3>. QED
      BY <2>2, <3>1 DEF Folded
  <2>. HIDE DEF Good
  <2>. QED
    BY <2>3
<1>3. SetFold(k, base, S) = (CHOOSE g : Good(g))[S]
  BY DEF SetFold, FoldSet, MapThenFoldSet, AnyOf
<1>. HIDE DEF Good
<1>4. PICK g : Good(g) /\ SetFold(k, base, S) = g[S]
  BY <1>2, <1>3
<1>5. g[{}] = base /\ \A s \in SUBSET S : s # {} => g[s] = StepOf(k, g[s \ {AnyOf(s)}], AnyOf(s))
  BY <1>4 DEF Good
<1>6. SetRun(g, k, base, S)
  BY <1>1, <1>5 DEF SetRun
<1>. QED
  BY <1>4, <1>6

--------------------------------------------------------------------------------
FoldedLeft(g, k, base, seq) ==
    g = [s \in SUBSET DOMAIN seq |-> IF s = {} THEN base ELSE StepOf(k, g[s \ {Max(s)}], seq[Max(s)])]
FoldedSet(g, k, base, S) ==
    g = [s \in SUBSET S |-> IF s = {} THEN base ELSE StepOf(k, g[s \ {AnyOf(s)}], AnyOf(s))]

TheFoldLeft(k, base, seq) == CHOOSE g : FoldedLeft(g, k, base, seq)
TheFoldSet(k, base, S) == CHOOSE g : FoldedSet(g, k, base, S)

\* Either fold depends on its operator only by its values.
LEMMA FoldsAre ==
    ASSUME NEW k, NEW base, NEW S
    PROVE  /\ LeftFold(k, base, S) = TheFoldLeft(k, base, S)[DOMAIN S]
           /\ SetFold(k, base, S) = TheFoldSet(k, base, S)[S]
<1>1. LeftFold(k, base, S) = TheFoldLeft(k, base, S)[DOMAIN S]
  BY DEF LeftFold, FoldLeft, MapThenFoldSet, TheFoldLeft, FoldedLeft
<1>2. SetFold(k, base, S) = TheFoldSet(k, base, S)[S]
  BY DEF SetFold, FoldSet, MapThenFoldSet, TheFoldSet, FoldedSet, AnyOf
<1>. QED
  BY <1>1, <1>2

\* set_properties goes item by item.
LEMMA SetPropertiesRun ==
    ASSUME NEW st, NEW fr, NEW items, IsList(items)
    PROVE  \E run : /\ SetProperties(st, fr, items) = run[Len(items)]
                    /\ run[0] = [st EXCEPT !.frame = fr]
                    /\ \A i \in 1 .. Len(items) :
                         run[i] = SetItem(items[i], run[i - 1])
<1>. DEFINE k == [op |-> "set"]
            base == [st EXCEPT !.frame = fr]
            Make(acc, x) == SetItem(x, acc)
            One(g) == g = [s \in SUBSET DOMAIN items |->
                             IF s = {} THEN base
                             ELSE Make(g[s \ {Max(s)}], items[Max(s)])]
<1>1. \A acc, x : StepOf(k, acc, x) = Make(acc, x)
  BY DEF StepOf
<1>2. SetProperties(st, fr, items) = (CHOOSE g : One(g))[DOMAIN items]
  BY DEF SetProperties, FoldLeft, MapThenFoldSet
<1>. HIDE DEF k, base, Make
<1>3. \A g : One(g) <=> FoldedLeft(g, k, base, items)
  BY ONLY <1>1 DEF FoldedLeft, One
<1>. HIDE DEF One
<1>4. (CHOOSE g : One(g)) = TheFoldLeft(k, base, items)
  BY <1>3, Zenon DEF TheFoldLeft
<1>a. LeftFold(k, base, items) = TheFoldLeft(k, base, items)[DOMAIN items]
  BY ONLY FoldsAre
<1>5. SetProperties(st, fr, items) = LeftFold(k, base, items)
  BY ONLY <1>2, <1>4, <1>a
<1>6. PICK run : Run(run, k, base, items) /\ LeftFold(k, base, items) = run[Len(items)]
  BY LeftFoldRuns
<1>7. \A i \in 1 .. Len(items) : run[i] = Make(run[i - 1], items[i])
  BY <1>1, <1>6 DEF Run
<1>8. run[0] = [st EXCEPT !.frame = fr]
  BY <1>6 DEF Run, base
<1>. QED
  BY <1>5, <1>6, <1>7, <1>8 DEF Make

CreateStart(st) == [st EXCEPT !.ends = <<>>, !.made = <<>>, !.types = <<>>]

\* process_create goes path by path.
LEMMA ProcessCreateRun ==
    ASSUME NEW st, NEW fr, NEW paths, IsList(paths)
    PROVE  \E run : /\ ProcessCreate(st, fr, paths) = run[Len(paths)]
                    /\ run[0] = CreateStart(st)
                    /\ \A i \in 1 .. Len(paths) :
                         run[i] = CreatePath(run[i - 1], fr, paths[i])
<1>. DEFINE k == [op |-> "create", frame |-> fr]
            base == CreateStart(st)
            Make(acc, x) == CreatePath(acc, fr, x)
            One(g) == g = [s \in SUBSET DOMAIN paths |->
                             IF s = {} THEN base
                             ELSE Make(g[s \ {Max(s)}], paths[Max(s)])]
<1>1. \A acc, x : StepOf(k, acc, x) = Make(acc, x)
  BY DEF StepOf
<1>2. ProcessCreate(st, fr, paths) = (CHOOSE g : One(g))[DOMAIN paths]
  BY DEF ProcessCreate, CreateStart, FoldLeft, MapThenFoldSet
<1>. HIDE DEF k, base, Make
<1>3. \A g : One(g) <=> FoldedLeft(g, k, base, paths)
  BY ONLY <1>1 DEF FoldedLeft, One
<1>. HIDE DEF One
<1>4. (CHOOSE g : One(g)) = TheFoldLeft(k, base, paths)
  BY <1>3, Zenon DEF TheFoldLeft
<1>a. LeftFold(k, base, paths) = TheFoldLeft(k, base, paths)[DOMAIN paths]
  BY ONLY FoldsAre
<1>5. ProcessCreate(st, fr, paths) = LeftFold(k, base, paths)
  BY ONLY <1>2, <1>4, <1>a
<1>6. PICK run : Run(run, k, base, paths) /\ LeftFold(k, base, paths) = run[Len(paths)]
  BY LeftFoldRuns
<1>7. \A i \in 1 .. Len(paths) : run[i] = Make(run[i - 1], paths[i])
  BY <1>1, <1>6 DEF Run
<1>8. run[0] = CreateStart(st)
  BY <1>6 DEF Run, base
<1>. QED
  BY <1>5, <1>6, <1>7, <1>8 DEF Make

JoinRuns(run, paths, pred, others) ==
    /\ run[0] = {PathFrame(paths, pred, 1)}
    /\ \A i \in 1 .. Len(others) :
         run[i] = UNION {CoerceJoins(fr, PathFrame(paths, pred, others[i])) : fr \in run[i - 1]}

\* The frames of a pattern are joined path by path.
LEMMA MatchFramesRun ==
    ASSUME NEW paths, NEW pred, NEW others, others = Tail([i \in DOMAIN paths |-> i]), IsList(others)
    PROVE  \E run : MatchFrames(paths, pred) = run[Len(others)] /\ JoinRuns(run, paths, pred, others)
<1>. DEFINE k == [op |-> "join", paths |-> paths, pred |-> pred]
            base == {PathFrame(paths, pred, 1)}
            Make(acc, x) == UNION {CoerceJoins(fr, PathFrame(paths, pred, x)) : fr \in acc}
            One(g) == g = [s \in SUBSET DOMAIN others |->
                             IF s = {} THEN base
                             ELSE Make(g[s \ {Max(s)}], others[Max(s)])]
<1>1. \A acc, x : StepOf(k, acc, x) = Make(acc, x)
  BY DEF StepOf
<1>2. MatchFrames(paths, pred) = (CHOOSE g : One(g))[DOMAIN others]
  BY DEF MatchFrames, FoldLeft, MapThenFoldSet
<1>. HIDE DEF k, base, Make
<1>3. \A g : One(g) <=> FoldedLeft(g, k, base, others)
  BY ONLY <1>1 DEF FoldedLeft, One
<1>. HIDE DEF One
<1>4. (CHOOSE g : One(g)) = TheFoldLeft(k, base, others)
  BY <1>3, Zenon DEF TheFoldLeft
<1>a. LeftFold(k, base, others) = TheFoldLeft(k, base, others)[DOMAIN others]
  BY ONLY FoldsAre
<1>5. MatchFrames(paths, pred) = LeftFold(k, base, others)
  BY ONLY <1>2, <1>4, <1>a
<1>6. PICK run : Run(run, k, base, others) /\ LeftFold(k, base, others) = run[Len(others)]
  BY LeftFoldRuns
<1>7. \A i \in 1 .. Len(others) : run[i] = Make(run[i - 1], others[i])
  BY <1>1, <1>6 DEF Run
<1>8. run[0] = {PathFrame(paths, pred, 1)}
  BY <1>6 DEF Run, base
<1>9. JoinRuns(run, paths, pred, others)
  BY <1>7, <1>8 DEF Make, JoinRuns
<1>. QED
  BY <1>5, <1>6, <1>9

Filters(n, reached, S) == FoldSet(LAMBDA p, fr : InlineFilter(fr, n, p), reached, S)

FilterRuns(g, n, reached, S) ==
    /\ g[{}] = reached
    /\ \A s \in SUBSET S : s # {} => \E p \in s : g[s] = InlineFilter(g[s \ {p}], n, p)

\* The filters of the far node are applied one by one.
LEMMA FiltersRun ==
    ASSUME NEW n, NEW reached, NEW S, IsFiniteSet(S)
    PROVE  \E g : Filters(n, reached, S) = g[S] /\ FilterRuns(g, n, reached, S)
<1>. DEFINE k == [op |-> "filter", node |-> n]
            Make(acc, x) == InlineFilter(acc, n, x)
            One(g) == g = [s \in SUBSET S |-> IF s = {} THEN reached ELSE Make(g[s \ {AnyOf(s)}], AnyOf(s))]
<1>1. \A acc, x : StepOf(k, acc, x) = Make(acc, x)
  BY DEF StepOf
<1>2. Filters(n, reached, S) = (CHOOSE g : One(g))[S]
  BY DEF Filters, FoldSet, MapThenFoldSet, AnyOf
<1>. HIDE DEF k, Make
<1>3. \A g : One(g) <=> FoldedSet(g, k, reached, S)
  BY <1>1 DEF FoldedSet
<1>. HIDE DEF One
<1>4. (CHOOSE g : One(g)) = TheFoldSet(k, reached, S)
  BY <1>3, Zenon DEF TheFoldSet
<1>a. SetFold(k, reached, S) = TheFoldSet(k, reached, S)[S]
  BY ONLY FoldsAre
<1>5. Filters(n, reached, S) = SetFold(k, reached, S)
  BY ONLY <1>2, <1>4, <1>a
<1>6. PICK g : SetRun(g, k, reached, S) /\ SetFold(k, reached, S) = g[S]
  BY SetFoldRuns
<1>7. \A s \in SUBSET S : s # {} => \E p \in s : g[s] = Make(g[s \ {p}], p)
  BY <1>1, <1>6 DEF SetRun
<1>8. FilterRuns(g, n, reached, S)
  BY <1>6, <1>7 DEF Make, SetRun, FilterRuns
<1>. QED
  BY <1>5, <1>6, <1>8

Reads(st, fr, item, S) == FoldSet(LAMBDA p, f : Reading(st, f, item.values[p]), fr, S)

ReadRuns(g, st, fr, item, S) ==
    /\ g[{}] = fr
    /\ \A s \in SUBSET S : s # {} => \E p \in s : g[s] = Reading(st, g[s \ {p}], item.values[p])

\* The expressions of an item are read one by one.
LEMMA ReadsRun ==
    ASSUME NEW st, NEW fr, NEW item, NEW S, IsFiniteSet(S)
    PROVE  \E g : Reads(st, fr, item, S) = g[S] /\ ReadRuns(g, st, fr, item, S)
<1>. DEFINE k == [op |-> "read", st |-> st, item |-> item]
            Make(acc, x) == Reading(st, acc, item.values[x])
            One(g) == g = [s \in SUBSET S |-> IF s = {} THEN fr ELSE Make(g[s \ {AnyOf(s)}], AnyOf(s))]
<1>1. \A acc, x : StepOf(k, acc, x) = Make(acc, x)
  BY DEF StepOf
<1>2. Reads(st, fr, item, S) = (CHOOSE g : One(g))[S]
  BY DEF Reads, FoldSet, MapThenFoldSet, AnyOf
<1>. HIDE DEF k, Make
<1>3. \A g : One(g) <=> FoldedSet(g, k, fr, S)
  BY <1>1 DEF FoldedSet
<1>. HIDE DEF One
<1>4. (CHOOSE g : One(g)) = TheFoldSet(k, fr, S)
  BY <1>3, Zenon DEF TheFoldSet
<1>a. SetFold(k, fr, S) = TheFoldSet(k, fr, S)[S]
  BY ONLY FoldsAre
<1>5. Reads(st, fr, item, S) = SetFold(k, fr, S)
  BY ONLY <1>2, <1>4, <1>a
<1>6. PICK g : SetRun(g, k, fr, S) /\ SetFold(k, fr, S) = g[S]
  BY SetFoldRuns
<1>7. \A s \in SUBSET S : s # {} => \E p \in s : g[s] = Make(g[s \ {p}], p)
  BY <1>1, <1>6 DEF SetRun
<1>8. ReadRuns(g, st, fr, item, S)
  BY <1>6, <1>7 DEF Make, SetRun, ReadRuns
<1>. QED
  BY <1>5, <1>6, <1>8

--------------------------------------------------------------------------------
(* Tables. *)

\* Before its first write a query has no copy.
LEMMA NoTableFacts == IsTable(<<>>) /\ AreTables(NoTables)
  BY NoRows DEF IsTable, AreTables, NoTables

\* A copy put in place is what is seen of its type.
LEMMA SeenPut ==
    ASSUME NEW copies, NEW tables, NEW t, NEW T, NEW u
    PROVE  Seen(Put(copies, t, T), tables, u) = IF u = t THEN T ELSE Seen(copies, tables, u)
BY DEF Seen, Put

\* Copies laid over copies are what is seen of their types.
LEMMA SeenOver ==
    ASSUME NEW copies, NEW more, NEW tables, NEW u
    PROVE  Seen(Over(more, copies), tables, u) =
             IF u \in DOMAIN more THEN more[u] ELSE Seen(copies, tables, u)
BY DEF Seen, Over

\* Another copy that is a table.
LEMMA PutTable ==
    ASSUME NEW copies, AreTables(copies), NEW t, NEW T, IsTable(T)
    PROVE  AreTables(Put(copies, t, T))
BY DEF AreTables, Put

\* Tables over tables.
LEMMA OverTables ==
    ASSUME NEW copies, AreTables(copies), NEW more, AreTables(more)
    PROVE  AreTables(Over(more, copies))
BY DEF AreTables, Over

\* What is seen of a type is a table, empty if there is none.
LEMMA SeenIsTable ==
    ASSUME NEW copies, AreTables(copies), NEW tables, AreTables(tables), NEW t
    PROVE  IsTable(Seen(copies, tables, t))
BY NoTableFacts DEF Seen, AreTables

\* A table, spelled out.
LEMMA TableFacts ==
    ASSUME NEW T, IsTable(T)
    PROVE  /\ IsList(T) /\ Len(T) \in Nat /\ DOMAIN T = 1 .. Len(T)
           /\ \A i \in DOMAIN T : "id" \in DOMAIN T[i] /\ T[i].id \in Int
           /\ \A i, j \in DOMAIN T : T[i].id = T[j].id => i = j
BY ListFacts DEF IsTable

\* Appending nothing is to append, and so is appending twice.
LEMMA GrowsFacts ==
    /\ \A T : IsTable(T) => Graph!Grows(T, T)
    /\ \A T, U, V : IsTable(T) /\ IsTable(U) /\ IsTable(V) /\ Graph!Grows(T, U) /\ Graph!Grows(U, V)
                    => Graph!Grows(T, V)
<1>1. ASSUME NEW T, IsTable(T) PROVE Graph!Grows(T, T)
  <2>1. Len(T) \in Nat /\ DOMAIN T = 1 .. Len(T)
    BY <1>1, TableFacts
  <2>. QED
    BY <2>1 DEF Graph!Grows
<1>2. ASSUME NEW T, NEW U, NEW V, IsTable(T), IsTable(U), IsTable(V), Graph!Grows(T, U), Graph!Grows(U, V)
      PROVE  Graph!Grows(T, V)
  <2>. PICK a \in Nat, b \in Nat, c \in Nat : a = Len(T) /\ b = Len(U) /\ c = Len(V)
    BY <1>2, TableFacts
  <2>1. DOMAIN T = 1 .. a /\ DOMAIN U = 1 .. b /\ DOMAIN V = 1 .. c
    BY <1>2, TableFacts
  <2>2. /\ b >= a /\ \A i \in 1 .. a : U[i] = T[i]
        /\ \A i \in 1 .. b, j \in 1 .. b : i < j /\ j > a => U[i].id # U[j].id
    BY <1>2, <2>1 DEF Graph!Grows
  <2>3. /\ c >= b /\ \A i \in 1 .. b : V[i] = U[i]
        /\ \A i \in 1 .. c, j \in 1 .. c : i < j /\ j > b => V[i].id # V[j].id
    BY <1>2, <2>1 DEF Graph!Grows
  <2>4. c >= a /\ \A i \in 1 .. a : V[i] = T[i]
    BY <2>2, <2>3
  <2>5. ASSUME NEW i \in 1 .. c, NEW j \in 1 .. c, i < j, j > a PROVE V[i].id # V[j].id
    <3>1. CASE j > b
      BY <2>3, <2>5, <3>1
    <3>2. CASE ~(j > b)
      <4>1. i \in 1 .. b /\ j \in 1 .. b
        BY <2>5, <3>2
      <4>. QED
        BY <2>2, <2>3, <2>5, <4>1
    <3>. QED
      BY <3>1, <3>2
  <2>. QED
    BY <2>1, <2>4, <2>5 DEF Graph!Grows
<1>. QED
  BY <1>1, <1>2

\* Changing nothing is to change, and so is changing twice.
LEMMA ChangesFacts ==
    /\ \A T : IsTable(T) => Graph!Changes(T, T)
    /\ \A T, U, V : IsTable(T) /\ IsTable(U) /\ IsTable(V) /\ Graph!Changes(T, U) /\ Graph!Changes(U, V)
                    => Graph!Changes(T, V)
<1>1. \A T, U : IsTable(T) /\ IsTable(U) /\ Graph!Changes(T, U) => DOMAIN T = DOMAIN U
  BY TableFacts DEF Graph!Changes
<1>. QED
  BY <1>1 DEF Graph!Changes

\* Removing nothing is to remove, and so is removing twice.
LEMMA ShrinksFacts ==
    /\ \A T : IsTable(T) => Graph!Shrinks(T, T)
    /\ \A T, U, V : IsTable(T) /\ IsTable(U) /\ IsTable(V) /\ Graph!Shrinks(T, U) /\ Graph!Shrinks(U, V)
                    => Graph!Shrinks(T, V)
<1>1. ASSUME NEW T, IsTable(T) PROVE Graph!Shrinks(T, T)
  <2>1. \A k, i \in DOMAIN T : T[k] = T[i] => k = i
    BY <1>1 DEF IsTable
  <2>. QED
    BY <2>1 DEF Graph!Shrinks
<1>2. ASSUME NEW T, NEW U, NEW V, IsTable(T), IsTable(U),
             IsTable(V), Graph!Shrinks(T, U), Graph!Shrinks(U, V)
      PROVE  Graph!Shrinks(T, V)
  <2>1. \A k \in DOMAIN U : \E i \in DOMAIN T : U[k] = T[i]
    BY <1>2 DEF Graph!Shrinks
  <2>2. \A k \in DOMAIN V : \E i \in DOMAIN U : V[k] = U[i]
    BY <1>2 DEF Graph!Shrinks
  <2>3. ASSUME NEW k \in DOMAIN V, NEW m \in DOMAIN V, NEW i \in DOMAIN T, NEW j \in DOMAIN T,
               k < m, V[k] = T[i], V[m] = T[j]
        PROVE  i < j
    <3>1. PICK a \in DOMAIN U, b \in DOMAIN U : V[k] = U[a] /\ V[m] = U[b]
      BY <2>2
    <3>2. a < b
      BY <1>2, <2>3, <3>1 DEF Graph!Shrinks
    <3>. QED
      BY <1>2, <2>3, <3>1, <3>2 DEF Graph!Shrinks
  <2>. QED
    BY <2>1, <2>2, <2>3 DEF Graph!Shrinks
<1>. QED
  BY <1>1, <1>2

\* Some rows of a table are a table that shrank.
LEMMA RowsLeft ==
    ASSUME NEW T, IsTable(T), NEW at, at \subseteq DOMAIN T
    PROVE  IsTable(RowsAt(T, at)) /\ Graph!Shrinks(T, RowsAt(T, at))
<1>. PICK new : new = RowsAt(T, at)
  OBVIOUS
<1>. PICK places : places = InOrder(at)
  OBVIOUS
<1>. PICK n : n = Cardinality(at)
  OBVIOUS
<1>1. /\ IsList(T) /\ Len(T) \in Nat /\ DOMAIN T = 1 .. Len(T)
      /\ \A i \in DOMAIN T : "id" \in DOMAIN T[i] /\ T[i].id \in Int
      /\ \A i, j \in DOMAIN T : T[i].id = T[j].id => i = j
  BY TableFacts
<1>2. /\ n \in Nat /\ IsList(new) /\ DOMAIN new = 1 .. n
      /\ \A k \in 1 .. n : places[k] \in at /\ new[k] = T[places[k]]
      /\ \A j, k \in 1 .. n : j < k => places[j] < places[k]
  BY <1>1, RowsAtShape
<1>3. \A k \in 1 .. n, i \in DOMAIN T : places[k] \in DOMAIN T /\ (new[k].id = T[i].id => places[k] = i)
  BY <1>1, <1>2
<1>4. IsTable(new)
  <2>1. \A k \in 1 .. n : "id" \in DOMAIN new[k] /\ new[k].id \in Int
    BY <1>1, <1>2, <1>3
  <2>2. ASSUME NEW j \in 1 .. n, NEW k \in 1 .. n, new[j].id = new[k].id PROVE j = k
    <3>1. places[j] = places[k] /\ places[k] \in Int
      BY <1>1, <1>2, <1>3, <2>2
    <3>2. ~(places[j] < places[k]) /\ ~(places[k] < places[j])
      BY <3>1
    <3>3. ~(j < k) /\ ~(k < j) /\ j \in Int /\ k \in Int
      BY <1>2, <3>2
    <3>. QED
      BY <3>3
  <2>. QED
    BY <1>2, <2>1, <2>2 DEF IsTable
<1>5. Graph!Shrinks(T, new)
  <2>1. \A k \in DOMAIN new : \E i \in DOMAIN T : new[k] = T[i]
    BY <1>2, <1>3
  <2>2. ASSUME NEW k \in DOMAIN new, NEW m \in DOMAIN new, NEW i \in DOMAIN T, NEW j \in DOMAIN T,
               k < m, new[k] = T[i], new[m] = T[j]
        PROVE  i < j
    <3>1. k \in 1 .. n /\ m \in 1 .. n /\ places[k] = i /\ places[m] = j
      BY <1>2, <1>3, <2>2
    <3>. QED
      BY <1>2, <2>2, <3>1
  <2>. QED
    BY <2>1, <2>2 DEF Graph!Shrinks
<1>. QED
  BY <1>4, <1>5

--------------------------------------------------------------------------------
(* Mutations of the copies. *)

IsFrame(fr) == {"rows", "types", "cache"} \subseteq DOMAIN fr /\ IsList(fr.rows)

IsCopies(st) ==
    /\ {"shadow", "rels", "ok", "frame", "ends", "made", "types"} \subseteq DOMAIN st
    /\ AreTables(st.shadow) /\ AreTables(st.rels)

\* One of the three writes of PropertyGraph, on a table and on all of them.
Moves(step, old, new) ==
    \/ step = "grows" /\ Graph!Grows(old, new)
    \/ step = "changes" /\ Graph!Changes(old, new)
    \/ step = "shrinks" /\ Graph!Shrinks(old, new)
Wrote(step, a, b) ==
    \A t : /\ Moves(step, Seen(a.shadow, live, t), Seen(b.shadow, live, t))
           /\ Moves(step, Seen(a.rels, live_rels, t), Seen(b.rels, live_rels, t))

Registry == AreTables(live) /\ AreTables(live_rels)

\* Each write includes to do nothing and to do it twice.
LEMMA MovesFacts ==
    ASSUME NEW step \in {"grows", "changes", "shrinks"}
    PROVE  /\ \A T : IsTable(T) => Moves(step, T, T)
           /\ \A T, U, V : IsTable(T) /\ IsTable(U) /\ IsTable(V) /\ Moves(step, T, U) /\ Moves(step, U, V)
                           => Moves(step, T, V)
<1>1. CASE step = "grows"
  <2>1. \A T, U : Moves(step, T, U) <=> Graph!Grows(T, U)
    BY <1>1 DEF Moves
  <2>. QED
    BY <2>1, GrowsFacts
<1>2. CASE step = "changes"
  <2>1. \A T, U : Moves(step, T, U) <=> Graph!Changes(T, U)
    BY <1>2 DEF Moves
  <2>. QED
    BY <2>1, ChangesFacts
<1>3. CASE step = "shrinks"
  <2>1. \A T, U : Moves(step, T, U) <=> Graph!Shrinks(T, U)
    BY <1>3 DEF Moves
  <2>. QED
    BY <2>1, ShrinksFacts
<1>. QED
  BY <1>1, <1>2, <1>3

\* The same of all the tables.
LEMMA WroteFacts ==
    ASSUME Registry, NEW step \in {"grows", "changes", "shrinks"}
    PROVE  /\ \A a, b : IsCopies(a) /\ b.shadow = a.shadow /\ b.rels = a.rels => Wrote(step, a, b)
           /\ \A a, b, c : IsCopies(a) /\ IsCopies(b) /\ IsCopies(c) /\ Wrote(step, a, b)
                /\ Wrote(step, b, c)
                           => Wrote(step, a, c)
<1>1. \A a, t : IsCopies(a) => IsTable(Seen(a.shadow, live, t)) /\ IsTable(Seen(a.rels, live_rels, t))
  BY SeenIsTable DEF IsCopies, Registry
<1>2. ASSUME NEW a, NEW b, IsCopies(a), b.shadow = a.shadow, b.rels = a.rels PROVE Wrote(step, a, b)
  BY <1>1, <1>2, MovesFacts DEF Wrote
<1>3. ASSUME NEW a, NEW b, NEW c, IsCopies(a), IsCopies(b),
             IsCopies(c), Wrote(step, a, b), Wrote(step, b, c)
      PROVE  Wrote(step, a, c)
  <2>. SUFFICES ASSUME NEW t
                PROVE  /\ Moves(step, Seen(a.shadow, live, t), Seen(c.shadow, live, t))
                       /\ Moves(step, Seen(a.rels, live_rels, t), Seen(c.rels, live_rels, t))
    BY DEF Wrote
  <2>1. /\ Moves(step, Seen(a.shadow, live, t), Seen(b.shadow, live, t))
        /\ Moves(step, Seen(a.rels, live_rels, t), Seen(b.rels, live_rels, t))
        /\ Moves(step, Seen(b.shadow, live, t), Seen(c.shadow, live, t))
        /\ Moves(step, Seen(b.rels, live_rels, t), Seen(c.rels, live_rels, t))
    BY <1>3 DEF Wrote
  <2>2. /\ IsTable(Seen(a.shadow, live, t)) /\ IsTable(Seen(a.rels, live_rels, t))
        /\ IsTable(Seen(b.shadow, live, t)) /\ IsTable(Seen(b.rels, live_rels, t))
        /\ IsTable(Seen(c.shadow, live, t)) /\ IsTable(Seen(c.rels, live_rels, t))
    BY <1>1, <1>3
  <2>. QED
    BY <2>1, <2>2, MovesFacts
<1>. QED
  BY <1>2, <1>3

\* A table whose rows keep their identifiers has changed in place.
LEMMA RowsWritten ==
    ASSUME NEW T, IsTable(T), NEW U, U = [j \in DOMAIN T |-> U[j]],
           \A j \in DOMAIN T : "id" \in DOMAIN U[j] /\ U[j].id = T[j].id
    PROVE  IsTable(U) /\ Graph!Changes(T, U)
<1>1. /\ IsList(T) /\ Len(T) \in Nat /\ DOMAIN T = 1 .. Len(T)
      /\ \A i \in DOMAIN T : "id" \in DOMAIN T[i] /\ T[i].id \in Int
      /\ \A i, j \in DOMAIN T : T[i].id = T[j].id => i = j
  BY TableFacts
<1>2. IsList(U) /\ Len(U) = Len(T) /\ DOMAIN U = DOMAIN T
  BY <1>1, ListOf
<1>. QED
  BY <1>1, <1>2 DEF IsTable, Graph!Changes

Rewritten(st, fr, v, new) ==
    /\ IsCopies(new) /\ Wrote("changes", st, new)
    /\ new.frame = st.frame /\ new.rels = st.rels

\* One table replaced, row by row.
LEMMA TableWritten ==
    ASSUME Registry, NEW st, IsCopies(st), NEW fr, NEW v, NEW U,
           LET T == Seen(st.shadow, live, fr.types[v])
           IN  /\ U = [j \in DOMAIN T |-> U[j]]
               /\ \A j \in DOMAIN T : "id" \in DOMAIN U[j] /\ U[j].id = T[j].id
    PROVE  Rewritten(st, fr, v, [st EXCEPT !.shadow = Put(@, fr.types[v], U)])
<1>. PICK t : t = fr.types[v]
  OBVIOUS
<1>. PICK T : T = Seen(st.shadow, live, t)
  OBVIOUS
<1>. PICK new : new = [st EXCEPT !.shadow = Put(@, fr.types[v], U)]
  OBVIOUS
<1>1. IsTable(T) /\ \A u : IsTable(Seen(st.shadow, live, u)) /\ IsTable(Seen(st.rels, live_rels, u))
  BY SeenIsTable DEF IsCopies, Registry
<1>2. IsTable(U) /\ Graph!Changes(T, U)
  BY <1>1, RowsWritten
<1>3. /\ new.shadow = Put(st.shadow, t, U) /\ new.rels = st.rels /\ new.frame = st.frame
      /\ DOMAIN new = DOMAIN st
  BY DEF IsCopies
<1>4. IsCopies(new)
  BY <1>2, <1>3, PutTable DEF IsCopies
<1>5. \A u : Seen(new.shadow, live, u) = IF u = t THEN U ELSE Seen(st.shadow, live, u)
  BY <1>3, SeenPut
<1>6. Wrote("changes", st, new)
  <2>1. \A T1 : IsTable(T1) => Moves("changes", T1, T1)
    BY MovesFacts
  <2>2. Moves("changes", T, U)
    BY <1>2 DEF Moves
  <2>. QED
    BY <1>1, <1>3, <1>5, <2>1, <2>2 DEF Wrote
<1>. QED
  BY <1>3, <1>4, <1>6 DEF Rewritten

\* An error writes nothing.
LEMMA NothingWritten ==
    ASSUME Registry, NEW st, IsCopies(st), NEW fr, NEW v
    PROVE  Rewritten(st, fr, v, [st EXCEPT !.ok = FALSE])
<1>. PICK new : new = [st EXCEPT !.ok = FALSE]
  OBVIOUS
<1>1. new.shadow = st.shadow /\ new.rels = st.rels /\ new.frame = st.frame /\ DOMAIN new = DOMAIN st
  BY DEF IsCopies
<1>2. IsCopies(new)
  BY <1>1 DEF IsCopies
<1>3. Wrote("changes", st, new)
  BY <1>1, WroteFacts
<1>. QED
  BY <1>1, <1>2, <1>3 DEF Rewritten

\* mutate rewrites rows in place, those of the frame's identifiers only.
LEMMA MutateWrites ==
    ASSUME Registry, NEW st, IsCopies(st), NEW fr, NEW v, NEW p, NEW values
    PROVE  Rewritten(st, fr, v, Mutate(st, fr, v, p, values))
<1>. PICK t : t = fr.types[v]
  OBVIOUS
<1>. PICK T : T = Seen(st.shadow, live, t)
  OBVIOUS
<1>. DEFINE Written(row) == LET i == LastRow(fr, v, row.id)
                            IN  IF i = 0 THEN row ELSE [row EXCEPT !.props[p] = values[i]]
            U == [j \in DOMAIN T |-> Written(T[j])]
<1>1. CASE ~st.ok \/ v \notin Vars(fr) \/ fr.types[v] \notin DOMAIN live
  BY <1>1, NothingWritten DEF Mutate
<1>2. CASE ~(~st.ok \/ v \notin Vars(fr) \/ fr.types[v] \notin DOMAIN live)
  <2>1. Mutate(st, fr, v, p, values) = [st EXCEPT !.shadow = Put(@, fr.types[v], U)]
    BY <1>2 DEF Mutate
  <2>2. \A j \in DOMAIN T : "id" \in DOMAIN T[j]
    <3>1. IsTable(T)
      BY SeenIsTable DEF IsCopies, Registry
    <3>. QED
      BY <3>1, TableFacts
  <2>3. \A j \in DOMAIN T : "id" \in DOMAIN U[j] /\ U[j].id = T[j].id
    BY <2>2
  <2>4. U = [j \in DOMAIN T |-> U[j]]
    OBVIOUS
  <2>. HIDE DEF U
  <2>. QED
    BY <2>1, <2>3, <2>4, TableWritten
<1>. QED
  BY <1>1, <1>2

\* mutate_batch does as well.
LEMMA MutateBatchWrites ==
    ASSUME Registry, NEW st, IsCopies(st), NEW fr, NEW v, NEW results
    PROVE  Rewritten(st, fr, v, MutateBatch(st, fr, v, results))
<1>. PICK t : t = fr.types[v]
  OBVIOUS
<1>. PICK T : T = Seen(st.shadow, live, t)
  OBVIOUS
<1>. DEFINE Filled(i, p, old) == IF p \notin DOMAIN results \/ results[p][i] = Null
                               THEN old ELSE results[p][i]
            Written(row) == LET i == LastRow(fr, v, row.id)
                            IN  IF i = 0 THEN row
                                ELSE [row EXCEPT !.props = [p \in Props |-> Filled(i, p, @[p])]]
            U == [j \in DOMAIN T |-> Written(T[j])]
<1>1. CASE Cardinality(DOMAIN results) = 1
  BY <1>1, MutateWrites DEF MutateBatch
<1>2. CASE Cardinality(DOMAIN results) # 1
           /\ (~st.ok \/ v \notin Vars(fr) \/ fr.types[v] \notin DOMAIN live)
  BY <1>2, NothingWritten DEF MutateBatch
<1>3. CASE Cardinality(DOMAIN results) # 1
           /\ ~(~st.ok \/ v \notin Vars(fr) \/ fr.types[v] \notin DOMAIN live)
  <2>1. MutateBatch(st, fr, v, results) = [st EXCEPT !.shadow = Put(@, fr.types[v], U)]
    BY <1>3 DEF MutateBatch
  <2>2. \A j \in DOMAIN T : "id" \in DOMAIN T[j]
    <3>1. IsTable(T)
      BY SeenIsTable DEF IsCopies, Registry
    <3>. QED
      BY <3>1, TableFacts
  <2>3. \A j \in DOMAIN T : "id" \in DOMAIN U[j] /\ U[j].id = T[j].id
    BY <2>2
  <2>4. U = [j \in DOMAIN T |-> U[j]]
    OBVIOUS
  <2>. HIDE DEF U
  <2>. QED
    BY <2>1, <2>3, <2>4, TableWritten
<1>. QED
  BY <1>1, <1>2, <1>3

--------------------------------------------------------------------------------
\* Looking properties up only adds columns to the frame's cache.
SameBindings(fr, other) == IsFrame(other) /\ other.rows = fr.rows /\ other.types = fr.types

\* A lookup leaves the rows and types of the frame alone.
LEMMA ReadingKeeps ==
    ASSUME NEW st, NEW fr, IsFrame(fr), NEW e
    PROVE  SameBindings(fr, Reading(st, fr, e))
<1>. PICK new : new = Reading(st, fr, e)
  OBVIOUS
<1>1. CASE e.op # "lookup"
  BY <1>1 DEF Reading, SameBindings
<1>2. CASE e.op = "lookup"
  <2>. DEFINE C == IF <<e.var, e.prop>> \in DOMAIN fr.cache THEN fr.cache[e.var, e.prop]
                   ELSE [i \in DOMAIN fr.rows |->
                            CurrentIn(st.shadow, fr.types[e.var], fr.rows[i][e.var], e.prop)]
  <2>1. new = [fr EXCEPT !.cache = Put(@, <<e.var, e.prop>>, C)]
    BY <1>2 DEF Reading, WithColumn, Column
  <2>. HIDE DEF C
  <2>2. new.rows = fr.rows /\ new.types = fr.types /\ DOMAIN new = DOMAIN fr
    BY <2>1 DEF IsFrame
  <2>. QED
    BY <2>2 DEF IsFrame, SameBindings
<1>. QED
  BY <1>1, <1>2

\* So do all the lookups of an item.
LEMMA ReadsKeep ==
    ASSUME NEW st, NEW fr, IsFrame(fr), NEW item, NEW S, IsFiniteSet(S)
    PROVE  SameBindings(fr, Reads(st, fr, item, S))
<1>1. PICK g : Reads(st, fr, item, S) = g[S] /\ ReadRuns(g, st, fr, item, S)
  BY ReadsRun
<1>. DEFINE N == {n \in Nat : \A s \in SUBSET S : Cardinality(s) = n => SameBindings(fr, g[s])}
<1>2. \A s \in SUBSET S : IsFiniteSet(s) /\ Cardinality(s) \in Nat
  BY FS_Subset, FS_CardinalityType
<1>3. 0 \in N
  <2>1. \A s \in SUBSET S : Cardinality(s) = 0 => s = {}
    BY <1>2, FS_EmptySet
  <2>2. SameBindings(fr, g[{}])
    BY <1>1 DEF SameBindings, ReadRuns
  <2>. QED
    BY <2>1, <2>2
<1>4. ASSUME NEW n \in N PROVE n + 1 \in N
  <2>. SUFFICES ASSUME NEW s \in SUBSET S, Cardinality(s) = n + 1 PROVE SameBindings(fr, g[s])
    OBVIOUS
  <2>1. s # {}
    BY FS_EmptySet
  <2>2. PICK p \in s : g[s] = Reading(st, g[s \ {p}], item.values[p])
    BY <1>1, <2>1 DEF ReadRuns
  <2>3. Cardinality(s \ {p}) = n /\ s \ {p} \in SUBSET S
    <3>1. Cardinality(s \ {p}) = Cardinality(s) - 1
      BY <1>2, FS_RemoveElement
    <3>2. n \in Nat
      OBVIOUS
    <3>. QED
      BY <3>1, <3>2
  <2>4. SameBindings(fr, g[s \ {p}])
    BY <2>3
  <2>. QED
    BY <2>2, <2>4, ReadingKeeps DEF SameBindings
<1>5. N = Nat
  <2>1. N \in SUBSET Nat
    OBVIOUS
  <2>. HIDE DEF N
  <2>. QED
    BY <1>3, <1>4, <2>1, SetInduction
<1>. QED
  BY <1>1, <1>2, <1>5

\* A SET item rewrites rows and leaves those of the frame alone.
ItemWritten(st, new) ==
    /\ IsCopies(new) /\ Wrote("changes", st, new)
    /\ SameBindings(st.frame, new.frame)

\* An item of a SET rewrites rows in place.
LEMMA SetItemWrites ==
    ASSUME Registry, NEW st, IsCopies(st), IsFrame(st.frame), NEW item, IsFiniteSet(DOMAIN item.values)
    PROVE  ItemWritten(st, SetItem(item, st))
<1>. DEFINE raises == \E p \in DOMAIN item.values : Raises(st.frame, item.values[p])
            read == Reads(st, st.frame, item, DOMAIN item.values)
            results == [p \in DOMAIN item.values |-> Evaluated(read, item.values[p])]
            mid == [st EXCEPT !.frame = read]
<1>1. SetItem(item, st) = IF ~st.ok THEN st ELSE IF raises THEN [st EXCEPT !.ok = FALSE]
                          ELSE MutateBatch(mid, read, item.var, results)
  BY DEF SetItem, Reads
<1>2. SameBindings(st.frame, st.frame) /\ SameBindings(st.frame, read)
  BY ReadsKeep DEF SameBindings
<1>. HIDE DEF raises, read, results
<1>3. CASE ~st.ok
  BY <1>1, <1>2, <1>3, WroteFacts DEF ItemWritten
<1>4. CASE st.ok /\ raises
  BY <1>1, <1>2, <1>4, NothingWritten DEF ItemWritten, Rewritten
<1>5. CASE st.ok /\ ~raises
  <2>1. IsCopies(mid) /\ mid.shadow = st.shadow /\ mid.rels = st.rels /\ mid.frame = read
    BY DEF IsCopies
  <2>. HIDE DEF mid
  <2>2. PICK new : new = MutateBatch(mid, read, item.var, results)
    OBVIOUS
  <2>3. Rewritten(mid, read, item.var, new)
    BY <2>1, <2>2, MutateBatchWrites
  <2>4. Wrote("changes", st, new)
    BY <2>1, <2>3 DEF Rewritten, Wrote
  <2>. QED
    BY <1>1, <1>2, <1>5, <2>1, <2>2, <2>3, <2>4 DEF ItemWritten, Rewritten
<1>. QED
  BY <1>3, <1>4, <1>5

AreItems(items) == IsList(items) /\ \A i \in DOMAIN items : IsFiniteSet(DOMAIN items[i].values)

\* The shape of the records a SET goes through, one per item.
SetRuns(run, st, fr, items) ==
    /\ run[0] = [st EXCEPT !.frame = fr]
    /\ IsCopies(run[0]) /\ IsFrame(run[0].frame)
    /\ \A i \in 1 .. Len(items) :
         IsCopies(run[i - 1]) /\ IsFrame(run[i - 1].frame) => ItemWritten(run[i - 1], run[i])

\* Every item of set_properties does, and none disturbs the frame's rows.
LEMMA SetPropertiesRuns ==
    ASSUME Registry, NEW st, IsCopies(st), NEW fr, IsFrame(fr), NEW items, AreItems(items)
    PROVE  \E run : SetProperties(st, fr, items) = run[Len(items)] /\ SetRuns(run, st, fr, items)
<1>1. PICK run : /\ SetProperties(st, fr, items) = run[Len(items)]
                 /\ run[0] = [st EXCEPT !.frame = fr]
                 /\ \A i \in 1 .. Len(items) : run[i] = SetItem(items[i], run[i - 1])
  BY SetPropertiesRun DEF AreItems
<1>2. IsCopies(run[0]) /\ IsFrame(run[0].frame)
  BY <1>1 DEF IsCopies
<1>3. \A i \in 1 .. Len(items) : IsFiniteSet(DOMAIN items[i].values)
  BY ListFacts DEF AreItems
<1>4. ASSUME NEW i \in 1 .. Len(items), IsCopies(run[i - 1]), IsFrame(run[i - 1].frame)
      PROVE  ItemWritten(run[i - 1], run[i])
  BY <1>1, <1>3, <1>4, SetItemWrites
<1>5. SetRuns(run, st, fr, items)
  BY <1>1, <1>2, <1>4 DEF SetRuns
<1>. QED
  BY <1>1, <1>5

\* All of set_properties changes rows in place.
LEMMA SetPropertiesWrites ==
    ASSUME Registry, NEW st, IsCopies(st), NEW fr, IsFrame(fr), NEW items, AreItems(items),
           NEW new, new = SetProperties(st, fr, items)
    PROVE  IsCopies(new) /\ Wrote("changes", st, new) /\ SameBindings(fr, new.frame)
<1>1. PICK run : new = run[Len(items)] /\ SetRuns(run, st, fr, items)
  BY SetPropertiesRuns
<1>2. Len(items) \in Nat
  BY ListFacts DEF AreItems
<1>. DEFINE Ok(i) == IsCopies(run[i]) /\ Wrote("changes", st, run[i]) /\ SameBindings(fr, run[i].frame)
            S == {i \in Nat : i <= Len(items) => Ok(i)}
<1>3. 0 \in S
  <2>1. run[0].shadow = st.shadow /\ run[0].rels = st.rels /\ run[0].frame = fr
    BY <1>1 DEF SetRuns, IsCopies
  <2>2. Wrote("changes", st, run[0])
    BY <2>1, WroteFacts
  <2>. QED
    BY <1>1, <2>1, <2>2 DEF SetRuns, SameBindings
<1>4. ASSUME NEW i \in S PROVE i + 1 \in S
  <2>. SUFFICES ASSUME i + 1 <= Len(items) PROVE Ok(i + 1)
    OBVIOUS
  <2>1. i \in Nat /\ i + 1 \in 1 .. Len(items) /\ (i + 1) - 1 = i /\ i <= Len(items)
    BY <1>2
  <2>2. Ok(i)
    BY <2>1
  <2>3. ItemWritten(run[i], run[i + 1])
    BY <1>1, <2>1, <2>2 DEF SetRuns, SameBindings
  <2>4. Wrote("changes", st, run[i + 1])
    BY <2>2, <2>3, WroteFacts DEF ItemWritten
  <2>. QED
    BY <2>2, <2>3, <2>4 DEF ItemWritten, SameBindings
<1>5. S = Nat
  <2>1. S \in SUBSET Nat
    OBVIOUS
  <2>. HIDE DEF S
  <2>. QED
    BY <1>3, <1>4, <2>1, SetInduction
<1>. QED
  BY <1>1, <1>2, <1>5

--------------------------------------------------------------------------------
(* CREATE. *)

\* The largest of a finite set of numbers.
LEMMA MaxOf ==
    ASSUME NEW S \in SUBSET Int, IsFiniteSet(S), S # {}
    PROVE  Max(S) \in S /\ \A y \in S : Max(S) >= y
<1>. DEFINE s == [n \in 1 .. Cardinality(S) |-> CHOOSE x \in S : Cardinality({y \in S : y < x}) = n - 1]
            n == Cardinality(S)
<1>1. /\ s \in Seq(S) /\ n \in Nat /\ Len(s) = n /\ DOMAIN s = 1 .. n
      /\ \A i, j \in 1 .. n : i < j => s[i] < s[j]
      /\ Range(s) = S
  BY AscendingSequence
<1>. HIDE DEF s, n
<1>2. n # 0 /\ n \in 1 .. n
  <2>1. n # 0
    BY FS_EmptySet DEF n
  <2>. QED
    BY <1>1, <2>1
<1>3. s[n] \in S /\ \A y \in S : s[n] >= y
  <2>1. s[n] \in S
    BY <1>1, <1>2
  <2>2. ASSUME NEW y \in S PROVE s[n] >= y
    <3>1. PICK i \in 1 .. n : s[i] = y
      BY <1>1, <2>2 DEF Range
    <3>2. i < n \/ i = n
      BY <1>1
    <3>3. s[i] < s[n] \/ s[i] = s[n]
      BY <1>1, <1>2, <3>2
    <3>4. y \in Int /\ s[n] \in Int
      BY <2>1
    <3>. QED
      BY <3>1, <3>3, <3>4
  <2>. QED
    BY <2>1, <2>2
<1>. QED
  BY <1>3 DEF Max

\* A table has finitely many identifiers.
LEMMA IdsFinite ==
    ASSUME NEW T, IsTable(T)
    PROVE  IsFiniteSet(Ids(T)) /\ Ids(T) \in SUBSET Int
<1>. DEFINE f == [i \in DOMAIN T |-> T[i].id]
<1>1. Len(T) \in Nat /\ DOMAIN T = 1 .. Len(T) /\ \A i \in DOMAIN T : T[i].id \in Int
  BY TableFacts
<1>2. IsFiniteSet(DOMAIN T)
  <2>1. 0 \in Int /\ 1 \in Int /\ Len(T) \in Int /\ DOMAIN T = 1 .. Len(T)
    BY <1>1
  <2>2. IsFiniteSet(1 .. Len(T))
    BY ONLY <2>1, FS_Interval
  <2>. QED
    BY ONLY <2>1, <2>2
<1>3. f \in Surjection(DOMAIN T, Ids(T))
  BY DEF Surjection, Ids
<1>4. IsFiniteSet(Ids(T))
  BY <1>2, <1>3, FS_Surjection
<1>. QED
  BY <1>1, <1>4 DEF Ids

\* New identifiers are distinct and in no row that is seen (_next_ids).
LEMMA NextIdsFacts ==
    ASSUME NEW copies, AreTables(copies), NEW tables, AreTables(tables), NEW t, NEW n \in Nat,
           NEW ids, ids = NextIds(copies, tables, t, n)
    PROVE  /\ DOMAIN ids = 1 .. n
           /\ \A i \in 1 .. n : ids[i] \in Int /\ ids[i] \notin Ids(Seen(copies, tables, t))
           /\ \A i, j \in 1 .. n : ids[i] = ids[j] => i = j
<1>. DEFINE used(m) == IF t \in DOMAIN m THEN Ids(m[t]) ELSE {}
            S == {0} \union used(copies) \union used(tables)
<1>1. ids = [i \in 1 .. n |-> Max(S) + 1 + i - 1]
  BY DEF NextIds
<1>2. S \in SUBSET Int /\ IsFiniteSet(S) /\ S # {}
  <2>1. used(copies) \in SUBSET Int /\ IsFiniteSet(used(copies))
    BY IdsFinite, FS_EmptySet DEF AreTables
  <2>2. used(tables) \in SUBSET Int /\ IsFiniteSet(used(tables))
    BY IdsFinite, FS_EmptySet DEF AreTables
  <2>. HIDE DEF used
  <2>3. IsFiniteSet({0})
    BY FS_Singleton
  <2>4. IsFiniteSet({0} \union used(copies))
    BY <2>1, <2>3, FS_Union
  <2>5. IsFiniteSet(S)
    BY <2>2, <2>4, FS_Union
  <2>. QED
    BY <2>1, <2>2, <2>5
<1>3. Ids(Seen(copies, tables, t)) \subseteq S
  <2>1. Ids(<<>>) = {}
    BY NoRows DEF Ids
  <2>. QED
    BY <2>1 DEF Seen
<1>. HIDE DEF S
<1>4. Max(S) \in Int /\ \A y \in S : Max(S) >= y
  BY <1>2, MaxOf
<1>5. \A i \in 1 .. n : ids[i] = Max(S) + i
  BY <1>1, <1>4
<1>6. \A i \in 1 .. n : ids[i] \in Int /\ ids[i] \notin S
  BY <1>2, <1>4, <1>5
<1>. QED
  BY <1>1, <1>3, <1>4, <1>5, <1>6

\* Rows with new identifiers make a table grow.
LEMMA RowsAppended ==
    ASSUME NEW T, IsTable(T), NEW n \in Nat, NEW rows, rows = [i \in 1 .. n |-> rows[i]],
           \A i \in 1 .. n : "id" \in DOMAIN rows[i] /\ rows[i].id \in Int /\ rows[i].id \notin Ids(T),
           \A i, j \in 1 .. n : rows[i].id = rows[j].id => i = j
    PROVE  IsTable(T \o rows) /\ Graph!Grows(T, T \o rows) /\ Ids(T) \subseteq Ids(T \o rows)
<1>1. /\ IsList(T) /\ Len(T) \in Nat /\ DOMAIN T = 1 .. Len(T)
      /\ \A i \in DOMAIN T : "id" \in DOMAIN T[i] /\ T[i].id \in Int
      /\ \A i, j \in DOMAIN T : T[i].id = T[j].id => i = j
  BY TableFacts
<1>2. IsList(rows) /\ Len(rows) = n
  BY ListOf
<1>. PICK k \in Nat : k = Len(T)
  BY <1>1
<1>. PICK new : new = T \o rows
  OBVIOUS
<1>3. /\ IsList(new) /\ Len(new) = k + n /\ DOMAIN new = 1 .. (k + n)
      /\ \A i \in 1 .. k : new[i] = T[i]
      /\ \A i \in 1 .. n : new[k + i] = rows[i]
  <2>0. IsList(T) /\ IsList(rows)
    BY <1>1, <1>2
  <2>1. /\ IsList(T \o rows) /\ Len(T \o rows) = Len(T) + Len(rows)
        /\ DOMAIN (T \o rows) = 1 .. Len(T) + Len(rows)
        /\ \A i \in 1 .. Len(T) : (T \o rows)[i] = T[i]
        /\ \A i \in 1 .. Len(rows) : (T \o rows)[Len(T) + i] = rows[i]
    BY ONLY <2>0, JoinedLists
  <2>. QED
    BY <1>2, <2>1
<1>4. \A i \in 1 .. (k + n) : i \in 1 .. k \/ (i - k \in 1 .. n /\ new[i] = rows[i - k] /\ i > k)
  <2>. SUFFICES ASSUME NEW i \in 1 .. (k + n), i \notin 1 .. k
                PROVE  i - k \in 1 .. n /\ new[i] = rows[i - k] /\ i > k
    OBVIOUS
  <2>1. i - k \in 1 .. n /\ k + (i - k) = i /\ i > k
    OBVIOUS
  <2>. QED
    BY <1>3, <2>1
<1>5. \A i \in 1 .. (k + n) : "id" \in DOMAIN new[i] /\ new[i].id \in Int
  BY <1>1, <1>3, <1>4
<1>6. ASSUME NEW i \in 1 .. (k + n), NEW j \in 1 .. (k + n), new[i].id = new[j].id PROVE i = j
  <2>1. CASE i \in 1 .. k /\ j \in 1 .. k
    BY <1>1, <1>3, <1>6, <2>1
  <2>2. CASE i \in 1 .. k /\ j \notin 1 .. k
    <3>1. new[i].id \in Ids(T)
      BY <1>1, <1>3, <2>2 DEF Ids
    <3>. QED
      BY <1>4, <1>6, <2>2, <3>1
  <2>3. CASE i \notin 1 .. k /\ j \in 1 .. k
    <3>1. new[j].id \in Ids(T)
      BY <1>1, <1>3, <2>3 DEF Ids
    <3>. QED
      BY <1>4, <1>6, <2>3, <3>1
  <2>4. CASE i \notin 1 .. k /\ j \notin 1 .. k
    <3>1. i - k = j - k
      BY <1>4, <1>6, <2>4
    <3>. QED
      BY <3>1
  <2>. QED
    BY <2>1, <2>2, <2>3, <2>4
<1>7. IsTable(new)
  BY <1>3, <1>5, <1>6 DEF IsTable
<1>8. Graph!Grows(T, new)
  <2>1. Len(new) >= Len(T) /\ \A i \in DOMAIN T : new[i] = T[i]
    BY <1>1, <1>3
  <2>2. ASSUME NEW i \in DOMAIN new, NEW j \in DOMAIN new, i < j PROVE new[i].id # new[j].id
    <3>1. i # j /\ i \in 1 .. (k + n) /\ j \in 1 .. (k + n)
      BY <1>3, <2>2
    <3>. QED
      BY <1>6, <3>1
  <2>. QED
    BY <2>1, <2>2 DEF Graph!Grows
<1>9. Ids(T) \subseteq Ids(new)
  <2>1. \A i \in DOMAIN T : i \in DOMAIN new /\ new[i].id = T[i].id
    BY <1>1, <1>3
  <2>. QED
    BY <2>1 DEF Ids
<1>. QED
  BY <1>7, <1>8, <1>9

\* What a CREATE has done: rows of fresh identifiers in the tables, one per row
\* of the frame for every variable made.
Made(b, n, st) ==
    /\ IsCopies(st) /\ Wrote("grows", b, st)
    /\ DOMAIN st.made = DOMAIN st.types
    /\ \A v \in DOMAIN st.made : \A i \in 1 .. n :
           st.made[v][i] \notin Ids(Seen(b.shadow, live, st.types[v]))
    /\ st.made = <<>> => st.shadow = b.shadow

\* What grew has the identifiers it had.
LEMMA GrownIds ==
    ASSUME Registry, NEW b, IsCopies(b), NEW st, IsCopies(st), Wrote("grows", b, st), NEW t
    PROVE  Ids(Seen(b.shadow, live, t)) \subseteq Ids(Seen(st.shadow, live, t))
<1>. PICK T : T = Seen(b.shadow, live, t)
  OBVIOUS
<1>. PICK U : U = Seen(st.shadow, live, t)
  OBVIOUS
<1>1. Graph!Grows(T, U)
  BY DEF Wrote, Moves
<1>2. IsTable(T) /\ IsTable(U)
  <2>1. AreTables(b.shadow) /\ AreTables(st.shadow) /\ AreTables(live)
    BY DEF IsCopies, Registry
  <2>2. IsTable(Seen(b.shadow, live, t)) /\ IsTable(Seen(st.shadow, live, t))
    BY ONLY <2>1, SeenIsTable
  <2>. QED
    BY <2>2
<1>3. /\ Len(T) \in Nat /\ DOMAIN T = 1 .. Len(T)
      /\ Len(U) \in Nat /\ DOMAIN U = 1 .. Len(U)
  BY <1>2, TableFacts
<1>4. \A i \in DOMAIN T : i \in DOMAIN U /\ U[i].id = T[i].id
  BY <1>1, <1>3 DEF Graph!Grows
<1>. QED
  BY <1>4 DEF Ids

--------------------------------------------------------------------------------
HasRows(fr) == fr = NoFrame \/ IsFrame(fr)

\* A CREATE runs a number of times.
LEMMA RowCountType ==
    ASSUME NEW fr, HasRows(fr)
    PROVE  RowCount(fr) \in Nat
BY ListFacts DEF HasRows, IsFrame, RowCount

\* A node of a CREATE is used, or appended with new identifiers.
LEMMA CreateNodeMakes ==
    ASSUME Registry, NEW b, IsCopies(b), NEW fr, HasRows(fr), NEW n, NEW st, Made(b, RowCount(fr), st)
    PROVE  Made(b, RowCount(fr), CreateNode(st, fr, n))
<1>. PICK new : new = CreateNode(st, fr, n)
  OBVIOUS
<1>. PICK k \in Nat : k = RowCount(fr)
  BY RowCountType
<1>1. CASE Bound(fr, n.var)
  <2>1. \E e : new = [st EXCEPT !.ends = e]
    BY <1>1 DEF CreateNode
  <2>2. /\ new.shadow = st.shadow /\ new.rels = st.rels /\ new.made = st.made /\ new.types = st.types
        /\ DOMAIN new = DOMAIN st
    BY <2>1 DEF Made, IsCopies
  <2>3. IsCopies(new)
    BY <2>2 DEF Made, IsCopies
  <2>4. Wrote("grows", b, new)
    BY <2>2 DEF Made, Wrote
  <2>. QED
    BY <2>2, <2>3, <2>4 DEF Made
<1>2. CASE ~Bound(fr, n.var)
  <2>. DEFINE ids == NextIds(st.shadow, live, n.label, k)
              Value(p) == IF p \in DOMAIN n.props THEN n.props[p] ELSE Null
              rows == [i \in DOMAIN ids |-> [id |-> ids[i], props |-> [p \in Props |-> Value(p)]]]
              T == Seen(st.shadow, live, n.label)
  <2>1. new = [st EXCEPT !.shadow = Put(@, n.label, T \o rows),
                         !.ends = Append(@, ids),
                         !.made = Put(@, n.var, ids), !.types = Put(@, n.var, n.label)]
    BY <1>2 DEF CreateNode, Appended
  <2>2. IsTable(T) /\ AreTables(st.shadow) /\ AreTables(live) /\ IsCopies(st)
    BY SeenIsTable DEF Made, IsCopies, Registry
  <2>. HIDE DEF Value
  <2>3. /\ DOMAIN ids = 1 .. k
        /\ \A i \in 1 .. k : ids[i] \in Int /\ ids[i] \notin Ids(T)
        /\ \A i, j \in 1 .. k : ids[i] = ids[j] => i = j
    BY <2>2, NextIdsFacts
  <2>. HIDE DEF ids
  <2>4. /\ rows = [i \in 1 .. k |-> rows[i]]
        /\ \A i \in 1 .. k : "id" \in DOMAIN rows[i] /\ rows[i].id = ids[i]
    BY <2>3
  <2>. HIDE DEF rows, T
  <2>5. IsTable(T \o rows) /\ Graph!Grows(T, T \o rows)
    BY <2>2, <2>3, <2>4, RowsAppended
  <2>6. /\ new.shadow = Put(st.shadow, n.label, T \o rows) /\ new.rels = st.rels
        /\ new.made = Put(st.made, n.var, ids) /\ new.types = Put(st.types, n.var, n.label)
        /\ DOMAIN new = DOMAIN st
    BY <2>1, <2>2 DEF IsCopies
  <2>7. IsCopies(new)
    BY <2>2, <2>5, <2>6, PutTable DEF IsCopies
  <2>8. Wrote("grows", st, new)
    <3>1. \A u : Seen(new.shadow, live, u) = IF u = n.label THEN T \o rows ELSE Seen(st.shadow, live, u)
      BY <2>6, SeenPut
    <3>2. \A u : IsTable(Seen(st.shadow, live, u)) /\ IsTable(Seen(st.rels, live_rels, u))
      BY <2>2, SeenIsTable DEF IsCopies, Registry
    <3>3. \A T1 : IsTable(T1) => Moves("grows", T1, T1)
      BY MovesFacts
    <3>4. Moves("grows", T, T \o rows)
      BY <2>5 DEF Moves
    <3>. QED
      BY <2>6, <3>1, <3>2, <3>3, <3>4 DEF Wrote, T
  <2>9. Wrote("grows", b, new)
    BY <2>2, <2>7, <2>8, WroteFacts DEF Made
  <2>10. DOMAIN new.made = DOMAIN new.types /\ new.made # <<>>
    <3>1. DOMAIN new.made = DOMAIN st.made \union {n.var}
          /\ DOMAIN new.types = DOMAIN st.types \union {n.var}
      BY <2>6 DEF Put
    <3>. QED
      BY <3>1, NoRows DEF Made
  <2>11. ASSUME NEW v \in DOMAIN new.made, NEW i \in 1 .. k
         PROVE  new.made[v][i] \notin Ids(Seen(b.shadow, live, new.types[v]))
    <3>1. CASE v = n.var
      <4>1. new.made[v] = ids /\ new.types[v] = n.label
        BY <2>6, <3>1 DEF Put
      <4>2. Ids(Seen(b.shadow, live, n.label)) \subseteq Ids(T)
        BY <2>2, GrownIds DEF Made, T
      <4>. QED
        BY <2>3, <4>1, <4>2
    <3>2. CASE v # n.var
      <4>1. v \in DOMAIN st.made /\ v \in DOMAIN st.types
        BY <2>6, <2>11, <3>2 DEF Put, Made
      <4>2. new.made[v] = st.made[v] /\ new.types[v] = st.types[v]
        BY <2>6, <3>2, <4>1 DEF Put
      <4>. QED
        BY <4>1, <4>2 DEF Made
    <3>. QED
      BY <3>1, <3>2
  <2>. QED
    BY <2>7, <2>9, <2>10, <2>11 DEF Made
<1>. QED
  BY <1>1, <1>2

\* A relationship of a CREATE is appended.
LEMMA CreateRelationshipMakes ==
    ASSUME Registry, NEW b, IsCopies(b), NEW fr, HasRows(fr), NEW rel, NEW st, Made(b, RowCount(fr), st)
    PROVE  Made(b, RowCount(fr), CreateRelationship(st, fr, rel))
<1>. PICK new : new = CreateRelationship(st, fr, rel)
  OBVIOUS
<1>. PICK k \in Nat : k = RowCount(fr)
  BY RowCountType
<1>. DEFINE ids == NextIds(st.rels, live_rels, rel, k)
            rows == [i \in DOMAIN ids |-> [id |-> ids[i], src |-> st.ends[1][i], tgt |-> st.ends[2][i]]]
            T == Seen(st.rels, live_rels, rel)
<1>1. new = [st EXCEPT !.rels = Put(@, rel, T \o rows)]
  BY DEF CreateRelationship, Appended
<1>2. IsTable(T) /\ AreTables(st.rels) /\ AreTables(live_rels) /\ IsCopies(st)
  BY SeenIsTable DEF Made, IsCopies, Registry
<1>3. /\ DOMAIN ids = 1 .. k
      /\ \A i \in 1 .. k : ids[i] \in Int /\ ids[i] \notin Ids(T)
      /\ \A i, j \in 1 .. k : ids[i] = ids[j] => i = j
  BY <1>2, NextIdsFacts
<1>. HIDE DEF ids
<1>4. /\ rows = [i \in 1 .. k |-> rows[i]]
      /\ \A i \in 1 .. k : "id" \in DOMAIN rows[i] /\ rows[i].id = ids[i]
  BY <1>3
<1>. HIDE DEF rows, T
<1>5. IsTable(T \o rows) /\ Graph!Grows(T, T \o rows)
  BY <1>2, <1>3, <1>4, RowsAppended
<1>6. /\ new.rels = Put(st.rels, rel, T \o rows) /\ new.shadow = st.shadow
      /\ new.made = st.made /\ new.types = st.types /\ DOMAIN new = DOMAIN st
  BY <1>1, <1>2 DEF IsCopies
<1>7. IsCopies(new)
  BY <1>2, <1>5, <1>6, PutTable DEF IsCopies
<1>8. Wrote("grows", st, new)
  <2>1. \A u : Seen(new.rels, live_rels, u) = IF u = rel THEN T \o rows ELSE Seen(st.rels, live_rels, u)
    BY <1>6, SeenPut
  <2>2. \A u : IsTable(Seen(st.shadow, live, u)) /\ IsTable(Seen(st.rels, live_rels, u))
    BY <1>2, SeenIsTable DEF IsCopies, Registry
  <2>3. \A T1 : IsTable(T1) => Moves("grows", T1, T1)
    BY MovesFacts
  <2>4. Moves("grows", T, T \o rows)
    BY <1>5 DEF Moves
  <2>. QED
    BY <1>6, <2>1, <2>2, <2>3, <2>4 DEF Wrote, T
<1>9. Wrote("grows", b, new)
  BY <1>2, <1>7, <1>8, WroteFacts DEF Made
<1>. QED
  BY <1>6, <1>7, <1>9 DEF Made

\* A path of a CREATE only appends.
LEMMA CreatePathMakes ==
    ASSUME Registry, NEW b, IsCopies(b), NEW fr, HasRows(fr), NEW path, NEW st, Made(b, RowCount(fr), st)
    PROVE  Made(b, RowCount(fr), CreatePath(st, fr, path))
<1>. PICK start : start = [st EXCEPT !.ends = <<>>]
  OBVIOUS
<1>1. Made(b, RowCount(fr), start)
  <2>1. /\ start.shadow = st.shadow /\ start.rels = st.rels /\ start.made = st.made
        /\ start.types = st.types
        /\ DOMAIN start = DOMAIN st
    BY DEF Made, IsCopies
  <2>2. IsCopies(start) /\ Wrote("grows", b, start)
    BY <2>1 DEF Made, IsCopies, Wrote
  <2>. QED
    BY <2>1, <2>2 DEF Made
<1>. PICK from : from = CreateNode(start, fr, path.from)
  OBVIOUS
<1>2. Made(b, RowCount(fr), from)
  BY <1>1, CreateNodeMakes
<1>. PICK both : both = CreateNode(from, fr, path.to)
  OBVIOUS
<1>3. Made(b, RowCount(fr), both)
  BY <1>2, CreateNodeMakes
<1>4. Made(b, RowCount(fr), CreateRelationship(both, fr, path.rel))
  BY <1>3, CreateRelationshipMakes
<1>. QED
  BY <1>2, <1>4 DEF CreatePath

\* So does all of process_create.
LEMMA ProcessCreateMakes ==
    ASSUME Registry, NEW b, IsCopies(b), NEW fr, HasRows(fr), NEW paths, IsList(paths)
    PROVE  Made(b, RowCount(fr), ProcessCreate(b, fr, paths))
<1>1. PICK run : /\ ProcessCreate(b, fr, paths) = run[Len(paths)]
                 /\ run[0] = CreateStart(b)
                 /\ \A i \in 1 .. Len(paths) : run[i] = CreatePath(run[i - 1], fr, paths[i])
  BY ProcessCreateRun
<1>2. Len(paths) \in Nat
  BY ListFacts
<1>3. Made(b, RowCount(fr), run[0])
  <2>. PICK start : start = run[0]
    OBVIOUS
  <2>1. /\ start.shadow = b.shadow /\ start.rels = b.rels /\ start.made = <<>> /\ start.types = <<>>
        /\ DOMAIN start = DOMAIN b
    BY <1>1 DEF IsCopies, CreateStart
  <2>2. IsCopies(start)
    BY <2>1 DEF IsCopies
  <2>3. Wrote("grows", b, start)
    BY <2>1, WroteFacts
  <2>. QED
    BY <2>1, <2>2, <2>3, NoRows DEF Made
<1>. DEFINE S == {i \in Nat : i <= Len(paths) => Made(b, RowCount(fr), run[i])}
<1>4. ASSUME NEW i \in S PROVE i + 1 \in S
  <2>. SUFFICES ASSUME i + 1 <= Len(paths) PROVE Made(b, RowCount(fr), run[i + 1])
    OBVIOUS
  <2>1. i + 1 \in 1 .. Len(paths) /\ (i + 1) - 1 = i /\ i <= Len(paths)
    BY <1>2
  <2>2. Made(b, RowCount(fr), run[i]) /\ run[i + 1] = CreatePath(run[i], fr, paths[i + 1])
    BY <1>1, <2>1
  <2>. QED
    BY <2>2, CreatePathMakes
<1>5. S = Nat
  <2>1. S \in SUBSET Nat /\ 0 \in S
    BY <1>3
  <2>. HIDE DEF S
  <2>. QED
    BY <1>4, <2>1, SetInduction
<1>6. Made(b, RowCount(fr), run[Len(paths)])
  BY <1>2, <1>5
<1>. QED
  BY ONLY <1>1, <1>6

--------------------------------------------------------------------------------
\* The frame a CREATE leaves binds the variables made to the rows made.
Binds(cf, st, fr) ==
    /\ HasRows(cf)
    /\ st.made = <<>> => cf = fr
    /\ st.made # <<>> =>
         /\ IsFrame(cf) /\ cf.cache = NoCache /\ DOMAIN cf.rows = 1 .. RowCount(fr)
         /\ \A v \in DOMAIN st.made : \A i \in 1 .. RowCount(fr) : cf.rows[i][v] = st.made[v][i]
         /\ \A v \in DOMAIN st.types : cf.types[v] = st.types[v]

\* The frame of a CREATE binds its variables to the new identifiers.
LEMMA CreatedFrameBinds ==
    ASSUME NEW fr, HasRows(fr), NEW st
    PROVE  Binds(CreatedFrame(st, fr), st, fr)
<1>. PICK cf : cf = CreatedFrame(st, fr)
  OBVIOUS
<1>1. CASE st.made = <<>>
  BY <1>1 DEF CreatedFrame, Binds
<1>2. CASE st.made # <<>>
  <2>. PICK n \in Nat : n = RowCount(fr)
    BY RowCountType
  <2>. DEFINE News(i) == [v \in DOMAIN st.made |-> st.made[v][i]]
              Olds(i) == IF fr = NoFrame THEN <<>> ELSE fr.rows[i]
              rows == [i \in 1 .. n |-> Over(News(i), Olds(i))]
              types == Over(st.types, IF fr = NoFrame THEN <<>> ELSE fr.types)
  <2>1. cf = [rows |-> rows, types |-> types, cache |-> NoCache]
    BY <1>2 DEF CreatedFrame, Frame
  <2>2. IsList(rows) /\ DOMAIN rows = 1 .. n
    <3>1. rows = [i \in 1 .. n |-> rows[i]]
      OBVIOUS
    <3>. HIDE DEF rows
    <3>. QED
      BY <3>1, ListOf
  <2>3. ASSUME NEW v \in DOMAIN st.made, NEW i \in 1 .. n PROVE rows[i][v] = st.made[v][i]
    <3>1. rows[i] = Over(News(i), Olds(i))
      OBVIOUS
    <3>2. DOMAIN News(i) = DOMAIN st.made /\ News(i)[v] = st.made[v][i]
      OBVIOUS
    <3>. HIDE DEF News, Olds
    <3>3. Over(News(i), Olds(i))[v] = News(i)[v]
      BY <3>2 DEF Over
    <3>. QED
      BY <3>1, <3>2, <3>3
  <2>4. \A v \in DOMAIN st.types : types[v] = st.types[v]
    BY DEF Over
  <2>. HIDE DEF rows, types
  <2>5. cf.rows = rows /\ cf.types = types /\ cf.cache = NoCache /\ DOMAIN cf = {"rows", "types", "cache"}
    BY <2>1
  <2>6. IsFrame(cf)
    BY <2>2, <2>5 DEF IsFrame
  <2>. QED
    BY <1>2, <2>2, <2>3, <2>4, <2>5, <2>6 DEF HasRows, Binds
<1>. QED
  BY <1>1, <1>2

--------------------------------------------------------------------------------
\* process_delete, detaching or not, only takes rows away.
LEMMA ProcessDeleteShrinks ==
    ASSUME Registry, NEW st, IsCopies(st), NEW fr, NEW v, NEW detach,
           NEW new, new = ProcessDelete(st, fr, v, detach)
    PROVE  IsCopies(new) /\ Wrote("shrinks", st, new)
<1>. DEFINE t == fr.types[v]
            dead == {fr.rows[i][v] : i \in DOMAIN fr.rows} \ {Null}
            Left(table) == RowsAt(table, {i \in DOMAIN table : table[i].id \notin dead})
            Detached(table) == RowsAt(table, {i \in DOMAIN table :
                                                  table[i].src \notin dead /\ table[i].tgt \notin dead})
            entities == [st EXCEPT !.shadow = Put(@, t, Left(Seen(@, live, t)))]
            detached == [r \in DOMAIN live_rels |-> Detached(Seen(st.rels, live_rels, r))]
<1>1. \A T : IsTable(T) => /\ IsTable(Left(T)) /\ Graph!Shrinks(T, Left(T))
                           /\ IsTable(Detached(T)) /\ Graph!Shrinks(T, Detached(T))
  <2>1. ASSUME NEW T, IsTable(T) PROVE IsTable(Left(T)) /\ Graph!Shrinks(T, Left(T))
    <3>1. {i \in DOMAIN T : T[i].id \notin dead} \subseteq DOMAIN T
      OBVIOUS
    <3>. QED
      BY <2>1, <3>1, RowsLeft
  <2>2. ASSUME NEW T, IsTable(T) PROVE IsTable(Detached(T)) /\ Graph!Shrinks(T, Detached(T))
    <3>1. {i \in DOMAIN T : T[i].src \notin dead /\ T[i].tgt \notin dead} \subseteq DOMAIN T
      OBVIOUS
    <3>. QED
      BY <2>2, <3>1, RowsLeft
  <2>. QED
    BY <2>1, <2>2
<1>2. new = IF ~Named(fr, v) THEN [st EXCEPT !.ok = FALSE]
            ELSE IF ~Bound(fr, v) THEN st
            ELSE IF dead = {} \/ t \notin DOMAIN st.shadow \union DOMAIN live THEN st
            ELSE IF ~detach THEN entities
            ELSE [entities EXCEPT !.rels =
                Over([r \in DOMAIN live_rels |-> Detached(Seen(@, live_rels, r))], @)]
  BY DEF ProcessDelete
<1>. PICK del : del = entities
  OBVIOUS
<1>3. del.shadow = Put(st.shadow, t, Left(Seen(st.shadow, live, t))) /\ del.rels = st.rels
      /\ DOMAIN del = DOMAIN st
  BY DEF IsCopies
<1>4. \A u : IsTable(Seen(st.shadow, live, u)) /\ IsTable(Seen(st.rels, live_rels, u))
  BY SeenIsTable DEF IsCopies, Registry
<1>5. \A T : IsTable(T) => Moves("shrinks", T, T)
  BY MovesFacts
<1>. HIDE DEF t, dead, Left, Detached, entities
<1>6. IsCopies(del)
  BY <1>1, <1>3, <1>4, PutTable DEF IsCopies
<1>7. \A u : Seen(del.shadow, live, u) =
               IF u = t THEN Left(Seen(st.shadow, live, t)) ELSE Seen(st.shadow, live, u)
  BY <1>3, SeenPut
<1>8. \A u : Moves("shrinks", Seen(st.shadow, live, u), Seen(del.shadow, live, u))
  BY <1>1, <1>4, <1>5, <1>7 DEF Moves
<1>10. CASE new = st
  BY <1>10, WroteFacts
<1>11. CASE new = del
  BY <1>3, <1>4, <1>5, <1>6, <1>8, <1>11 DEF Wrote
<1>12. CASE new = [del EXCEPT !.rels =
                Over([r \in DOMAIN live_rels |-> Detached(Seen(@, live_rels, r))], @)]
  <2>1. new.rels = Over(detached, st.rels) /\ new.shadow = del.shadow /\ DOMAIN new = DOMAIN st
    BY <1>3, <1>12 DEF IsCopies
  <2>2. AreTables(detached)
    BY <1>1, <1>4 DEF AreTables
  <2>3. IsCopies(new)
    BY <1>6, <2>1, <2>2, OverTables DEF IsCopies
  <2>4. \A u : Seen(new.rels, live_rels, u) =
                 IF u \in DOMAIN live_rels THEN Detached(Seen(st.rels, live_rels, u))
                     ELSE Seen(st.rels, live_rels, u)
    <3>1. DOMAIN detached = DOMAIN live_rels
          /\ \A r \in DOMAIN live_rels : detached[r] = Detached(Seen(st.rels, live_rels, r))
      OBVIOUS
    <3>. HIDE DEF detached
    <3>. QED
      BY <2>1, <3>1, SeenOver
  <2>5. \A u : Moves("shrinks", Seen(st.rels, live_rels, u), Seen(new.rels, live_rels, u))
    BY <1>1, <1>4, <1>5, <2>4 DEF Moves
  <2>. QED
    BY <1>8, <2>1, <2>3, <2>5 DEF Wrote
<1>13. new = [st EXCEPT !.ok = FALSE] \/ new = st \/ new = del
       \/ new = [del EXCEPT !.rels = Over([r \in DOMAIN live_rels |-> Detached(Seen(@, live_rels, r))], @)]
  BY <1>2
<1>14. CASE new = [st EXCEPT !.ok = FALSE]
  <2>1. new.shadow = st.shadow /\ new.rels = st.rels /\ DOMAIN new = DOMAIN st
    BY <1>14 DEF IsCopies
  <2>. QED
    BY <2>1, WroteFacts DEF IsCopies
<1>. QED
  BY <1>10, <1>11, <1>12, <1>13, <1>14

--------------------------------------------------------------------------------
(* The frames of patterns and joins: lists of rows whose cached columns hold *)
(* what a lookup would find.                                                 *)

Cached(fr) ==
    \A key \in DOMAIN fr.cache : \A i \in DOMAIN fr.rows :
        fr.cache[key][i] = Current(fr.types[key[1]], fr.rows[i][key[1]], key[2])
Matched(fr) == IsFrame(fr) /\ Cached(fr)

\* A list mapped is a list.
LEMMA MappedList ==
    ASSUME NEW s, IsList(s), NEW t, t = [i \in DOMAIN s |-> t[i]]
    PROVE  IsList(t) /\ DOMAIN t = DOMAIN s
<1>1. Len(s) \in Nat /\ DOMAIN s = 1 .. Len(s)
  BY ListFacts
<1>. QED
  BY <1>1, ListOf

\* A frame without cached columns.
LEMMA FreshFrame ==
    ASSUME NEW rows, IsList(rows), NEW types
    PROVE  Matched(Frame(rows, types))
BY NoRows DEF Matched, IsFrame, Cached, Frame, NoCache

Looked(fr, v, p) == WithColumn(fr, v, p, Current)

\* A lookup caches the column that it finds now.
LEMMA LookedMatches ==
    ASSUME NEW fr, Matched(fr), NEW v, NEW p
    PROVE  Matched(Looked(fr, v, p)) /\ SameBindings(fr, Looked(fr, v, p))
<1>. DEFINE C == IF <<v, p>> \in DOMAIN fr.cache THEN fr.cache[v, p]
                 ELSE [i \in DOMAIN fr.rows |-> Current(fr.types[v], fr.rows[i][v], p)]
<1>. PICK new : new = Looked(fr, v, p)
  OBVIOUS
<1>1. new = [fr EXCEPT !.cache = Put(@, <<v, p>>, C)]
  BY DEF Looked, WithColumn, Column
<1>2. \A i \in DOMAIN fr.rows : C[i] = Current(fr.types[v], fr.rows[i][v], p)
  <2>1. CASE <<v, p>> \in DOMAIN fr.cache
    <3>. PICK key : key = <<v, p>>
      OBVIOUS
    <3>1. key[1] = v /\ key[2] = p
      OBVIOUS
    <3>2. \A i \in DOMAIN fr.rows : fr.cache[key][i] = Current(fr.types[key[1]], fr.rows[i][key[1]], key[2])
      BY <2>1 DEF Matched, Cached
    <3>. QED
      BY <2>1, <3>1, <3>2
  <2>2. CASE <<v, p>> \notin DOMAIN fr.cache
    BY <2>2
  <2>. QED
    BY <2>1, <2>2
<1>. HIDE DEF C
<1>3. /\ new.rows = fr.rows /\ new.types = fr.types /\ new.cache = Put(fr.cache, <<v, p>>, C)
      /\ DOMAIN new = DOMAIN fr
  BY <1>1 DEF Matched, IsFrame
<1>4. ASSUME NEW key \in DOMAIN new.cache, NEW i \in DOMAIN new.rows
      PROVE  new.cache[key][i] = Current(new.types[key[1]], new.rows[i][key[1]], key[2])
  <2>1. CASE key = <<v, p>>
    <3>1. new.cache[key] = C /\ key[1] = v /\ key[2] = p
      BY <1>3, <2>1 DEF Put
    <3>. QED
      BY <1>2, <1>3, <3>1
  <2>2. CASE key # <<v, p>>
    <3>1. key \in DOMAIN fr.cache /\ new.cache[key] = fr.cache[key]
      BY <1>3, <2>2 DEF Put
    <3>. QED
      BY <1>3, <3>1 DEF Matched, Cached
  <2>. QED
    BY <2>1, <2>2
<1>. QED
  BY <1>3, <1>4 DEF Matched, IsFrame, Cached, SameBindings

\* Filtering takes the cached columns along with the rows.
LEMMA FilteredMatches ==
    ASSUME NEW fr, Matched(fr), NEW mask
    PROVE  Matched(FilterFrame(fr, mask))
<1>. DEFINE kept == {i \in DOMAIN fr.rows : mask[i]}
<1>. PICK new : new = FilterFrame(fr, mask)
  OBVIOUS
<1>1. /\ new.rows = RowsAt(fr.rows, kept) /\ new.types = fr.types /\ DOMAIN new = DOMAIN fr
      /\ new.cache = [key \in DOMAIN fr.cache |-> RowsAt(fr.cache[key], kept)]
  BY DEF FilterFrame, Matched, IsFrame
<1>2. kept \subseteq DOMAIN fr.rows /\ IsList(fr.rows)
  BY DEF Matched, IsFrame
<1>. HIDE DEF kept
<1>. PICK places : places = InOrder(kept)
  OBVIOUS
<1>3. /\ IsList(new.rows) /\ DOMAIN new.rows = DOMAIN places
      /\ \A k \in DOMAIN places : places[k] \in kept /\ new.rows[k] = fr.rows[places[k]]
  BY <1>1, <1>2, RowsAtShape
<1>4. ASSUME NEW key \in DOMAIN new.cache, NEW k \in DOMAIN new.rows
      PROVE  new.cache[key][k] = Current(new.types[key[1]], new.rows[k][key[1]], key[2])
  <2>1. key \in DOMAIN fr.cache /\ new.cache[key] = RowsAt(fr.cache[key], kept)
    BY <1>1
  <2>2. new.cache[key][k] = fr.cache[key][places[k]]
    BY <1>3, <2>1 DEF RowsAt
  <2>3. places[k] \in DOMAIN fr.rows /\ new.rows[k] = fr.rows[places[k]]
    BY <1>2, <1>3
  <2>. QED
    BY <1>1, <2>1, <2>2, <2>3 DEF Matched, Cached
<1>. QED
  BY <1>1, <1>3, <1>4 DEF Matched, IsFrame, Cached

\* A filter of a pattern looks up and filters.
LEMMA InlineFilterMatches ==
    ASSUME NEW fr, Matched(fr), NEW n, NEW p
    PROVE  Matched(InlineFilter(fr, n, p))
<1>. PICK read : read = Looked(fr, n.var, p)
  OBVIOUS
<1>. DEFINE mask == [i \in DOMAIN read.rows |-> read.cache[n.var, p][i] = n.props[p]]
<1>1. InlineFilter(fr, n, p) = FilterFrame(read, mask)
  BY DEF InlineFilter, Looked, WithColumn, Column
<1>. HIDE DEF mask
<1>2. Matched(read)
  BY LookedMatches
<1>. QED
  BY <1>1, <1>2, FilteredMatches

\* So does a WHERE.
LEMMA WhereMatches ==
    ASSUME NEW fr, Matched(fr), NEW pred
    PROVE  Matched(Where(pred, fr))
<1>. PICK read : read = Looked(fr, pred.var, pred.prop)
  OBVIOUS
<1>. DEFINE mask == [i \in DOMAIN read.rows |-> read.cache[pred.var, pred.prop][i] = pred.value]
<1>0. ASSUME pred = NoPredicate PROVE Where(pred, fr) = fr
  BY <1>0 DEF Where, WithColumn, Column
<1>1. ASSUME pred # NoPredicate PROVE Where(pred, fr) = FilterFrame(read, mask)
  BY <1>1 DEF Where, Looked, WithColumn, Column
<1>. HIDE DEF mask
<1>2. Matched(read)
  BY LookedMatches
<1>3. Matched(FilterFrame(read, mask))
  BY <1>2, FilteredMatches
<1>. QED
  BY <1>0, <1>1, <1>3

\* And all the filters of a node.
LEMMA FiltersMatch ==
    ASSUME NEW fr, Matched(fr), NEW n, NEW S, IsFiniteSet(S)
    PROVE  Matched(Filters(n, fr, S))
<1>1. PICK g : Filters(n, fr, S) = g[S] /\ FilterRuns(g, n, fr, S)
  BY FiltersRun
<1>. DEFINE P == {s \in SUBSET S : Matched(g[s])}
<1>2. ASSUME NEW s \in SUBSET S, \A x \in s : s \ {x} \in P PROVE s \in P
  <2>1. CASE s = {}
    BY <1>1, <2>1 DEF FilterRuns
  <2>2. CASE s # {}
    <3>1. PICK p \in s : g[s] = InlineFilter(g[s \ {p}], n, p)
      BY <1>1, <2>2 DEF FilterRuns
    <3>2. Matched(g[s \ {p}])
      BY <1>2
    <3>. QED
      BY <3>1, <3>2, InlineFilterMatches
  <2>. QED
    BY <2>1, <2>2
<1>3. S \in SUBSET S
  OBVIOUS
<1>. HIDE DEF P
<1>4. S \in P
  BY <1>2, <1>3, SubsetInduction
<1>. QED
  BY <1>1, <1>4 DEF P

--------------------------------------------------------------------------------
\* A scan gives a frame without cached columns.
LEMMA ScanMatches ==
    ASSUME Registry, NEW n, n.label \in DOMAIN live
    PROVE  Matched(Scan(n)) /\ Scan(n).cache = NoCache
<1>. DEFINE T == live[n.label]
            Answer == RowsAt(T, {i \in DOMAIN T : \A p \in DOMAIN n.props : T[i].props[p] = n.props[p]})
            found == IF n.label \in DOMAIN shadow THEN T ELSE Answer
            rows == [i \in DOMAIN found |-> [v \in {n.var} |-> found[i].id]]
<1>1. Scan(n) = Frame(rows, [v \in {n.var} |-> n.label])
  BY DEF Scan
<1>2. IsList(T)
  BY TableFacts DEF Registry, AreTables
<1>3. IsList(Answer)
  <2>1. {i \in DOMAIN T : \A p \in DOMAIN n.props : T[i].props[p] = n.props[p]} \subseteq DOMAIN T
    OBVIOUS
  <2>. HIDE DEF T
  <2>. QED
    BY <1>2, <2>1, RowsAtShape
<1>4. IsList(found)
  BY <1>2, <1>3
<1>. HIDE DEF found
<1>5. rows = [i \in DOMAIN found |-> rows[i]]
  OBVIOUS
<1>. HIDE DEF rows
<1>6. IsList(rows)
  BY <1>4, <1>5, MappedList
<1>. QED
  BY <1>1, <1>6, FreshFrame DEF Frame

\* Lists of rows, one behind the other.
LEMMA ConcatenatedRows ==
    ASSUME NEW s, IsList(s), NEW ss, ss = [i \in DOMAIN s |-> ss[i]], \A i \in DOMAIN s : IsList(ss[i])
    PROVE  IsList(FlattenSeq(ss))
<1>1. IsList(ss) /\ DOMAIN ss = DOMAIN s
  BY MappedList
<1>. QED
  BY <1>1, FlattenedIsList

\* A hop leaves the columns of its filters, as they are now.
LEMMA TraverseHopMatches ==
    ASSUME Registry, NEW path, path.from.label \in DOMAIN live, path.rel \in DOMAIN live_rels,
           IsFiniteSet(DOMAIN path.to.props)
    PROVE  Matched(TraverseHop(path))
<1>. PICK near : near = Scan(path.from)
  OBVIOUS
<1>. DEFINE rels == live_rels[path.rel]
            Edges(id) == RowsAt(rels, {i \in DOMAIN rels : rels[i].src = id})
            Follow(row) == [j \in DOMAIN Edges(row[path.from.var]) |->
                                Put(row, path.to.var, Edges(row[path.from.var])[j].tgt)]
            rowss == [i \in DOMAIN near.rows |-> Follow(near.rows[i])]
            types == Put(near.types, path.to.var, path.to.label)
            reached == Frame(FlattenSeq(rowss), types)
<1>1. TraverseHop(path) = Filters(path.to, reached, DOMAIN path.to.props)
  BY DEF TraverseHop, Filters, FoldSet, MapThenFoldSet
<1>2. IsList(near.rows)
  BY ScanMatches DEF Matched, IsFrame
<1>3. IsList(rels)
  BY TableFacts DEF Registry, AreTables
<1>. HIDE DEF rels
<1>4. \A row : IsList(Follow(row))
  <2>. SUFFICES ASSUME NEW row PROVE IsList(Follow(row))
    OBVIOUS
  <2>1. {i \in DOMAIN rels : rels[i].src = row[path.from.var]} \subseteq DOMAIN rels
    OBVIOUS
  <2>2. IsList(Edges(row[path.from.var]))
    BY <1>3, <2>1, RowsAtShape
  <2>. HIDE DEF Edges
  <2>. PICK pairs : pairs = Edges(row[path.from.var])
    OBVIOUS
  <2>. PICK f : f = Follow(row)
    OBVIOUS
  <2>3. f = [j \in DOMAIN pairs |-> f[j]]
    OBVIOUS
  <2>. HIDE DEF Follow
  <2>. QED
    BY <2>2, <2>3, MappedList
<1>. HIDE DEF Follow
<1>5. IsList(FlattenSeq(rowss))
  <2>1. rowss = [i \in DOMAIN near.rows |-> rowss[i]] /\ \A i \in DOMAIN near.rows : IsList(rowss[i])
    BY <1>4
  <2>. HIDE DEF rowss
  <2>. QED
    BY <1>2, <2>1, ConcatenatedRows
<1>. HIDE DEF rowss
<1>6. Matched(reached)
  BY <1>5, FreshFrame
<1>. HIDE DEF reached
<1>. QED
  BY <1>1, <1>6, FiltersMatch

\* A hop back to its start.
LEMMA CyclicHopMatches ==
    ASSUME Registry, NEW path, path.from.label \in DOMAIN live, path.rel \in DOMAIN live_rels
    PROVE  Matched(CyclicHop(path))
<1>. PICK near : near = Scan(path.from)
  OBVIOUS
<1>. DEFINE rels == live_rels[path.rel]
            Loops1(i) == {j \in DOMAIN rels : rels[j].src = near.rows[i][path.from.var]
                                             /\ rels[j].tgt = near.rows[i][path.from.var]}
            rowss == [i \in DOMAIN near.rows |-> [j \in 1 .. Cardinality(Loops1(i)) |-> near.rows[i]]]
<1>1. CyclicHop(path) = Frame(FlattenSeq(rowss), near.types)
  BY DEF CyclicHop
<1>2. IsList(near.rows)
  BY ScanMatches DEF Matched, IsFrame
<1>3. IsList(rels)
  BY TableFacts DEF Registry, AreTables
<1>. HIDE DEF rels
<1>4. ASSUME NEW i \in DOMAIN near.rows PROVE IsList(rowss[i])
  <2>1. Loops1(i) \subseteq DOMAIN rels
    OBVIOUS
  <2>2. Cardinality(Loops1(i)) \in Nat
    BY <1>3, <2>1, RowsAtShape
  <2>. HIDE DEF Loops1
  <2>. PICK k \in Nat : k = Cardinality(Loops1(i))
    BY <2>2
  <2>. PICK f : f = rowss[i]
    OBVIOUS
  <2>3. f = [j \in 1 .. k |-> f[j]]
    OBVIOUS
  <2>. HIDE DEF rowss
  <2>. QED
    BY <2>3, ListOf
<1>5. rowss = [i \in DOMAIN near.rows |-> rowss[i]]
  OBVIOUS
<1>. HIDE DEF rowss
<1>6. IsList(FlattenSeq(rowss))
  BY <1>2, <1>4, <1>5, ConcatenatedRows
<1>. QED
  BY <1>1, <1>6, FreshFrame

\* The frame of a path pattern.
LEMMA MatchFrameMatches ==
    ASSUME Registry, NEW path, TypesRegistered(path), IsFiniteSet(DOMAIN path.to.props)
    PROVE  Matched(MatchFrame(path))
BY ScanMatches, TraverseHopMatches, CyclicHopMatches DEF MatchFrame, TypesRegistered

\* The same with the predicate pushed into it.
LEMMA PathFrameMatches ==
    ASSUME Registry, NEW paths, NEW i, TypesRegistered(paths[i]),
           IsFiniteSet(DOMAIN paths[i].to.props), NEW pred
    PROVE  Matched(PathFrame(paths, pred, i))
<1>1. Matched(MatchFrame(paths[i]))
  BY MatchFrameMatches
<1>2. Matched(Where(pred, MatchFrame(paths[i])))
  BY <1>1, WhereMatches
<1>. QED
  BY <1>1, <1>2 DEF PathFrame

--------------------------------------------------------------------------------
\* The rows of l, each followed by the rows of r at the chosen positions.
Pairings(l, r, at) ==
    FlattenSeq([i \in DOMAIN l.rows |->
        [j \in DOMAIN RowsAt(r.rows, at[i]) |-> MergedRow(l.rows[i], RowsAt(r.rows, at[i])[j])]])

\* Rows paired with rows.
LEMMA PairingsAreList ==
    ASSUME NEW l, IsFrame(l), NEW r, IsFrame(r), NEW at,
           \A i \in DOMAIN l.rows : at[i] \subseteq DOMAIN r.rows
    PROVE  IsList(Pairings(l, r, at))
<1>. DEFINE Row(i) ==
             [j \in DOMAIN RowsAt(r.rows, at[i]) |-> MergedRow(l.rows[i], RowsAt(r.rows, at[i])[j])]
            rowss == [i \in DOMAIN l.rows |-> Row(i)]
<1>1. Pairings(l, r, at) = FlattenSeq(rowss)
  BY DEF Pairings
<1>2. ASSUME NEW i \in DOMAIN l.rows PROVE IsList(Row(i))
  <2>. PICK hits : hits = RowsAt(r.rows, at[i])
    OBVIOUS
  <2>1. IsList(hits)
    BY RowsAtShape DEF IsFrame
  <2>. PICK f : f = Row(i)
    OBVIOUS
  <2>2. f = [j \in DOMAIN hits |-> f[j]]
    OBVIOUS
  <2>. HIDE DEF Row
  <2>. QED
    BY <2>1, <2>2, MappedList
<1>. HIDE DEF Row
<1>3. rowss = [i \in DOMAIN l.rows |-> rowss[i]] /\ \A i \in DOMAIN l.rows : IsList(rowss[i])
  BY <1>2
<1>. HIDE DEF rowss
<1>. QED
  BY <1>1, <1>3, ConcatenatedRows DEF IsFrame

\* A cross join caches no column.
LEMMA CrossJoinMatches ==
    ASSUME NEW l, IsFrame(l), NEW r, IsFrame(r)
    PROVE  Matched(CrossJoin(l, r)) /\ CrossJoin(l, r).cache = NoCache
<1>. DEFINE at == [i \in DOMAIN l.rows |-> {j \in DOMAIN r.rows : TRUE}]
<1>1. CrossJoin(l, r) = Frame(Pairings(l, r, at), MergedTypes(l, r))
  BY DEF CrossJoin, RowsWith, Pairings
<1>2. \A i \in DOMAIN l.rows : at[i] \subseteq DOMAIN r.rows
  OBVIOUS
<1>. HIDE DEF at
<1>. QED
  BY <1>1, <1>2, PairingsAreList, FreshFrame DEF Frame

\* Nor does a join on a variable.
LEMMA JoinOnMatches ==
    ASSUME NEW l, IsFrame(l), NEW r, IsFrame(r), NEW v
    PROVE  Matched(JoinOn(l, r, v)) /\ JoinOn(l, r, v).cache = NoCache
<1>. DEFINE at == [i \in DOMAIN l.rows |-> {j \in DOMAIN r.rows : l.rows[i][v] = r.rows[j][v]}]
<1>1. JoinOn(l, r, v) = Frame(Pairings(l, r, at), MergedTypes(l, r))
  BY DEF JoinOn, RowsWith, Pairings
<1>2. \A i \in DOMAIN l.rows : at[i] \subseteq DOMAIN r.rows
  OBVIOUS
<1>. HIDE DEF at
<1>. QED
  BY <1>1, <1>2, PairingsAreList, FreshFrame DEF Frame

\* Nor does a left join.
LEMMA LeftJoinMatches ==
    ASSUME NEW l, IsFrame(l), NEW r, IsFrame(r), NEW v
    PROVE  Matched(LeftJoin(l, r, v)) /\ LeftJoin(l, r, v).cache = NoCache
<1>. DEFINE absent == [w \in Vars(r) \ Vars(l) |-> Null]
            Hits(row) == RowsAt(r.rows, {j \in DOMAIN r.rows : r.rows[j][v] = row[v]})
            Joined(row) == IF Hits(row) = <<>> THEN <<Over(row, absent)>>
                           ELSE [j \in DOMAIN Hits(row) |-> MergedRow(row, Hits(row)[j])]
            rowss == [i \in DOMAIN l.rows |-> Joined(l.rows[i])]
<1>1. LeftJoin(l, r, v) = Frame(FlattenSeq(rowss), MergedTypes(l, r))
  BY DEF LeftJoin
<1>2. ASSUME NEW row PROVE IsList(Joined(row))
  <2>1. {j \in DOMAIN r.rows : r.rows[j][v] = row[v]} \subseteq DOMAIN r.rows
    OBVIOUS
  <2>2. IsList(Hits(row))
    BY <2>1, RowsAtShape DEF IsFrame
  <2>. HIDE DEF Hits
  <2>. PICK hits : hits = Hits(row)
    OBVIOUS
  <2>. PICK f : f = Joined(row)
    OBVIOUS
  <2>3. CASE hits = <<>>
    <3>1. \E x : f = <<x>>
      BY <2>3
    <3>. QED
      BY <3>1 DEF IsList, Range
  <2>4. CASE hits # <<>>
    <3>1. f = [j \in DOMAIN hits |-> f[j]]
      BY <2>4
    <3>. HIDE DEF Joined
    <3>. QED
      BY <2>2, <3>1, MappedList
  <2>. QED
    BY <2>3, <2>4
<1>. HIDE DEF Joined
<1>3. rowss = [i \in DOMAIN l.rows |-> rowss[i]] /\ \A i \in DOMAIN l.rows : IsList(rowss[i])
  BY <1>2
<1>. HIDE DEF rowss
<1>4. IsList(FlattenSeq(rowss))
  BY <1>3, ConcatenatedRows DEF IsFrame
<1>. QED
  BY <1>1, <1>4, FreshFrame DEF Frame

\* Every frame that coerce_join may give.
LEMMA JoinsMatch ==
    ASSUME NEW l, IsFrame(l), NEW r, IsFrame(r)
    PROVE  /\ \A fr \in CoerceJoins(l, r) : Matched(fr)
           /\ \A fr \in OptionalJoins(l, r) : Matched(fr)
BY CrossJoinMatches, JoinOnMatches, LeftJoinMatches DEF CoerceJoins, OptionalJoins

\* An optional match that fails keeps the cached columns or drops them all.
LEMMA OptionalFailureMatches ==
    ASSUME NEW fr, IsFrame(fr), NEW types
    PROVE  IsFrame(OptionalFailure(fr, types)) /\ (Cached(fr) => Cached(OptionalFailure(fr, types)))
<1>. DEFINE fresh == DOMAIN types \ Vars(fr)
            rows == [i \in DOMAIN fr.rows |-> Over(fr.rows[i], [v \in fresh |-> Null])]
            kinds == [v \in Vars(fr) \union fresh |-> IF v \in fresh THEN types[v] ELSE fr.types[v]]
<1>1. OptionalFailure(fr, types) = IF fresh = {} THEN fr ELSE Frame(rows, kinds)
  BY DEF OptionalFailure
<1>2. rows = [i \in DOMAIN fr.rows |-> rows[i]]
  OBVIOUS
<1>. HIDE DEF rows, kinds, fresh
<1>3. IsList(rows)
  BY <1>2, MappedList DEF IsFrame
<1>4. Matched(Frame(rows, kinds))
  BY <1>3, FreshFrame
<1>. QED
  BY <1>1, <1>4 DEF Matched

\* A projection drops them.
LEMMA ProjectMatches ==
    ASSUME NEW fr, IsFrame(fr), NEW keep
    PROVE  Matched(Project(fr, keep))
<1>. DEFINE rows == [i \in DOMAIN fr.rows |-> [v \in keep |-> fr.rows[i][v]]]
<1>1. rows = [i \in DOMAIN fr.rows |-> rows[i]]
  OBVIOUS
<1>. HIDE DEF rows
<1>2. IsList(rows)
  BY <1>1, MappedList DEF IsFrame
<1>. QED
  BY <1>2, FreshFrame DEF Project, rows

ArePaths(paths) ==
    /\ paths # <<>> /\ IsList(paths)
    /\ \A i \in DOMAIN paths : IsFiniteSet(DOMAIN paths[i].to.props)

\* The frames of a MATCH.
LEMMA MatchFramesMatch ==
    ASSUME Registry, NEW paths, ArePaths(paths), Registered(paths), NEW pred
    PROVE  \A fr \in MatchFrames(paths, pred) : Matched(fr)
<1>. PICK n \in Nat : n = Len(paths) /\ DOMAIN paths = 1 .. n
  BY ListFacts DEF ArePaths
<1>1. n # 0
  <2>1. paths \in Seq(Range(paths)) /\ paths # <<>>
    BY DEF ArePaths, IsList
  <2>. QED
    BY <2>1
<1>. DEFINE others == Tail([i \in DOMAIN paths |-> i])
<1>2. IsList(others) /\ Len(others) = n - 1 /\ \A i \in 1 .. (n - 1) : others[i] \in DOMAIN paths
  <2>. PICK s : s = [i \in 1 .. n |-> i]
    OBVIOUS
  <2>1. s \in Seq(1 .. n) /\ s # <<>> /\ Len(s) = n
    BY <1>1
  <2>. PICK o : o = Tail(s)
    OBVIOUS
  <2>2. o \in Seq(1 .. n) /\ Len(o) = n - 1
    BY <2>1
  <2>3. n - 1 \in Nat /\ o = [i \in 1 .. (n - 1) |-> o[i]] /\ \A i \in 1 .. (n - 1) : o[i] \in 1 .. n
    BY <1>1, <2>2
  <2>4. IsList(o)
    BY <2>3, ListOf
  <2>. QED
    BY <2>2, <2>3, <2>4
<1>. HIDE DEF others
<1>3. PICK run : MatchFrames(paths, pred) = run[Len(others)] /\ JoinRuns(run, paths, pred, others)
  BY <1>2, MatchFramesRun DEF others
<1>4. \A i \in 1 .. n : Matched(PathFrame(paths, pred, i))
  BY PathFrameMatches DEF ArePaths, Registered
<1>. DEFINE S == {i \in Nat : i <= n - 1 => \A fr \in run[i] : Matched(fr)}
<1>5. 0 \in S
  <2>1. Matched(PathFrame(paths, pred, 1))
    BY <1>1, <1>4
  <2>. QED
    BY <1>3, <2>1 DEF JoinRuns
<1>6. ASSUME NEW i \in S PROVE i + 1 \in S
  <2>. SUFFICES ASSUME i + 1 <= n - 1, NEW fr \in run[i + 1] PROVE Matched(fr)
    OBVIOUS
  <2>1. i \in Nat /\ i + 1 \in 1 .. (n - 1) /\ (i + 1) - 1 = i /\ i <= n - 1
    BY <1>1
  <2>2. PICK old \in run[i] : fr \in CoerceJoins(old, PathFrame(paths, pred, others[i + 1]))
    BY <1>2, <1>3, <2>1 DEF JoinRuns
  <2>3. Matched(old) /\ Matched(PathFrame(paths, pred, others[i + 1]))
    BY <1>2, <1>4, <2>1
  <2>. QED
    BY <2>2, <2>3, JoinsMatch DEF Matched
<1>7. S = Nat
  <2>1. S \in SUBSET Nat
    OBVIOUS
  <2>. HIDE DEF S
  <2>. QED
    BY <1>5, <1>6, <2>1, SetInduction
<1>8. n - 1 \in Nat
  BY <1>1
<1>. QED
  BY <1>2, <1>3, <1>7, <1>8

\* A MATCH joined to the frame there was.
LEMMA MergedFramesMatch ==
    ASSUME IsFrame(frame), NEW match, Matched(match), NEW pred
    PROVE  \A fr \in MergedFrames(match, pred) : Matched(fr)
<1>1. Matched(Where(pred, match))
  BY WhereMatches
<1>2. \A fr \in CoerceJoins(frame, Where(pred, match)) : Matched(fr)
  BY <1>1, JoinsMatch DEF Matched
<1>3. \A fr \in CoerceJoins(frame, match) : Matched(fr)
  BY JoinsMatch DEF Matched
<1>4. \A fr \in CoerceJoins(frame, match) : Matched(Where(pred, fr))
  BY <1>3, WhereMatches
<1>. QED
  BY <1>2, <1>4 DEF MergedFrames

--------------------------------------------------------------------------------
(* The steps of a query. *)

\* What a MERGE or a FOREACH may still have to do.
Parts == InnerClauses \union {[op |-> "on_create", items |-> items] : items \in OnCreates}
IsRound(round) == IsFrame(round.frame) /\ round.body \in Seq(Parts) /\ round.body # <<>>
Pending(list) == IsList(list) /\ \A i \in DOMAIN list : IsRound(list[i])

\* Nothing is left to do.
LEMMA NothingPends == Pending(<<>>)
BY NoRows DEF Pending

\* What is left of one clause and then of another.
LEMMA BothPend ==
    ASSUME NEW s, Pending(s), NEW t, Pending(t)
    PROVE  Pending(s \o t)
<1>1. IsList(s) /\ IsList(t)
  BY DEF Pending
<1>2. PICK m \in Nat, n \in Nat : m = Len(s) /\ n = Len(t) /\ DOMAIN s = 1 .. m /\ DOMAIN t = 1 .. n
  BY <1>1, ListFacts
<1>3. PICK r : r = s \o t
  OBVIOUS
<1>4. /\ IsList(r) /\ DOMAIN r = 1 .. m + n
      /\ \A i \in 1 .. m : r[i] = s[i]
      /\ \A i \in 1 .. n : r[m + i] = t[i]
  BY <1>1, <1>2, <1>3, JoinedLists
<1>5. ASSUME NEW i \in 1 .. m + n PROVE IsRound(r[i])
  <2>1. CASE i \in 1 .. m
    BY <1>2, <1>4, <2>1 DEF Pending
  <2>2. CASE i \notin 1 .. m
    <3>1. i - m \in 1 .. n /\ m + (i - m) = i
      BY <2>2
    <3>2. r[i] = t[i - m]
      BY <1>4, <3>1
    <3>. QED
      BY <1>2, <3>1, <3>2 DEF Pending
  <2>. QED
    BY <2>1, <2>2
<1>. QED
  BY <1>3, <1>4, <1>5 DEF Pending

\* The next of what is left, and the others.
LEMMA NextPends ==
    ASSUME NEW list, Pending(list), list # <<>>
    PROVE  IsRound(Head(list)) /\ Pending(Tail(list))
<1>1. IsList(list)
  BY DEF Pending
<1>2. PICK n \in Nat : n = Len(list) /\ DOMAIN list = 1 .. n
  BY <1>1, ListFacts
<1>3. list \in Seq(Range(list))
  BY <1>1 DEF IsList
<1>4. n >= 1 /\ Head(list) = list[1]
  BY <1>2, <1>3
<1>5. PICK rest : rest = Tail(list)
  OBVIOUS
<1>6. n - 1 \in Nat /\ rest \in Seq(Range(list)) /\ Len(rest) = n - 1
      /\ \A i \in 1 .. (n - 1) : rest[i] = list[i + 1]
  BY <1>2, <1>3, <1>4, <1>5
<1>7. rest = [i \in 1 .. (n - 1) |-> rest[i]]
  BY <1>6
<1>8. IsList(rest) /\ DOMAIN rest = 1 .. (n - 1)
  BY <1>6, <1>7, ListOf
<1>9. ASSUME NEW i \in 1 .. (n - 1) PROVE IsRound(rest[i])
  <2>1. i + 1 \in 1 .. n
    BY <1>4
  <2>. QED
    BY <1>2, <1>6, <2>1 DEF Pending
<1>10. IsRound(list[1])
  BY <1>2, <1>4 DEF Pending
<1>. QED
  BY <1>4, <1>5, <1>8, <1>9, <1>10 DEF Pending

\* A list of one thing.
LEMMA OneInList ==
    ASSUME NEW x
    PROVE  IsList(<<x>>) /\ DOMAIN <<x>> = 1 .. 1 /\ <<x>>[1] = x
BY ListOf, <<x>> = [i \in 1 .. 1 |-> <<x>>[i]]

\* The rest of a clause, and what was left before it.
LEMMA ThenPends ==
    ASSUME NEW fr, IsFrame(fr), NEW body \in Seq(Parts), NEW rest, Pending(rest)
    PROVE  Pending(Then(fr, body, rest))
<1>1. CASE body = <<>>
  BY <1>1 DEF Then
<1>2. CASE body # <<>>
  <2>. PICK round : round = [frame |-> fr, body |-> body]
    OBVIOUS
  <2>1. IsRound(round)
    BY <1>2 DEF IsRound
  <2>2. Pending(<<round>>)
    BY <2>1, OneInList DEF Pending
  <2>. QED
    BY <1>2, <2>2, BothPend DEF Then
<1>. QED
  BY <1>1, <1>2

\* The rounds of a FOREACH.
LEMMA LoopsPend ==
    ASSUME NEW fr, HasRows(fr), NEW loop \in Foreaches
    PROVE  Pending(Loops(fr, loop))
<1>. DEFINE rows == IF fr = NoFrame THEN <<<<>>>> ELSE fr.rows
            Element(row, e) == IF e.op = "value" THEN e.value ELSE row[e.var]
            Round(row, e) == [frame |-> Frame(<<Put(row, loop.var, Element(row, e))>>, LoopTypes(fr, loop)),
                              body |-> loop.body]
            ss == [i \in DOMAIN rows |-> [j \in DOMAIN loop.list |-> Round(rows[i], loop.list[j])]]
<1>1. IsList(loop.list) /\ loop.body \in Seq(InnerClauses)
  BY QueryAssumption DEF IsList
<1>2. loop.body \in Seq(Parts)
  <2>1. InnerClauses \subseteq Parts
    BY DEF Parts
  <2>. QED
    BY <1>1, <2>1
<1>3. Loops(fr, loop) = IF loop.body = <<>> THEN <<>> ELSE FlattenSeq(ss)
  BY DEF Loops
<1>4. CASE loop.body = <<>>
  BY <1>3, <1>4, NothingPends
<1>5. CASE loop.body # <<>>
  <2>1. ASSUME NEW row, NEW e PROVE IsRound(Round(row, e))
    <3>. PICK one : one = <<Put(row, loop.var, Element(row, e))>>
      OBVIOUS
    <3>. PICK f : f = Frame(one, LoopTypes(fr, loop))
      OBVIOUS
    <3>1. IsList(one)
      BY OneInList
    <3>2. DOMAIN f = {"rows", "types", "cache"} /\ f.rows = one
      BY DEF Frame
    <3>3. IsFrame(f)
      BY <3>1, <3>2 DEF IsFrame
    <3>4. Round(row, e) = [frame |-> f, body |-> loop.body]
      OBVIOUS
    <3>. HIDE DEF Round
    <3>. QED
      BY <1>2, <1>5, <3>3, <3>4 DEF IsRound
  <2>2. IsList(rows)
    BY OneInList DEF HasRows, IsFrame
  <2>. HIDE DEF rows, Round
  <2>3. ASSUME NEW i \in DOMAIN rows
        PROVE  IsList(ss[i]) /\ \A x \in Range(ss[i]) : IsRound(x)
    <3>. PICK t : t = ss[i]
      OBVIOUS
    <3>1. t = [j \in DOMAIN loop.list |-> Round(rows[i], loop.list[j])]
      BY <2>3
    <3>2. t = [j \in DOMAIN loop.list |-> t[j]]
      BY <3>1
    <3>3. IsList(t)
      BY <1>1, <3>2, MappedList
    <3>4. \A x \in Range(t) : IsRound(x)
      BY <2>1, <3>1 DEF Range
    <3>. QED
      BY <3>3, <3>4
  <2>4. ss = [i \in DOMAIN rows |-> ss[i]]
    OBVIOUS
  <2>. HIDE DEF ss
  <2>5. IsList(ss) /\ DOMAIN ss = DOMAIN rows
    BY <2>2, <2>4, MappedList
  <2>. PICK flat : flat = FlattenSeq(ss)
    OBVIOUS
  <2>6. IsList(flat) /\ \A x \in Range(flat) : IsRound(x)
    BY <2>3, <2>5, FlattenedIsList, FlattenedRange
  <2>7. \A i \in DOMAIN flat : IsRound(flat[i])
    BY <2>6 DEF Range
  <2>. QED
    BY <1>3, <1>5, <2>6, <2>7 DEF Pending
<1>. QED
  BY <1>4, <1>5

\* The registered tables, the copies and the frame are in order, and so is what
\* a clause has left to do.
QueryInv ==
    /\ Registry /\ AreTables(shadow) /\ AreTables(shadow_rels)
    /\ HasRows(frame) /\ Pending(todo)

TheCommitted == [t \in AllTypes |-> Committed(t)]
TheWorking == [t \in AllTypes |-> Working(t)]

\* A clause starts on the copies there are.
LEMMA CopiesAre == QueryInv => IsCopies(Copies) /\ Copies.shadow = shadow /\ Copies.rels = shadow_rels
BY DEF QueryInv, IsCopies, Copies

\* A clause that mutates is one of the writes of PropertyGraph.
LEMMA LeavesWrites ==
    ASSUME QueryInv, NEW step \in {"grows", "changes", "shrinks"}, NEW st, IsCopies(st),
           Wrote(step, Copies, st), NEW fr, HasRows(fr), Leaves(st, fr), Pending(todo')
    PROVE  QueryInv' /\ Graph!GraphNext
<1>1. /\ shadow' = st.shadow /\ shadow_rels' = st.rels /\ frame' = fr
      /\ live' = live /\ live_rels' = live_rels
  BY DEF Leaves, Goes
<1>2. QueryInv'
  BY <1>1 DEF QueryInv, Registry, IsCopies, HasRows, IsFrame
<1>3. UNCHANGED TheCommitted
  BY <1>1 DEF TheCommitted, Committed
<1>4. \A t : /\ Moves(step, Seen(shadow, live, t), Seen(shadow', live', t))
             /\ Moves(step, Seen(shadow_rels, live_rels, t), Seen(shadow_rels', live_rels', t))
  BY <1>1, CopiesAre DEF Wrote
<1>5. \A t \in AllTypes : Moves(step, TheWorking[t], TheWorking'[t])
  BY <1>4 DEF TheWorking, Working, Seen
<1>6. CASE step = "grows"
  <2>1. \A t \in AllTypes : Graph!Grows(TheWorking[t], TheWorking'[t])
    BY <1>5, <1>6 DEF Moves
  <2>. QED
    BY <1>2, <1>3, <2>1 DEF Graph!GraphNext, Graph!AppendRows, TheCommitted, TheWorking
<1>7. CASE step = "changes"
  <2>1. \A t \in AllTypes : Graph!Changes(TheWorking[t], TheWorking'[t])
    BY <1>5, <1>7 DEF Moves
  <2>. QED
    BY <1>2, <1>3, <2>1 DEF Graph!GraphNext, Graph!ChangeRows, TheCommitted, TheWorking
<1>8. CASE step = "shrinks"
  <2>1. \A t \in AllTypes : Graph!Shrinks(TheWorking[t], TheWorking'[t])
    BY <1>5, <1>8 DEF Moves
  <2>. QED
    BY <1>2, <1>3, <2>1 DEF Graph!GraphNext, Graph!RemoveRows, TheCommitted, TheWorking
<1>. QED
  BY <1>2, <1>6, <1>7, <1>8

--------------------------------------------------------------------------------
(* Every step of a query. *)

\* The step leaves the graph as it is, or is a step of PropertyGraph.
OnGraph == Graph!GraphNext \/ UNCHANGED <<TheCommitted, TheWorking>>
KeepsCache == CacheCurrent => CacheCurrent'

\* Untouched tables are an untouched graph.
LEMMA SameTables ==
    ASSUME UNCHANGED <<live, live_rels, shadow, shadow_rels>>
    PROVE  UNCHANGED <<TheCommitted, TheWorking>>
BY DEF TheCommitted, TheWorking, Committed, Working

\* A frame whose columns hold what a lookup would find.
LEMMA CacheFound ==
    ASSUME frame' = NoFrame \/ frame'.cache = NoCache
               \/ (UNCHANGED <<live, shadow>> /\ Cached(frame'))
    PROVE  CacheCurrent'
<1>1. CASE frame' = NoFrame
  BY ONLY <1>1, Zenon DEF CacheCurrent
<1>2. CASE frame'.cache = NoCache
  <2>1. DOMAIN NoCache = {}
    BY ONLY NoRows DEF NoCache
  <2>. QED
    BY ONLY <1>2, <2>1, Zenon DEF CacheCurrent
<1>3. CASE UNCHANGED <<live, shadow>> /\ Cached(frame')
  BY <1>3 DEF CacheCurrent, Cached, Current, CurrentIn
<1>. QED
  BY <1>1, <1>2, <1>3

\* The cached columns of the frame hold what a lookup would find.
LEMMA CacheIs == frame # NoFrame /\ CacheCurrent => Cached(frame)
BY DEF CacheCurrent, Cached

\* A clause that only replaces the frame.
LEMMA FrameReplaced ==
    ASSUME QueryInv, OnlyFrame, NEW fr, NEW next, Goes(fr, next),
           fr = NoFrame \/ (IsFrame(fr) /\ (CacheCurrent => Cached(fr))), Pending(todo')
    PROVE  QueryInv' /\ OnGraph /\ KeepsCache
<1>1. UNCHANGED <<live, live_rels, shadow, shadow_rels>> /\ frame' = fr
  BY DEF OnlyFrame, Goes
<1>2. QueryInv'
  BY <1>1 DEF QueryInv, Registry, HasRows, IsFrame
<1>3. OnGraph
  BY <1>1, SameTables DEF OnGraph
<1>4. KeepsCache
  BY <1>1, CacheFound DEF KeepsCache
<1>. QED
  BY <1>2, <1>3, <1>4

\* A MATCH reads the graph, and what it caches is what is there.
LEMMA ProcessMatchKeeps ==
    ASSUME QueryInv, NEW paths, ArePaths(paths), NEW pred, NEW optional, ProcessMatch(paths, pred, optional)
    PROVE  QueryInv' /\ OnGraph /\ KeepsCache
<1>. DEFINE types == PatternVars(paths)
<1>1. Registry /\ HasRows(frame) /\ OnlyFrame /\ Pending(todo')
  BY NothingPends DEF QueryInv, ProcessMatch, Whole
<1>2. frame = NoFrame \/ (IsFrame(frame) /\ (CacheCurrent => Cached(frame)))
  BY <1>1, CacheIs DEF HasRows
<1>3. CASE Goes(frame, "ended") \/ Goes(frame, "failed")
  BY <1>1, <1>2, <1>3, FrameReplaced
<1>4. CASE frame # NoFrame /\ Goes(OptionalFailure(frame, types), "clauses")
  <2>1. /\ IsFrame(OptionalFailure(frame, types))
        /\ CacheCurrent => Cached(OptionalFailure(frame, types))
    BY <1>2, <1>4, OptionalFailureMatches
  <2>. QED
    BY <1>1, <1>4, <2>1, FrameReplaced
<1>5. ASSUME NEW fr, Matched(fr), Goes(fr, "clauses")
      PROVE  QueryInv' /\ OnGraph /\ KeepsCache
  BY <1>1, <1>5, FrameReplaced DEF Matched
<1>6. CASE Registered(paths) /\ frame = NoFrame
           /\ \E match \in MatchFrames(paths, pred) : Goes(match, "clauses")
  BY <1>1, <1>5, <1>6, MatchFramesMatch
<1>7. CASE /\ Registered(paths) /\ frame # NoFrame
           /\ \E match \in MatchFrames(paths, NoPredicate) :
                \/ \E fr \in MergedFrames(match, pred) : Goes(fr, "clauses")
                \/ \E fr \in OptionalJoins(frame, match) : Goes(fr, "clauses")
  <2>1. PICK match \in MatchFrames(paths, NoPredicate) :
                \/ \E fr \in MergedFrames(match, pred) : Goes(fr, "clauses")
                \/ \E fr \in OptionalJoins(frame, match) : Goes(fr, "clauses")
    BY <1>7
  <2>2. Matched(match) /\ IsFrame(frame) /\ IsFrame(match)
    BY <1>1, <1>2, <1>7, MatchFramesMatch DEF Matched
  <2>3. /\ \A fr \in MergedFrames(match, pred) : Matched(fr)
        /\ \A fr \in OptionalJoins(frame, match) : Matched(fr)
    BY <2>2, MergedFramesMatch, JoinsMatch
  <2>. QED
    BY <1>5, <2>1, <2>3
<1>8. \/ Goes(frame, "ended") \/ Goes(frame, "failed")
      \/ frame # NoFrame /\ Goes(OptionalFailure(frame, types), "clauses")
      \/ Registered(paths) /\ frame = NoFrame
           /\ \E match \in MatchFrames(paths, pred) : Goes(match, "clauses")
      \/ /\ Registered(paths) /\ frame # NoFrame
         /\ \E match \in MatchFrames(paths, NoPredicate) :
                \/ \E fr \in MergedFrames(match, pred) : Goes(fr, "clauses")
                \/ \E fr \in OptionalJoins(frame, match) : Goes(fr, "clauses")
  BY DEF ProcessMatch
<1>. QED
  BY <1>3, <1>4, <1>6, <1>7, <1>8

\* A WITH starts without cached columns.
LEMMA ProcessWithKeeps ==
    ASSUME QueryInv, NEW keep, ProcessWith(keep)
    PROVE  QueryInv' /\ OnGraph /\ KeepsCache
<1>1. IsFrame(frame) /\ OnlyFrame /\ Goes(Project(frame, keep), "clauses") /\ Pending(todo')
  BY NothingPends DEF QueryInv, ProcessWith, HasRows, Whole
<1>2. Matched(Project(frame, keep))
  BY <1>1, ProjectMatches
<1>. QED
  BY <1>1, <1>2, FrameReplaced DEF Matched

\* An error leaves the frame alone.
LEMMA RaiseKeeps ==
    ASSUME QueryInv, Raise
    PROVE  QueryInv' /\ OnGraph /\ KeepsCache
<1>1. OnlyFrame /\ Goes(frame, "failed") /\ Pending(todo')
  BY NothingPends DEF Raise
<1>2. frame = NoFrame \/ (IsFrame(frame) /\ (CacheCurrent => Cached(frame)))
  BY CacheIs DEF HasRows, QueryInv
<1>. QED
  BY <1>1, <1>2, FrameReplaced

--------------------------------------------------------------------------------
\* A CREATE appends; its frame is new, or no entity was written.
LEMMA CreateClauseKeeps ==
    ASSUME QueryInv, NEW paths, IsList(paths), CreateClause(paths)
    PROVE  QueryInv' /\ OnGraph /\ KeepsCache
<1>. PICK st : st = ProcessCreate(Copies, frame, paths)
  OBVIOUS
<1>. PICK fr : fr = CreatedFrame(st, frame)
  OBVIOUS
<1>1. Registry /\ HasRows(frame) /\ IsCopies(Copies) /\ Copies.shadow = shadow
  BY CopiesAre DEF QueryInv
<1>2. Leaves(st, fr) /\ Pending(todo')
  BY NothingPends DEF CreateClause, Whole
<1>3. Made(Copies, RowCount(frame), st)
  BY <1>1, ProcessCreateMakes
<1>4. Binds(fr, st, frame)
  BY <1>1, CreatedFrameBinds
<1>5. IsCopies(st) /\ Wrote("grows", Copies, st) /\ HasRows(fr)
  BY <1>3, <1>4 DEF Made, Binds
<1>6. QueryInv' /\ Graph!GraphNext
  BY <1>2, <1>5, LeavesWrites
<1>7. shadow' = st.shadow /\ live' = live /\ frame' = fr
  BY <1>2 DEF Leaves, Goes
<1>8. CASE st.made = <<>>
  <2>1. fr = frame /\ st.shadow = shadow
    BY <1>1, <1>3, <1>4, <1>8 DEF Made, Binds
  <2>. QED
    BY <1>6, <1>7, <2>1, CacheIs, CacheFound DEF OnGraph, KeepsCache
<1>9. CASE st.made # <<>>
  BY <1>4, <1>6, <1>7, <1>9, CacheFound DEF Binds, OnGraph, KeepsCache
<1>. QED
  BY <1>8, <1>9

\* SET, REMOVE and DELETE, each a write of its own kind.
LEMMA ForgottenForgets == HasRows(frame) => /\ HasRows(Forgotten(frame))
                                            /\ Forgotten(frame) = NoFrame
                                                 \/ Forgotten(frame).cache = NoCache
BY DEF HasRows, IsFrame, Forgotten

\* A clause that writes and forgets the cached columns.
LEMMA MutatesKeeps ==
    ASSUME QueryInv, NEW step \in {"grows", "changes", "shrinks"}, NEW st, IsCopies(st),
           Wrote(step, Copies, st), Mutates(st)
    PROVE  QueryInv' /\ OnGraph /\ KeepsCache
<1>. PICK fr : fr = Forgotten(frame)
  OBVIOUS
<1>1. HasRows(fr) /\ (fr = NoFrame \/ fr.cache = NoCache) /\ Leaves(st, fr) /\ Pending(todo')
  BY ForgottenForgets, NothingPends DEF QueryInv, Mutates, Whole
<1>2. QueryInv' /\ Graph!GraphNext
  BY <1>1, LeavesWrites
<1>3. frame' = fr
  BY <1>1 DEF Leaves, Goes
<1>. QED
  BY <1>1, <1>2, <1>3, CacheFound DEF OnGraph, KeepsCache

\* A SET, REMOVE or DELETE without a frame is an error.
LEMMA UnboundKeeps ==
    ASSUME QueryInv, Unbound
    PROVE  QueryInv' /\ OnGraph /\ KeepsCache
<1>. PICK st : st = [Copies EXCEPT !.ok = FALSE]
  OBVIOUS
<1>1. Registry /\ IsCopies(Copies)
  BY CopiesAre DEF QueryInv
<1>2. IsCopies(st) /\ st.shadow = Copies.shadow /\ st.rels = Copies.rels
  BY <1>1 DEF IsCopies
<1>3. Wrote("changes", Copies, st)
  BY <1>1, <1>2, WroteFacts
<1>4. Mutates(st)
  BY DEF Unbound
<1>. QED
  BY <1>2, <1>3, <1>4, MutatesKeeps

\* SET changes rows in place.
LEMMA SetClauseKeeps ==
    ASSUME QueryInv, NEW items, AreItems(items), SetClause(items)
    PROVE  QueryInv' /\ OnGraph /\ KeepsCache
<1>1. CASE Unbound
  BY <1>1, UnboundKeeps
<1>2. CASE frame # NoFrame /\ Mutates(SetProperties(Copies, frame, items))
  <2>. PICK st : st = SetProperties(Copies, frame, items)
    OBVIOUS
  <2>1. Registry /\ IsCopies(Copies) /\ IsFrame(frame)
    BY <1>2, CopiesAre DEF QueryInv, HasRows
  <2>2. IsCopies(st) /\ Wrote("changes", Copies, st)
    BY <2>1, SetPropertiesWrites
  <2>. QED
    BY <1>2, <2>2, MutatesKeeps
<1>. QED
  BY <1>1, <1>2 DEF SetClause

\* So does REMOVE.
LEMMA RemoveClauseKeeps ==
    ASSUME QueryInv, NEW v, NEW p, RemoveClause(v, p)
    PROVE  QueryInv' /\ OnGraph /\ KeepsCache
<1>1. CASE Unbound
  BY <1>1, UnboundKeeps
<1>2. CASE frame # NoFrame /\ Mutates(RemoveProperties(Copies, frame, v, p))
  <2>. PICK st : st = RemoveProperties(Copies, frame, v, p)
    OBVIOUS
  <2>1. Registry /\ IsCopies(Copies)
    BY CopiesAre DEF QueryInv
  <2>2. Rewritten(Copies, frame, v, st)
    BY <2>1, MutateWrites DEF RemoveProperties
  <2>3. IsCopies(st) /\ Wrote("changes", Copies, st)
    BY <2>2 DEF Rewritten
  <2>. QED
    BY <1>2, <2>3, MutatesKeeps
<1>. QED
  BY <1>1, <1>2 DEF RemoveClause

\* DELETE takes rows away.
LEMMA DeleteClauseKeeps ==
    ASSUME QueryInv, NEW v, NEW detach, DeleteClause(v, detach)
    PROVE  QueryInv' /\ OnGraph /\ KeepsCache
<1>1. CASE Unbound
  BY <1>1, UnboundKeeps
<1>2. CASE frame # NoFrame /\ Mutates(ProcessDelete(Copies, frame, v, detach))
  <2>. PICK st : st = ProcessDelete(Copies, frame, v, detach)
    OBVIOUS
  <2>1. Registry /\ IsCopies(Copies)
    BY CopiesAre DEF QueryInv
  <2>2. IsCopies(st) /\ Wrote("shrinks", Copies, st)
    BY <2>1, ProcessDeleteShrinks
  <2>. QED
    BY <1>2, <2>2, MutatesKeeps
<1>. QED
  BY <1>1, <1>2 DEF DeleteClause

--------------------------------------------------------------------------------
\* MERGE changes the rows it finds, or appends rows; what it sets on them is left.
LEMMA MergeWrites ==
    ASSUME QueryInv, NEW path, IsFiniteSet(DOMAIN path.to.props),
           NEW onMatch, AreItems(onMatch), NEW onCreate \in OnCreates, Merge(path, onMatch, onCreate)
    PROVE  QueryInv' /\ OnGraph
<1>. DEFINE found == TypesRegistered(path) /\ MatchFrame(path).rows # <<>>
<1>1. Registry /\ HasRows(frame) /\ IsCopies(Copies)
  BY CopiesAre DEF QueryInv
<1>2. CASE found
  <2>. PICK match : match = MatchFrame(path)
    OBVIOUS
  <2>. PICK set : set = SetProperties(Copies, match, onMatch)
    OBVIOUS
  <2>1. IsFrame(match)
    BY <1>1, <1>2, MatchFrameMatches DEF Matched
  <2>2. IsCopies(set) /\ Wrote("changes", Copies, set) /\ SameBindings(match, set.frame)
    BY <1>1, <2>1, SetPropertiesWrites
  <2>3. PICK fr \in IF frame = NoFrame \/ ~set.ok THEN {set.frame} ELSE CoerceJoins(frame, set.frame) :
            Leaves(set, fr)
    BY <1>2 DEF Merge
  <2>4. HasRows(fr)
    <3>1. CASE frame = NoFrame \/ ~set.ok
      BY <2>2, <2>3, <3>1 DEF SameBindings, HasRows
    <3>2. CASE ~(frame = NoFrame \/ ~set.ok)
      <4>1. IsFrame(frame) /\ IsFrame(set.frame)
        BY <1>1, <2>2, <3>2 DEF SameBindings, HasRows
      <4>2. fr \in CoerceJoins(frame, set.frame)
        BY <2>3, <3>2
      <4>. QED
        BY <4>1, <4>2, JoinsMatch DEF HasRows, Matched
    <3>. QED
      BY <3>1, <3>2
  <2>5. Pending(todo')
    BY <1>2, NothingPends DEF Merge
  <2>. QED
    BY <2>2, <2>3, <2>4, <2>5, LeavesWrites DEF OnGraph
<1>3. CASE ~found
  <2>. PICK created : created = ProcessCreate(Copies, frame, <<path>>)
    OBVIOUS
  <2>. PICK fr : fr = CreatedFrame(created, frame)
    OBVIOUS
  <2>. DEFINE sets == IF onCreate = <<>> \/ fr = NoFrame THEN <<>>
                      ELSE <<[op |-> "on_create", items |-> onCreate]>>
  <2>1. Made(Copies, RowCount(frame), created)
    BY <1>1, OneInList, ProcessCreateMakes
  <2>2. Leaves(created, fr) /\ todo' = Then(fr, sets, <<>>)
    BY <1>3 DEF Merge
  <2>3. HasRows(fr)
    BY <1>1, CreatedFrameBinds DEF Binds
  <2>4. Pending(todo')
    <3>1. CASE sets = <<>>
      BY <2>2, <3>1, NothingPends DEF Then
    <3>2. CASE sets # <<>>
      <4>1. IsFrame(fr)
        BY <2>3, <3>2 DEF HasRows
      <4>2. [op |-> "on_create", items |-> onCreate] \in Parts
        BY DEF Parts
      <4>3. sets \in Seq(Parts)
        BY <3>2, <4>2
      <4>. HIDE DEF sets
      <4>. QED
        BY <2>2, <4>1, <4>3, NothingPends, ThenPends
    <3>. QED
      BY <3>1, <3>2
  <2>5. IsCopies(created) /\ Wrote("grows", Copies, created)
    BY <2>1 DEF Made
  <2>. QED
    BY <2>2, <2>3, <2>4, <2>5, LeavesWrites DEF OnGraph
<1>. QED
  BY <1>2, <1>3

\* FOREACH only sets out what it will do.
LEMMA ForeachKeeps ==
    ASSUME QueryInv, NEW loop \in Foreaches, Foreach(loop)
    PROVE  QueryInv' /\ OnGraph /\ KeepsCache
<1>1. HasRows(frame) /\ OnlyFrame
  BY DEF QueryInv, Foreach
<1>2. Pending(todo')
  BY <1>1, LoopsPend, NothingPends DEF Foreach
<1>3. Goes(frame, "clauses") \/ Goes(frame, "failed")
  BY DEF Foreach
<1>4. frame = NoFrame \/ (IsFrame(frame) /\ (CacheCurrent => Cached(frame)))
  BY <1>1, CacheIs DEF HasRows
<1>. QED
  BY <1>1, <1>2, <1>3, <1>4, FrameReplaced

\* Every part of a MERGE or a FOREACH is one of the writes.
LEMMA InnerWrites ==
    ASSUME QueryInv, NEW fr, IsFrame(fr), NEW inner \in Parts, NEW st, st = Inner(fr, inner)
    PROVE  /\ \E step \in {"grows", "changes", "shrinks"} : IsCopies(st) /\ Wrote(step, Copies, st)
           /\ inner.op \in {"set", "on_create"} => IsFrame(st.frame)
<1>1. Registry /\ HasRows(fr) /\ IsCopies(Copies)
  BY CopiesAre DEF QueryInv, HasRows
<1>2. /\ \A paths \in Creations : IsList(paths)
      /\ \A items \in Settings \union OnCreates : AreItems(items)
  BY QueryAssumption DEF AreItems
<1>3. /\ inner.op \in {"create", "set", "remove", "delete", "foreach", "on_create"}
      /\ inner.op = "create" => inner.paths \in Creations
      /\ inner.op \in {"set", "on_create"} => inner.items \in Settings \union OnCreates
  <2>1. CASE inner \in InnerClauses
    BY <2>1, QueryAssumption
  <2>2. CASE inner \notin InnerClauses
    <3>1. PICK items \in OnCreates : inner = [op |-> "on_create", items |-> items]
      BY <2>2 DEF Parts
    <3>. QED
      BY <3>1
  <2>. QED
    BY <2>1, <2>2
<1>4. CASE inner.op = "create"
  <2>1. st = ProcessCreate(Copies, fr, inner.paths)
    BY <1>4 DEF Inner
  <2>2. Made(Copies, RowCount(fr), st)
    BY <1>1, <1>2, <1>3, <1>4, <2>1, ProcessCreateMakes
  <2>. QED
    BY <1>4, <2>2 DEF Made
<1>5. CASE inner.op \in {"set", "on_create"}
  <2>1. st = SetProperties(Copies, fr, inner.items)
    BY <1>5 DEF Inner
  <2>2. IsCopies(st) /\ Wrote("changes", Copies, st) /\ SameBindings(fr, st.frame)
    BY <1>1, <1>2, <1>3, <1>5, <2>1, SetPropertiesWrites
  <2>. QED
    BY <2>2 DEF SameBindings
<1>6. CASE inner.op = "remove"
  <2>1. st = RemoveProperties(Copies, fr, inner.var, inner.prop)
    BY <1>6 DEF Inner
  <2>2. Rewritten(Copies, fr, inner.var, st)
    BY <1>1, <2>1, MutateWrites DEF RemoveProperties
  <2>. QED
    BY <1>6, <2>2 DEF Rewritten
<1>7. CASE inner.op = "delete"
  <2>1. st = ProcessDelete(Copies, fr, inner.var, inner.detach)
    BY <1>7 DEF Inner
  <2>2. IsCopies(st) /\ Wrote("shrinks", Copies, st)
    BY <1>1, <2>1, ProcessDeleteShrinks
  <2>. QED
    BY <1>7, <2>2
<1>8. CASE inner.op = "foreach"
  <2>1. st = [Copies EXCEPT !.ok = Evaluable(fr, inner.loop.list)]
    BY <1>8 DEF Inner
  <2>2. st.shadow = Copies.shadow /\ st.rels = Copies.rels /\ DOMAIN st = DOMAIN Copies
    BY <1>1, <2>1 DEF IsCopies
  <2>3. IsCopies(st)
    BY <1>1, <2>2 DEF IsCopies
  <2>4. Wrote("changes", Copies, st)
    BY <1>1, <2>2, WroteFacts
  <2>. QED
    BY <1>8, <2>3, <2>4
<1>. QED
  BY <1>3, <1>4, <1>5, <1>6, <1>7, <1>8

\* The next write, and what is left after it.
LEMMA ContinueWrites ==
    ASSUME QueryInv, Continue
    PROVE  QueryInv' /\ OnGraph
<1>. PICK this : this = Head(todo)
  OBVIOUS
<1>. PICK inner : inner = Head(this.body)
  OBVIOUS
<1>. PICK st : st = Inner(this.frame, inner)
  OBVIOUS
<1>. PICK after : after = IF inner.op = "set" THEN st.frame ELSE this.frame
  OBVIOUS
<1>. PICK rest : rest = Then(after, Tail(this.body), Tail(todo))
  OBVIOUS
<1>. PICK fr : fr = IF inner.op = "on_create" THEN st.frame ELSE frame
  OBVIOUS
<1>1. /\ todo # <<>> /\ Leaves(st, fr)
      /\ todo' = IF ~st.ok THEN <<>>
                  ELSE IF inner.op = "foreach" THEN Loops(this.frame, inner.loop) \o rest ELSE rest
  BY DEF Continue
<1>2. HasRows(frame) /\ IsRound(this) /\ Pending(Tail(todo))
  BY <1>1, NextPends DEF QueryInv
<1>3. IsFrame(this.frame) /\ inner \in Parts /\ Tail(this.body) \in Seq(Parts)
  BY <1>2 DEF IsRound
<1>4. PICK step \in {"grows", "changes", "shrinks"} : IsCopies(st) /\ Wrote(step, Copies, st)
  BY <1>3, InnerWrites
<1>5. inner.op \in {"set", "on_create"} => IsFrame(st.frame)
  BY <1>3, InnerWrites
<1>6. HasRows(fr) /\ IsFrame(after)
  BY <1>2, <1>3, <1>5 DEF HasRows
<1>7. Pending(rest)
  BY <1>2, <1>3, <1>6, ThenPends
<1>8. inner.op = "foreach" => Pending(Loops(this.frame, inner.loop))
  <2>. SUFFICES ASSUME inner.op = "foreach" PROVE Pending(Loops(this.frame, inner.loop))
    OBVIOUS
  <2>1. inner \in InnerClauses
    BY <1>3 DEF Parts
  <2>2. inner.loop \in Foreaches
    BY <2>1, QueryAssumption
  <2>. QED
    BY <1>3, <2>2, LoopsPend DEF HasRows
<1>9. Pending(todo')
  BY <1>1, <1>7, <1>8, BothPend, NothingPends
<1>. QED
  BY <1>1, <1>4, <1>6, <1>9, LeavesWrites DEF OnGraph

--------------------------------------------------------------------------------
\* A query begins, commits or fails.
LEMMA DiscardedCopies ==
    ASSUME QueryInv, UNCHANGED <<live, live_rels, todo>>, shadow' = NoTables,
           shadow_rels' = NoTables, frame' = NoFrame
    PROVE  QueryInv' /\ OnGraph /\ KeepsCache
<1>1. QueryInv'
  BY NoTableFacts DEF QueryInv, Registry, HasRows
<1>2. TheWorking' = TheCommitted /\ TheCommitted' = TheCommitted
  BY DEF TheWorking, TheCommitted, Working, Committed
<1>3. Graph!Discard
  BY <1>2 DEF Graph!Discard, TheWorking, TheCommitted
<1>4. KeepsCache
  BY CacheFound DEF KeepsCache
<1>. QED
  BY <1>1, <1>3, <1>4 DEF OnGraph, Graph!GraphNext

\* What a commit publishes is what the query saw.
LEMMA SeenPublished ==
    ASSUME NEW copies, NEW tables, NEW t
    PROVE  /\ Seen(NoTables, Over(copies, tables), t) = Seen(copies, tables, t)
BY NoRows DEF Seen, Over, NoTables

\* A commit publishes the working tables whole.
LEMMA CommitKeeps ==
    ASSUME QueryInv, Commit
    PROVE  QueryInv' /\ OnGraph /\ KeepsCache
<1>1. /\ live' = Over(shadow, live) /\ live_rels' = Over(shadow_rels, live_rels)
      /\ shadow' = NoTables /\ shadow_rels' = NoTables /\ frame' = NoFrame /\ todo' = todo
  BY DEF Commit
<1>2. AreTables(live') /\ AreTables(live_rels')
  BY <1>1, OverTables DEF QueryInv, Registry
<1>3. QueryInv'
  BY <1>1, <1>2, NoTableFacts DEF QueryInv, Registry, HasRows
<1>4. \A t : /\ Seen(shadow', live', t) = Seen(shadow, live, t)
             /\ Seen(shadow_rels', live_rels', t) = Seen(shadow_rels, live_rels, t)
             /\ Seen(NoTables, live', t) = Seen(shadow, live, t)
             /\ Seen(NoTables, live_rels', t) = Seen(shadow_rels, live_rels, t)
  BY <1>1, SeenPublished
<1>5. TheWorking' = TheWorking /\ TheCommitted' = TheWorking
  BY <1>4 DEF TheWorking, TheCommitted, Working, Committed
<1>6. Graph!Publish
  BY <1>5 DEF Graph!Publish, TheWorking, TheCommitted
<1>7. KeepsCache
  BY <1>1, CacheFound DEF KeepsCache
<1>. QED
  BY <1>3, <1>6, <1>7 DEF OnGraph, Graph!GraphNext

\* The registered tables are the graph.
LEMMA QueryInit == Init => QueryInv /\ Graph!GraphInit
<1>. SUFFICES ASSUME Init PROVE QueryInv /\ Graph!GraphInit
  OBVIOUS
<1>1. Registry
  BY QueryAssumption DEF Init, Registry
<1>2. QueryInv
  BY <1>1, NoTableFacts, NothingPends DEF Init, QueryInv, HasRows
<1>3. \A t \in AllTypes : Working(t) = Committed(t)
  BY DEF Init, Working, Committed
<1>. QED
  BY <1>2, <1>3 DEF Graph!GraphInit

\* Every step of a query, in terms of PropertyGraph.
LEMMA QueryNext ==
    ASSUME QueryInv, Next
    PROVE  QueryInv' /\ OnGraph /\ (KeepsCache \/ AnyMerge \/ Continue)
<1>1. /\ \A paths \in Patterns : ArePaths(paths)
      /\ \A paths \in Creations : IsList(paths)
      /\ \A items \in Settings \union OnMatches \union OnCreates : AreItems(items)
  BY QueryAssumption DEF ArePaths, AreItems
<1>2. CASE Begin
  BY <1>2, DiscardedCopies DEF Begin
<1>3. CASE Commit
  BY <1>3, CommitKeeps
<1>4. CASE Rollback
  BY <1>4, DiscardedCopies DEF Rollback
<1>5. CASE Raise
  BY <1>5, RaiseKeeps
<1>6. CASE \E paths \in Patterns, pred \in Predicates \union {NoPredicate}, optional \in BOOLEAN :
             ProcessMatch(paths, pred, optional)
  BY <1>1, <1>6, ProcessMatchKeeps
<1>7. CASE \E keep \in Projections : ProcessWith(keep)
  BY <1>7, ProcessWithKeeps
<1>8. CASE \E paths \in Creations : CreateClause(paths)
  BY <1>1, <1>8, CreateClauseKeeps
<1>9. CASE \E items \in Settings : SetClause(items)
  BY <1>1, <1>9, SetClauseKeeps
<1>10. CASE \E r \in Removals : RemoveClause(r[1], r[2])
  BY <1>10, RemoveClauseKeeps
<1>11. CASE \E v \in Targets, detach \in BOOLEAN : DeleteClause(v, detach)
  BY <1>11, DeleteClauseKeeps
<1>12. CASE AnyMerge
  <2>1. PICK paths \in Patterns, onMatch \in OnMatches, onCreate \in OnCreates :
            Len(paths) = 1 /\ Merge(paths[1], onMatch, onCreate)
    BY <1>12 DEF AnyMerge
  <2>2. IsFiniteSet(DOMAIN paths[1].to.props)
    BY <1>1, <2>1, ListFacts DEF ArePaths
  <2>3. QueryInv' /\ OnGraph
    BY <1>1, <2>1, <2>2, MergeWrites
  <2>. QED
    BY <1>12, <2>3
<1>13. CASE \E loop \in Foreaches : Foreach(loop)
  BY <1>13, ForeachKeeps
<1>14. CASE Continue
  BY <1>14, ContinueWrites
<1>. QED
  BY <1>2, <1>3, <1>4, <1>5, <1>6, <1>7, <1>8, <1>9, <1>10, <1>11, <1>12, <1>13, <1>14 DEF Next

\* A step of something else.
LEMMA QueryStutters ==
    ASSUME QueryInv, UNCHANGED vars
    PROVE  QueryInv' /\ OnGraph /\ KeepsCache
<1>1. OnlyFrame /\ UNCHANGED <<live, live_rels, frame, todo>>
  BY DEF vars, OnlyFrame
<1>2. QueryInv'
  BY <1>1 DEF OnlyFrame, QueryInv, Registry, HasRows, IsFrame
<1>3. OnGraph
  BY <1>1, SameTables DEF OnlyFrame, OnGraph
<1>4. frame = NoFrame \/ (CacheCurrent => Cached(frame))
  BY CacheIs
<1>5. KeepsCache
  BY <1>1, <1>4, CacheFound DEF OnlyFrame, KeepsCache
<1>. QED
  BY <1>2, <1>3, <1>5

\* All the tables a query sees are tables, identified by their rows' integers,
\* and the frame is none or a list of rows (mutation_engine.py, binding_frame.py).
THEOREM TablesKept == Spec => []QueryInv
<1>1. QueryInv /\ [Next]_vars => QueryInv'
  BY QueryNext, QueryStutters
<1>. QED
  BY <1>1, QueryInit, PTL DEF Spec

\* Every clause of a query, and every write of a MERGE and of a FOREACH, whatever
\* its body holds, is one of the writes of PropertyGraph on the working copy: it
\* appends rows with new identifiers, changes rows in place or takes rows away;
\* all of them done, a commit publishes all of it and a rollback none (star.py,
\* mutation_engine.py, commit_query).
THEOREM GraphImplemented == Spec => ImplementsGraph
<1>1. QueryInv /\ [Next]_vars => [Graph!GraphNext]_<<TheCommitted, TheWorking>>
  BY QueryNext, QueryStutters DEF OnGraph
<1>2. Init => Graph!GraphInit
  BY QueryInit
<1>3. Graph!GraphSpec <=> Graph!GraphInit /\ [][Graph!GraphNext]_<<TheCommitted, TheWorking>>
  BY DEF Graph!GraphSpec, TheCommitted, TheWorking
<1>. QED
  BY <1>1, <1>2, <1>3, TablesKept, PTL DEF Spec, ImplementsGraph

\* No clause but MERGE and FOREACH, and no step of theirs but a write, makes a
\* cached column of the frame differ from what a lookup would find now
\* (clause_executor.py, binding_frame.py).
THEOREM CacheKept == Spec => KeepsCacheCurrent
<1>1. QueryInv /\ [Next]_vars => [CacheCurrent /\ ~CacheCurrent' => AnyMerge \/ Continue]_vars
  BY QueryNext, QueryStutters DEF KeepsCache
<1>. QED
  BY <1>1, TablesKept, PTL DEF Spec, KeepsCacheCurrent

--------------------------------------------------------------------------------
(* The leapfrog join. A stable sort puts every position in one place. *)

\* s goes through 1 .. n, each number once.
Arranges(s, n) ==
    /\ s = [p \in 1 .. n |-> s[p]]
    /\ \A p \in 1 .. n : s[p] \in 1 .. n
    /\ \A p, q \in 1 .. n : s[p] = s[q] => p = q
    /\ \A i \in 1 .. n : \E p \in 1 .. n : s[p] = i

\* Of different positions one comes before the other.
LEMMA BeforeOrders ==
    ASSUME NEW n \in Nat, NEW values, \A i \in 1 .. n : values[i] \in Int
    PROVE  /\ \A i \in 1 .. n : ~ComesBefore(values, i, i)
           /\ \A i, j \in 1 .. n : i = j \/ ComesBefore(values, i, j) \/ ComesBefore(values, j, i)
           /\ \A i, j, k \in 1 .. n :
                ComesBefore(values, i, j) /\ ComesBefore(values, j, k) => ComesBefore(values, i, k)
           /\ \A i, j \in 1 .. n : ComesBefore(values, i, j) => values[i] <= values[j]
BY DEF ComesBefore

\* A position has fewer before it than one that comes later.
LEMMA FewerPlaces ==
    ASSUME NEW n \in Nat, NEW values, \A i \in 1 .. n : values[i] \in Int,
           NEW i \in 1 .. n, NEW T \in SUBSET (1 .. n), i \in T,
           {j \in 1 .. n : ComesBefore(values, j, i)} \subseteq T
    PROVE  /\ Cardinality({j \in 1 .. n : ComesBefore(values, j, i)}) \in Nat
           /\ Cardinality({j \in 1 .. n : ComesBefore(values, j, i)}) < Cardinality(T)
<1>. DEFINE B == {j \in 1 .. n : ComesBefore(values, j, i)}
<1>1. IsFiniteSet(1 .. n)
  BY FS_Interval
<1>2. IsFiniteSet(T) /\ Cardinality(T) \in Nat
  BY <1>1, FS_Subset, FS_CardinalityType
<1>3. B \in SUBSET (T \ {i})
  BY BeforeOrders
<1>. HIDE DEF B
<1>4. IsFiniteSet(T \ {i}) /\ Cardinality(T \ {i}) = Cardinality(T) - 1
  BY <1>2, FS_RemoveElement
<1>5. IsFiniteSet(B) /\ Cardinality(B) <= Cardinality(T \ {i})
  BY <1>3, <1>4, FS_Subset
<1>6. Cardinality(B) \in Nat /\ Cardinality(B) < Cardinality(T)
  BY <1>2, <1>4, <1>5, FS_CardinalityType
<1>. QED
  BY <1>6 DEF B

LEMMA StableOrderFacts ==
    ASSUME NEW n \in Nat, NEW values, DOMAIN values = 1 .. n, \A i \in 1 .. n : values[i] \in Int,
           NEW s, s = StableOrder(values)
    PROVE  /\ Arranges(s, n)
           /\ \A p, q \in 1 .. n : p < q => values[s[p]] <= values[s[q]]
<1>. DEFINE rank == [i \in 1 .. n |-> Cardinality({j \in 1 .. n : ComesBefore(values, j, i)})]
<1>1. IsFiniteSet(1 .. n) /\ Cardinality(1 .. n) = n
  BY FS_Interval
<1>2. \A i \in 1 .. n : rank[i] \in 0 .. (n - 1)
  <2>. SUFFICES ASSUME NEW i \in 1 .. n PROVE rank[i] \in Nat /\ rank[i] < n
    OBVIOUS
  <2>1. {j \in 1 .. n : ComesBefore(values, j, i)} \subseteq 1 .. n /\ 1 .. n \in SUBSET (1 .. n)
    OBVIOUS
  <2>. QED
    BY <1>1, <2>1, FewerPlaces
<1>3. \A i, k \in 1 .. n : ComesBefore(values, i, k) => rank[i] < rank[k]
  <2>. SUFFICES ASSUME NEW i \in 1 .. n, NEW k \in 1 .. n, ComesBefore(values, i, k) PROVE rank[i] < rank[k]
    OBVIOUS
  <2>. DEFINE T == {j \in 1 .. n : ComesBefore(values, j, k)}
  <2>1. \A j \in 1 .. n : ComesBefore(values, j, i) => ComesBefore(values, j, k)
    BY BeforeOrders
  <2>2. T \in SUBSET (1 .. n) /\ {j \in 1 .. n : ComesBefore(values, j, i)} \subseteq T /\ i \in T
    BY <2>1
  <2>. HIDE DEF T
  <2>3. Cardinality({j \in 1 .. n : ComesBefore(values, j, i)}) < Cardinality(T)
    BY <2>2, FewerPlaces
  <2>. QED
    BY <2>3 DEF T
<1>4. s = [p \in 1 .. n |-> CHOOSE i \in 1 .. n : Cardinality({j \in 1 .. n : ComesBefore(values, j, i)}) = p - 1]
  BY DEF StableOrder
<1>5. \A i \in 1 .. n : rank[i] = Cardinality({j \in 1 .. n : ComesBefore(values, j, i)})
  OBVIOUS
<1>6. DOMAIN rank = 1 .. n /\ rank = [i \in 1 .. n |-> rank[i]]
  OBVIOUS
<1>. HIDE DEF rank
<1>7. \A i, k \in 1 .. n : rank[i] = rank[k] => i = k
  <2>. SUFFICES ASSUME NEW i \in 1 .. n, NEW k \in 1 .. n, rank[i] = rank[k], i # k PROVE FALSE
    OBVIOUS
  <2>1. ComesBefore(values, i, k) \/ ComesBefore(values, k, i)
    BY BeforeOrders
  <2>2. rank[i] < rank[k] \/ rank[k] < rank[i]
    BY <1>3, <2>1
  <2>. QED
    BY <1>2, <2>2
<1>8. rank \in Surjection(1 .. n, 0 .. (n - 1))
  <2>1. rank \in [1 .. n -> 0 .. (n - 1)]
    BY <1>2, <1>6
  <2>2. rank \in Injection(1 .. n, 0 .. (n - 1))
    BY <1>7, <2>1 DEF Injection, IsInjective
  <2>3. IsFiniteSet(0 .. (n - 1)) /\ Cardinality(0 .. (n - 1)) = n
    BY FS_Interval
  <2>. QED
    BY <1>1, <2>2, <2>3, FS_Injection
<1>9. \A p \in 1 .. n : \E i \in 1 .. n : rank[i] = p - 1
  <2>1. \A p \in 1 .. n : p - 1 \in 0 .. (n - 1)
    OBVIOUS
  <2>. QED
    BY <1>8, <2>1 DEF Surjection
<1>10. ASSUME NEW p \in 1 .. n PROVE s[p] \in 1 .. n /\ rank[s[p]] = p - 1
  <2>1. \E i \in 1 .. n : Cardinality({j \in 1 .. n : ComesBefore(values, j, i)}) = p - 1
    BY <1>5, <1>9
  <2>2. s[p] \in 1 .. n /\ Cardinality({j \in 1 .. n : ComesBefore(values, j, s[p])}) = p - 1
    BY <1>4, <2>1
  <2>. QED
    BY <1>5, <2>2
<1>11. s = [p \in 1 .. n |-> s[p]]
  <2>. DEFINE at(p) == CHOOSE i \in 1 .. n : Cardinality({j \in 1 .. n : ComesBefore(values, j, i)}) = p - 1
  <2>0. s = [p \in 1 .. n |-> at(p)]
    BY ONLY <1>4
  <2>. HIDE DEF at
  <2>. QED
    BY ONLY <2>0
<1>12. \A p, q \in 1 .. n : s[p] = s[q] => p = q
  <2>. SUFFICES ASSUME NEW p \in 1 .. n, NEW q \in 1 .. n, s[p] = s[q] PROVE p = q
    OBVIOUS
  <2>1. p - 1 = q - 1
    BY <1>10
  <2>. QED
    BY <2>1
<1>13. ASSUME NEW i \in 1 .. n PROVE \E p \in 1 .. n : s[p] = i
  <2>1. rank[i] + 1 \in 1 .. n /\ (rank[i] + 1) - 1 = rank[i]
    BY <1>2
  <2>2. s[rank[i] + 1] \in 1 .. n /\ rank[s[rank[i] + 1]] = rank[i]
    BY <1>10, <2>1
  <2>3. s[rank[i] + 1] = i
    BY <1>7, <2>2
  <2>. QED
    BY <2>1, <2>3
<1>14. ASSUME NEW p \in 1 .. n, NEW q \in 1 .. n, p < q PROVE values[s[p]] <= values[s[q]]
  <2>1. s[p] \in 1 .. n /\ s[q] \in 1 .. n /\ rank[s[p]] = p - 1 /\ rank[s[q]] = q - 1
    BY <1>10
  <2>2. ~ComesBefore(values, s[q], s[p])
    <3>1. ~(rank[s[q]] < rank[s[p]])
      BY <1>14, <2>1
    <3>. QED
      BY <1>3, <2>1, <3>1
  <2>3. s[p] = s[q] \/ ComesBefore(values, s[p], s[q])
    BY <2>1, <2>2, BeforeOrders
  <2>4. values[s[p]] \in Int
    BY <2>1
  <2>5. CASE s[p] = s[q]
    BY <2>4, <2>5
  <2>6. CASE ComesBefore(values, s[p], s[q])
    BY <2>1, <2>6, BeforeOrders
  <2>. QED
    BY <2>3, <2>5, <2>6
<1>. QED
  BY <1>10, <1>11, <1>12, <1>13, <1>14 DEF Arranges

--------------------------------------------------------------------------------
\* The columns are at least three, of numbers.
FramesFit == columns \in JoinedFrames
Width == Len(columns)
Height(f) == Len(columns[f])

LEMMA ColumnFacts ==
    ASSUME FramesFit
    PROVE  /\ Width \in Nat /\ Width >= 3 /\ DOMAIN columns = 1 .. Width
           /\ \A f \in 1 .. Width : /\ Height(f) \in Nat /\ DOMAIN columns[f] = 1 .. Height(f)
                                    /\ \A i \in 1 .. Height(f) : columns[f][i] \in Int
<1>1. columns \in Seq(Seq(Int)) /\ Len(columns) >= 3
  BY LeapfrogAssumption DEF FramesFit
<1>2. Width \in Nat /\ Width >= 3 /\ DOMAIN columns = 1 .. Width
  BY <1>1 DEF Width
<1>3. ASSUME NEW f \in 1 .. Width
      PROVE  /\ Height(f) \in Nat /\ DOMAIN columns[f] = 1 .. Height(f)
             /\ \A i \in 1 .. Height(f) : columns[f][i] \in Int
  <2>1. PICK c \in Seq(Int) : c = columns[f]
    BY <1>1, <1>2
  <2>. QED
    BY <2>1 DEF Height
<1>. QED
  BY <1>2, <1>3

\* The sorted keys are those of the column, in order.
LEMMA SortedKeysFacts ==
    ASSUME FramesFit, NEW f \in 1 .. Width
    PROVE  /\ \A p \in 1 .. Height(f) : SortedKeys(f)[p] \in Int
           /\ \A p, q \in 1 .. Height(f) : p <= q => SortedKeys(f)[p] <= SortedKeys(f)[q]
           /\ \A p \in 1 .. Height(f) : \E i \in 1 .. Height(f) : columns[f][i] = SortedKeys(f)[p]
           /\ \A i \in 1 .. Height(f) : \E p \in 1 .. Height(f) : SortedKeys(f)[p] = columns[f][i]
<1>1. /\ Height(f) \in Nat /\ DOMAIN columns[f] = 1 .. Height(f)
      /\ \A i \in 1 .. Height(f) : columns[f][i] \in Int
  BY ColumnFacts
<1>2. PICK n \in Nat : n = Height(f)
  BY <1>1
<1>3. PICK values : values = columns[f]
  OBVIOUS
<1>4. PICK rows : rows = StableOrder(values)
  OBVIOUS
<1>5. Arranges(rows, n) /\ \A p, q \in 1 .. n : p < q => values[rows[p]] <= values[rows[q]]
  BY <1>1, <1>2, <1>3, <1>4, StableOrderFacts
<1>6. DOMAIN rows = 1 .. n /\ \A p \in 1 .. n : rows[p] \in 1 .. n
  BY <1>5 DEF Arranges
<1>7. \A p \in 1 .. n : SortedKeys(f)[p] = values[rows[p]]
  BY <1>3, <1>4, <1>6 DEF SortedKeys
<1>8. ASSUME NEW p \in 1 .. n, NEW q \in 1 .. n, p <= q PROVE values[rows[p]] <= values[rows[q]]
  <2>1. CASE p = q
    BY <1>1, <1>2, <1>3, <1>6, <2>1
  <2>2. CASE p < q
    BY <1>5, <2>2
  <2>. QED
    BY <1>8, <2>1, <2>2
<1>9. \A i \in 1 .. n : \E p \in 1 .. n : rows[p] = i
  BY <1>5 DEF Arranges
<1>10. \A p \in 1 .. n : values[rows[p]] \in Int
  BY <1>1, <1>2, <1>3, <1>6
<1>11. \A p \in 1 .. n : SortedKeys(f)[p] \in Int /\ \E i \in 1 .. n : values[i] = SortedKeys(f)[p]
  BY <1>6, <1>7, <1>10
<1>12. \A p, q \in 1 .. n : p <= q => SortedKeys(f)[p] <= SortedKeys(f)[q]
  BY <1>7, <1>8
<1>13. ASSUME NEW i \in 1 .. n PROVE \E p \in 1 .. n : SortedKeys(f)[p] = values[i]
  <2>1. PICK p \in 1 .. n : rows[p] = i
    BY <1>9
  <2>. QED
    BY <1>7, <2>1
<1>. QED
  BY ONLY <1>2, <1>3, <1>11, <1>12, <1>13

\* Seeking stops at the first key that is not less.
LEMMA SeekFacts ==
    ASSUME FramesFit, NEW f \in 1 .. Width, cursor[f] \in 1 .. Height(f), NEW target \in Int,
           NEW s, s = Seek(f, target)
    PROVE  /\ s \in cursor[f] .. (Height(f) + 1)
           /\ s <= Height(f) => SortedKeys(f)[s] >= target
           /\ \A p \in 1 .. Height(f) : SortedKeys(f)[p] >= target => p >= s \/ p < cursor[f]
<1>1. Height(f) \in Nat /\ \A p \in 1 .. Height(f) : SortedKeys(f)[p] \in Int
  BY ColumnFacts, SortedKeysFacts
<1>. DEFINE P == {p \in cursor[f] .. (Height(f) + 1) : p > Height(f) \/ SortedKeys(f)[p] >= target}
<1>2. P \in SUBSET Nat /\ Height(f) + 1 \in P
  BY <1>1
<1>3. s = CHOOSE x \in P : \A y \in P : x <= y
  BY DEF Seek, Min, Height
<1>. HIDE DEF P
<1>4. s \in P /\ \A y \in P : s <= y
  <2>1. \E x \in P : \A y \in P : x <= y
    BY <1>2, Least
  <2>. QED
    BY <1>3, <2>1
<1>5. s \in cursor[f] .. (Height(f) + 1) /\ (s > Height(f) \/ SortedKeys(f)[s] >= target)
  BY <1>4 DEF P
<1>6. ASSUME NEW p \in 1 .. Height(f), SortedKeys(f)[p] >= target, ~(p < cursor[f]) PROVE p >= s
  <2>1. p \in P
    BY <1>1, <1>6 DEF P
  <2>. QED
    BY <1>1, <1>4, <1>5, <2>1
<1>. QED
  BY <1>1, <1>5, <1>6

--------------------------------------------------------------------------------
\* A sequence of the frames, each once, those with the lesser keys first.
Permutes(its) == its = [p \in 1 .. Width |-> its[p]] /\ Arranges(its, Width)
ByKey(its, at) == \A p, q \in 1 .. Width : p <= q => Key(its[p], at) <= Key(its[q], at)
NoneAtEnd(at) == at = [f \in 1 .. Width |-> at[f]] /\ \A f \in 1 .. Width : at[f] \in 1 .. Height(f)

LEMMA InKeyOrderFacts ==
    ASSUME FramesFit, NEW its, Permutes(its), NEW at, NoneAtEnd(at)
    PROVE  Permutes(InKeyOrder(its, at)) /\ ByKey(InKeyOrder(its, at), at)
<1>1. Width \in Nat /\ Width >= 3
  BY ColumnFacts
<1>2. /\ DOMAIN its = 1 .. Width /\ \A p \in 1 .. Width : its[p] \in 1 .. Width
      /\ \A p, q \in 1 .. Width : its[p] = its[q] => p = q
      /\ \A i \in 1 .. Width : \E p \in 1 .. Width : its[p] = i
  BY DEF Permutes, Arranges
<1>3. PICK values : values = [i \in DOMAIN its |-> Key(its[i], at)]
  OBVIOUS
<1>4. DOMAIN values = 1 .. Width /\ \A p \in 1 .. Width : values[p] = Key(its[p], at)
  BY <1>2, <1>3
<1>5. \A f \in 1 .. Width : Key(f, at) \in Int
  BY SortedKeysFacts DEF NoneAtEnd, Key
<1>6. \A p \in 1 .. Width : values[p] \in Int
  BY <1>2, <1>4, <1>5
<1>7. PICK places : places = StableOrder(values)
  OBVIOUS
<1>8. /\ Arranges(places, Width)
      /\ \A p, q \in 1 .. Width : p < q => values[places[p]] <= values[places[q]]
  BY <1>1, <1>4, <1>6, <1>7, StableOrderFacts
<1>9. /\ \A p \in 1 .. Width : places[p] \in 1 .. Width
      /\ \A p, q \in 1 .. Width : places[p] = places[q] => p = q
      /\ \A i \in 1 .. Width : \E p \in 1 .. Width : places[p] = i
  BY <1>8 DEF Arranges
<1>10. PICK r : r = InKeyOrder(its, at)
  OBVIOUS
<1>11. r = [p \in 1 .. Width |-> its[places[p]]]
  BY <1>2, <1>3, <1>7, <1>10 DEF InKeyOrder
<1>12. r = [p \in 1 .. Width |-> r[p]] /\ \A p \in 1 .. Width : r[p] = its[places[p]]
  BY <1>11
<1>13. Arranges(r, Width)
  <2>1. \A p \in 1 .. Width : r[p] \in 1 .. Width
    BY <1>2, <1>9, <1>12
  <2>2. ASSUME NEW p \in 1 .. Width, NEW q \in 1 .. Width, r[p] = r[q] PROVE p = q
    <3>1. its[places[p]] = its[places[q]] /\ places[p] \in 1 .. Width /\ places[q] \in 1 .. Width
      BY <1>9, <1>12, <2>2
    <3>2. places[p] = places[q]
      BY <1>2, <3>1
    <3>. QED
      BY <1>9, <3>2
  <2>3. ASSUME NEW i \in 1 .. Width PROVE \E p \in 1 .. Width : r[p] = i
    <3>1. PICK k \in 1 .. Width : its[k] = i
      BY <1>2
    <3>2. PICK p \in 1 .. Width : places[p] = k
      BY <1>9
    <3>. QED
      BY <1>12, <3>1, <3>2
  <2>. QED
    BY <1>12, <2>1, <2>2, <2>3 DEF Arranges
<1>14. ASSUME NEW p \in 1 .. Width, NEW q \in 1 .. Width, p <= q PROVE Key(r[p], at) <= Key(r[q], at)
  <2>1. Key(r[p], at) = values[places[p]] /\ Key(r[q], at) = values[places[q]]
        /\ values[places[p]] \in Int /\ values[places[q]] \in Int
    <3>1. PICK i \in 1 .. Width, j \in 1 .. Width : i = places[p] /\ j = places[q]
      BY <1>9
    <3>2. r[p] = its[i] /\ r[q] = its[j]
      BY <1>12, <3>1
    <3>3. values[i] = Key(its[i], at) /\ values[j] = Key(its[j], at)
      BY <1>4
    <3>. QED
      BY <1>6, <3>1, <3>2, <3>3
  <2>2. CASE p = q
    BY <2>1, <2>2
  <2>3. CASE p < q
    BY <1>8, <2>1, <2>3
  <2>. QED
    BY <1>14, <2>2, <2>3
<1>. QED
  BY <1>10, <1>12, <1>13, <1>14 DEF Permutes, ByKey

--------------------------------------------------------------------------------
(* The inductive invariant. The keys found are common to all frames, in      *)
(* order and behind every iterator; no iterator is past another common key;  *)
(* and every iteration has moved an iterator.                                *)

Common(v) == \A f \in 1 .. Width : \E i \in 1 .. Height(f) : columns[f][i] = v
Found(v, ks) == \E k \in DOMAIN ks : ks[k] = v
Travelled(at) == SumOf([f \in 1 .. Width |-> at[f] - 1], 1 .. Width)

KeysSoFar(ks) ==
    /\ IsList(ks)
    /\ \A k \in DOMAIN ks : Common(ks[k])
    /\ \A j, k \in DOMAIN ks : j < k => ks[j] < ks[k]

Underway(its, at, n, ks) ==
    /\ Permutes(its) /\ NoneAtEnd(at) /\ ByKey(its, at)
    /\ \A k \in DOMAIN ks : \A f \in 1 .. Width : ks[k] < Key(f, at)
    /\ \A v : Common(v) => Found(v, ks) \/ \A f \in 1 .. Width : Key(f, at) <= v
    /\ n \in Nat /\ n <= Travelled(at)

LeapState(its, at, n, ks, j) ==
    /\ FramesFit /\ KeysSoFar(ks) /\ j \in {"running", "done"}
    /\ j = "running" => Underway(its, at, n, ks)
    /\ j = "done" => \A v : Common(v) => Found(v, ks)

LeapInv == LeapState(iterators, cursor, steps, keys, joining)

LEMMA CommonIsInt ==
    ASSUME FramesFit, NEW v, Common(v)
    PROVE  /\ v \in Int
           /\ \A f \in 1 .. Width : \E p \in 1 .. Height(f) : SortedKeys(f)[p] = v
<1>1. Width \in Nat /\ Width >= 3 /\ \A f \in 1 .. Width : \A i \in 1 .. Height(f) : columns[f][i] \in Int
  BY ColumnFacts
<1>2. 1 \in 1 .. Width
  BY <1>1
<1>3. v \in Int
  BY <1>1, <1>2 DEF Common
<1>4. ASSUME NEW f \in 1 .. Width PROVE \E p \in 1 .. Height(f) : SortedKeys(f)[p] = v
  BY SortedKeysFacts DEF Common
<1>. QED
  BY <1>3, <1>4

\* The sum of the positions is below the bound while no iterator is at its end.
LEMMA TravelledFacts ==
    ASSUME FramesFit, NEW at, NoneAtEnd(at)
    PROVE  Travelled(at) \in Int /\ 0 <= Travelled(at) /\ Travelled(at) < MaxIterations
           /\ MaxIterations \in Int
<1>1. /\ Width \in Nat /\ Width >= 3 /\ DOMAIN columns = 1 .. Width
      /\ \A f \in 1 .. Width : Height(f) \in Nat
  BY ColumnFacts
<1>. DEFINE heights == [f \in 1 .. Width |-> Height(f)]
            gone == [f \in 1 .. Width |-> at[f] - 1]
            zeros == [f \in 1 .. Width |-> 0]
<1>2. MaxIterations = SumOf(heights, 1 .. Width)
  BY <1>1 DEF MaxIterations, SumOf, Height
<1>3. IsFiniteSet(1 .. Width) /\ 1 \in 1 .. Width
  BY <1>1, FS_Interval
<1>4. \A f \in 1 .. Width : /\ gone[f] \in Int /\ heights[f] \in Int /\ zeros[f] \in Int
                            /\ zeros[f] <= gone[f] /\ gone[f] < heights[f]
  BY <1>1 DEF NoneAtEnd
<1>. HIDE DEF heights, gone
<1>5. \A f \in 1 .. Width : gone[f] \in Int /\ heights[f] \in Int /\ gone[f] <= heights[f]
  BY <1>4
<1>6. SumOf(gone, 1 .. Width) \in Int /\ SumOf(heights, 1 .. Width) \in Int
      /\ SumOf(gone, 1 .. Width) < SumOf(heights, 1 .. Width)
  BY <1>3, <1>4, <1>5, SumGrows
<1>7. SumOf(zeros, 1 .. Width) = 0
  BY <1>3, SumOfZeros
<1>. HIDE DEF zeros
<1>8. SumOf(zeros, 1 .. Width) <= SumOf(gone, 1 .. Width)
  BY <1>3, <1>4, SumGrows
<1>. QED
  BY <1>2, <1>6, <1>7, <1>8 DEF Travelled, gone

\* What a step reaches is the state after it: no step changes the columns.
LEMMA ColumnsStay ==
    ASSUME columns' = columns, LeapState(iterators', cursor', steps', keys', joining')
    PROVE  LeapInv'
<1>1. FramesFit' <=> FramesFit
  BY DEF FramesFit
<1>2. \A v : Common(v)' <=> Common(v)
  BY DEF Common, Width, Height
<1>3. KeysSoFar(keys)' <=> KeysSoFar(keys')
  BY DEF KeysSoFar, Common, Width, Height
<1>4. Permutes(iterators)' <=> Permutes(iterators')
  BY DEF Permutes, Width
<1>5. NoneAtEnd(cursor)' <=> NoneAtEnd(cursor')
  BY DEF NoneAtEnd, Width, Height
<1>6. ByKey(iterators, cursor)' <=> ByKey(iterators', cursor')
  BY DEF ByKey, Width, Key, SortedKeys
<1>8. Travelled(cursor)' = Travelled(cursor')
  BY DEF Travelled, Width
<1>9. (\A k \in DOMAIN keys : \A f \in 1 .. Width : keys[k] < Key(f, cursor))'
      <=> \A k \in DOMAIN keys' : \A f \in 1 .. Width : keys'[k] < Key(f, cursor')
  BY DEF Width, Key, SortedKeys
<1>10. (\A v : Common(v) => Found(v, keys) \/ \A f \in 1 .. Width : Key(f, cursor) <= v)'
      <=> \A v : Common(v) => Found(v, keys') \/ \A f \in 1 .. Width : Key(f, cursor') <= v
  BY DEF Width, Key, SortedKeys, Common, Height, Found
<1>11. Underway(iterators, cursor, steps, keys)' <=> Underway(iterators', cursor', steps', keys')
  BY <1>4, <1>5, <1>6, <1>8, <1>9, <1>10 DEF Underway
<1>12. (\A v : Common(v) => Found(v, keys))' <=> \A v : Common(v) => Found(v, keys')
  BY DEF Common, Width, Height, Found
<1>. QED
  BY <1>1, <1>3, <1>11, <1>12 DEF LeapInv, LeapState

--------------------------------------------------------------------------------
\* An iterator that seeks more than its key moves, but not past a common key that great.
LEMMA SeekMoves ==
    ASSUME FramesFit, NEW f \in 1 .. Width, cursor[f] \in 1 .. Height(f),
           NEW target \in Int, Key(f, cursor) < target, NEW s, s = Seek(f, target)
    PROVE  /\ s \in Nat /\ cursor[f] < s /\ s <= Height(f) + 1
           /\ s <= Height(f) => SortedKeys(f)[s] >= target
           /\ \A v : Common(v) /\ v >= target => s <= Height(f) /\ SortedKeys(f)[s] <= v
<1>1. /\ Height(f) \in Nat
      /\ \A p \in 1 .. Height(f) : SortedKeys(f)[p] \in Int
      /\ \A p, q \in 1 .. Height(f) : p <= q => SortedKeys(f)[p] <= SortedKeys(f)[q]
  BY ColumnFacts, SortedKeysFacts
<1>2. /\ s \in cursor[f] .. (Height(f) + 1)
      /\ s <= Height(f) => SortedKeys(f)[s] >= target
      /\ \A p \in 1 .. Height(f) : SortedKeys(f)[p] >= target => p >= s \/ p < cursor[f]
  BY SeekFacts
<1>3. SortedKeys(f)[cursor[f]] \in Int /\ SortedKeys(f)[cursor[f]] < target
  BY <1>1 DEF Key
<1>4. s # cursor[f]
  BY <1>1, <1>2, <1>3
<1>5. ASSUME NEW v, Common(v), v >= target PROVE s <= Height(f) /\ SortedKeys(f)[s] <= v
  <2>1. v \in Int
    BY <1>5, CommonIsInt
  <2>2. PICK p \in 1 .. Height(f) : SortedKeys(f)[p] = v
    BY <1>5, CommonIsInt
  <2>3. ~(p < cursor[f])
    <3>1. SUFFICES ASSUME p <= cursor[f] PROVE ~(p < cursor[f])
      BY <1>1
    <3>2. v <= SortedKeys(f)[cursor[f]]
      BY <1>1, <2>2, <3>1
    <3>. QED
      BY <1>3, <1>5, <2>1, <3>2
  <2>4. p >= s
    BY <1>2, <1>5, <2>2, <2>3
  <2>5. s \in 1 .. Height(f)
    BY <1>1, <1>2, <2>4
  <2>. QED
    BY <1>1, <2>2, <2>4, <2>5
<1>. QED
  BY <1>1, <1>2, <1>4, <1>5

\* What both steps keep of the iterators.
Advances(at, ks) ==
    /\ at = [f \in 1 .. Width |-> at[f]]
    /\ \A f \in 1 .. Width : at[f] \in Nat /\ cursor[f] <= at[f] /\ at[f] <= Height(f) + 1
    /\ \E f \in 1 .. Width : cursor[f] < at[f]
    /\ \A k \in DOMAIN ks : \A f \in 1 .. Width : at[f] <= Height(f) => ks[k] < SortedKeys(f)[at[f]]
    /\ \A v : Common(v) =>
         Found(v, ks) \/ \A f \in 1 .. Width : at[f] <= Height(f) /\ SortedKeys(f)[at[f]] <= v

LEMMA MovedKeeps ==
    ASSUME LeapInv, joining = "running", NEW at, NEW ks, KeysSoFar(ks), Advances(at, ks),
           Moved(at), keys' = ks
    PROVE  LeapInv'
<1>1. FramesFit /\ Underway(iterators, cursor, steps, keys)
  BY DEF LeapInv, LeapState
<1>2. /\ Width \in Nat /\ Width >= 3 /\ DOMAIN columns = 1 .. Width
      /\ \A f \in 1 .. Width : Height(f) \in Nat
  BY <1>1, ColumnFacts
<1>3. /\ Permutes(iterators) /\ NoneAtEnd(cursor)
      /\ steps \in Nat /\ steps <= Travelled(cursor)
  BY <1>1 DEF Underway
<1>4. columns' = columns /\ cursor' = at /\ steps' = steps + 1
  BY DEF Moved
<1>5. CASE \E f \in 1 .. Width : at[f] > Height(f)
  <2>1. joining' = "done"
    BY <1>2, <1>5 DEF Moved, AtEnd, Height
  <2>2. ASSUME NEW v, Common(v) PROVE Found(v, ks)
    BY <1>2, <1>5, <2>2 DEF Advances
  <2>3. LeapState(iterators', cursor', steps', keys', joining')
    BY <1>1, <2>1, <2>2 DEF LeapState
  <2>. QED
    BY <1>4, <2>3, ColumnsStay
<1>6. CASE ~\E f \in 1 .. Width : at[f] > Height(f)
  <2>1. /\ joining' = IF steps' = MaxIterations THEN "bound exceeded" ELSE "running"
        /\ iterators' = InKeyOrder(iterators, at)
    BY <1>2, <1>6 DEF Moved, AtEnd, Height
  <2>2. \A f \in 1 .. Width : at[f] \in 1 .. Height(f)
    BY <1>2, <1>3, <1>6 DEF Advances, NoneAtEnd
  <2>3. NoneAtEnd(at)
    BY <2>2 DEF Advances, NoneAtEnd
  <2>4. Travelled(cursor) \in Int /\ Travelled(at) \in Int /\ Travelled(at) < MaxIterations /\ MaxIterations \in Int
    BY <1>1, <1>3, <2>3, TravelledFacts
  <2>5. Travelled(cursor) < Travelled(at)
    <3>. DEFINE before == [f \in 1 .. Width |-> cursor[f] - 1]
                after == [f \in 1 .. Width |-> at[f] - 1]
    <3>1. \A f \in 1 .. Width : before[f] \in Int /\ after[f] \in Int /\ before[f] <= after[f]
      BY <1>2, <1>3 DEF Advances, NoneAtEnd
    <3>2. \E f \in 1 .. Width : before[f] < after[f]
      <4>1. PICK f \in 1 .. Width : cursor[f] < at[f]
        BY DEF Advances
      <4>2. cursor[f] \in Int /\ at[f] \in Int
        BY <1>2, <1>3 DEF Advances, NoneAtEnd
      <4>3. before[f] < after[f]
        BY <4>1, <4>2
      <4>. QED
        BY <4>3
    <3>3. IsFiniteSet(1 .. Width)
      BY <1>2, FS_Interval
    <3>. HIDE DEF before, after
    <3>4. SumOf(before, 1 .. Width) < SumOf(after, 1 .. Width)
      BY <3>1, <3>2, <3>3, SumGrows
    <3>. QED
      BY <3>4 DEF Travelled, before, after
  <2>6. steps' \in Nat /\ steps' <= Travelled(at) /\ steps' # MaxIterations
    BY <1>3, <1>4, <2>4, <2>5
  <2>7. Permutes(iterators') /\ ByKey(iterators', at)
    BY <1>1, <1>3, <2>1, <2>3, InKeyOrderFacts
  <2>8. \A k \in DOMAIN ks : \A f \in 1 .. Width : ks[k] < Key(f, at)
    BY <1>2, <2>2 DEF Advances, Key
  <2>9. \A v : Common(v) => Found(v, ks) \/ \A f \in 1 .. Width : Key(f, at) <= v
    BY DEF Advances, Key
  <2>10. Underway(iterators', at, steps', ks)
    BY <2>3, <2>6, <2>7, <2>8, <2>9 DEF Underway
  <2>11. LeapState(iterators', cursor', steps', keys', joining')
    BY <1>1, <1>4, <2>1, <2>6, <2>10 DEF LeapState
  <2>. QED
    BY <1>4, <2>11, ColumnsStay
<1>. QED
  BY <1>5, <1>6

--------------------------------------------------------------------------------
LEMMA LeapfrogInitially == LeapfrogInit => LeapInv
<1>. SUFFICES ASSUME LeapfrogInit PROVE LeapInv
  OBVIOUS
<1>1. FramesFit
  BY DEF LeapfrogInit, FramesFit
<1>2. /\ Width \in Nat /\ Width >= 3 /\ DOMAIN columns = 1 .. Width
      /\ \A f \in 1 .. Width : Height(f) \in Nat /\ DOMAIN columns[f] = 1 .. Height(f)
  BY <1>1, ColumnFacts
<1>3. steps = 0 /\ keys = <<>> /\ cursor = [f \in 1 .. Width |-> 1]
  BY <1>2 DEF LeapfrogInit
<1>4. KeysSoFar(keys) /\ \A k : k \notin DOMAIN keys
  BY <1>3, NoRows DEF KeysSoFar
<1>5. CASE \E f \in 1 .. Width : columns[f] = <<>>
  <2>1. joining = "done"
    BY <1>2, <1>5 DEF LeapfrogInit
  <2>2. ASSUME NEW v PROVE ~Common(v)
    <3>1. PICK f \in 1 .. Width : columns[f] = <<>>
      BY <1>5
    <3>2. 1 .. Height(f) = {}
      BY <1>2, <3>1, NoRows
    <3>. QED
      BY <3>2 DEF Common
  <2>. QED
    BY <1>1, <1>4, <2>1, <2>2 DEF LeapInv, LeapState
<1>6. CASE ~\E f \in 1 .. Width : columns[f] = <<>>
  <2>. DEFINE frames == [f \in 1 .. Width |-> f]
  <2>1. joining = "running" /\ iterators = InKeyOrder(frames, cursor)
    BY <1>2, <1>6 DEF LeapfrogInit
  <2>2. \A f \in 1 .. Width : Height(f) # 0
    <3>. SUFFICES ASSUME NEW f \in 1 .. Width, Height(f) = 0 PROVE FALSE
      OBVIOUS
    <3>1. columns[f] \in Seq(Int)
      BY <1>1, LeapfrogAssumption DEF FramesFit, Width
    <3>2. columns[f] = <<>>
      BY <3>1 DEF Height
    <3>. QED
      BY <1>6, <3>2
  <2>3. NoneAtEnd(cursor)
    BY <1>2, <1>3, <2>2 DEF NoneAtEnd
  <2>4. Permutes(frames)
    BY DEF Permutes, Arranges
  <2>. HIDE DEF frames
  <2>5. Permutes(iterators) /\ ByKey(iterators, cursor)
    BY <1>1, <2>1, <2>3, <2>4, InKeyOrderFacts
  <2>6. ASSUME NEW v, Common(v), NEW f \in 1 .. Width PROVE Key(f, cursor) <= v
    <3>1. PICK p \in 1 .. Height(f) : SortedKeys(f)[p] = v
      BY <1>1, <2>6, CommonIsInt
    <3>2. 1 \in 1 .. Height(f) /\ 1 <= p /\ cursor[f] = 1
      BY <1>2, <1>3, <2>2
    <3>3. SortedKeys(f)[1] <= SortedKeys(f)[p]
      BY <1>1, <3>1, <3>2, SortedKeysFacts
    <3>. QED
      BY <3>1, <3>2, <3>3 DEF Key
  <2>7. 0 <= Travelled(cursor)
    BY <1>1, <2>3, TravelledFacts
  <2>8. Underway(iterators, cursor, steps, keys)
    BY <1>3, <1>4, <2>3, <2>5, <2>6, <2>7 DEF Underway
  <2>. QED
    BY <1>1, <1>4, <2>1, <2>8 DEF LeapInv, LeapState
<1>. QED
  BY <1>5, <1>6

--------------------------------------------------------------------------------
\* One element behind a list.
LEMMA ListAppended ==
    ASSUME NEW s, IsList(s), NEW x, NEW r, r = Append(s, x)
    PROVE  /\ IsList(r) /\ Len(r) = Len(s) + 1 /\ DOMAIN r = 1 .. Len(s) + 1 /\ Len(s) \in Nat
           /\ \A i \in 1 .. Len(s) : r[i] = s[i]
           /\ r[Len(s) + 1] = x
<1>1. Len(s) \in Nat /\ DOMAIN s = 1 .. Len(s) /\ s = [i \in 1 .. Len(s) |-> s[i]]
  BY ListFacts
<1>2. PICK S : S = Range(s) \union {x}
  OBVIOUS
<1>3. \A i \in 1 .. Len(s) : s[i] \in S
  BY <1>1, <1>2 DEF Range
<1>4. s \in Seq(S) /\ x \in S
  BY <1>1, <1>2, <1>3
<1>5. /\ r \in Seq(S) /\ Len(r) = Len(s) + 1
      /\ \A i \in 1 .. Len(s) : r[i] = s[i]
      /\ r[Len(s) + 1] = x
  BY <1>1, <1>4
<1>6. r = [i \in 1 .. Len(s) + 1 |-> r[i]]
  <2>1. PICK q \in Seq(S) : q = r
    BY <1>5
  <2>2. q = [i \in 1 .. Len(q) |-> q[i]]
    OBVIOUS
  <2>. QED
    BY <1>5, <2>1, <2>2
<1>7. IsList(r) /\ DOMAIN r = 1 .. Len(s) + 1
  <2>1. PICK n \in Nat : n = Len(s) + 1
    BY <1>1
  <2>2. r = [i \in 1 .. n |-> r[i]]
    BY <1>6, <2>1
  <2>. QED
    BY <2>1, <2>2, ListOf
<1>. QED
  BY <1>1, <1>5, <1>7

LEMMA UnderwayFacts ==
    ASSUME LeapInv, joining = "running"
    PROVE  /\ FramesFit /\ KeysSoFar(keys) /\ NoneAtEnd(cursor)
           /\ Width \in Nat /\ Width >= 3 /\ DOMAIN columns = 1 .. Width
           /\ \A f \in 1 .. Width : cursor[f] \in 1 .. Height(f) /\ Height(f) \in Nat
           /\ iterators[1] \in 1 .. Width /\ iterators[Len(iterators)] \in 1 .. Width
           /\ MinKey = Key(iterators[1], cursor) /\ MaxKey = Key(iterators[Len(iterators)], cursor)
           /\ MinKey \in Int /\ MaxKey \in Int
           /\ \A f \in 1 .. Width : Key(f, cursor) \in Int /\ MinKey <= Key(f, cursor) /\ Key(f, cursor) <= MaxKey
           /\ \A k \in DOMAIN keys : \A f \in 1 .. Width : keys[k] < Key(f, cursor)
           /\ \A v : Common(v) => Found(v, keys) \/ \A f \in 1 .. Width : Key(f, cursor) <= v
<1>1. FramesFit /\ KeysSoFar(keys) /\ Underway(iterators, cursor, steps, keys)
  BY DEF LeapInv, LeapState
<1>2. /\ Width \in Nat /\ Width >= 3 /\ DOMAIN columns = 1 .. Width
      /\ \A f \in 1 .. Width : Height(f) \in Nat
  BY <1>1, ColumnFacts
<1>3. Permutes(iterators) /\ NoneAtEnd(cursor) /\ ByKey(iterators, cursor)
  BY <1>1 DEF Underway
<1>4. \A f \in 1 .. Width : cursor[f] \in 1 .. Height(f)
  BY <1>3 DEF NoneAtEnd
<1>5. \A f \in 1 .. Width : Key(f, cursor) \in Int
  BY <1>1, <1>4, SortedKeysFacts DEF Key
<1>6. iterators = [p \in 1 .. Width |-> iterators[p]]
  BY <1>3 DEF Permutes
<1>7. Len(iterators) = Width
  BY <1>2, <1>6, ListOf
<1>8. /\ \A p \in 1 .. Width : iterators[p] \in 1 .. Width
      /\ \A f \in 1 .. Width : \E p \in 1 .. Width : iterators[p] = f
  BY <1>3 DEF Permutes, Arranges
<1>9. 1 \in 1 .. Width /\ Width \in 1 .. Width /\ \A p \in 1 .. Width : 1 <= p /\ p <= Width
  BY <1>2
<1>10. MinKey = Key(iterators[1], cursor) /\ MaxKey = Key(iterators[Len(iterators)], cursor)
  BY DEF MinKey, MaxKey
<1>11. ASSUME NEW f \in 1 .. Width PROVE MinKey <= Key(f, cursor) /\ Key(f, cursor) <= MaxKey
  <2>1. PICK p \in 1 .. Width : iterators[p] = f
    BY <1>8
  <2>2. Key(iterators[1], cursor) <= Key(iterators[p], cursor) /\ Key(iterators[p], cursor) <= Key(iterators[Width], cursor)
    BY <1>3, <1>9 DEF ByKey
  <2>. QED
    BY <1>7, <1>10, <2>1, <2>2
<1>12. MinKey \in Int /\ MaxKey \in Int
  BY <1>5, <1>7, <1>8, <1>9, <1>10
<1>13. /\ \A k \in DOMAIN keys : \A f \in 1 .. Width : keys[k] < Key(f, cursor)
       /\ \A v : Common(v) => Found(v, keys) \/ \A f \in 1 .. Width : Key(f, cursor) <= v
  BY <1>1 DEF Underway
<1>. QED
  BY <1>1, <1>2, <1>3, <1>4, <1>5, <1>7, <1>8, <1>9, <1>10, <1>11, <1>12, <1>13

LEMMA LeapKeeps == LeapInv /\ Leap => LeapInv'
<1>. SUFFICES ASSUME LeapInv, Leap PROVE LeapInv'
  OBVIOUS
<1>. DEFINE least == iterators[1]
            at == [cursor EXCEPT ![least] = Seek(least, MaxKey)]
<1>1. joining = "running" /\ MinKey # MaxKey /\ Moved(at) /\ keys' = keys
  BY DEF Leap
<1>2. /\ FramesFit /\ KeysSoFar(keys) /\ NoneAtEnd(cursor)
      /\ least \in 1 .. Width /\ iterators[Len(iterators)] \in 1 .. Width
      /\ MinKey = Key(least, cursor) /\ MaxKey = Key(iterators[Len(iterators)], cursor)
      /\ MinKey \in Int /\ MaxKey \in Int
      /\ \A f \in 1 .. Width : cursor[f] \in 1 .. Height(f) /\ Height(f) \in Nat
      /\ \A f \in 1 .. Width : Key(f, cursor) \in Int /\ MinKey <= Key(f, cursor) /\ Key(f, cursor) <= MaxKey
  BY <1>1, UnderwayFacts
<1>3. /\ \A k \in DOMAIN keys : \A f \in 1 .. Width : keys[k] < Key(f, cursor)
      /\ \A v : Common(v) => Found(v, keys) \/ \A f \in 1 .. Width : Key(f, cursor) <= v
  BY <1>1, UnderwayFacts
<1>4. Key(least, cursor) < MaxKey
  BY <1>1, <1>2
<1>5. PICK s : s = Seek(least, MaxKey)
  OBVIOUS
<1>6. /\ s \in Nat /\ cursor[least] < s /\ s <= Height(least) + 1
      /\ s <= Height(least) => SortedKeys(least)[s] >= MaxKey
      /\ \A v : Common(v) /\ v >= MaxKey => s <= Height(least) /\ SortedKeys(least)[s] <= v
  BY <1>2, <1>4, <1>5, SeekMoves
<1>7. cursor = [f \in 1 .. Width |-> cursor[f]]
  BY <1>2 DEF NoneAtEnd
<1>8. at[least] = s /\ at = [f \in 1 .. Width |-> at[f]] /\ \A f \in 1 .. Width : f # least => at[f] = cursor[f]
  BY <1>2, <1>5, <1>7
<1>. HIDE DEF at, least
<1>9. \A f \in 1 .. Width : at[f] \in Nat /\ cursor[f] <= at[f] /\ at[f] <= Height(f) + 1
  <2>. SUFFICES ASSUME NEW f \in 1 .. Width
                PROVE  at[f] \in Nat /\ cursor[f] <= at[f] /\ at[f] <= Height(f) + 1
    OBVIOUS
  <2>1. cursor[f] \in 1 .. Height(f) /\ Height(f) \in Nat
    BY <1>2
  <2>2. CASE f = least
    BY <1>6, <1>8, <2>1, <2>2
  <2>3. CASE f # least
    BY <1>8, <2>1, <2>3
  <2>. QED
    BY <2>2, <2>3
<1>10. \E f \in 1 .. Width : cursor[f] < at[f]
  BY <1>2, <1>6, <1>8
<1>11. ASSUME NEW k \in DOMAIN keys, NEW f \in 1 .. Width, at[f] <= Height(f)
       PROVE  keys[k] < SortedKeys(f)[at[f]]
  <2>1. CASE f = least
    <3>1. keys[k] \in Int
      BY <1>2, CommonIsInt DEF KeysSoFar
    <3>2. SortedKeys(f)[at[f]] >= MaxKey /\ s \in 1 .. Height(f)
      BY <1>2, <1>6, <1>8, <1>11, <2>1
    <3>3. SortedKeys(f)[at[f]] \in Int
      BY <1>2, <1>8, <2>1, <3>2, SortedKeysFacts
    <3>4. keys[k] < MaxKey
      BY <1>2, <1>3
    <3>. QED
      BY <1>2, <3>1, <3>2, <3>3, <3>4
  <2>2. CASE f # least
    BY <1>3, <1>8, <2>2 DEF Key
  <2>. QED
    BY <2>1, <2>2
<1>12. ASSUME NEW v, Common(v), ~Found(v, keys), NEW f \in 1 .. Width
       PROVE  at[f] <= Height(f) /\ SortedKeys(f)[at[f]] <= v
  <2>1. v \in Int /\ \A g \in 1 .. Width : Key(g, cursor) <= v
    BY <1>2, <1>3, <1>12, CommonIsInt
  <2>2. CASE f = least
    <3>1. v >= MaxKey
      BY <1>2, <2>1
    <3>. QED
      BY <1>6, <1>8, <1>12, <2>2, <3>1
  <2>3. CASE f # least
    <3>1. at[f] = cursor[f] /\ Key(f, cursor) <= v /\ cursor[f] <= Height(f)
      BY <1>2, <1>8, <2>1, <2>3
    <3>. QED
      BY <3>1 DEF Key
  <2>. QED
    BY <2>2, <2>3
<1>13. Advances(at, keys)
  BY <1>8, <1>9, <1>10, <1>11, <1>12 DEF Advances
<1>. QED
  BY <1>1, <1>2, <1>13, MovedKeeps

LEMMA MeetKeeps == LeapInv /\ Meet => LeapInv'
<1>. SUFFICES ASSUME LeapInv, Meet PROVE LeapInv'
  OBVIOUS
<1>1. joining = "running"
  BY DEF Meet
<1>2. /\ FramesFit /\ KeysSoFar(keys) /\ NoneAtEnd(cursor)
      /\ Width \in Nat /\ Width >= 3 /\ DOMAIN columns = 1 .. Width
      /\ MinKey \in Int
      /\ \A f \in 1 .. Width : cursor[f] \in 1 .. Height(f) /\ Height(f) \in Nat
      /\ \A f \in 1 .. Width : Key(f, cursor) = MinKey
  <2>1. MinKey = MaxKey
    BY DEF Meet
  <2>. QED
    BY <1>1, <2>1, UnderwayFacts
<1>3. /\ \A k \in DOMAIN keys : \A f \in 1 .. Width : keys[k] < Key(f, cursor)
      /\ \A v : Common(v) => Found(v, keys) \/ \A f \in 1 .. Width : Key(f, cursor) <= v
  BY <1>1, UnderwayFacts
<1>4. PICK key : key = MinKey
  OBVIOUS
<1>. DEFINE at == [f \in 1 .. Width |-> PastKey(f, key)]
<1>5. PICK ks : ks = Append(keys, key)
  OBVIOUS
<1>6. Moved(at) /\ keys' = ks
  BY <1>2, <1>4, <1>5 DEF Meet
<1>7. /\ IsList(ks) /\ DOMAIN ks = 1 .. Len(keys) + 1 /\ Len(keys) \in Nat /\ DOMAIN keys = 1 .. Len(keys)
      /\ \A i \in 1 .. Len(keys) : ks[i] = keys[i]
      /\ ks[Len(keys) + 1] = key
  <2>1. IsList(keys)
    BY <1>2 DEF KeysSoFar
  <2>2. DOMAIN keys = 1 .. Len(keys)
    BY <2>1, ListFacts
  <2>. QED
    <3>1. PICK old : old = keys
      OBVIOUS
    <3>2. IsList(old) /\ ks = Append(old, key)
      BY <1>5, <2>1, <3>1
    <3>3. IsList(ks) /\ DOMAIN ks = 1 .. Len(old) + 1 /\ Len(old) \in Nat
      BY <3>2, ListAppended
    <3>4. (\A i \in 1 .. Len(old) : ks[i] = old[i]) /\ ks[Len(old) + 1] = key
      BY <3>2, ListAppended
    <3>. QED
      BY <2>2, <3>1, <3>3, <3>4
<1>8. 1 \in 1 .. Width /\ key \in Int
  BY <1>2, <1>4
<1>9. \A k \in 1 .. Len(keys) : keys[k] \in Int /\ keys[k] < key /\ Common(keys[k])
  BY <1>2, <1>3, <1>4, <1>7, <1>8, CommonIsInt DEF KeysSoFar
<1>10. Common(key)
  <2>. SUFFICES ASSUME NEW f \in 1 .. Width PROVE \E i \in 1 .. Height(f) : columns[f][i] = key
    BY DEF Common
  <2>1. SortedKeys(f)[cursor[f]] = key /\ cursor[f] \in 1 .. Height(f)
    BY <1>2, <1>4 DEF Key
  <2>. QED
    BY <1>2, <2>1, SortedKeysFacts
<1>11. \A k \in DOMAIN ks : ks[k] \in Int /\ ks[k] <= key /\ Common(ks[k])
  <2>. SUFFICES ASSUME NEW k \in DOMAIN ks PROVE ks[k] \in Int /\ ks[k] <= key /\ Common(ks[k])
    OBVIOUS
  <2>1. CASE k \in 1 .. Len(keys)
    BY <1>7, <1>8, <1>9, <2>1
  <2>2. CASE k = Len(keys) + 1
    BY <1>7, <1>8, <1>10, <2>2
  <2>. QED
    BY <1>7, <2>1, <2>2
<1>12. KeysSoFar(ks)
  <2>1. ASSUME NEW j \in DOMAIN ks, NEW k \in DOMAIN ks, j < k PROVE ks[j] < ks[k]
    <3>1. j \in 1 .. Len(keys)
      BY <1>7, <2>1
    <3>2. CASE k \in 1 .. Len(keys)
      BY <1>2, <1>7, <2>1, <3>1, <3>2 DEF KeysSoFar
    <3>3. CASE k = Len(keys) + 1
      BY <1>7, <1>9, <3>1, <3>3
    <3>. QED
      BY <1>7, <3>2, <3>3
  <2>. QED
    BY <1>7, <1>11, <2>1 DEF KeysSoFar
<1>13. ASSUME NEW f \in 1 .. Width
       PROVE  /\ at[f] \in Nat /\ cursor[f] < at[f] /\ at[f] <= Height(f) + 1
              /\ at[f] <= Height(f) => SortedKeys(f)[at[f]] >= key + 1 /\ SortedKeys(f)[at[f]] \in Int
              /\ \A v : Common(v) /\ v >= key + 1 => at[f] <= Height(f) /\ SortedKeys(f)[at[f]] <= v
  <2>1. PICK s : s = Seek(f, key + 1)
    OBVIOUS
  <2>2. at[f] = s
    BY <2>1 DEF PastKey
  <2>3. Key(f, cursor) < key + 1 /\ key + 1 \in Int /\ cursor[f] \in 1 .. Height(f) /\ Height(f) \in Nat
    BY <1>2, <1>4, <1>8
  <2>4. /\ s \in Nat /\ cursor[f] < s /\ s <= Height(f) + 1
        /\ s <= Height(f) => SortedKeys(f)[s] >= key + 1
        /\ \A v : Common(v) /\ v >= key + 1 => s <= Height(f) /\ SortedKeys(f)[s] <= v
    BY <1>2, <2>1, <2>3, SeekMoves
  <2>5. s <= Height(f) => SortedKeys(f)[s] \in Int
    <3>. SUFFICES ASSUME s <= Height(f) PROVE SortedKeys(f)[s] \in Int
      OBVIOUS
    <3>1. s \in 1 .. Height(f)
      BY <2>3, <2>4
    <3>. QED
      BY <1>2, <3>1, SortedKeysFacts
  <2>. HIDE DEF at
  <2>. QED
    BY <2>2, <2>4, <2>5
<1>14. at = [f \in 1 .. Width |-> at[f]]
  OBVIOUS
<1>. HIDE DEF at
<1>15. \A f \in 1 .. Width : at[f] \in Nat /\ cursor[f] <= at[f] /\ at[f] <= Height(f) + 1 /\ cursor[f] < at[f]
  <2>. SUFFICES ASSUME NEW f \in 1 .. Width
                PROVE  at[f] \in Nat /\ cursor[f] <= at[f] /\ at[f] <= Height(f) + 1 /\ cursor[f] < at[f]
    OBVIOUS
  <2>1. cursor[f] \in Int
    BY <1>2
  <2>. QED
    BY <1>13, <2>1
<1>16. ASSUME NEW k \in DOMAIN ks, NEW f \in 1 .. Width, at[f] <= Height(f)
       PROVE  ks[k] < SortedKeys(f)[at[f]]
  <2>1. SortedKeys(f)[at[f]] >= key + 1 /\ SortedKeys(f)[at[f]] \in Int
    BY <1>13, <1>16
  <2>. QED
    BY <1>8, <1>11, <2>1
<1>17. ASSUME NEW v, Common(v), ~Found(v, ks), NEW f \in 1 .. Width
       PROVE  at[f] <= Height(f) /\ SortedKeys(f)[at[f]] <= v
  <2>1. v \in Int
    BY <1>2, <1>17, CommonIsInt
  <2>2. v # key
    <3>1. Len(keys) + 1 \in DOMAIN ks
      BY <1>7
    <3>. QED
      BY <1>7, <1>17, <3>1 DEF Found
  <2>3. ~Found(v, keys)
    <3>1. \A k \in DOMAIN keys : k \in DOMAIN ks /\ ks[k] = keys[k]
      BY <1>7
    <3>. QED
      BY <1>17, <3>1 DEF Found
  <2>4. key <= v
    BY <1>2, <1>3, <1>4, <1>8, <1>17, <2>3
  <2>5. v >= key + 1
    BY <1>8, <2>1, <2>2, <2>4
  <2>. QED
    BY <1>13, <1>17, <2>5
<1>18. Advances(at, ks)
  <2>1. \E f \in 1 .. Width : cursor[f] < at[f]
    BY <1>8, <1>15
  <2>. QED
    BY <1>14, <1>15, <1>16, <1>17, <2>1 DEF Advances
<1>. QED
  BY <1>1, <1>6, <1>12, <1>18, MovedKeeps

--------------------------------------------------------------------------------
(* What the keys make of the frames. *)

\* The list s has every member of S once, and nothing else.
Enumerates(s, S) ==
    /\ IsList(s)
    /\ \A i \in DOMAIN s : s[i] \in S
    /\ \A i, j \in DOMAIN s : s[i] = s[j] => i = j
    /\ \A x \in S : \E i \in DOMAIN s : s[i] = x

LEMMA EnumeratesJoined ==
    ASSUME NEW s, NEW S, Enumerates(s, S), NEW t, NEW T, Enumerates(t, T), S \intersect T = {}
    PROVE  Enumerates(s \o t, S \union T)
<1>1. IsList(s) /\ IsList(t)
  BY DEF Enumerates
<1>2. DOMAIN s = 1 .. Len(s) /\ DOMAIN t = 1 .. Len(t)
  BY <1>1, ListFacts
<1>3. PICK r : r = s \o t
  OBVIOUS
<1>4. PICK m \in Nat, n \in Nat : m = Len(s) /\ n = Len(t)
  BY <1>1, ListFacts
<1>5. /\ IsList(r) /\ DOMAIN r = 1 .. m + n
      /\ \A i \in 1 .. m : r[i] = s[i]
      /\ \A i \in 1 .. n : r[m + i] = t[i]
  BY <1>1, <1>3, <1>4, JoinedLists
<1>6. ASSUME NEW i \in 1 .. m + n
      PROVE  \/ i \in 1 .. m /\ r[i] = s[i] /\ s[i] \in S
             \/ i > m /\ i - m \in 1 .. n /\ r[i] = t[i - m] /\ t[i - m] \in T
  <2>1. CASE i <= m
    <3>1. i \in 1 .. m
      BY <2>1
    <3>. QED
      BY <1>2, <1>4, <1>5, <3>1 DEF Enumerates
  <2>2. CASE i > m
    <3>1. i - m \in 1 .. n /\ i = m + (i - m)
      BY <2>2
    <3>2. r[m + (i - m)] = t[i - m]
      BY <1>5, <3>1
    <3>. QED
      BY <1>2, <1>4, <2>2, <3>1, <3>2 DEF Enumerates
  <2>. QED
    BY <2>1, <2>2
<1>7. ASSUME NEW i \in 1 .. m + n, NEW j \in 1 .. m + n, r[i] = r[j] PROVE i = j
  <2>1. CASE i \in 1 .. m /\ j \in 1 .. m
    BY <1>2, <1>4, <1>5, <1>7, <2>1 DEF Enumerates
  <2>2. CASE i > m /\ j > m
    <3>1. i - m \in 1 .. n /\ j - m \in 1 .. n /\ t[i - m] = t[j - m]
      BY <1>6, <1>7, <2>2
    <3>2. i - m = j - m
      BY <1>2, <1>4, <3>1 DEF Enumerates
    <3>. QED
      BY <3>2
  <2>3. ~(r[i] \in S /\ r[j] \in T) /\ ~(r[i] \in T /\ r[j] \in S)
    BY <1>7
  <2>. QED
    BY <1>6, <2>1, <2>2, <2>3
<1>8. ASSUME NEW x \in S \union T PROVE \E i \in 1 .. m + n : r[i] = x
  <2>1. CASE x \in S
    <3>1. PICK i \in 1 .. m : s[i] = x
      BY <1>2, <1>4, <2>1 DEF Enumerates
    <3>. QED
      BY <1>5, <3>1
  <2>2. CASE x \in T
    <3>1. PICK i \in 1 .. n : t[i] = x
      BY <1>2, <1>4, <2>2 DEF Enumerates
    <3>2. m + i \in 1 .. m + n
      OBVIOUS
    <3>. QED
      BY <1>5, <3>1, <3>2
  <2>. QED
    BY <2>1, <2>2
<1>9. \A i \in 1 .. m + n : r[i] \in S \union T
  BY <1>6
<1>. QED
  BY <1>3, <1>5, <1>7, <1>8, <1>9 DEF Enumerates

\* Lists without a common member, joined, have the members of all of them.
LEMMA FlattenedEnumerates ==
    ASSUME NEW ss, IsList(ss), NEW A, \A i \in DOMAIN ss : Enumerates(ss[i], A[i]),
           \A i, j \in DOMAIN ss : i # j => A[i] \intersect A[j] = {}
    PROVE  Enumerates(FlattenSeq(ss), UNION {A[i] : i \in DOMAIN ss})
<1>1. PICK N \in Nat : N = Len(ss) /\ DOMAIN ss = 1 .. N
  BY ListFacts
<1>2. CASE N = 0
  <2>1. FlattenSeq(ss) = ss /\ DOMAIN ss = {}
    BY <1>1, <1>2 DEF FlattenSeq
  <2>. QED
    BY <2>1 DEF Enumerates
<1>3. CASE N # 0
  <2>1. PICK f : FlatOf(f, ss, N) /\ FlattenSeq(ss) = f[N]
    BY <1>1, <1>3, FlattenedRuns
  <2>2. \A i \in 1 .. N : f[i] = IF i = 1 THEN ss[i] ELSE f[i - 1] \o ss[i]
    BY <2>1 DEF FlatOf
  <2>. DEFINE Upto(n) == UNION {A[i] : i \in 1 .. n}
              L == {n \in Nat : n + 1 <= N => Enumerates(f[n + 1], Upto(n + 1))}
  <2>3. 0 \in L
    <3>1. Upto(1) = A[1]
      OBVIOUS
    <3>2. 1 \in 1 .. N
      BY <1>3
    <3>3. f[1] = ss[1] /\ Enumerates(ss[1], A[1])
      BY <1>1, <2>2, <3>2
    <3>. HIDE DEF Upto
    <3>. QED
      BY <3>1, <3>3
  <2>4. ASSUME NEW n \in L PROVE n + 1 \in L
    <3>. SUFFICES ASSUME (n + 1) + 1 <= N PROVE Enumerates(f[(n + 1) + 1], Upto((n + 1) + 1))
      OBVIOUS
    <3>1. n \in Nat
      OBVIOUS
    <3>2. PICK k \in 1 .. N : k = (n + 1) + 1
      BY <3>1
    <3>3. k # 1 /\ k - 1 = n + 1 /\ n + 1 <= N
      BY <3>1, <3>2
    <3>4. Enumerates(f[n + 1], Upto(n + 1))
      BY <3>3
    <3>5. Enumerates(ss[k], A[k])
      BY <1>1
    <3>6. f[k] = f[n + 1] \o ss[k]
      BY <2>2, <3>3
    <3>7. Upto(n + 1) \intersect A[k] = {}
      <4>1. \A i \in 1 .. (n + 1) : i \in DOMAIN ss /\ k \in DOMAIN ss /\ i # k
        BY <1>1, <3>1, <3>2
      <4>. QED
        BY <4>1
    <3>8. Upto(k) = Upto(n + 1) \union A[k]
      <4>1. \A i : i \in 1 .. k <=> i \in 1 .. (n + 1) \/ i = k
        BY <3>1, <3>2
      <4>. QED
        BY <4>1
    <3>. HIDE DEF Upto
    <3>9. Enumerates(f[k], Upto(k))
      BY <3>4, <3>5, <3>6, <3>7, <3>8, EnumeratesJoined
    <3>. QED
      BY <3>2, <3>9
  <2>5. L = Nat
    <3>1. L \in SUBSET Nat
      OBVIOUS
    <3>. HIDE DEF L
    <3>. QED
      BY <2>3, <2>4, <3>1, SetInduction
  <2>6. N - 1 \in Nat /\ (N - 1) + 1 = N
    BY <1>3
  <2>7. Enumerates(f[N], Upto(N))
    <3>. HIDE DEF Upto
    <3>1. N - 1 \in L
      BY <2>5, <2>6
    <3>. QED
      BY <2>6, <3>1
  <2>. QED
    BY <1>1, <2>1, <2>7
<1>. QED
  BY <1>2, <1>3

\* A list of the members of a finite set is as long as the set is large.
LEMMA EnumeratedSize ==
    ASSUME NEW s, NEW S, Enumerates(s, S)
    PROVE  Range(s) = S /\ IsFiniteSet(S) /\ Len(s) = Cardinality(S)
<1>1. PICK n \in Nat : n = Len(s) /\ DOMAIN s = 1 .. n /\ s = [i \in 1 .. n |-> s[i]]
  BY ListFacts DEF Enumerates
<1>2. Range(s) = S
  BY DEF Enumerates, Range
<1>3. s \in Bijection(1 .. n, S)
  <2>1. s \in [1 .. n -> S]
    BY <1>1 DEF Enumerates
  <2>2. \A x, y \in 1 .. n : s[x] = s[y] => x = y
    BY <1>1 DEF Enumerates
  <2>3. \A x \in S : \E i \in 1 .. n : s[i] = x
    BY <1>1 DEF Enumerates
  <2>. QED
    BY <2>1, <2>2, <2>3 DEF Bijection, Injection, Surjection, IsInjective
<1>4. ExistsBijection(1 .. n, S)
  BY <1>3 DEF ExistsBijection
<1>5. IsFiniteSet(1 .. n) /\ Cardinality(1 .. n) = n
  BY FS_Interval
<1>6. IsFiniteSet(S) /\ Cardinality(S) = n
  BY <1>4, <1>5, FS_Bijection
<1>. QED
  BY <1>1, <1>2, <1>6

--------------------------------------------------------------------------------
\* One row with the key of each of the first n frames.
Tuples(n, key) == {t \in [1 .. n -> Int] : \A f \in 1 .. n : t[f] \in 1 .. Height(f) /\ columns[f][t[f]] = key}
RowsOf(f, key) == {i \in 1 .. Height(f) : columns[f][i] = key}

LEMMA RowsWithKeyEnumerates ==
    ASSUME FramesFit, NEW f \in 1 .. Width, NEW key
    PROVE  Enumerates(RowsWithKey(f, key), RowsOf(f, key))
<1>1. Height(f) \in Nat /\ DOMAIN columns[f] = 1 .. Height(f)
  BY ColumnFacts
<1>2. PICK S : S = RowsOf(f, key)
  OBVIOUS
<1>3. PICK h \in Nat : h = Height(f)
  BY <1>1
<1>4. S \in SUBSET Int /\ IsFiniteSet(S)
  <2>1. S \in SUBSET (1 .. h)
    BY <1>2, <1>3 DEF RowsOf
  <2>2. IsFiniteSet(1 .. h)
    BY FS_Interval
  <2>3. S \in SUBSET Int
    BY <2>1
  <2>. QED
    BY <2>1, <2>2, <2>3, FS_Subset
<1>5. PICK s : s = RowsWithKey(f, key)
  OBVIOUS
<1>6. s = [n \in 1 .. Cardinality(S) |-> CHOOSE x \in S : Cardinality({y \in S : y < x}) = n - 1]
  BY <1>1, <1>2, <1>5 DEF RowsWithKey, RowsOf, InOrder
<1>7. /\ s \in Seq(S) /\ Cardinality(S) \in Nat /\ Len(s) = Cardinality(S) /\ DOMAIN s = 1 .. Len(s)
      /\ \A i, j \in 1 .. Len(s) : i < j => s[i] < s[j]
      /\ Range(s) = S
  BY <1>4, <1>6, AscendingSequence
<1>8. \A i \in DOMAIN s : s[i] \in S /\ s[i] \in Int
  <2>1. PICK q \in Seq(S) : q = s
    BY <1>7
  <2>2. \A i \in DOMAIN q : q[i] \in S
    OBVIOUS
  <2>. QED
    BY <1>4, <2>1, <2>2
<1>9. ASSUME NEW i \in DOMAIN s, NEW j \in DOMAIN s, s[i] = s[j] PROVE i = j
  <2>1. i \in Int /\ j \in Int
    BY <1>7
  <2>2. ~(i < j) /\ ~(j < i)
    BY <1>7, <1>8, <1>9
  <2>. QED
    BY <2>1, <2>2
<1>10. \A x \in S : \E i \in DOMAIN s : s[i] = x
  BY <1>7 DEF Range
<1>11. IsList(s)
  BY <1>7 DEF IsList
<1>. QED
  BY <1>2, <1>5, <1>8, <1>9, <1>10, <1>11 DEF Enumerates

\* A row behind a tuple of one frame less.
LEMMA TupleAppended ==
    ASSUME NEW n \in Nat, n # 0, NEW t \in [1 .. (n - 1) -> Int], NEW x \in Int
    PROVE  /\ Append(t, x) \in [1 .. n -> Int]
           /\ Append(t, x)[n] = x
           /\ \A f \in 1 .. (n - 1) : Append(t, x)[f] = t[f]
<1>1. n - 1 \in Nat /\ (n - 1) + 1 = n
  OBVIOUS
<1>2. t \in Seq(Int) /\ Len(t) = n - 1
  BY <1>1
<1>3. /\ Append(t, x) \in Seq(Int) /\ DOMAIN Append(t, x) = 1 .. (n - 1) + 1
      /\ \A i \in 1 .. Len(t) : Append(t, x)[i] = t[i]
      /\ Append(t, x)[Len(t) + 1] = x
  BY <1>2, AppendShape
<1>4. PICK r : r = Append(t, x)
  OBVIOUS
<1>5. r \in Seq(Int) /\ DOMAIN r = 1 .. n
  BY <1>1, <1>3, <1>4
<1>6. r \in [1 .. n -> Int]
  BY <1>5
<1>. QED
  BY <1>1, <1>2, <1>3, <1>4, <1>6

LEMMA ExtendedEnumerates ==
    ASSUME FramesFit, NEW n \in 1 .. Width, NEW key, NEW chunk, Enumerates(chunk, Tuples(n - 1, key))
    PROVE  Enumerates(Extended(chunk, n, key), Tuples(n, key))
<1>1. PICK rows : rows = RowsWithKey(n, key)
  OBVIOUS
<1>2. Enumerates(rows, RowsOf(n, key))
  BY <1>1, RowsWithKeyEnumerates
<1>3. PICK m \in Nat : m = Len(rows) /\ DOMAIN rows = 1 .. m
  BY <1>2, ListFacts DEF Enumerates
<1>4. PICK size \in Nat : size = Len(chunk) /\ DOMAIN chunk = 1 .. size
  BY ListFacts DEF Enumerates
<1>5. n \in Nat /\ n # 0 /\ \A f : f \in 1 .. n <=> f \in 1 .. (n - 1) \/ f = n
  BY ColumnFacts
<1>6. \A i \in 1 .. size : chunk[i] \in Tuples(n - 1, key)
  BY <1>4 DEF Enumerates
<1>7. \A i \in 1 .. size : chunk[i] \in [1 .. (n - 1) -> Int]
  BY <1>6 DEF Tuples
<1>8. \A j \in 1 .. m : rows[j] \in 1 .. Height(n) /\ rows[j] \in Int /\ columns[n][rows[j]] = key
  BY <1>2, <1>3 DEF Enumerates, RowsOf
<1>9. ASSUME NEW i \in 1 .. size, NEW j \in 1 .. m
      PROVE  /\ Append(chunk[i], rows[j]) \in Tuples(n, key)
             /\ Append(chunk[i], rows[j])[n] = rows[j]
             /\ \A f \in 1 .. (n - 1) : Append(chunk[i], rows[j])[f] = chunk[i][f]
  <2>1. PICK old \in Tuples(n - 1, key) : old = chunk[i]
    BY <1>6
  <2>2. old \in [1 .. (n - 1) -> Int]
        /\ \A f \in 1 .. (n - 1) : old[f] \in 1 .. Height(f) /\ columns[f][old[f]] = key
    BY DEF Tuples
  <2>3. PICK x \in Int : x = rows[j] /\ x \in 1 .. Height(n) /\ columns[n][x] = key
    BY <1>8
  <2>4. PICK t : t = Append(old, x)
    OBVIOUS
  <2>5. n \in Nat /\ n # 0
    BY <1>5
  <2>6. t \in [1 .. n -> Int] /\ t[n] = x /\ \A f \in 1 .. (n - 1) : t[f] = old[f]
    BY <2>2, <2>4, <2>5, TupleAppended
  <2>7. ASSUME NEW f \in 1 .. n PROVE t[f] \in 1 .. Height(f) /\ columns[f][t[f]] = key
    <3>1. CASE f \in 1 .. (n - 1)
      BY <2>2, <2>6, <3>1
    <3>2. CASE f = n
      BY <2>3, <2>6, <3>2
    <3>. QED
      BY <1>5, <3>1, <3>2
  <2>8. t \in Tuples(n, key)
    BY <2>6, <2>7 DEF Tuples
  <2>. QED
    BY <2>1, <2>3, <2>4, <2>6, <2>8
<1>. DEFINE ss == [i \in DOMAIN chunk |-> [j \in DOMAIN rows |-> Append(chunk[i], rows[j])]]
            A == [i \in 1 .. size |-> {t \in Tuples(n, key) : \A f \in 1 .. (n - 1) : t[f] = chunk[i][f]}]
<1>10. Extended(chunk, n, key) = FlattenSeq(ss)
  BY <1>1 DEF Extended
<1>11. ss = [i \in 1 .. size |-> ss[i]]
       /\ \A i \in 1 .. size : ss[i] = [j \in 1 .. m |-> Append(chunk[i], rows[j])]
  BY <1>3, <1>4
<1>12. \A i \in 1 .. size : \A t : t \in A[i] <=>
         t \in Tuples(n, key) /\ \A f \in 1 .. (n - 1) : t[f] = chunk[i][f]
  OBVIOUS
<1>. HIDE DEF ss, A
<1>13. IsList(ss) /\ DOMAIN ss = 1 .. size
  BY <1>11, ListOf
<1>14. ASSUME NEW i \in 1 .. size PROVE Enumerates(ss[i], A[i])
  <2>1. PICK s : s = ss[i]
    OBVIOUS
  <2>2. s = [j \in 1 .. m |-> s[j]] /\ \A j \in 1 .. m : s[j] = Append(chunk[i], rows[j])
    BY <1>11, <2>1
  <2>3. IsList(s) /\ DOMAIN s = 1 .. m
    BY <2>2, ListOf
  <2>4. ASSUME NEW j \in 1 .. m
        PROVE  s[j] \in A[i] /\ s[j][n] = rows[j]
    <3>1. PICK t : t = Append(chunk[i], rows[j])
      OBVIOUS
    <3>2. /\ t \in Tuples(n, key) /\ t[n] = rows[j]
          /\ \A f \in 1 .. (n - 1) : t[f] = chunk[i][f]
      BY <1>9, <3>1
    <3>3. s[j] = t
      BY <2>2, <3>1
    <3>. QED
      BY <1>12, <3>2, <3>3
  <2>5. \A j, k \in 1 .. m : s[j] = s[k] => j = k
    <3>. SUFFICES ASSUME NEW j \in 1 .. m, NEW k \in 1 .. m, s[j] = s[k] PROVE j = k
      OBVIOUS
    <3>1. rows[j] = rows[k]
      BY <2>4
    <3>. QED
      BY <1>2, <1>3, <3>1 DEF Enumerates
  <2>6. ASSUME NEW t \in A[i] PROVE \E j \in 1 .. m : s[j] = t
    <3>1. t \in Tuples(n, key) /\ \A f \in 1 .. (n - 1) : t[f] = chunk[i][f]
      BY <1>12
    <3>2. t[n] \in RowsOf(n, key) /\ t \in [1 .. n -> Int]
      BY <1>5, <3>1 DEF Tuples, RowsOf
    <3>3. PICK j \in 1 .. m : rows[j] = t[n]
      BY <1>2, <1>3, <3>2 DEF Enumerates
    <3>4. PICK r : r = Append(chunk[i], rows[j])
      OBVIOUS
    <3>5. /\ r \in Tuples(n, key) /\ r[n] = t[n]
          /\ \A f \in 1 .. (n - 1) : r[f] = chunk[i][f]
      BY <1>9, <3>3, <3>4
    <3>6. \A f \in 1 .. n : r[f] = t[f]
      BY <1>5, <3>1, <3>5
    <3>7. r \in [1 .. n -> Int]
      BY <3>5 DEF Tuples
    <3>8. s[j] = r
      BY <2>2, <3>4
    <3>. QED
      BY <3>2, <3>6, <3>7, <3>8
  <2>. QED
    BY <2>1, <2>3, <2>4, <2>5, <2>6 DEF Enumerates
<1>15. ASSUME NEW i \in 1 .. size, NEW j \in 1 .. size, i # j PROVE A[i] \intersect A[j] = {}
  <2>. SUFFICES ASSUME NEW t, t \in A[i], t \in A[j] PROVE FALSE
    OBVIOUS
  <2>1. \A f \in 1 .. (n - 1) : chunk[i][f] = chunk[j][f]
    BY <1>12
  <2>2. chunk[i] = chunk[j]
    BY <1>7, <2>1
  <2>. QED
    BY <1>4, <1>15, <2>2 DEF Enumerates
<1>16. UNION {A[i] : i \in 1 .. size} = Tuples(n, key)
  <2>1. ASSUME NEW t \in Tuples(n, key) PROVE \E i \in 1 .. size : t \in A[i]
    <3>. DEFINE u == [f \in 1 .. (n - 1) |-> t[f]]
    <3>1. u \in [1 .. (n - 1) -> Int]
      BY <1>5 DEF Tuples
    <3>2. \A f \in 1 .. (n - 1) : u[f] = t[f] /\ u[f] \in 1 .. Height(f) /\ columns[f][u[f]] = key
      BY <1>5 DEF Tuples
    <3>. HIDE DEF u
    <3>3. u \in Tuples(n - 1, key)
      BY <3>1, <3>2 DEF Tuples
    <3>4. PICK i \in 1 .. size : chunk[i] = u
      BY <1>4, <3>3 DEF Enumerates
    <3>. QED
      BY <1>12, <3>2, <3>4
  <2>. QED
    BY <1>12, <2>1
<1>17. Enumerates(FlattenSeq(ss), UNION {A[i] : i \in DOMAIN ss})
  BY <1>13, <1>14, <1>15, FlattenedEnumerates
<1>. QED
  BY <1>10, <1>13, <1>16, <1>17

--------------------------------------------------------------------------------
\* The chunk of a key grows by one frame after the other.
ChunksTo(g, n, key) == g = [k \in 0 .. n |-> IF k = 0 THEN <<<<>>>> ELSE Extended(g[k - 1], k, key)]

LEMMA ChunksExist ==
    ASSUME NEW N \in Nat, NEW key
    PROVE  \E g : ChunksTo(g, N, key)
<1>. DEFINE S == {n \in Nat : \E g : ChunksTo(g, n, key)}
<1>1. 0 \in S
  <2>1. ChunksTo([k \in 0 .. 0 |-> <<<<>>>>], 0, key)
    BY DEF ChunksTo
  <2>. QED
    BY <2>1
<1>2. ASSUME NEW n \in S PROVE n + 1 \in S
  <2>1. PICK f : ChunksTo(f, n, key)
    BY <1>2
  <2>2. n \in Nat
    OBVIOUS
  <2>. DEFINE g == [k \in 0 .. (n + 1) |-> IF k = 0 THEN <<<<>>>> ELSE Extended(f[k - 1], k, key)]
  <2>3. \A k \in 0 .. n : g[k] = f[k]
    <3>1. \A k \in 0 .. n : f[k] = IF k = 0 THEN <<<<>>>> ELSE Extended(f[k - 1], k, key)
      BY <2>1 DEF ChunksTo
    <3>2. \A k \in 0 .. n : k \in 0 .. (n + 1)
      BY <2>2
    <3>. QED
      BY <3>1, <3>2
  <2>4. \A k \in 0 .. (n + 1) : k # 0 => k - 1 \in 0 .. n
    BY <2>2
  <2>5. \A k \in 0 .. (n + 1) : g[k] = IF k = 0 THEN <<<<>>>> ELSE Extended(g[k - 1], k, key)
    BY <2>3, <2>4
  <2>6. g = [k \in 0 .. (n + 1) |-> g[k]]
    OBVIOUS
  <2>. HIDE DEF g
  <2>7. ChunksTo(g, n + 1, key)
    BY <2>5, <2>6 DEF ChunksTo
  <2>8. \E h : ChunksTo(h, n + 1, key)
    BY <2>7
  <2>. QED
    BY <2>2, <2>8
<1>3. S = Nat
  <2>1. S \in SUBSET Nat
    OBVIOUS
  <2>. HIDE DEF S
  <2>. QED
    BY <1>1, <1>2, <2>1, SetInduction
<1>. QED
  BY <1>3

\* The chunk of a key is every choice of a row with the key from each frame.
LEMMA ChunkEnumerates ==
    ASSUME FramesFit, NEW key
    PROVE  Enumerates(Chunk(key), Tuples(Width, key))
<1>1. Width \in Nat
  BY ColumnFacts
<1>2. PICK g : ChunksTo(g, Width, key) /\ Chunk(key) = g[Width]
  <2>1. Chunk(key) = (CHOOSE g : ChunksTo(g, Width, key))[Width]
    BY DEF Chunk, ChunksTo, Width
  <2>2. \E g : ChunksTo(g, Width, key)
    BY <1>1, ChunksExist
  <2>. QED
    BY <2>1, <2>2
<1>3. \A k \in 0 .. Width : g[k] = IF k = 0 THEN <<<<>>>> ELSE Extended(g[k - 1], k, key)
  BY <1>2 DEF ChunksTo
<1>. DEFINE L == {n \in Nat : n <= Width => Enumerates(g[n], Tuples(n, key))}
<1>4. 0 \in L
  <2>1. g[0] = <<<<>>>>
    BY <1>1, <1>3
  <2>2. Tuples(0, key) = {<<>>}
    <3>1. \A f : f \notin 1 .. 0
      OBVIOUS
    <3>2. ASSUME NEW t \in [1 .. 0 -> Int] PROVE t = <<>>
      OBVIOUS
    <3>3. <<>> \in [1 .. 0 -> Int]
      OBVIOUS
    <3>. QED
      BY <3>1, <3>2, <3>3 DEF Tuples
  <2>3. PICK one : one = <<<<>>>>
    OBVIOUS
  <2>4. one = [i \in 1 .. 1 |-> one[i]] /\ one[1] = <<>>
    BY <2>3
  <2>5. IsList(one) /\ DOMAIN one = 1 .. 1
    BY <2>4, ListOf
  <2>6. Enumerates(one, {<<>>})
    BY <2>4, <2>5 DEF Enumerates
  <2>. QED
    BY <2>1, <2>2, <2>3, <2>6
<1>5. ASSUME NEW n \in L PROVE n + 1 \in L
  <2>. SUFFICES ASSUME n + 1 <= Width PROVE Enumerates(g[n + 1], Tuples(n + 1, key))
    OBVIOUS
  <2>1. n \in Nat
    OBVIOUS
  <2>2. PICK k \in 1 .. Width : k = n + 1
    BY <1>1, <2>1
  <2>3. k - 1 = n /\ k # 0 /\ k \in 0 .. Width /\ n <= Width
    BY <1>1, <2>1, <2>2
  <2>4. Enumerates(g[k - 1], Tuples(k - 1, key))
    BY <2>3
  <2>5. g[k] = Extended(g[k - 1], k, key)
    BY <1>3, <2>3
  <2>6. Enumerates(g[k], Tuples(k, key))
    BY <2>4, <2>5, ExtendedEnumerates
  <2>. QED
    BY <2>2, <2>6
<1>6. L = Nat
  <2>1. L \in SUBSET Nat
    OBVIOUS
  <2>. HIDE DEF L
  <2>. QED
    BY <1>4, <1>5, <2>1, SetInduction
<1>7. Enumerates(g[Width], Tuples(Width, key))
  BY <1>1, <1>6
<1>. QED
  BY <1>2, <1>7

\* The keys common to the frames, each once, make the rows of the pairwise joins.
LEMMA CollectedRows ==
    ASSUME FramesFit, KeysSoFar(keys), \A v : Common(v) => Found(v, keys)
    PROVE  Enumerates(CollectMatchingRows, PairwiseJoin)
<1>1. /\ Width \in Nat /\ Width >= 3 /\ DOMAIN columns = 1 .. Width
      /\ \A f \in 1 .. Width : Height(f) \in Nat /\ DOMAIN columns[f] = 1 .. Height(f)
  BY ColumnFacts
<1>2. PICK K \in Nat : DOMAIN keys = 1 .. K
  BY ListFacts DEF KeysSoFar
<1>3. \A k \in 1 .. K : keys[k] \in Int /\ Common(keys[k])
  BY <1>2, CommonIsInt DEF KeysSoFar
<1>4. ASSUME NEW j \in 1 .. K, NEW k \in 1 .. K, keys[j] = keys[k] PROVE j = k
  <2>1. ~(j < k) /\ ~(k < j)
    BY <1>2, <1>3, <1>4 DEF KeysSoFar
  <2>. QED
    BY <2>1
<1>. DEFINE ss == [k \in DOMAIN keys |-> Chunk(keys[k])]
            A == [k \in 1 .. K |-> Tuples(Width, keys[k])]
<1>5. CollectMatchingRows = FlattenSeq(ss)
  BY DEF CollectMatchingRows
<1>6. ss = [k \in 1 .. K |-> ss[k]] /\ \A k \in 1 .. K : ss[k] = Chunk(keys[k])
  BY <1>2
<1>7. \A k \in 1 .. K : A[k] = Tuples(Width, keys[k])
  OBVIOUS
<1>. HIDE DEF ss, A
<1>8. IsList(ss) /\ DOMAIN ss = 1 .. K
  BY <1>6, ListOf
<1>9. \A k \in 1 .. K : Enumerates(ss[k], A[k])
  BY <1>6, <1>7, ChunkEnumerates
<1>10. 1 \in 1 .. Width
  BY <1>1
<1>11. ASSUME NEW j \in 1 .. K, NEW k \in 1 .. K, j # k PROVE A[j] \intersect A[k] = {}
  <2>. SUFFICES ASSUME NEW t, t \in A[j], t \in A[k] PROVE FALSE
    OBVIOUS
  <2>1. columns[1][t[1]] = keys[j] /\ columns[1][t[1]] = keys[k]
    BY <1>7, <1>10 DEF Tuples
  <2>. QED
    BY <1>4, <1>11, <2>1
<1>12. Enumerates(FlattenSeq(ss), UNION {A[k] : k \in DOMAIN ss})
  BY <1>8, <1>9, <1>11, FlattenedEnumerates
<1>13. ASSUME NEW k \in 1 .. K, NEW t \in A[k] PROVE t \in PairwiseJoin
  <2>1. /\ t \in [1 .. Width -> Int]
        /\ \A f \in 1 .. Width : t[f] \in 1 .. Height(f) /\ columns[f][t[f]] = keys[k]
    BY <1>7 DEF Tuples
  <2>2. \A f \in 1 .. Width : t[f] \in DOMAIN columns[f] /\ columns[f][t[f]] = columns[1][t[1]]
    BY <1>1, <1>10, <2>1
  <2>3. t \in [1 .. Width -> UNION {DOMAIN columns[f] : f \in 1 .. Width}]
    BY <2>1, <2>2
  <2>. QED
    BY <1>1, <2>2, <2>3 DEF PairwiseJoin
<1>14. ASSUME NEW t \in PairwiseJoin PROVE \E k \in 1 .. K : t \in A[k]
  <2>1. /\ t = [f \in 1 .. Width |-> t[f]]
        /\ \A f \in 1 .. Width : t[f] \in 1 .. Height(f) /\ columns[f][t[f]] = columns[1][t[1]]
    BY <1>1 DEF PairwiseJoin
  <2>2. PICK v : v = columns[1][t[1]]
    OBVIOUS
  <2>3. Common(v)
    BY <2>1, <2>2 DEF Common
  <2>4. PICK k \in 1 .. K : keys[k] = v
    BY <1>2, <2>3 DEF Found
  <2>5. \A f \in 1 .. Width : t[f] \in Int
    BY <1>1, <2>1
  <2>6. t \in [1 .. Width -> Int]
    BY <2>1, <2>5
  <2>7. t \in Tuples(Width, keys[k])
    BY <2>1, <2>2, <2>4, <2>6 DEF Tuples
  <2>. QED
    BY <1>7, <2>7
<1>15. UNION {A[k] : k \in 1 .. K} = PairwiseJoin
  BY <1>13, <1>14
<1>. QED
  BY <1>5, <1>8, <1>12, <1>15

LEMMA LeapfrogImplies == LeapInv => LeapfrogIsJoin
<1>. SUFFICES ASSUME LeapInv PROVE LeapfrogIsJoin
  OBVIOUS
<1>1. FramesFit /\ KeysSoFar(keys) /\ joining \in {"running", "done"}
  BY DEF LeapInv, LeapState
<1>2. ASSUME joining = "done"
      PROVE  Range(CollectMatchingRows) = PairwiseJoin /\ Len(CollectMatchingRows) = Cardinality(PairwiseJoin)
  <2>1. \A v : Common(v) => Found(v, keys)
    BY <1>2 DEF LeapInv, LeapState
  <2>2. Enumerates(CollectMatchingRows, PairwiseJoin)
    BY <1>1, <2>1, CollectedRows
  <2>. QED
    BY <2>2, EnumeratedSize
<1>. QED
  BY <1>1, <1>2 DEF LeapfrogIsJoin

LEMMA LeapfrogStutters == LeapInv /\ UNCHANGED leapfrogVars => LeapInv'
<1>. SUFFICES ASSUME LeapInv, UNCHANGED leapfrogVars PROVE LeapInv'
  OBVIOUS
<1>1. /\ columns' = columns /\ iterators' = iterators /\ cursor' = cursor
      /\ steps' = steps /\ keys' = keys /\ joining' = joining
  BY DEF leapfrogVars
<1>2. LeapState(iterators', cursor', steps', keys', joining')
  BY <1>1 DEF LeapInv
<1>. QED
  BY <1>1, <1>2, ColumnsStay

\* The leapfrog join gives the rows of the pairwise joins, each once, and its loop never
\* runs into its bound (_leapfrog_intersect, _collect_matching_rows).
THEOREM LeapfrogJoins == LeapfrogSpec => []LeapfrogIsJoin
<1>1. LeapInv /\ [LeapfrogNext]_leapfrogVars => LeapInv'
  BY MeetKeeps, LeapKeeps, LeapfrogStutters DEF LeapfrogNext
<1>. QED
  BY <1>1, LeapfrogInitially, LeapfrogImplies, PTL DEF LeapfrogSpec

--------------------------------------------------------------------------------
(* Variable-length patterns: the rows that are left after each hop stand for *)
(* all the walks, and those that shortestPath leaves for the shortest.       *)

\* Of the rows with the same key the first is left: every key, once.
OneOfEach(out, rows, keys0, at) ==
    /\ Enumerates([k \in DOMAIN at |-> keys0[at[k]]], Range(keys0))
    /\ IsList(out) /\ DOMAIN out = DOMAIN at
    /\ \A k \in DOMAIN at : at[k] \in DOMAIN rows /\ out[k] = rows[at[k]]

LEMMA FirstOfEachFacts ==
    ASSUME NEW rows, IsList(rows), NEW keys0, DOMAIN keys0 = DOMAIN rows
    PROVE  \E at : OneOfEach(FirstOfEach(rows, keys0), rows, keys0, at)
<1>. DEFINE kept == {i \in DOMAIN rows : \A j \in 1 .. (i - 1) : keys0[j] # keys0[i]}
            out == FirstOfEach(rows, keys0)
<1>1. out = RowsAt(rows, kept) /\ kept \subseteq DOMAIN rows
  BY DEF FirstOfEach
<1>2. PICK N \in Nat : N = Len(rows) /\ DOMAIN rows = 1 .. N
  BY ListFacts
<1>3. PICK at : at = InOrder(kept)
  OBVIOUS
<1>4. \A i \in kept : i \in 1 .. N /\ \A j \in 1 .. (i - 1) : keys0[j] # keys0[i]
  BY <1>2
<1>5. \A x \in Range(keys0) : \E i \in kept : keys0[i] = x
  <2>. SUFFICES ASSUME NEW x \in Range(keys0) PROVE \E i \in kept : keys0[i] = x
    OBVIOUS
  <2>. DEFINE P == {i \in 1 .. N : keys0[i] = x}
  <2>1. P \in SUBSET Nat /\ P # {}
    BY <1>2 DEF Range
  <2>. HIDE DEF P
  <2>2. PICK i \in P : \A j \in P : i <= j
    BY <2>1, Least
  <2>3. i \in 1 .. N /\ keys0[i] = x
    BY <2>2 DEF P
  <2>4. \A j \in 1 .. (i - 1) : j \in 1 .. N /\ ~(i <= j)
    BY <2>3
  <2>5. \A j \in 1 .. (i - 1) : keys0[j] # x
    BY <2>2, <2>4 DEF P
  <2>. QED
    BY <1>2, <2>3, <2>5
<1>. HIDE DEF kept, out
<1>6. PICK n \in Nat :
      /\ IsList(out) /\ DOMAIN out = DOMAIN at /\ DOMAIN at = 1 .. n
      /\ \A k \in DOMAIN at : at[k] \in kept /\ out[k] = rows[at[k]]
      /\ \A j, k \in DOMAIN at : j < k => at[j] < at[k]
      /\ \A i \in kept : \E k \in DOMAIN at : at[k] = i
  BY <1>1, <1>3, RowsAtShape
<1>7. PICK own : own = [k \in DOMAIN at |-> keys0[at[k]]]
  OBVIOUS
<1>8. IsList(own) /\ DOMAIN own = DOMAIN at
  <2>1. own = [k \in 1 .. n |-> own[k]]
    BY <1>6, <1>7
  <2>. QED
    BY <1>6, <2>1, ListOf
<1>9. \A k \in DOMAIN at : own[k] = keys0[at[k]] /\ own[k] \in Range(keys0)
  BY <1>1, <1>6, <1>7 DEF Range
<1>10. ASSUME NEW j \in DOMAIN at, NEW k \in DOMAIN at, own[j] = own[k], j < k PROVE FALSE
  <2>1. at[j] \in kept /\ at[k] \in kept /\ at[j] < at[k] /\ keys0[at[j]] = keys0[at[k]]
    BY <1>6, <1>9, <1>10
  <2>2. at[j] \in 1 .. (at[k] - 1)
    BY <1>4, <2>1
  <2>. QED
    BY <1>4, <2>1, <2>2
<1>11. \A j, k \in DOMAIN at : own[j] = own[k] => j = k
  BY <1>6, <1>10
<1>12. \A x \in Range(keys0) : \E k \in DOMAIN at : own[k] = x
  BY <1>5, <1>6, <1>9
<1>13. Enumerates(own, Range(keys0))
  BY <1>8, <1>9, <1>11, <1>12 DEF Enumerates
<1>14. \A k \in DOMAIN at : at[k] \in DOMAIN rows
  BY <1>1, <1>6
<1>. QED
  BY <1>6, <1>7, <1>13, <1>14 DEF out, OneOfEach

\* A list mapped one to one.
LEMMA MappedEnumerates ==
    ASSUME NEW s, NEW S, Enumerates(s, S), NEW m, NEW T,
           \A x \in S : m[x] \in T, \A x, y \in S : m[x] = m[y] => x = y,
           \A z \in T : \E x \in S : m[x] = z
    PROVE  Enumerates([i \in DOMAIN s |-> m[s[i]]], T)
<1>1. PICK n \in Nat : n = Len(s) /\ DOMAIN s = 1 .. n
  BY ListFacts DEF Enumerates
<1>2. PICK t : t = [i \in DOMAIN s |-> m[s[i]]]
  OBVIOUS
<1>3. IsList(t) /\ DOMAIN t = 1 .. n
  <2>1. t = [i \in 1 .. n |-> t[i]]
    BY <1>1, <1>2
  <2>. QED
    BY <2>1, ListOf
<1>4. \A i \in 1 .. n : t[i] = m[s[i]] /\ s[i] \in S
  BY <1>1, <1>2 DEF Enumerates
<1>5. \A i, j \in 1 .. n : t[i] = t[j] => i = j
  BY <1>1, <1>4 DEF Enumerates
<1>6. \A z \in T : \E i \in 1 .. n : t[i] = z
  <2>. SUFFICES ASSUME NEW z \in T PROVE \E i \in 1 .. n : t[i] = z
    OBVIOUS
  <2>1. PICK x \in S : m[x] = z
    OBVIOUS
  <2>2. PICK i \in 1 .. n : s[i] = x
    BY <1>1 DEF Enumerates
  <2>. QED
    BY <1>4, <2>1, <2>2
<1>. QED
  BY <1>2, <1>3, <1>4, <1>5, <1>6 DEF Enumerates

\* A list without a repeat, and what positions of it hold.
LEMMA ChosenEnumerates ==
    ASSUME NEW s, NEW S, Enumerates(s, S), NEW at, at \subseteq DOMAIN s
    PROVE  Enumerates([k \in DOMAIN InOrder(at) |-> s[InOrder(at)[k]]], {s[i] : i \in at})
<1>1. PICK places : places = InOrder(at)
  OBVIOUS
<1>2. PICK n \in Nat : DOMAIN places = 1 .. n
      /\ (\A k \in 1 .. n : places[k] \in at)
      /\ (\A j, k \in 1 .. n : j < k => places[j] < places[k])
      /\ \A i \in at : \E k \in 1 .. n : places[k] = i
  BY <1>1, RowsAtShape DEF Enumerates
<1>3. PICK t : t = [k \in DOMAIN places |-> s[places[k]]]
  OBVIOUS
<1>4. IsList(t) /\ DOMAIN t = 1 .. n /\ \A k \in 1 .. n : t[k] = s[places[k]]
  <2>1. t = [k \in 1 .. n |-> t[k]]
    BY <1>2, <1>3
  <2>. QED
    BY <1>2, <1>3, <2>1, ListOf
<1>5. ASSUME NEW j \in 1 .. n, NEW k \in 1 .. n, t[j] = t[k] PROVE j = k
  <2>1. places[j] = places[k]
    BY <1>2, <1>4, <1>5 DEF Enumerates
  <2>2. places[j] \in Int
    <3>1. at \subseteq Int
      BY ListFacts DEF Enumerates
    <3>. QED
      BY <1>2, <3>1
  <2>3. ~(j < k) /\ ~(k < j)
    BY <1>2, <2>1, <2>2
  <2>. QED
    BY <2>3
<1>6. \A k \in 1 .. n : t[k] \in {s[i] : i \in at}
  BY <1>2, <1>4
<1>7. \A x \in {s[i] : i \in at} : \E k \in 1 .. n : t[k] = x
  BY <1>2, <1>4
<1>. QED
  BY <1>1, <1>3, <1>4, <1>5, <1>6, <1>7 DEF Enumerates

\* The first of a list without a repeat.
LEMMA PrefixEnumerates ==
    ASSUME NEW s, NEW S, Enumerates(s, S), NEW m \in Nat, m <= Len(s)
    PROVE  Enumerates([i \in 1 .. m |-> s[i]], {s[i] : i \in 1 .. m})
<1>1. Len(s) \in Nat /\ DOMAIN s = 1 .. Len(s)
  BY ListFacts DEF Enumerates
<1>2. \A i \in 1 .. m : i \in DOMAIN s
  BY <1>1
<1>3. PICK t : t = [i \in 1 .. m |-> s[i]]
  OBVIOUS
<1>4. IsList(t) /\ DOMAIN t = 1 .. m /\ \A i \in 1 .. m : t[i] = s[i]
  <2>1. t = [i \in 1 .. m |-> t[i]]
    BY <1>3
  <2>. QED
    BY <1>3, <2>1, ListOf
<1>5. \A i, j \in 1 .. m : t[i] = t[j] => i = j
  BY <1>2, <1>4 DEF Enumerates
<1>. QED
  BY <1>3, <1>4, <1>5 DEF Enumerates

\* A list to which the members of a set are appended one after another.
LEMMA AppendedEnumerates ==
    ASSUME NEW S, IsFiniteSet(S)
    PROVE  Enumerates(InSomeOrder(S), S)
<1>. DEFINE k == [op |-> "append"]
            P(g) == {s \in SUBSET S : Enumerates(g[s], s)}
<1>1. PICK g : SetRun(g, k, <<>>, S) /\ SetFold(k, <<>>, S) = g[S]
  BY SetFoldRuns
<1>2. g[{}] = <<>> /\ \A s \in SUBSET S : s # {} => \E x \in s : g[s] = Append(g[s \ {x}], x)
  <2>1. \A acc, x : StepOf(k, acc, x) = Append(acc, x)
    BY DEF StepOf
  <2>. HIDE DEF k
  <2>. QED
    BY <1>1, <2>1, ZenonT(60) DEF SetRun
<1>3. \A s \in SUBSET S : (\A x \in s : s \ {x} \in P(g)) => s \in P(g)
  <2>. SUFFICES ASSUME NEW s \in SUBSET S, \A x \in s : s \ {x} \in P(g) PROVE Enumerates(g[s], s)
    OBVIOUS
  <2>1. CASE s = {}
    BY <1>2, <2>1, NoRows DEF Enumerates
  <2>2. CASE s # {}
    <3>1. PICK x \in s : g[s] = Append(g[s \ {x}], x)
      BY <1>2, <2>2
    <3>2. PICK l : l = g[s \ {x}]
      OBVIOUS
    <3>3. Enumerates(l, s \ {x})
      BY <3>2
    <3>4. Append(l, x) = l \o <<x>>
      <4>1. l \in Seq(Range(l) \union {x}) /\ x \in Range(l) \union {x}
        <5>1. l \in Seq(Range(l))
          BY <3>3 DEF Enumerates, IsList
        <5>. QED
          BY <5>1
      <4>. QED
        BY <4>1
    <3>5. Enumerates(<<x>>, {x})
      <4>1. <<x>> = [i \in 1 .. 1 |-> <<x>>[i]]
        OBVIOUS
      <4>2. IsList(<<x>>) /\ DOMAIN <<x>> = 1 .. 1
        BY ONLY <4>1, ListOf, 1 \in Nat
      <4>3. \A i \in 1 .. 1 : i = 1 /\ <<x>>[i] = x
        OBVIOUS
      <4>. QED
        BY <4>2, <4>3 DEF Enumerates
    <3>6. Enumerates(l \o <<x>>, (s \ {x}) \union {x})
      BY <3>3, <3>5, EnumeratesJoined
    <3>7. (s \ {x}) \union {x} = s
      OBVIOUS
    <3>. QED
      BY <3>1, <3>2, <3>4, <3>6, <3>7
  <2>. QED
    BY <2>1, <2>2
<1>4. SUBSET S \subseteq P(g)
  <2>. DEFINE Q == P(g)
  <2>1. \A s \in SUBSET S : (\A x \in s : s \ {x} \in Q) => s \in Q
    BY <1>3
  <2>. HIDE DEF Q
  <2>2. SUBSET S \subseteq Q
    BY <2>1, SubsetInduction
  <2>. QED
    BY <2>2 DEF Q
<1>5. Enumerates(g[S], S)
  BY <1>4
<1>. DEFINE One(f) == f = [s \in SUBSET S |-> IF s = {} THEN <<>> ELSE Append(f[s \ {AnyOf(s)}], AnyOf(s))]
<1>6. InSomeOrder(S) = (CHOOSE f : One(f))[S]
  BY DEF InSomeOrder, FoldSet, MapThenFoldSet, AnyOf
<1>7. \A acc, x : StepOf(k, acc, x) = Append(acc, x)
  BY DEF StepOf
<1>. HIDE DEF k, P
<1>8. \A f : One(f) <=> FoldedSet(f, k, <<>>, S)
  BY ONLY <1>7 DEF FoldedSet, One
<1>. HIDE DEF One
<1>9. (CHOOSE f : One(f)) = TheFoldSet(k, <<>>, S)
  BY <1>8, Zenon DEF TheFoldSet
<1>10. SetFold(k, <<>>, S) = TheFoldSet(k, <<>>, S)[S]
  BY ONLY FoldsAre
<1>. QED
  BY ONLY <1>1, <1>5, <1>6, <1>9, <1>10

--------------------------------------------------------------------------------
(* Walks, length by length. *)

Ahead(L) == UNION {{<<w[1], tip>> : tip \in Range(Successors(w[2]))} : w \in L}
AtStart == {<<i, starts[i].start>> : i \in DOMAIN starts}
NextWalks(g, n) == IF n = 0 THEN AtStart ELSE Ahead(g[n - 1])

\* The walks of every length exist: those of no step, and those of a step more.
LEMMA WalksFound ==
    /\ WalksOfLength[0] = AtStart
    /\ \A n \in Nat : WalksOfLength[n + 1] = Ahead(WalksOfLength[n])
<1>. DEFINE Upto(g, n) == g = [i \in 0 .. n |-> NextWalks(g, i)]
            S == {n \in Nat : \E g : Upto(g, n)}
            Good(f) == f = [n \in Nat |-> NextWalks(f, n)]
<1>1. 0 \in S
  <2>. DEFINE g == [i \in 0 .. 0 |-> AtStart]
  <2>1. g = [i \in 0 .. 0 |-> NextWalks(g, i)]
    <3>1. \A i \in 0 .. 0 : NextWalks(g, i) = AtStart
      BY DEF NextWalks
    <3>. QED
      BY <3>1
  <2>. QED
    BY <2>1
<1>2. ASSUME NEW n \in S PROVE n + 1 \in S
  <2>1. PICK g : Upto(g, n)
    OBVIOUS
  <2>. DEFINE h == [i \in 0 .. (n + 1) |-> NextWalks(g, i)]
  <2>2. n \in Nat /\ \A i \in 0 .. (n + 1) : i # 0 => i - 1 \in 0 .. n
    OBVIOUS
  <2>3. \A i \in 0 .. n : i \in 0 .. (n + 1) /\ g[i] = NextWalks(g, i)
    <3>1. \A i \in 0 .. n : i \in 0 .. (n + 1)
      BY <2>2
    <3>2. \A i \in 0 .. n : g[i] = NextWalks(g, i)
      BY ONLY <2>1
    <3>. QED
      BY ONLY <3>1, <3>2
  <2>4. \A i \in 0 .. n : h[i] = g[i]
    BY <2>3
  <2>. HIDE DEF h
  <2>5. \A i \in 0 .. (n + 1) : NextWalks(g, i) = NextWalks(h, i)
    BY <2>2, <2>4 DEF NextWalks
  <2>6. h = [i \in 0 .. (n + 1) |-> NextWalks(h, i)]
    BY <2>5 DEF h
  <2>7. Upto(h, n + 1)
    BY <2>6
  <2>. HIDE DEF Upto
  <2>. QED
    BY <2>2, <2>7
<1>3. S = Nat
  <2>1. S \in SUBSET Nat
    OBVIOUS
  <2>. HIDE DEF S
  <2>. QED
    BY <1>1, <1>2, <2>1, SetInduction
<1>4. ASSUME NEW f, NEW g, NEW m \in Nat, NEW n \in Nat, Upto(f, m), Upto(g, n)
      PROVE  \A i \in Nat : i <= m /\ i <= n => f[i] = g[i]
  <2>. DEFINE A == {i \in Nat : i <= m /\ i <= n => f[i] = g[i]}
  <2>1. \A i \in 0 .. m : f[i] = NextWalks(f, i)
    BY ONLY <1>4
  <2>2. \A i \in 0 .. n : g[i] = NextWalks(g, i)
    BY ONLY <1>4
  <2>. HIDE DEF Upto
  <2>3. 0 \in A
    BY <1>4, <2>1, <2>2 DEF NextWalks
  <2>4. ASSUME NEW i \in A PROVE i + 1 \in A
    <3>. SUFFICES ASSUME i + 1 <= m, i + 1 <= n PROVE f[i + 1] = g[i + 1]
      BY <1>4
    <3>1. i \in Nat /\ i + 1 \in 0 .. m /\ i + 1 \in 0 .. n /\ (i + 1) - 1 = i /\ i + 1 # 0 /\ i <= m /\ i <= n
      BY <1>4
    <3>2. f[i] = g[i]
      BY <3>1
    <3>. QED
      BY <2>1, <2>2, <3>1, <3>2 DEF NextWalks
  <2>5. A = Nat
    <3>1. A \in SUBSET Nat
      OBVIOUS
    <3>. HIDE DEF A
    <3>. QED
      BY <2>3, <2>4, <3>1, SetInduction
  <2>. QED
    BY <2>5
<1>. DEFINE some == [n \in Nat |-> CHOOSE g : Upto(g, n)]
            all == [n \in Nat |-> some[n][n]]
<1>5. \A n \in Nat : Upto(some[n], n)
  <2>. HIDE DEF Upto
  <2>. QED
    BY <1>3
<1>6. \A n \in Nat : all[n] = some[n][n]
  OBVIOUS
<1>. HIDE DEF some, all
<1>7. ASSUME NEW n \in Nat PROVE all[n] = NextWalks(all, n)
  <2>1. some[n][n] = NextWalks(some[n], n)
    <3>1. \A i \in 0 .. n : some[n][i] = NextWalks(some[n], i)
      BY ONLY <1>5, n \in Nat
    <3>. QED
      BY <3>1
  <2>. HIDE DEF Upto
  <2>2. CASE n = 0
    BY <1>6, <2>1, <2>2 DEF NextWalks
  <2>3. CASE n # 0
    <3>1. n - 1 \in Nat /\ n - 1 <= n
      BY <2>3
    <3>2. some[n][n - 1] = some[n - 1][n - 1]
      BY <1>4, <1>5, <3>1
    <3>. QED
      BY <1>6, <2>1, <2>3, <3>1, <3>2 DEF NextWalks
  <2>. QED
    BY <2>2, <2>3
<1>8. Good(all)
  <2>1. all = [n \in Nat |-> all[n]]
    BY DEF all
  <2>. QED
    BY <1>7, <2>1
<1>9. WalksOfLength = CHOOSE f : Good(f)
  BY DEF WalksOfLength, NextWalks, Ahead, AtStart
<1>10. Good(WalksOfLength)
  <2>. HIDE DEF Good
  <2>. QED
    BY ONLY <1>8, <1>9
<1>11. \A n \in Nat : WalksOfLength[n] = NextWalks(WalksOfLength, n)
  BY ONLY <1>10
<1>12. \A n \in Nat : n + 1 \in Nat /\ n + 1 # 0 /\ (n + 1) - 1 = n
  OBVIOUS
<1>. QED
  BY ONLY <1>11, <1>12, 0 \in Nat DEF NextWalks

\* The nodes that a hop leads to are a list.
LEMMA SuccessorsList ==
    ASSUME IsList(edges), NEW tip
    PROVE  IsList(Successors(tip)) /\ Range(Successors(tip)) \subseteq {Step(edges[k])[2] : k \in DOMAIN edges}
<1>. DEFINE at == {k \in DOMAIN edges : Step(edges[k])[1] = tip}
<1>1. PICK out : out = RowsAt(edges, at)
  OBVIOUS
<1>2. PICK n \in Nat : DOMAIN out = 1 .. n /\ \A k \in DOMAIN out : \E i \in DOMAIN edges : out[k] = edges[i]
  <2>. HIDE DEF at
  <2>1. at \subseteq DOMAIN edges
    BY DEF at
  <2>. QED
    BY <1>1, <2>1, RowsAtShape
<1>3. PICK t : t = Successors(tip)
  OBVIOUS
<1>4. t = [i \in DOMAIN out |-> Step(out[i])[2]]
  BY <1>1, <1>3 DEF Successors
<1>5. IsList(t) /\ DOMAIN t = 1 .. n
  <2>1. t = [i \in 1 .. n |-> t[i]]
    BY <1>2, <1>4
  <2>. QED
    BY <2>1, ListOf
<1>6. \A i \in 1 .. n : t[i] \in {Step(edges[k])[2] : k \in DOMAIN edges}
  BY <1>2, <1>4
<1>. QED
  BY <1>3, <1>5, <1>6 DEF Range

\* There are finitely many walks of any length.
LEMMA WalksFinite ==
    ASSUME IsList(edges), IsList(starts), NEW n \in Nat
    PROVE  /\ \A w \in WalksOfLength[n] : w = <<w[1], w[2]>> /\ w[1] \in DOMAIN starts
           /\ IsFiniteSet(WalksOfLength[n])
<1>. DEFINE Tips == {starts[i].start : i \in DOMAIN starts} \union {Step(edges[k])[2] : k \in DOMAIN edges}
            U == (DOMAIN starts) \X Tips
            L == {m \in Nat : WalksOfLength[m] \subseteq U}
<1>1. 0 \in L
  BY WalksFound DEF AtStart
<1>2. ASSUME NEW m \in L PROVE m + 1 \in L
  <2>1. m \in Nat /\ WalksOfLength[m + 1] = Ahead(WalksOfLength[m]) /\ WalksOfLength[m] \subseteq U
    BY WalksFound
  <2>2. \A w \in U : w[1] \in DOMAIN starts
    OBVIOUS
  <2>3. \A tip : Range(Successors(tip)) \subseteq Tips
    BY SuccessorsList
  <2>4. Ahead(WalksOfLength[m]) \subseteq U
    BY <2>1, <2>2, <2>3 DEF Ahead
  <2>. QED
    BY <2>1, <2>4
<1>3. L = Nat
  <2>1. L \in SUBSET Nat
    OBVIOUS
  <2>. HIDE DEF L
  <2>. QED
    BY <1>1, <1>2, <2>1, SetInduction
<1>4. WalksOfLength[n] \subseteq U
  BY <1>3
<1>5. IsFiniteSet(U)
  <2>1. IsFiniteSet(DOMAIN starts) /\ IsFiniteSet(DOMAIN edges)
    <3>1. ASSUME NEW s, IsList(s) PROVE IsFiniteSet(DOMAIN s)
      <4>1. PICK m \in Nat : DOMAIN s = 1 .. m
        BY <3>1, ListFacts
      <4>. QED
        BY <4>1, FS_Interval
    <3>. QED
      BY <3>1
  <2>2. IsFiniteSet({starts[i].start : i \in DOMAIN starts})
    <3>. DEFINE T == {starts[i].start : i \in DOMAIN starts}
                f == [i \in DOMAIN starts |-> starts[i].start]
    <3>1. f \in Surjection(DOMAIN starts, T)
      BY DEF Surjection
    <3>. HIDE DEF f
    <3>. QED
      BY <2>1, <3>1, FS_Surjection
  <2>3. IsFiniteSet({Step(edges[k])[2] : k \in DOMAIN edges})
    <3>. DEFINE T == {Step(edges[k])[2] : k \in DOMAIN edges}
                f == [k \in DOMAIN edges |-> Step(edges[k])[2]]
    <3>1. f \in Surjection(DOMAIN edges, T)
      BY DEF Surjection
    <3>. HIDE DEF f
    <3>. QED
      BY <2>1, <3>1, FS_Surjection
  <2>4. IsFiniteSet(Tips)
    BY <2>2, <2>3, FS_Union
  <2>. HIDE DEF Tips
  <2>. QED
    BY <2>1, <2>4, FS_Product
<1>. QED
  BY <1>4, <1>5, FS_Subset

\* The pairs of a start value and a node that walks of this length connect.
Reached(n) == {<<starts[w[1]].start, w[2]>> : w \in WalksOfLength[n]}
Level(n) == {<<p[1], p[2], n>> : p \in Reached(n)}

Lowest == IF MinHops > 0 THEN MinHops ELSE 1
AllOf(sql) == Walks(IF sql \/ MinHops > 0 THEN MinHops ELSE 1, MaxHops)
ShortestOf(A) == {w \in A : \A v \in A : v[1] = w[1] /\ v[2] = w[2] => v[3] >= w[3]}
CutTo(A) == IF Cardinality(A) < limit THEN Cardinality(A) ELSE limit

Ends(found) == [i \in DOMAIN found |-> <<starts[found[i].row].start, found[i].end, found[i].hops>>]
Tips(reached) == [i \in DOMAIN reached |-> <<starts[reached[i].row].start, reached[i].tip>>]
Placed(list) == IsList(list) /\ \A i \in DOMAIN list : list[i].row \in DOMAIN starts

SearchGiven ==
    /\ IsList(edges) /\ IsList(starts)
    /\ MinHops \in Nat /\ MaxHops \in Nat
    /\ limit # NoLimit => limit \in Nat

\* While it runs: the frontier is where the walks of the last length end, and
\* the rows are the walks so far, fewer than the limit.
Searching(h, reached, found, sql) ==
    /\ h \in Nat /\ 1 <= h /\ h <= MaxHops + 1 /\ (sql => h = 1)
    /\ Placed(reached) /\ Range(Tips(reached)) = Reached(h - 1)
    /\ Placed(found) /\ Enumerates(Ends(found), Walks(Lowest, h - 1))
    /\ limit # NoLimit => found = <<>> \/ Len(found) < limit
Finished(found, sql) ==
    /\ Placed(found)
    /\ limit = NoLimit => Enumerates(Ends(found), AllOf(sql))
    /\ limit # NoLimit => /\ \E S \in SUBSET AllOf(sql) : Enumerates(Ends(found), S)
                          /\ Len(found) = CutTo(AllOf(sql))
Shortened(found, sql) == Placed(found) /\ Enumerates(Ends(found), ShortestOf(AllOf(sql)))
Bounded(found, sql) ==
    DistinctStarts =>
        Endpoints(found) = {w \in ShortestOf(AllOf(sql)) : \E s \in Range(starts) : s.start = w[1] /\ s.end = w[2]}

SearchAt(verdict, h, reached, found, sql) ==
    /\ verdict = "running" => Searching(h, reached, found, sql)
    /\ verdict = "done" => Finished(found, sql)
    /\ verdict \in {"one", "all"} => Shortened(found, sql)
    /\ verdict \in {"one pair", "all pair"} => Bounded(found, sql)
PathsInv == SearchGiven /\ SearchAt(search, hop, frontier, walks, duckdb)

\* The places that walks of one more step reach.
LEMMA ReachedNext ==
    ASSUME NEW n \in Nat
    PROVE  \A x : x \in Reached(n + 1) <=>
                \E p \in Reached(n) : \E tip \in Range(Successors(p[2])) : x = <<p[1], tip>>
<1>1. WalksOfLength[n + 1] = Ahead(WalksOfLength[n])
  BY WalksFound
<1>2. \A w : w \in Ahead(WalksOfLength[n]) <=>
         \E u \in WalksOfLength[n] : \E tip \in Range(Successors(u[2])) : w = <<u[1], tip>>
  BY DEF Ahead
<1>3. \A x : x \in Reached(n + 1) <=> \E w \in Ahead(WalksOfLength[n]) : x = <<starts[w[1]].start, w[2]>>
  BY <1>1 DEF Reached
<1>4. \A p : p \in Reached(n) <=> \E u \in WalksOfLength[n] : p = <<starts[u[1]].start, u[2]>>
  BY DEF Reached
<1>5. ASSUME NEW x \in Reached(n + 1)
      PROVE  \E p \in Reached(n) : \E tip \in Range(Successors(p[2])) : x = <<p[1], tip>>
  <2>1. PICK w \in Ahead(WalksOfLength[n]) : x = <<starts[w[1]].start, w[2]>>
    BY <1>3
  <2>2. PICK u \in WalksOfLength[n] : \E tip \in Range(Successors(u[2])) : w = <<u[1], tip>>
    BY <1>2
  <2>6. PICK tip \in Range(Successors(u[2])) : w = <<u[1], tip>>
    BY <2>2
  <2>3. PICK p : p = <<starts[u[1]].start, u[2]>>
    OBVIOUS
  <2>4. p \in Reached(n) /\ p[1] = starts[u[1]].start /\ p[2] = u[2]
    BY <1>4, <2>3
  <2>5. x = <<p[1], tip>>
    BY <2>1, <2>4, <2>6
  <2>. QED
    BY <2>4, <2>5
<1>6. ASSUME NEW p \in Reached(n), NEW tip \in Range(Successors(p[2]))
      PROVE  <<p[1], tip>> \in Reached(n + 1)
  <2>1. PICK u \in WalksOfLength[n] : p = <<starts[u[1]].start, u[2]>>
    BY <1>4
  <2>2. p[1] = starts[u[1]].start /\ p[2] = u[2]
    BY <2>1
  <2>3. PICK w : w = <<u[1], tip>>
    OBVIOUS
  <2>4. w \in Ahead(WalksOfLength[n]) /\ w[1] = u[1] /\ w[2] = tip
    BY <1>2, <2>2, <2>3
  <2>. QED
    BY <1>3, <2>2, <2>4
<1>. QED
  BY ONLY <1>5, <1>6

\* Walks of several lengths.
LEMMA WalksByLevel ==
    ASSUME NEW low \in Nat, NEW high \in Int
    PROVE  \A x : x \in Walks(low, high) <=> \E n \in low .. high : x \in Level(n)
<1>1. ASSUME NEW n PROVE \A x : x \in Level(n) <=> \E w \in WalksOfLength[n] : x = <<starts[w[1]].start, w[2], n>>
  <2>1. \A p : p \in Reached(n) <=> \E w \in WalksOfLength[n] : p = <<starts[w[1]].start, w[2]>>
    BY DEF Reached
  <2>2. \A x : x \in Level(n) <=> \E p \in Reached(n) : x = <<p[1], p[2], n>>
    BY DEF Level
  <2>3. ASSUME NEW w \in WalksOfLength[n] PROVE <<starts[w[1]].start, w[2], n>> \in Level(n)
    <3>1. PICK p : p = <<starts[w[1]].start, w[2]>>
      OBVIOUS
    <3>2. p \in Reached(n) /\ p[1] = starts[w[1]].start /\ p[2] = w[2]
      BY <2>1, <3>1
    <3>. QED
      BY <2>2, <3>2
  <2>4. ASSUME NEW x \in Level(n) PROVE \E w \in WalksOfLength[n] : x = <<starts[w[1]].start, w[2], n>>
    <3>1. PICK p \in Reached(n) : x = <<p[1], p[2], n>>
      BY <2>2
    <3>2. PICK w \in WalksOfLength[n] : p = <<starts[w[1]].start, w[2]>>
      BY <2>1
    <3>3. p[1] = starts[w[1]].start /\ p[2] = w[2]
      BY <3>2
    <3>. QED
      BY <3>1, <3>2, <3>3
  <2>. QED
    BY ONLY <2>3, <2>4
<1>2. \A x : x \in Walks(low, high) <=>
         \E n \in low .. high : \E w \in WalksOfLength[n] : x = <<starts[w[1]].start, w[2], n>>
  BY DEF Walks
<1>. QED
  BY ONLY <1>1, <1>2

\* Walks of a length more.
LEMMA WalksGrow ==
    ASSUME NEW low \in Nat, NEW h \in Nat
    PROVE  /\ h < low => Walks(low, h) = {}
           /\ low <= h => Walks(low, h) = Walks(low, h - 1) \union Level(h)
           /\ Walks(low, h - 1) \intersect Level(h) = {}
<1>1. \A x : x \in Walks(low, h) <=> \E n \in low .. h : x \in Level(n)
  BY WalksByLevel
<1>2. \A x : x \in Walks(low, h - 1) <=> \E n \in low .. (h - 1) : x \in Level(n)
  <2>1. h - 1 \in Int
    OBVIOUS
  <2>. QED
    BY <2>1, WalksByLevel
<1>3. h < low => low .. h = {}
  OBVIOUS
<1>4. low <= h => \A n : n \in low .. h <=> n \in low .. (h - 1) \/ n = h
  OBVIOUS
<1>5. low <= h => Walks(low, h) = Walks(low, h - 1) \union Level(h)
  BY <1>1, <1>2, <1>4
<1>6. Walks(low, h - 1) \intersect Level(h) = {}
  <2>. SUFFICES ASSUME NEW x, NEW n \in low .. (h - 1), x \in Level(n), x \in Level(h) PROVE FALSE
    BY <1>2
  <2>1. x[3] = n /\ x[3] = h
    BY DEF Level
  <2>. QED
    BY <2>1
<1>. QED
  BY <1>1, <1>3, <1>5, <1>6

\* Where nothing is reached, nothing farther is.
LEMMA NothingFarther ==
    ASSUME NEW h \in Nat, Reached(h) = {}, NEW low \in Nat, NEW high \in Nat, h - 1 <= high
    PROVE  Walks(low, high) = Walks(low, h - 1)
<1>. DEFINE L == {k \in Nat : Reached(h + k) = {}}
<1>1. 0 \in L
  OBVIOUS
<1>2. ASSUME NEW k \in L PROVE k + 1 \in L
  <2>1. h + k \in Nat /\ h + (k + 1) = (h + k) + 1 /\ Reached(h + k) = {}
    OBVIOUS
  <2>2. Reached((h + k) + 1) = {}
    BY <2>1, ReachedNext
  <2>. QED
    BY <2>1, <2>2
<1>3. L = Nat
  <2>1. L \in SUBSET Nat
    OBVIOUS
  <2>. HIDE DEF L
  <2>. QED
    BY <1>1, <1>2, <2>1, SetInduction
<1>4. ASSUME NEW n \in Nat, h <= n PROVE Level(n) = {}
  <2>1. n - h \in Nat /\ h + (n - h) = n
    BY <1>4
  <2>2. Reached(h + (n - h)) = {}
    BY <1>3, <2>1
  <2>3. Reached(n) = {}
    BY <2>1, <2>2
  <2>. QED
    BY <2>3 DEF Level
<1>5. h - 1 \in Int
  OBVIOUS
<1>6. \A x : x \in Walks(low, high) <=> \E n \in low .. high : x \in Level(n)
  BY WalksByLevel
<1>7. \A x : x \in Walks(low, h - 1) <=> \E n \in low .. (h - 1) : x \in Level(n)
  BY <1>5, WalksByLevel
<1>8. \A n \in low .. high : n \in Nat /\ (h <= n \/ n \in low .. (h - 1))
  OBVIOUS
<1>9. \A n \in low .. (h - 1) : n \in low .. high
  OBVIOUS
<1>. QED
  BY <1>4, <1>6, <1>7, <1>8, <1>9

\* There are finitely many walks of a range of lengths.
LEMMA WalksOfRangeFinite ==
    ASSUME IsList(edges), IsList(starts), NEW low \in Nat, NEW high \in Nat
    PROVE  IsFiniteSet(Walks(low, high))
<1>. DEFINE of(n) == {<<starts[w[1]].start, w[2], n>> : w \in WalksOfLength[n]}
            All == {of(n) : n \in low .. high}
<1>1. ASSUME NEW n \in low .. high PROVE IsFiniteSet(of(n))
  <2>. DEFINE f == [w \in WalksOfLength[n] |-> <<starts[w[1]].start, w[2], n>>]
  <2>1. f \in Surjection(WalksOfLength[n], of(n))
    BY DEF Surjection
  <2>2. n \in Nat
    OBVIOUS
  <2>3. IsFiniteSet(WalksOfLength[n])
    BY <2>2, WalksFinite
  <2>. HIDE DEF f, of
  <2>. QED
    BY <2>1, <2>3, FS_Surjection
<1>2. IsFiniteSet(All)
  <2>. DEFINE f == [n \in low .. high |-> of(n)]
  <2>. HIDE DEF of
  <2>1. f \in Surjection(low .. high, All)
    BY DEF Surjection
  <2>2. IsFiniteSet(low .. high)
    BY FS_Interval
  <2>. HIDE DEF f, All
  <2>. QED
    BY <2>1, <2>2, FS_Surjection
<1>3. Walks(low, high) = UNION All
  BY DEF Walks
<1>4. \A S \in All : IsFiniteSet(S)
  <2>. HIDE DEF of
  <2>. QED
    BY <1>1
<1>. HIDE DEF All
<1>. QED
  BY <1>2, <1>3, <1>4, FS_UNION

\* One hop from everywhere reaches everything a step farther, once.
LEMMA ExpandedFacts ==
    ASSUME SearchGiven, NEW h \in Nat, 1 <= h, Placed(frontier), Range(Tips(frontier)) = Reached(h - 1)
    PROVE  Placed(Expanded) /\ Enumerates(Tips(Expanded), Reached(h))
<1>1. PICK N \in Nat : N = Len(frontier) /\ DOMAIN frontier = 1 .. N
  BY ListFacts DEF Placed
<1>. DEFINE rowsOf(i) == [j \in DOMAIN Successors(frontier[i].tip) |->
                            [row |-> frontier[i].row, tip |-> Successors(frontier[i].tip)[j]]]
<1>2. PICK ss : ss = [i \in DOMAIN frontier |-> rowsOf(i)]
  OBVIOUS
<1>3. Expanded = Deduplicated(FlattenSeq(ss))
  BY <1>2 DEF Expanded
<1>4. IsList(ss) /\ DOMAIN ss = 1 .. N
  <2>1. ss = [i \in 1 .. N |-> ss[i]]
    BY <1>1, <1>2
  <2>. QED
    BY <2>1, ListOf
<1>5. ASSUME NEW i \in 1 .. N
      PROVE  /\ IsList(ss[i])
             /\ \A x : x \in Range(ss[i]) <=>
                  \E tip \in Range(Successors(frontier[i].tip)) : x = [row |-> frontier[i].row, tip |-> tip]
  <2>1. PICK t : t = Successors(frontier[i].tip)
    OBVIOUS
  <2>2. PICK n \in Nat : IsList(t) /\ DOMAIN t = 1 .. n
    BY <2>1, SuccessorsList, ListFacts DEF SearchGiven
  <2>3. ss[i] = [j \in 1 .. n |-> [row |-> frontier[i].row, tip |-> t[j]]]
    BY <1>1, <1>2, <2>1, <2>2
  <2>4. PICK r : r = ss[i]
    OBVIOUS
  <2>5. IsList(r) /\ DOMAIN r = 1 .. n
    <3>1. r = [j \in 1 .. n |-> r[j]]
      BY <2>3, <2>4
    <3>. QED
      BY <3>1, ListOf
  <2>6. \A j \in 1 .. n : r[j] = [row |-> frontier[i].row, tip |-> t[j]]
    BY <2>3, <2>4
  <2>7. \A x : x \in Range(r) <=> \E j \in 1 .. n : x = r[j]
    BY <2>5 DEF Range
  <2>8. \A x : x \in Range(t) <=> \E j \in 1 .. n : x = t[j]
    BY <2>2 DEF Range
  <2>9. \A x : x \in Range(r) <=> \E tip \in Range(t) : x = [row |-> frontier[i].row, tip |-> tip]
    <3>1. ASSUME NEW x \in Range(r) PROVE \E tip \in Range(t) : x = [row |-> frontier[i].row, tip |-> tip]
      <4>1. PICK j \in 1 .. n : x = r[j]
        BY <2>7
      <4>2. t[j] \in Range(t)
        BY <2>8
      <4>. QED
        BY <2>6, <4>1, <4>2
    <3>2. ASSUME NEW tip \in Range(t) PROVE [row |-> frontier[i].row, tip |-> tip] \in Range(r)
      <4>1. PICK j \in 1 .. n : tip = t[j]
        BY <2>8
      <4>2. r[j] \in Range(r)
        BY <2>7
      <4>. QED
        BY <2>6, <4>1, <4>2
    <3>. QED
      BY <3>1, <3>2
  <2>. QED
    BY ONLY <2>1, <2>4, <2>5, <2>9
<1>6. PICK flat : flat = FlattenSeq(ss)
  OBVIOUS
<1>7. IsList(flat)
  BY <1>4, <1>5, <1>6, FlattenedIsList
<1>8. \A x : x \in Range(flat) <=> \E i \in 1 .. N : x \in Range(ss[i])
  BY <1>4, <1>5, <1>6, FlattenedRange
<1>9. \A x : x \in Range(flat) <=>
        \E i \in 1 .. N : \E tip \in Range(Successors(frontier[i].tip)) : x = [row |-> frontier[i].row, tip |-> tip]
  BY ONLY <1>5, <1>8
<1>10. PICK own : own = [i \in DOMAIN flat |-> <<starts[flat[i].row].start, flat[i].tip>>]
  OBVIOUS
<1>11. Expanded = FirstOfEach(flat, own)
  BY <1>3, <1>6, <1>10 DEF Deduplicated
<1>12. \A x : x \in Range(own) <=> \E r \in Range(flat) : x = <<starts[r.row].start, r.tip>>
  BY <1>10 DEF Range
<1>13. \A p : p \in Reached(h - 1) <=> \E i \in 1 .. N : p = <<starts[frontier[i].row].start, frontier[i].tip>>
  <2>1. \A p : p \in Range(Tips(frontier)) <=> \E i \in 1 .. N : p = <<starts[frontier[i].row].start, frontier[i].tip>>
    BY <1>1 DEF Range, Tips
  <2>. QED
    BY <2>1
<1>14. \A x : x \in Reached(h) <=> \E p \in Reached(h - 1) : \E tip \in Range(Successors(p[2])) : x = <<p[1], tip>>
  <2>1. h - 1 \in Nat /\ (h - 1) + 1 = h
    OBVIOUS
  <2>. QED
    BY <2>1, ReachedNext
<1>15. ASSUME NEW x \in Range(own) PROVE x \in Reached(h)
  <2>1. PICK r \in Range(flat) : x = <<starts[r.row].start, r.tip>>
    BY <1>12
  <2>2. PICK i \in 1 .. N : \E tip \in Range(Successors(frontier[i].tip)) : r = [row |-> frontier[i].row, tip |-> tip]
    BY <1>9
  <2>3. PICK tip \in Range(Successors(frontier[i].tip)) : r = [row |-> frontier[i].row, tip |-> tip]
    BY <2>2
  <2>4. PICK p : p = <<starts[frontier[i].row].start, frontier[i].tip>>
    OBVIOUS
  <2>5. p \in Reached(h - 1) /\ p[1] = starts[frontier[i].row].start /\ p[2] = frontier[i].tip
    BY <1>13, <2>4
  <2>6. x = <<p[1], tip>>
    BY <2>1, <2>3, <2>5
  <2>. QED
    BY <1>14, <2>3, <2>5, <2>6
<1>16. ASSUME NEW x \in Reached(h) PROVE x \in Range(own)
  <2>1. PICK p \in Reached(h - 1) : \E tip \in Range(Successors(p[2])) : x = <<p[1], tip>>
    BY <1>14
  <2>2. PICK tip \in Range(Successors(p[2])) : x = <<p[1], tip>>
    BY <2>1
  <2>3. PICK i \in 1 .. N : p = <<starts[frontier[i].row].start, frontier[i].tip>>
    BY <1>13
  <2>4. p[1] = starts[frontier[i].row].start /\ p[2] = frontier[i].tip
    BY <2>3
  <2>5. PICK r : r = [row |-> frontier[i].row, tip |-> tip]
    OBVIOUS
  <2>6. r \in Range(flat) /\ r.row = frontier[i].row /\ r.tip = tip
    BY <1>9, <2>2, <2>4, <2>5
  <2>. QED
    BY <1>12, <2>2, <2>4, <2>6
<1>17. Range(own) = Reached(h)
  BY <1>15, <1>16
<1>18. DOMAIN own = DOMAIN flat
  BY <1>10
<1>19. PICK at : OneOfEach(Expanded, flat, own, at)
  BY ONLY <1>7, <1>11, <1>18, FirstOfEachFacts
<1>20. \A k \in DOMAIN at : own[at[k]] = <<starts[Expanded[k].row].start, Expanded[k].tip>>
  BY <1>10, <1>19 DEF OneOfEach
<1>21. Tips(Expanded) = [k \in DOMAIN at |-> own[at[k]]]
  BY <1>19, <1>20 DEF OneOfEach, Tips
<1>22. \A i \in DOMAIN flat : flat[i].row \in DOMAIN starts
  <2>. SUFFICES ASSUME NEW j \in DOMAIN flat PROVE flat[j].row \in DOMAIN starts
    OBVIOUS
  <2>1. PICK r : r = flat[j]
    OBVIOUS
  <2>2. r \in Range(flat)
    BY <2>1 DEF Range
  <2>3. PICK i \in 1 .. N : \E tip \in Range(Successors(frontier[i].tip)) : r = [row |-> frontier[i].row, tip |-> tip]
    BY <1>9, <2>2
  <2>4. r.row = frontier[i].row
    BY <2>3
  <2>. QED
    BY <1>1, <2>1, <2>4 DEF Placed
<1>. QED
  BY <1>17, <1>19, <1>21, <1>22 DEF OneOfEach, Placed

\* The rows of a hop that are kept are places it reached, and all if there is room.
LEMMA PartFacts ==
    ASSUME NEW rows, Placed(rows), hop \in Nat, Enumerates(Tips(rows), Reached(hop)),
           NEW m \in Nat, m <= Len(rows), NEW part,
           part = [i \in 1 .. m |-> [row |-> rows[i].row, end |-> rows[i].tip, hops |-> hop]]
    PROVE  /\ Placed(part) /\ Len(part) = m
           /\ \E S \in SUBSET Level(hop) : Enumerates(Ends(part), S)
           /\ m = Len(rows) => Enumerates(Ends(part), Level(hop))
<1>1. Len(rows) \in Nat /\ DOMAIN rows = 1 .. Len(rows) /\ IsList(rows)
  BY ListFacts DEF Placed
<1>2. IsList(part) /\ Len(part) = m /\ DOMAIN part = 1 .. m
  <2>1. part = [i \in 1 .. m |-> part[i]]
    OBVIOUS
  <2>. QED
    BY <2>1, ListOf
<1>3. \A i \in 1 .. m : /\ i \in DOMAIN rows
                        /\ part[i].row = rows[i].row /\ part[i].end = rows[i].tip /\ part[i].hops = hop
  BY <1>1
<1>4. Placed(part)
  BY <1>2, <1>3 DEF Placed
<1>5. PICK tips : tips = Tips(rows)
  OBVIOUS
<1>6. /\ Enumerates(tips, Reached(hop)) /\ Len(tips) = Len(rows)
      /\ \A i \in 1 .. m : tips[i] = <<starts[rows[i].row].start, rows[i].tip>>
  <2>1. DOMAIN tips = DOMAIN rows
    BY <1>5 DEF Tips
  <2>2. DOMAIN tips = 1 .. Len(tips) /\ Len(tips) \in Nat
    BY <1>5, ListFacts DEF Enumerates
  <2>3. Len(tips) = Len(rows)
    BY <1>1, <2>1, <2>2
  <2>. QED
    BY <1>3, <1>5, <2>3 DEF Tips
<1>7. PICK first, P : /\ first = [i \in 1 .. m |-> tips[i]] /\ P = {tips[i] : i \in 1 .. m}
                      /\ Enumerates(first, P)
  BY <1>6, PrefixEnumerates
<1>8. P \subseteq Reached(hop) /\ (m = Len(rows) => P = Reached(hop))
  <2>1. DOMAIN tips = 1 .. Len(rows)
    BY <1>6, ListFacts DEF Enumerates
  <2>. QED
    <3>1. \A i \in 1 .. m : i \in 1 .. Len(rows)
      BY <1>1
    <3>2. \A i \in 1 .. m : tips[i] \in Reached(hop)
      BY <1>6, <2>1, <3>1 DEF Enumerates
    <3>3. P \subseteq Reached(hop)
      BY <1>7, <3>2
    <3>4. ASSUME m = Len(rows), NEW x \in Reached(hop) PROVE x \in P
      <4>1. PICK i \in 1 .. Len(rows) : tips[i] = x
        BY <1>6, <2>1 DEF Enumerates
      <4>. QED
        BY <1>7, <3>4, <4>1
    <3>. QED
      BY <3>3, <3>4
<1>9. PICK mm : mm = [p \in Reached(hop) |-> <<p[1], p[2], hop>>]
  OBVIOUS
<1>10. \A p \in Reached(hop) : mm[p] = <<p[1], p[2], hop>> /\ p = <<p[1], p[2]>>
  BY <1>9 DEF Reached
<1>11. \A p, q \in P : mm[p] = mm[q] => p = q
  <2>. SUFFICES ASSUME NEW p \in P, NEW q \in P, mm[p] = mm[q] PROVE p = q
    OBVIOUS
  <2>1. p \in Reached(hop) /\ q \in Reached(hop)
    BY <1>8
  <2>2. <<p[1], p[2], hop>> = <<q[1], q[2], hop>>
    BY <1>10, <2>1
  <2>3. p[1] = q[1] /\ p[2] = q[2]
    BY ONLY <2>2
  <2>4. p = <<p[1], p[2]>> /\ q = <<q[1], q[2]>>
    BY <1>10, <2>1
  <2>. QED
    BY <2>3, <2>4
<1>12. PICK T : T = {mm[p] : p \in P}
  OBVIOUS
<1>13. Enumerates([i \in DOMAIN first |-> mm[first[i]]], T)
  <2>1. (\A p \in P : mm[p] \in T) /\ \A z \in T : \E p \in P : mm[p] = z
    BY <1>12
  <2>2. Enumerates(first, P)
    BY <1>7
  <2>. QED
    BY ONLY <1>11, <2>1, <2>2, MappedEnumerates
<1>14. Ends(part) = [i \in DOMAIN first |-> mm[first[i]]]
  <2>1. DOMAIN first = 1 .. m
    BY <1>7
  <2>2. \A i \in 1 .. m : first[i] = tips[i] /\ first[i] \in P
    BY <1>7
  <2>3. \A i \in 1 .. m : mm[first[i]] = <<starts[rows[i].row].start, rows[i].tip, hop>>
    BY <1>6, <1>8, <1>10, <2>2
  <2>4. \A i \in 1 .. m : <<starts[part[i].row].start, part[i].end, part[i].hops>> = mm[first[i]]
    BY <1>3, <2>3
  <2>5. Ends(part) = [i \in 1 .. m |-> <<starts[part[i].row].start, part[i].end, part[i].hops>>]
    BY <1>2 DEF Ends
  <2>. QED
    BY ONLY <2>1, <2>4, <2>5
<1>15. \A x : x \in Level(hop) <=> \E p \in Reached(hop) : x = mm[p]
  BY <1>10 DEF Level
<1>16. T \subseteq Level(hop) /\ (m = Len(rows) => T = Level(hop))
  BY <1>8, <1>12, <1>15
<1>. QED
  BY <1>2, <1>4, <1>13, <1>14, <1>16

\* Rows placed behind rows.
LEMMA PlacedJoined ==
    ASSUME NEW s, Placed(s), NEW t, Placed(t)
    PROVE  Placed(s \o t) /\ Len(s \o t) = Len(s) + Len(t) /\ Ends(s \o t) = Ends(s) \o Ends(t)
<1>1. PICK m \in Nat, n \in Nat : m = Len(s) /\ n = Len(t) /\ DOMAIN s = 1 .. m /\ DOMAIN t = 1 .. n
  BY ListFacts DEF Placed
<1>2. PICK r : r = s \o t
  OBVIOUS
<1>3. /\ IsList(r) /\ Len(r) = m + n /\ DOMAIN r = 1 .. m + n
      /\ \A i \in 1 .. m : r[i] = s[i]
      /\ \A i \in 1 .. n : r[m + i] = t[i]
  BY <1>1, <1>2, JoinedLists DEF Placed
<1>4. \A i \in 1 .. m + n : i \in 1 .. m \/ (i - m \in 1 .. n /\ m + (i - m) = i)
  OBVIOUS
<1>5. Placed(r)
  <2>. SUFFICES ASSUME NEW i \in 1 .. m + n PROVE r[i].row \in DOMAIN starts
    BY <1>3 DEF Placed
  <2>1. CASE i \in 1 .. m
    <3>1. r[i] = s[i] /\ i \in DOMAIN s
      BY <1>1, <1>3, <2>1
    <3>. QED
      BY <3>1 DEF Placed
  <2>2. CASE i - m \in 1 .. n /\ m + (i - m) = i
    <3>1. r[i] = t[i - m] /\ i - m \in DOMAIN t
      BY <1>1, <1>3, <2>2
    <3>. QED
      BY <3>1 DEF Placed
  <2>. QED
    BY <1>4, <2>1, <2>2
<1>6. PICK a, b, c : a = Ends(s) /\ b = Ends(t) /\ c = Ends(r)
  OBVIOUS
<1>7. /\ IsList(a) /\ Len(a) = m /\ DOMAIN a = 1 .. m
      /\ IsList(b) /\ Len(b) = n /\ DOMAIN b = 1 .. n
  <2>1. a = [i \in 1 .. m |-> a[i]]
    BY <1>1, <1>6 DEF Ends
  <2>2. b = [i \in 1 .. n |-> b[i]]
    BY <1>1, <1>6 DEF Ends
  <2>. QED
    BY <2>1, <2>2, ListOf
<1>8. DOMAIN c = 1 .. m + n /\ c = [i \in 1 .. m + n |-> c[i]]
  <2>1. c = [i \in 1 .. m + n |-> <<starts[r[i].row].start, r[i].end, r[i].hops>>]
    BY ONLY <1>3, <1>6 DEF Ends
  <2>. QED
    BY ONLY <2>1
<1>9. \A i \in 1 .. m : c[i] = a[i]
  <2>1. \A i \in 1 .. m : i \in 1 .. m + n
    OBVIOUS
  <2>. QED
    BY <1>1, <1>3, <1>6, <2>1 DEF Ends
<1>10. \A i \in 1 .. n : c[m + i] = b[i]
  <2>1. \A i \in 1 .. n : m + i \in 1 .. m + n
    OBVIOUS
  <2>. QED
    BY <1>1, <1>3, <1>6, <2>1 DEF Ends
<1>11. PICK d : d = a \o b
  OBVIOUS
<1>12. /\ IsList(d) /\ DOMAIN d = 1 .. m + n /\ (\A i \in 1 .. m : d[i] = a[i])
       /\ \A i \in 1 .. n : d[m + i] = b[i]
  <2>1. /\ IsList(a \o b) /\ DOMAIN (a \o b) = 1 .. Len(a) + Len(b)
        /\ \A i \in 1 .. Len(a) : (a \o b)[i] = a[i]
        /\ \A i \in 1 .. Len(b) : (a \o b)[Len(a) + i] = b[i]
    <3>1. IsList(a) /\ IsList(b)
      BY <1>7
    <3>. QED
      BY ONLY <3>1, JoinedLists
  <2>. QED
    BY ONLY <1>7, <1>11, <2>1
<1>13. \A i \in 1 .. m + n : c[i] = d[i]
  <2>. SUFFICES ASSUME NEW i \in 1 .. m + n PROVE c[i] = d[i]
    OBVIOUS
  <2>1. CASE i \in 1 .. m
    BY <1>9, <1>12, <2>1
  <2>2. CASE i - m \in 1 .. n /\ m + (i - m) = i
    BY <1>10, <1>12, <2>2
  <2>. QED
    BY <1>4, <2>1, <2>2
<1>14. d = [i \in 1 .. m + n |-> d[i]]
  BY <1>12, ListFacts
<1>15. c = d
  BY <1>8, <1>13, <1>14
<1>. QED
  BY <1>1, <1>2, <1>3, <1>5, <1>6, <1>11, <1>15

\* One hop: the walks of a length more, as far as the limit lets them in.
LEMMA HopKeeps ==
    ASSUME SearchGiven, Searching(hop, frontier, walks, FALSE), Hop
    PROVE  SearchAt(search', hop', frontier', walks', FALSE)
<1>1. hop \in Nat /\ 1 <= hop /\ MinHops \in Nat /\ MaxHops \in Nat /\ hop <= MaxHops
  BY DEF SearchGiven, Searching, Hop
<1>2. Placed(Expanded) /\ Enumerates(Tips(Expanded), Reached(hop))
  BY <1>1, ExpandedFacts DEF Searching
<1>3. Lowest \in Nat /\ AllOf(FALSE) = Walks(Lowest, MaxHops)
  BY <1>1 DEF Lowest, AllOf
<1>4. PICK reached : reached = Expanded
  OBVIOUS
<1>5. Len(reached) \in Nat
  BY <1>2, <1>4, ListFacts DEF Placed
<1>6. Placed(walks) /\ Enumerates(Ends(walks), Walks(Lowest, hop - 1))
  BY DEF Searching
<1>7. Len(walks) \in Nat
  BY <1>6, ListFacts DEF Placed
<1>8. CASE Len(Expanded) > MaxFrontierRows
  BY <1>8 DEF Hop, End, SearchAt
<1>9. CASE ~(Len(Expanded) > MaxFrontierRows)
  <2>1. /\ frontier' = reached /\ hop' = hop + 1
        /\ walks' = IF hop >= MinHops THEN walks \o Part(reached) ELSE walks
        /\ search' = IF hop < MinHops THEN "running"
                     ELSE IF limit # NoLimit /\ Len(walks') >= limit THEN "done"
                     ELSE IF Len(walks') > MaxTotalRows THEN "refused" ELSE "running"
    BY <1>4, <1>9 DEF Hop
  <2>2. /\ hop + 1 \in Nat /\ 1 <= hop + 1 /\ hop + 1 <= MaxHops + 1 /\ (hop + 1) - 1 = hop
        /\ Placed(reached) /\ Range(Tips(reached)) = Reached(hop)
    BY <1>1, <1>2, <1>4, EnumeratedSize
  <2>3. CASE hop < MinHops
    <3>1. Lowest = MinHops /\ hop < Lowest /\ hop - 1 < Lowest
      BY <1>1, <2>3 DEF Lowest
    <3>2. Walks(Lowest, hop) = {}
      BY <1>1, <1>3, <3>1, WalksGrow
    <3>3. Walks(Lowest, hop - 1) = {}
      <4>1. Lowest .. (hop - 1) = {}
        BY <1>1, <1>3, <3>1
      <4>. QED
        BY <4>1 DEF Walks
    <3>4. search' = "running" /\ walks' = walks
      BY <1>1, <2>1, <2>3
    <3>5. Searching(hop + 1, reached, walks, FALSE)
      BY <1>6, <2>2, <3>2, <3>3 DEF Searching
    <3>. QED
      BY <2>1, <3>4, <3>5 DEF SearchAt
  <2>4. CASE ~(hop < MinHops)
    <3>1. hop >= MinHops /\ Lowest <= hop
      BY <1>1, <2>4 DEF Lowest
    <3>2. /\ Walks(Lowest, hop) = Walks(Lowest, hop - 1) \union Level(hop)
          /\ Walks(Lowest, hop - 1) \intersect Level(hop) = {}
      BY <1>1, <1>3, <3>1, WalksGrow
    <3>3. PICK part : part = Part(reached)
      OBVIOUS
    <3>4. PICK m \in Nat :
          /\ m <= Len(reached)
          /\ part = [i \in 1 .. m |-> [row |-> reached[i].row, end |-> reached[i].tip, hops |-> hop]]
          /\ limit = NoLimit => m = Len(reached)
          /\ limit # NoLimit => m = Len(reached) \/ (limit \in Nat /\ m = limit - Len(walks))
          /\ limit # NoLimit => limit \in Nat /\ (m <= limit - Len(walks) \/ Len(walks) > limit)
      <4>1. limit # NoLimit => limit \in Nat /\ limit - Len(walks) \in Nat
        <5>1. limit # NoLimit => limit \in Nat /\ (walks = <<>> \/ Len(walks) < limit)
          BY DEF SearchGiven, Searching
        <5>. QED
          BY <1>7, <5>1, NoRows
      <4>. DEFINE room == IF limit = NoLimit THEN Len(reached) ELSE limit - Len(walks)
                  mm == IF room < Len(reached) THEN room ELSE Len(reached)
      <4>2. mm \in Nat /\ mm <= Len(reached) /\ (limit = NoLimit => mm = Len(reached))
        BY <1>5, <4>1
      <4>3. limit # NoLimit => mm = Len(reached) \/ mm = limit - Len(walks)
        OBVIOUS
      <4>4. limit # NoLimit => mm <= limit - Len(walks)
        BY <1>5, <4>1
      <4>5. part = [i \in 1 .. mm |-> [row |-> reached[i].row, end |-> reached[i].tip, hops |-> hop]]
        BY <3>3 DEF Part
      <4>. HIDE DEF mm
      <4>. QED
        BY <4>1, <4>2, <4>3, <4>4, <4>5
    <3>5. /\ Placed(part) /\ Len(part) = m
          /\ \E S \in SUBSET Level(hop) : Enumerates(Ends(part), S)
          /\ m = Len(reached) => Enumerates(Ends(part), Level(hop))
      <4>1. Placed(reached) /\ Enumerates(Tips(reached), Reached(hop)) /\ hop \in Nat
        BY <1>1, <1>2, <1>4
      <4>. QED
        BY ONLY <3>4, <4>1, PartFacts
    <3>6. PICK all : all = walks \o part
      OBVIOUS
    <3>7. walks' = all
      BY <2>1, <3>1, <3>3, <3>6
    <3>8. Placed(all) /\ Len(all) = Len(walks) + m /\ Ends(all) = Ends(walks) \o Ends(part)
      BY <1>6, <3>5, <3>6, PlacedJoined
    <3>9. ASSUME NEW S \in SUBSET Level(hop), Enumerates(Ends(part), S)
          PROVE  Enumerates(Ends(all), Walks(Lowest, hop - 1) \union S)
      <4>1. Walks(Lowest, hop - 1) \intersect S = {}
        BY <3>2
      <4>2. Enumerates(Ends(walks) \o Ends(part), Walks(Lowest, hop - 1) \union S)
        BY ONLY <1>6, <3>9, <4>1, EnumeratesJoined
      <4>. QED
        BY ONLY <3>8, <4>2
    <3>10. m = Len(reached) => Enumerates(Ends(all), Walks(Lowest, hop))
      BY <3>2, <3>5, <3>9
    <3>11. Walks(Lowest, hop) \subseteq AllOf(FALSE)
      <4>1. \A x : x \in Walks(Lowest, hop) <=> \E n \in Lowest .. hop : x \in Level(n)
        BY <1>1, <1>3, WalksByLevel
      <4>2. \A x : x \in Walks(Lowest, MaxHops) <=> \E n \in Lowest .. MaxHops : x \in Level(n)
        BY <1>1, <1>3, WalksByLevel
      <4>3. \A n \in Lowest .. hop : n \in Lowest .. MaxHops
        BY <1>1, <1>3
      <4>. QED
        BY <1>3, <4>1, <4>2, <4>3
    <3>12. CASE limit # NoLimit /\ Len(all) >= limit
      <4>1. search' = "done"
        BY <2>1, <2>4, <3>7, <3>12
      <4>2. PICK S \in SUBSET Level(hop) : Enumerates(Ends(part), S)
        BY <3>5
      <4>3. PICK T : T = Walks(Lowest, hop - 1) \union S
        OBVIOUS
      <4>4. Enumerates(Ends(all), T) /\ T \in SUBSET AllOf(FALSE)
        BY <3>2, <3>9, <3>11, <4>2, <4>3
      <4>5. limit \in Nat /\ Len(all) = limit
        <5>1. limit \in Nat /\ (walks = <<>> \/ Len(walks) < limit)
          BY <3>12 DEF SearchGiven, Searching
        <5>2. Len(walks) <= limit
          BY <1>7, <5>1, NoRows
        <5>3. /\ m <= limit - Len(walks) \/ Len(walks) > limit
              /\ Len(all) = Len(walks) + m /\ Len(all) >= limit
          BY <3>4, <3>8, <3>12
        <5>. QED
          BY ONLY <1>7, <5>1, <5>2, <5>3, m \in Nat
      <4>6. Len(all) = Cardinality(T)
        <5>1. Len(Ends(all)) = Cardinality(T)
          BY <4>4, EnumeratedSize
        <5>2. Len(Ends(all)) = Len(all)
          <6>1. DOMAIN Ends(all) = DOMAIN all
            BY DEF Ends
          <6>2. DOMAIN all = 1 .. Len(all) /\ Len(all) \in Nat
            BY <3>8, ListFacts DEF Placed
          <6>3. DOMAIN Ends(all) = 1 .. Len(Ends(all)) /\ Len(Ends(all)) \in Nat
            BY <4>4, ListFacts DEF Enumerates
          <6>. QED
            BY ONLY <6>1, <6>2, <6>3
        <5>. QED
          BY <5>1, <5>2
      <4>7. IsFiniteSet(AllOf(FALSE))
        BY <1>1, <1>3, WalksOfRangeFinite DEF SearchGiven
      <4>8. Cardinality(T) <= Cardinality(AllOf(FALSE)) /\ Cardinality(AllOf(FALSE)) \in Nat
        BY <4>4, <4>7, FS_Subset, FS_CardinalityType
      <4>9. Len(all) = CutTo(AllOf(FALSE))
        <5>1. \A c, l \in Nat : l <= c => (IF c < l THEN c ELSE l) = l
          OBVIOUS
        <5>2. limit <= Cardinality(AllOf(FALSE)) /\ limit \in Nat /\ Cardinality(AllOf(FALSE)) \in Nat
          BY <4>5, <4>6, <4>8
        <5>3. CutTo(AllOf(FALSE)) = limit
          BY ONLY <5>1, <5>2 DEF CutTo
        <5>. QED
          BY <4>5, <5>3
      <4>10. Finished(all, FALSE)
        BY <3>8, <3>12, <4>4, <4>9 DEF Finished
      <4>. QED
        BY <3>7, <4>1, <4>10 DEF SearchAt
    <3>13. CASE ~(limit # NoLimit /\ Len(all) >= limit)
      <4>1. search' \in {"refused", "running"}
        BY <2>1, <2>4, <3>7, <3>13
      <4>2. m = Len(reached)
        BY <1>7, <3>4, <3>8, <3>13
      <4>3. Enumerates(Ends(all), Walks(Lowest, (hop + 1) - 1))
        BY <2>2, <3>10, <4>2
      <4>4. limit # NoLimit => Len(all) < limit
        <5>1. Len(all) \in Nat /\ (limit # NoLimit => limit \in Nat)
          BY <1>7, <3>4, <3>8
        <5>. QED
          BY ONLY <3>13, <5>1
      <4>5. Searching(hop + 1, reached, all, FALSE)
        BY <2>2, <3>8, <4>3, <4>4 DEF Searching
      <4>. QED
        BY <2>1, <3>7, <4>1, <4>5 DEF SearchAt
    <3>. QED
      BY <3>12, <3>13
  <2>. QED
    BY <2>3, <2>4
<1>. QED
  BY <1>8, <1>9

\* Where a search ends, no walk is left to find.
LEMMA EndFinishes ==
    ASSUME SearchGiven, Searching(hop, frontier, walks, FALSE), hop > MaxHops \/ Expanded = <<>>
    PROVE  Finished(walks, FALSE)
<1>1. hop \in Nat /\ 1 <= hop /\ MinHops \in Nat /\ MaxHops \in Nat /\ hop <= MaxHops + 1
  BY DEF SearchGiven, Searching
<1>2. Lowest \in Nat /\ AllOf(FALSE) = Walks(Lowest, MaxHops)
  BY <1>1 DEF Lowest, AllOf
<1>3. Walks(Lowest, MaxHops) = Walks(Lowest, hop - 1)
  <2>1. CASE hop > MaxHops
    <3>1. hop - 1 = MaxHops
      BY <1>1, <2>1
    <3>. QED
      BY <3>1
  <2>2. CASE Expanded = <<>>
    <3>1. Enumerates(Tips(Expanded), Reached(hop))
      BY <1>1, ExpandedFacts DEF Searching
    <3>2. DOMAIN Tips(Expanded) = {}
      BY <2>2 DEF Tips
    <3>3. Reached(hop) = {}
      BY <3>1, <3>2 DEF Enumerates
    <3>4. hop - 1 <= MaxHops
      BY <1>1
    <3>. QED
      BY <1>1, <1>2, <3>3, <3>4, NothingFarther
  <2>. QED
    BY <2>1, <2>2
<1>4. Placed(walks) /\ Enumerates(Ends(walks), AllOf(FALSE))
  BY <1>2, <1>3 DEF Searching
<1>5. Len(walks) = Cardinality(AllOf(FALSE)) /\ Len(walks) \in Nat
  <2>1. Len(Ends(walks)) = Cardinality(AllOf(FALSE))
    BY <1>4, EnumeratedSize
  <2>2. DOMAIN Ends(walks) = DOMAIN walks
    BY DEF Ends
  <2>3. DOMAIN walks = 1 .. Len(walks) /\ Len(walks) \in Nat
    BY <1>4, ListFacts DEF Placed
  <2>4. DOMAIN Ends(walks) = 1 .. Len(Ends(walks)) /\ Len(Ends(walks)) \in Nat
    BY <1>4, ListFacts DEF Enumerates
  <2>5. Len(Ends(walks)) = Len(walks)
    BY ONLY <2>2, <2>3, <2>4
  <2>. QED
    BY <2>1, <2>3, <2>5
<1>6. ASSUME limit # NoLimit PROVE Len(walks) = CutTo(AllOf(FALSE))
  <2>1. limit \in Nat /\ Len(walks) <= limit
    <3>1. limit \in Nat /\ (walks = <<>> \/ Len(walks) < limit)
      BY <1>6 DEF SearchGiven, Searching
    <3>2. walks = <<>> => Len(walks) = 0
      BY NoRows
    <3>3. Len(walks) \in Nat
      BY <1>5
    <3>. QED
      BY ONLY <3>1, <3>2, <3>3
  <2>2. \A c, l \in Nat : c <= l => (IF c < l THEN c ELSE l) = c
    OBVIOUS
  <2>3. Cardinality(AllOf(FALSE)) <= limit /\ Cardinality(AllOf(FALSE)) \in Nat
    BY <1>5, <2>1
  <2>4. CutTo(AllOf(FALSE)) = Cardinality(AllOf(FALSE))
    BY ONLY <2>1, <2>2, <2>3 DEF CutTo
  <2>. QED
    BY <1>5, <2>4
<1>. QED
  BY <1>4, <1>6 DEF Finished

\* What the query finds, listed in any order, are the walks.
FoundBySql == UNION {{[row |-> w[1], end |-> w[2], hops |-> n] : w \in WalksOfLength[n]} : n \in MinHops..MaxHops}

LEMMA QueryFinds ==
    ASSUME SearchGiven, DistinctStarts
    PROVE  Placed(InSomeOrder(FoundBySql)) /\ Enumerates(Ends(InSomeOrder(FoundBySql)), AllOf(TRUE))
<1>. DEFINE of(n) == {[row |-> w[1], end |-> w[2], hops |-> n] : w \in WalksOfLength[n]}
            All == {of(n) : n \in MinHops .. MaxHops}
<1>1. MinHops \in Nat /\ MaxHops \in Nat /\ IsList(edges) /\ IsList(starts)
  BY DEF SearchGiven
<1>2. FoundBySql = UNION All
  BY DEF FoundBySql
<1>3. IsFiniteSet(FoundBySql)
  <2>1. ASSUME NEW n \in MinHops .. MaxHops PROVE IsFiniteSet(of(n))
    <3>. DEFINE f == [w \in WalksOfLength[n] |-> [row |-> w[1], end |-> w[2], hops |-> n]]
    <3>1. f \in Surjection(WalksOfLength[n], of(n))
      BY DEF Surjection
    <3>2. n \in Nat
      BY <1>1
    <3>3. IsFiniteSet(WalksOfLength[n])
      BY <1>1, <3>2, WalksFinite
    <3>. HIDE DEF f, of
    <3>. QED
      BY <3>1, <3>3, FS_Surjection
  <2>2. IsFiniteSet(All)
    <3>. DEFINE f == [n \in MinHops .. MaxHops |-> of(n)]
    <3>. HIDE DEF of
    <3>1. f \in Surjection(MinHops .. MaxHops, All)
      BY DEF Surjection
    <3>2. IsFiniteSet(MinHops .. MaxHops)
      BY <1>1, FS_Interval
    <3>. HIDE DEF f, All
    <3>. QED
      BY <3>1, <3>2, FS_Surjection
  <2>3. \A S \in All : IsFiniteSet(S)
    <3>. HIDE DEF of
    <3>. QED
      BY <2>1
  <2>. HIDE DEF All
  <2>. QED
    BY <1>2, <2>2, <2>3, FS_UNION
<1>4. PICK list : list = InSomeOrder(FoundBySql)
  OBVIOUS
<1>5. Enumerates(list, FoundBySql)
  BY <1>3, <1>4, AppendedEnumerates
<1>6. \A r : r \in FoundBySql <=>
        \E n \in MinHops .. MaxHops : \E w \in WalksOfLength[n] : r = [row |-> w[1], end |-> w[2], hops |-> n]
  BY DEF FoundBySql
<1>7. \A n \in MinHops .. MaxHops : \A w \in WalksOfLength[n] : w = <<w[1], w[2]>> /\ w[1] \in DOMAIN starts
  <2>1. \A n \in MinHops .. MaxHops : n \in Nat
    BY <1>1
  <2>. QED
    BY <1>1, <2>1, WalksFinite
<1>8. \A r \in FoundBySql : r.row \in DOMAIN starts /\ r = [row |-> r.row, end |-> r.end, hops |-> r.hops]
  <2>. SUFFICES ASSUME NEW r \in FoundBySql
                PROVE  r.row \in DOMAIN starts /\ r = [row |-> r.row, end |-> r.end, hops |-> r.hops]
    OBVIOUS
  <2>1. PICK n \in MinHops .. MaxHops : \E w \in WalksOfLength[n] : r = [row |-> w[1], end |-> w[2], hops |-> n]
    BY <1>6
  <2>2. PICK w \in WalksOfLength[n] : r = [row |-> w[1], end |-> w[2], hops |-> n]
    BY <2>1
  <2>. QED
    BY <1>7, <2>2
<1>9. Placed(list)
  BY <1>5, <1>8 DEF Enumerates, Placed
<1>10. PICK m : m = [r \in FoundBySql |-> <<starts[r.row].start, r.end, r.hops>>]
  OBVIOUS
<1>11. \A r \in FoundBySql : m[r] = <<starts[r.row].start, r.end, r.hops>>
  BY <1>10
<1>12. \A r, s \in FoundBySql : m[r] = m[s] => r = s
  <2>. SUFFICES ASSUME NEW r \in FoundBySql, NEW s \in FoundBySql, m[r] = m[s] PROVE r = s
    OBVIOUS
  <2>1. <<starts[r.row].start, r.end, r.hops>> = <<starts[s.row].start, s.end, s.hops>>
    BY <1>11
  <2>2. starts[r.row].start = starts[s.row].start /\ r.end = s.end /\ r.hops = s.hops
    BY ONLY <2>1
  <2>3. r.row = s.row
    BY <1>8, <2>2 DEF DistinctStarts
  <2>4. [row |-> r.row, end |-> r.end, hops |-> r.hops] = [row |-> s.row, end |-> s.end, hops |-> s.hops]
    BY ONLY <2>2, <2>3
  <2>5. r = [row |-> r.row, end |-> r.end, hops |-> r.hops] /\ s = [row |-> s.row, end |-> s.end, hops |-> s.hops]
    BY <1>8
  <2>. QED
    BY ONLY <2>4, <2>5
<1>13. \A x : x \in AllOf(TRUE) <=>
         \E n \in MinHops .. MaxHops : \E w \in WalksOfLength[n] : x = <<starts[w[1]].start, w[2], n>>
  BY DEF AllOf, Walks
<1>14. ASSUME NEW r \in FoundBySql PROVE m[r] \in AllOf(TRUE)
  <2>1. PICK n \in MinHops .. MaxHops : \E w \in WalksOfLength[n] : r = [row |-> w[1], end |-> w[2], hops |-> n]
    BY <1>6
  <2>2. PICK w \in WalksOfLength[n] : r = [row |-> w[1], end |-> w[2], hops |-> n]
    BY <2>1
  <2>3. m[r] = <<starts[w[1]].start, w[2], n>>
    BY <1>11, <2>2
  <2>. QED
    BY <1>13, <2>3
<1>15. ASSUME NEW x \in AllOf(TRUE) PROVE \E r \in FoundBySql : m[r] = x
  <2>1. PICK n \in MinHops .. MaxHops : \E w \in WalksOfLength[n] : x = <<starts[w[1]].start, w[2], n>>
    BY <1>13
  <2>2. PICK w \in WalksOfLength[n] : x = <<starts[w[1]].start, w[2], n>>
    BY <2>1
  <2>3. PICK r : r = [row |-> w[1], end |-> w[2], hops |-> n]
    OBVIOUS
  <2>4. r \in FoundBySql /\ r.row = w[1] /\ r.end = w[2] /\ r.hops = n
    BY <1>6, <2>3
  <2>. QED
    BY <1>11, <2>2, <2>4
<1>16. Enumerates([i \in DOMAIN list |-> m[list[i]]], AllOf(TRUE))
  <2>1. PICK T : T = AllOf(TRUE)
    OBVIOUS
  <2>2. (\A r \in FoundBySql : m[r] \in T) /\ \A x \in T : \E r \in FoundBySql : m[r] = x
    BY <1>14, <1>15, <2>1
  <2>3. Enumerates([i \in DOMAIN list |-> m[list[i]]], T)
    BY ONLY <1>5, <1>12, <2>2, MappedEnumerates
  <2>. QED
    BY ONLY <2>1, <2>3
<1>17. Ends(list) = [i \in DOMAIN list |-> m[list[i]]]
  <2>1. \A i \in DOMAIN list : m[list[i]] = <<starts[list[i].row].start, list[i].end, list[i].hops>>
    BY <1>5, <1>11 DEF Enumerates
  <2>. QED
    BY <2>1 DEF Ends
<1>. QED
  BY ONLY <1>4, <1>9, <1>16, <1>17

LEMMA QueryKeeps ==
    ASSUME SearchGiven, Searching(hop, frontier, walks, duckdb), ExpandDuckdb, search = "running"
    PROVE  SearchAt(search', hop', frontier', walks', duckdb')
<1>1. hop = 1 /\ hop' = hop
  BY DEF ExpandDuckdb, Searching
<1>2. CASE SqlApplies
  <2>1. limit = NoLimit /\ DistinctStarts
    BY <1>2 DEF SqlApplies
  <2>2. walks' = InSomeOrder(FoundBySql) /\ search' = "done" /\ duckdb' = TRUE
    BY <1>2 DEF ExpandDuckdb, FoundBySql
  <2>3. Finished(walks', TRUE)
    BY <2>1, <2>2, QueryFinds DEF Finished
  <2>. QED
    BY <2>2, <2>3 DEF SearchAt
<1>3. CASE ~SqlApplies
  <2>1. duckdb' = FALSE /\ walks' = walks /\ search' = "running" /\ frontier' = frontier
    BY <1>3 DEF ExpandDuckdb
  <2>2. Searching(hop, frontier, walks, FALSE)
    BY DEF Searching
  <2>. QED
    BY <1>1, <2>1, <2>2 DEF SearchAt
<1>. QED
  BY <1>2, <1>3

LEMMA WalksStay ==
    ASSUME UNCHANGED <<edges, starts, range, direction, limit>>
    PROVE  WalksOfLength' = WalksOfLength
<1>1. \A tip : Successors(tip)' = Successors(tip)
  BY DEF Successors, Step
<1>2. \A g, n : NextWalks(g, n)' = NextWalks(g, n)
  BY <1>1, ZenonT(60) DEF NextWalks, AtStart, Ahead
<1>. DEFINE Good(f) == f = [n \in Nat |-> NextWalks(f, n)]
<1>3. \A f : Good(f)' <=> Good(f)
  BY <1>2
<1>4. WalksOfLength = CHOOSE f : Good(f)
  BY DEF WalksOfLength, NextWalks, Ahead, AtStart
<1>5. WalksOfLength' = CHOOSE f : Good(f)'
  BY DEF WalksOfLength, NextWalks, Ahead, AtStart
<1>. HIDE DEF Good
<1>. QED
  BY <1>3, <1>4, <1>5, Zenon

\* What the search has found is where the inputs say, and they stay.
LEMMA SearchStays ==
    ASSUME UNCHANGED <<edges, starts, range, direction, limit>>,
           SearchGiven, SearchAt(search', hop', frontier', walks', duckdb')
    PROVE  PathsInv'
<1>1. WalksOfLength' = WalksOfLength
  BY WalksStay
<1>2. MinHops' = MinHops /\ MaxHops' = MaxHops /\ Lowest' = Lowest
  BY DEF MinHops, MaxHops, Lowest
<1>3. SearchGiven'
  BY <1>2 DEF SearchGiven
<1>4. Placed(frontier)' <=> Placed(frontier')
  BY DEF Placed
<1>5. Placed(walks)' <=> Placed(walks')
  BY DEF Placed
<1>6. Ends(walks)' = Ends(walks') /\ Tips(frontier)' = Tips(frontier')
  BY DEF Ends, Tips
<1>7. Reached(hop - 1)' = Reached(hop' - 1) /\ Walks(Lowest, hop - 1)' = Walks(Lowest, hop' - 1)
  BY <1>1, <1>2 DEF Reached, Walks
<1>8. AllOf(duckdb)' = AllOf(duckdb')
  BY <1>1, <1>2 DEF AllOf, Walks
<1>9. ShortestOf(AllOf(duckdb))' = ShortestOf(AllOf(duckdb'))
  BY <1>8 DEF ShortestOf
<1>10. CutTo(AllOf(duckdb))' = CutTo(AllOf(duckdb'))
  BY <1>8 DEF CutTo
<1>11. Searching(hop, frontier, walks, duckdb)' <=> Searching(hop', frontier', walks', duckdb')
  BY <1>2, <1>4, <1>5, <1>6, <1>7 DEF Searching
<1>12. Finished(walks, duckdb)' <=> Finished(walks', duckdb')
  BY <1>5, <1>6, <1>8, <1>10 DEF Finished
<1>13. Shortened(walks, duckdb)' <=> Shortened(walks', duckdb')
  BY <1>5, <1>6, <1>9 DEF Shortened
<1>14. Bounded(walks, duckdb)' <=> Bounded(walks', duckdb')
  BY <1>9 DEF Bounded, Endpoints, DistinctStarts
<1>. QED
  BY <1>3, <1>11, <1>12, <1>13, <1>14 DEF PathsInv, SearchAt

\* Of the walks found, those as short as any of the same pair.
LEMMA ShortestAre ==
    ASSUME SearchGiven, Placed(walks), NEW A, Enumerates(Ends(walks), A),
           NEW shortest, shortest = RowsAt(walks, {i \in DOMAIN walks : IsShortest(walks[i])})
    PROVE  Placed(shortest) /\ Enumerates(Ends(shortest), ShortestOf(A))
<1>. DEFINE places == {i \in DOMAIN walks : IsShortest(walks[i])}
<1>1. PICK at : at = places
  OBVIOUS
<1>2. at \subseteq DOMAIN walks /\ shortest = RowsAt(walks, at) /\ IsList(walks)
  BY <1>1 DEF Placed
<1>3. PICK ends : ends = Ends(walks)
  OBVIOUS
<1>4. DOMAIN ends = DOMAIN walks /\ Enumerates(ends, A)
  BY <1>3 DEF Ends
<1>5. \A i \in DOMAIN walks : ends[i] = <<starts[walks[i].row].start, walks[i].end, walks[i].hops>>
  BY <1>3 DEF Ends
<1>6. /\ IsList(shortest) /\ DOMAIN shortest = DOMAIN InOrder(at)
      /\ \A k \in DOMAIN InOrder(at) : InOrder(at)[k] \in at /\ shortest[k] = walks[InOrder(at)[k]]
  <2>1. PICK rows : rows = walks
    OBVIOUS
  <2>2. IsList(rows) /\ at \subseteq DOMAIN rows /\ shortest = RowsAt(rows, at)
    BY ONLY <1>2, <2>1
  <2>3. /\ IsList(RowsAt(rows, at)) /\ DOMAIN RowsAt(rows, at) = DOMAIN InOrder(at)
        /\ \A k \in DOMAIN InOrder(at) : InOrder(at)[k] \in at /\ RowsAt(rows, at)[k] = rows[InOrder(at)[k]]
    BY ONLY <2>2, RowsAtShape
  <2>. QED
    BY ONLY <2>1, <2>2, <2>3
<1>7. PICK listing : listing = InOrder(at)
  OBVIOUS
<1>8. Enumerates([k \in DOMAIN listing |-> ends[listing[k]]], {ends[i] : i \in at})
  BY <1>2, <1>4, <1>7, ChosenEnumerates
<1>9. Ends(shortest) = [k \in DOMAIN listing |-> ends[listing[k]]]
  <2>1. \A k \in DOMAIN listing :
          ends[listing[k]] = <<starts[shortest[k].row].start, shortest[k].end, shortest[k].hops>>
    BY <1>2, <1>5, <1>6, <1>7
  <2>. QED
    BY <1>6, <1>7, <2>1 DEF Ends
<1>10. \A i \in DOMAIN walks : i \in at <=>
         \A j \in DOMAIN walks : ends[j][1] = ends[i][1] /\ ends[j][2] = ends[i][2] => ends[j][3] >= ends[i][3]
  <2>. SUFFICES ASSUME NEW i \in DOMAIN walks
                PROVE  IsShortest(walks[i]) <=>
                         \A j \in DOMAIN walks :
                            ends[j][1] = ends[i][1] /\ ends[j][2] = ends[i][2] => ends[j][3] >= ends[i][3]
    BY <1>1
  <2>1. \A j \in DOMAIN walks : /\ ends[j][1] = starts[walks[j].row].start
                                /\ ends[j][2] = walks[j].end /\ ends[j][3] = walks[j].hops
    BY <1>5
  <2>2. IsShortest(walks[i]) <=>
          \A j \in DOMAIN walks :
             starts[walks[j].row].start = starts[walks[i].row].start /\ walks[j].end = walks[i].end
                => walks[j].hops >= walks[i].hops
    BY DEF IsShortest, Range
  <2>. QED
    BY <2>1, <2>2
<1>11. \A x \in A : x \in ShortestOf(A) <=>
         \A j \in DOMAIN walks : ends[j][1] = x[1] /\ ends[j][2] = x[2] => ends[j][3] >= x[3]
  BY <1>4 DEF ShortestOf, Enumerates
<1>12. \A x \in ShortestOf(A) : x \in A
  BY DEF ShortestOf
<1>13. ASSUME NEW i \in at PROVE ends[i] \in ShortestOf(A)
  <2>1. i \in DOMAIN walks /\ ends[i] \in A
    BY <1>2, <1>4 DEF Enumerates
  <2>. QED
    BY <1>10, <1>11, <2>1
<1>14. ASSUME NEW x \in ShortestOf(A) PROVE \E i \in at : ends[i] = x
  <2>1. PICK i \in DOMAIN walks : ends[i] = x
    BY <1>4, <1>12 DEF Enumerates
  <2>2. i \in at
    BY <1>10, <1>11, <1>12, <2>1
  <2>. QED
    BY <2>1, <2>2
<1>15. {ends[i] : i \in at} = ShortestOf(A)
  BY <1>13, <1>14
<1>16. Placed(shortest)
  BY <1>2, <1>6 DEF Placed
<1>. QED
  BY ONLY <1>8, <1>9, <1>15, <1>16

\* Of those, one of each pair are all of them: they differ in nothing else.
LEMMA OneOfEachPair ==
    ASSUME NEW A, \A x \in A : x = <<x[1], x[2], x[3]>> /\ x[3] \in Int,
           NEW shortest, Placed(shortest), Enumerates(Ends(shortest), ShortestOf(A)),
           NEW chosen, chosen = OnePerPair(shortest)
    PROVE  Placed(chosen) /\ Enumerates(Ends(chosen), ShortestOf(A))
<1>1. PICK own : own = [i \in DOMAIN shortest |-> <<starts[shortest[i].row].start, shortest[i].end>>]
  OBVIOUS
<1>2. chosen = FirstOfEach(shortest, own) /\ DOMAIN own = DOMAIN shortest
  BY <1>1 DEF OnePerPair
<1>3. IsList(shortest)
  BY DEF Placed
<1>4. PICK at : OneOfEach(chosen, shortest, own, at)
  BY ONLY <1>2, <1>3, FirstOfEachFacts
<1>5. PICK ends, B : ends = Ends(shortest) /\ B = ShortestOf(A)
  OBVIOUS
<1>6. /\ Enumerates(ends, B) /\ DOMAIN ends = DOMAIN shortest
      /\ \A i \in DOMAIN shortest : ends[i] = <<starts[shortest[i].row].start, shortest[i].end, shortest[i].hops>>
  BY <1>5 DEF Ends
<1>7. \A i \in DOMAIN shortest : ends[i] \in B /\ own[i] = <<ends[i][1], ends[i][2]>>
  BY <1>1, <1>6 DEF Enumerates
<1>8. /\ IsList(chosen) /\ DOMAIN chosen = DOMAIN at
      /\ \A k \in DOMAIN at : at[k] \in DOMAIN shortest /\ chosen[k] = shortest[at[k]]
  BY <1>4 DEF OneOfEach
<1>9. PICK t : t = Ends(chosen)
  OBVIOUS
<1>10. IsList(t) /\ DOMAIN t = DOMAIN at
  <2>1. PICK n \in Nat : DOMAIN chosen = 1 .. n
    BY <1>8, ListFacts
  <2>2. t = [i \in 1 .. n |-> t[i]]
    BY <1>9, <2>1 DEF Ends
  <2>. QED
    BY <1>8, <2>1, <2>2, ListOf
<1>11. \A k \in DOMAIN at : t[k] = ends[at[k]] /\ t[k] \in B /\ own[at[k]] = <<t[k][1], t[k][2]>>
  <2>1. \A k \in DOMAIN at : t[k] = ends[at[k]]
    BY <1>6, <1>8, <1>9 DEF Ends
  <2>. QED
    BY <1>7, <1>8, <2>1
<1>12. /\ \A j, k \in DOMAIN at : own[at[j]] = own[at[k]] => j = k
       /\ \A z \in Range(own) : \E k \in DOMAIN at : own[at[k]] = z
  <2>1. PICK u : u = [k \in DOMAIN at |-> own[at[k]]]
    OBVIOUS
  <2>2. Enumerates(u, Range(own)) /\ DOMAIN u = DOMAIN at /\ \A k \in DOMAIN at : u[k] = own[at[k]]
    BY <1>4, <2>1 DEF OneOfEach
  <2>. QED
    BY <2>2 DEF Enumerates
<1>13. \A j, k \in DOMAIN at : t[j] = t[k] => j = k
  BY <1>11, <1>12
<1>14. \A x, y \in B : x[1] = y[1] /\ x[2] = y[2] => x = y
  <2>. SUFFICES ASSUME NEW x \in B, NEW y \in B, x[1] = y[1], x[2] = y[2] PROVE x = y
    OBVIOUS
  <2>1. x \in A /\ y \in A /\ x[3] >= y[3] /\ y[3] >= x[3]
    BY <1>5 DEF ShortestOf
  <2>2. x[3] = y[3]
    BY <2>1
  <2>3. x = <<x[1], x[2], x[3]>> /\ y = <<y[1], y[2], y[3]>>
    BY <2>1
  <2>. QED
    BY <2>2, <2>3
<1>15. ASSUME NEW x \in B PROVE \E k \in DOMAIN at : t[k] = x
  <2>1. PICK i \in DOMAIN shortest : ends[i] = x
    BY <1>6 DEF Enumerates
  <2>2. own[i] \in Range(own)
    BY <1>2, <2>1 DEF Range
  <2>3. PICK k \in DOMAIN at : own[at[k]] = own[i]
    BY <1>12, <2>2
  <2>4. <<t[k][1], t[k][2]>> = <<x[1], x[2]>> /\ t[k] \in B
    BY <1>7, <1>11, <2>1, <2>3
  <2>5. t[k][1] = x[1] /\ t[k][2] = x[2]
    BY ONLY <2>4
  <2>. QED
    BY <1>14, <2>4, <2>5
<1>16. Enumerates(t, B)
  BY <1>10, <1>11, <1>13, <1>15 DEF Enumerates
<1>17. Placed(chosen)
  BY <1>8 DEF Placed
<1>. QED
  BY ONLY <1>5, <1>9, <1>16, <1>17

\* Walks are told apart by start, end and length.
LEMMA WalksAreTriples ==
    ASSUME SearchGiven, NEW sql
    PROVE  \A x \in AllOf(sql) : x = <<x[1], x[2], x[3]>> /\ x[3] \in Int
<1>1. PICK low : low = IF sql \/ MinHops > 0 THEN MinHops ELSE 1
  OBVIOUS
<1>2. low \in Nat /\ MaxHops \in Nat /\ AllOf(sql) = Walks(low, MaxHops)
  BY <1>1 DEF AllOf, SearchGiven
<1>3. \A x : x \in Walks(low, MaxHops) <=> \E n \in low .. MaxHops : x \in Level(n)
  BY <1>2, WalksByLevel
<1>4. ASSUME NEW n \in low .. MaxHops, NEW x \in Level(n) PROVE x = <<x[1], x[2], x[3]>> /\ x[3] \in Int
  <2>1. PICK p \in Reached(n) : x = <<p[1], p[2], n>>
    BY DEF Level
  <2>. QED
    BY <1>2, <2>1
<1>. QED
  BY <1>2, <1>3, <1>4

\* The rows that a shortestPath leaves.
LEMMA ShortestKeeps ==
    ASSUME SearchGiven, Finished(walks, duckdb), NEW mode \in {"one", "all"}, NEW endBound \in BOOLEAN,
           ShortestPath(mode, endBound)
    PROVE  SearchAt(search', hop', frontier', walks', duckdb')
<1>1. PICK A : A = AllOf(duckdb)
  OBVIOUS
<1>2. Placed(walks) /\ Enumerates(Ends(walks), A) /\ duckdb' = duckdb
  BY <1>1 DEF ShortestPath, Finished, Keep
<1>3. \A x \in A : x = <<x[1], x[2], x[3]>> /\ x[3] \in Int
  BY <1>1, WalksAreTriples
<1>4. PICK shortest : shortest = RowsAt(walks, {i \in DOMAIN walks : IsShortest(walks[i])})
  OBVIOUS
<1>5. Placed(shortest) /\ Enumerates(Ends(shortest), ShortestOf(A))
  BY <1>2, <1>4, ShortestAre
<1>6. PICK chosen : chosen = IF mode = "one" THEN OnePerPair(shortest) ELSE shortest
  OBVIOUS
<1>7. Placed(chosen) /\ Enumerates(Ends(chosen), ShortestOf(A))
  <2>1. CASE mode = "one"
    <3>1. chosen = OnePerPair(shortest)
      BY <1>6, <2>1
    <3>. QED
      BY <1>3, <1>5, <3>1, OneOfEachPair
  <2>2. CASE mode # "one"
    BY <1>5, <1>6, <2>2
  <2>. QED
    BY <2>1, <2>2
<1>8. walks' = IF endBound THEN AtTheirEnd(chosen) ELSE chosen
  BY <1>4, <1>6 DEF ShortestPath
<1>9. CASE endBound = FALSE
  <2>1. search' \in {"one", "all"} /\ walks' = chosen
    BY <1>8, <1>9 DEF ShortestPath
  <2>2. Shortened(walks', duckdb')
    BY <1>1, <1>2, <1>7, <2>1 DEF Shortened
  <2>. QED
    BY <2>1, <2>2 DEF SearchAt
<1>10. CASE endBound = TRUE
  <2>1. search' \in {"one pair", "all pair"} /\ walks' = AtTheirEnd(chosen)
    BY <1>8, <1>10 DEF ShortestPath
  <2>. DEFINE own == {i \in DOMAIN chosen : chosen[i].end = starts[chosen[i].row].end}
  <2>2. PICK final, at : at = own /\ final = RowsAt(chosen, at)
    OBVIOUS
  <2>3. walks' = final /\ at \subseteq DOMAIN chosen /\ IsList(chosen)
    BY <1>7, <2>1, <2>2 DEF AtTheirEnd, Placed
  <2>4. /\ \A k \in DOMAIN final : \E i \in at : final[k] = chosen[i]
        /\ \A i \in at : \E k \in DOMAIN final : final[k] = chosen[i]
    <3>1. PICK listing : listing = InOrder(at)
      OBVIOUS
    <3>2. at \subseteq DOMAIN chosen /\ IsList(chosen)
      BY <2>3
    <3>3. /\ DOMAIN RowsAt(chosen, at) = DOMAIN listing
          /\ \A k \in DOMAIN listing : listing[k] \in at /\ RowsAt(chosen, at)[k] = chosen[listing[k]]
          /\ \A i \in at : \E k \in DOMAIN listing : listing[k] = i
      BY ONLY <3>1, <3>2, RowsAtShape
    <3>4. DOMAIN final = DOMAIN listing /\ \A k \in DOMAIN listing : listing[k] \in at /\ final[k] = chosen[listing[k]]
      BY ONLY <2>2, <3>3
    <3>. QED
      BY ONLY <3>3, <3>4
  <2>5. ASSUME DistinctStarts
        PROVE  Endpoints(final) = {w \in ShortestOf(A) : \E s \in Range(starts) : s.start = w[1] /\ s.end = w[2]}
    <3>1. \A x : x \in Endpoints(final) <=>
            \E i \in at : x = <<starts[chosen[i].row].start, chosen[i].end, chosen[i].hops>>
      <4>1. \A r : r \in Range(final) <=> \E i \in at : r = chosen[i]
        BY <2>4 DEF Range
      <4>2. \A x : x \in Endpoints(final) <=> \E r \in Range(final) : x = <<starts[r.row].start, r.end, r.hops>>
        BY DEF Endpoints
      <4>. QED
        BY <4>1, <4>2
    <3>2. PICK ends : ends = Ends(chosen)
      OBVIOUS
    <3>3. /\ DOMAIN ends = DOMAIN chosen /\ Enumerates(ends, ShortestOf(A))
          /\ \A i \in DOMAIN chosen : ends[i] = <<starts[chosen[i].row].start, chosen[i].end, chosen[i].hops>>
      BY <1>7, <3>2 DEF Ends
    <3>4. \A i \in DOMAIN chosen : chosen[i].row \in DOMAIN starts
      BY <1>7 DEF Placed
    <3>5. ASSUME NEW x \in Endpoints(final)
          PROVE  x \in ShortestOf(A) /\ \E s \in Range(starts) : s.start = x[1] /\ s.end = x[2]
      <4>1. PICK i \in at : x = <<starts[chosen[i].row].start, chosen[i].end, chosen[i].hops>>
        BY <3>1
      <4>2. i \in DOMAIN chosen /\ chosen[i].end = starts[chosen[i].row].end
        BY <2>2, <4>1
      <4>3. x \in ShortestOf(A)
        BY <3>3, <4>1, <4>2 DEF Enumerates
      <4>4. starts[chosen[i].row] \in Range(starts)
        BY <3>4, <4>2 DEF Range
      <4>5. x[1] = starts[chosen[i].row].start /\ x[2] = starts[chosen[i].row].end
        BY <4>1, <4>2
      <4>. QED
        BY <4>3, <4>4, <4>5
    <3>6. ASSUME NEW x \in ShortestOf(A), NEW s \in Range(starts), s.start = x[1], s.end = x[2]
          PROVE  x \in Endpoints(final)
      <4>1. PICK i \in DOMAIN chosen : ends[i] = x
        BY <3>3 DEF Enumerates
      <4>2. x = <<starts[chosen[i].row].start, chosen[i].end, chosen[i].hops>>
        BY <3>3, <4>1
      <4>3. x[1] = starts[chosen[i].row].start /\ x[2] = chosen[i].end
        BY ONLY <4>2
      <4>4. PICK j \in DOMAIN starts : starts[j] = s
        BY DEF Range
      <4>5. j = chosen[i].row
        BY <2>5, <3>4, <3>6, <4>3, <4>4 DEF DistinctStarts
      <4>6. i \in at
        BY <2>2, <3>6, <4>3, <4>4, <4>5
      <4>. QED
        BY <3>1, <4>2, <4>6
    <3>. QED
      BY <3>5, <3>6
  <2>6. Bounded(walks', duckdb')
    BY <1>1, <1>2, <2>3, <2>5 DEF Bounded
  <2>. QED
    BY <2>1, <2>6 DEF SearchAt
<1>. QED
  BY <1>9, <1>10

\* Where the search begins.
LEMMA SearchBegins == PathsInit => PathsInv
<1>. SUFFICES ASSUME PathsInit PROVE PathsInv
  OBVIOUS
<1>1. SearchGiven
  <2>1. edges \in Seq(Range(edges)) /\ starts \in Seq(Range(starts))
    BY PathsAssumption DEF PathsInit
  <2>2. range[1] \in Nat /\ range[2] \in Nat \union {Unbounded} /\ MaxUnboundedHops \in Nat
    BY PathsAssumption DEF PathsInit
  <2>3. limit # NoLimit => limit \in Nat
    BY PathsAssumption DEF PathsInit
  <2>. QED
    BY <2>1, <2>2, <2>3 DEF SearchGiven, IsList, MinHops, MaxHops
<1>2. PICK n \in Nat : DOMAIN starts = 1 .. n
  BY <1>1, ListFacts DEF SearchGiven
<1>3. PICK reached : reached = frontier
  OBVIOUS
<1>4. reached = [i \in 1 .. n |-> [row |-> i, tip |-> starts[i].start]]
  BY <1>2, <1>3 DEF PathsInit
<1>5. IsList(reached) /\ DOMAIN reached = 1 .. n
  <2>1. reached = [i \in 1 .. n |-> reached[i]]
    BY <1>4
  <2>. QED
    BY <2>1, ListOf
<1>6. \A i \in 1 .. n : reached[i].row = i /\ reached[i].tip = starts[i].start
  BY <1>4
<1>7. Placed(reached)
  BY <1>2, <1>5, <1>6 DEF Placed
<1>8. Range(Tips(reached)) = Reached(0)
  <2>1. \A x : x \in Range(Tips(reached)) <=> \E i \in 1 .. n : x = <<starts[i].start, starts[i].start>>
    BY <1>5, <1>6 DEF Range, Tips
  <2>2. \A w : w \in WalksOfLength[0] <=> \E i \in 1 .. n : w = <<i, starts[i].start>>
    BY <1>2, WalksFound DEF AtStart
  <2>3. \A x : x \in Reached(0) <=> \E w \in WalksOfLength[0] : x = <<starts[w[1]].start, w[2]>>
    BY DEF Reached
  <2>4. \A x : x \in Reached(0) <=> \E i \in 1 .. n : x = <<starts[i].start, starts[i].start>>
    <3>1. ASSUME NEW x \in Reached(0) PROVE \E i \in 1 .. n : x = <<starts[i].start, starts[i].start>>
      <4>1. PICK w \in WalksOfLength[0] : x = <<starts[w[1]].start, w[2]>>
        BY <2>3
      <4>2. PICK i \in 1 .. n : w = <<i, starts[i].start>>
        BY <2>2
      <4>. QED
        BY <4>1, <4>2
    <3>2. ASSUME NEW i \in 1 .. n PROVE <<starts[i].start, starts[i].start>> \in Reached(0)
      <4>1. PICK w : w = <<i, starts[i].start>>
        OBVIOUS
      <4>2. w \in WalksOfLength[0] /\ w[1] = i /\ w[2] = starts[i].start
        BY <2>2, <4>1
      <4>. QED
        BY <2>3, <4>2
    <3>. QED
      BY <3>1, <3>2
  <2>. QED
    BY <2>1, <2>4
<1>9. Placed(walks) /\ Enumerates(Ends(walks), Walks(Lowest, 0))
  <2>1. Lowest .. 0 = {}
    BY <1>1 DEF Lowest, SearchGiven
  <2>2. Walks(Lowest, 0) = {}
    BY <2>1 DEF Walks
  <2>3. walks = <<>>
    BY DEF PathsInit
  <2>4. Ends(<<>>) = <<>>
    BY DEF Ends
  <2>5. Placed(<<>>) /\ Enumerates(<<>>, {})
    BY NoRows DEF Placed, Enumerates
  <2>. QED
    BY ONLY <2>2, <2>3, <2>4, <2>5
<1>10. hop = 1 /\ search = "running" /\ walks = <<>> /\ MaxHops \in Nat
  BY <1>1 DEF PathsInit, SearchGiven
<1>11. Searching(hop, frontier, walks, duckdb)
  BY <1>3, <1>7, <1>8, <1>9, <1>10 DEF Searching
<1>. QED
  BY <1>1, <1>10, <1>11 DEF PathsInv, SearchAt

\* Every step of the search keeps to the walks.
LEMMA SearchStep == PathsInv /\ [PathsNext]_pathVars => PathsInv'
<1>. SUFFICES ASSUME PathsInv, [PathsNext]_pathVars PROVE PathsInv'
  OBVIOUS
<1>. USE DEF PathsInv
<1>1. UNCHANGED <<edges, starts, range, direction, limit>>
  BY DEF PathsNext, pathVars, Hop, EndOfSearch, CheckTimeout, ExpandDuckdb, ShortestPath, End, Keep
<1>2. SUFFICES SearchAt(search', hop', frontier', walks', duckdb')
  BY <1>1, SearchStays
<1>3. CASE Hop
  <2>1. duckdb' = FALSE \/ ~duckdb'
    BY <1>3 DEF Hop, End, Keep
  <2>2. Searching(hop, frontier, walks, FALSE)
    BY <1>3 DEF Hop, SearchAt, Searching
  <2>3. SearchAt(search', hop', frontier', walks', FALSE)
    BY <1>3, <2>2, HopKeeps
  <2>4. ~duckdb'
    BY <2>1
  <2>. QED
    BY <2>3, <2>4 DEF SearchAt, Searching, Finished, Shortened, Bounded, AllOf
<1>4. CASE EndOfSearch
  <2>1. Searching(hop, frontier, walks, FALSE)
    BY <1>4 DEF EndOfSearch, SearchAt, Searching
  <2>2. Finished(walks, FALSE)
    BY <1>4, <2>1, EndFinishes DEF EndOfSearch
  <2>3. ~duckdb /\ duckdb' = duckdb /\ walks' = walks /\ search' = "done"
    BY <1>4 DEF EndOfSearch, End, Keep
  <2>4. Finished(walks', duckdb')
    BY <2>2, <2>3 DEF Finished, AllOf
  <2>. QED
    BY <2>3, <2>4 DEF SearchAt
<1>5. CASE CheckTimeout
  BY <1>5 DEF CheckTimeout, End, SearchAt
<1>6. CASE ExpandDuckdb
  <2>1. search = "running" /\ Searching(hop, frontier, walks, duckdb)
    BY <1>6 DEF ExpandDuckdb, SearchAt
  <2>. QED
    BY <1>6, <2>1, QueryKeeps
<1>7. ASSUME NEW mode \in {"one", "all"}, NEW endBound \in BOOLEAN, ShortestPath(mode, endBound)
      PROVE  SearchAt(search', hop', frontier', walks', duckdb')
  <2>1. Finished(walks, duckdb)
    BY <1>7 DEF ShortestPath, SearchAt
  <2>. QED
    BY <1>7, <2>1, ShortestKeeps
<1>8. CASE UNCHANGED pathVars
  BY <1>8 DEF pathVars, SearchAt
<1>. QED
  BY <1>3, <1>4, <1>5, <1>6, <1>7, <1>8 DEF PathsNext

\* The search invariant is what a reader of the answer wants to know.
LEMMA SearchExact == PathsInv => ExpansionIsWalks
<1>. SUFFICES ASSUME PathsInv PROVE ExpansionIsWalks
  OBVIOUS
<1>1. PICK A : A = AllOf(duckdb)
  OBVIOUS
<1>. DEFINE all == Walks(IF duckdb \/ MinHops > 0 THEN MinHops ELSE 1, MaxHops)
<1>3. A = all
  BY <1>1 DEF AllOf
<1>4. Endpoints(walks) = Range(Ends(walks))
  <2>1. \A x : x \in Endpoints(walks) <=> \E i \in DOMAIN walks : x = <<starts[walks[i].row].start, walks[i].end, walks[i].hops>>
    BY DEF Endpoints, Range
  <2>2. \A x : x \in Range(Ends(walks)) <=> \E i \in DOMAIN walks : x = <<starts[walks[i].row].start, walks[i].end, walks[i].hops>>
    BY DEF Ends, Range
  <2>. QED
    BY <2>1, <2>2
<1>5. ASSUME NEW S, Enumerates(Ends(walks), S), IsList(walks)
      PROVE  Endpoints(walks) = S /\ Cardinality(Endpoints(walks)) = Len(walks)
  <2>1. Range(Ends(walks)) = S /\ Len(Ends(walks)) = Cardinality(S)
    BY <1>5, EnumeratedSize
  <2>2. DOMAIN Ends(walks) = DOMAIN walks
    BY DEF Ends
  <2>3. DOMAIN walks = 1 .. Len(walks) /\ Len(walks) \in Nat
    BY <1>5, ListFacts
  <2>4. DOMAIN Ends(walks) = 1 .. Len(Ends(walks)) /\ Len(Ends(walks)) \in Nat
    BY <1>5, ListFacts DEF Enumerates
  <2>5. Len(Ends(walks)) = Len(walks)
    BY ONLY <2>2, <2>3, <2>4
  <2>. QED
    BY <1>4, <2>1, <2>5
<1>6. search = "done" => Finished(walks, duckdb)
  BY DEF PathsInv, SearchAt
<1>7. search \in {"one", "all"} => Shortened(walks, duckdb)
  BY DEF PathsInv, SearchAt
<1>8. search \in {"one pair", "all pair"} => Bounded(walks, duckdb)
  BY DEF PathsInv, SearchAt
<1>9. search = "done" => /\ Cardinality(Endpoints(walks)) = Len(walks)
                         /\ limit = NoLimit => Endpoints(walks) = A
                         /\ limit # NoLimit => Endpoints(walks) \subseteq A /\ Len(walks) = CutTo(A)
  <2>. SUFFICES ASSUME search = "done"
                PROVE  /\ Cardinality(Endpoints(walks)) = Len(walks)
                       /\ limit = NoLimit => Endpoints(walks) = A
                       /\ limit # NoLimit => Endpoints(walks) \subseteq A /\ Len(walks) = CutTo(A)
    OBVIOUS
  <2>1. IsList(walks)
    BY <1>6 DEF Finished, Placed
  <2>2. CASE limit = NoLimit
    BY <1>1, <1>5, <1>6, <2>1, <2>2 DEF Finished
  <2>3. CASE limit # NoLimit
    <3>1. PICK S \in SUBSET A : Enumerates(Ends(walks), S)
      BY <1>1, <1>6, <2>3 DEF Finished
    <3>2. Endpoints(walks) = S /\ Cardinality(Endpoints(walks)) = Len(walks)
      BY <1>5, <2>1, <3>1
    <3>3. Len(walks) = CutTo(A)
      BY <1>1, <1>6, <2>3 DEF Finished
    <3>. QED
      BY <2>3, <3>2, <3>3
  <2>. QED
    BY <2>2, <2>3
<1>10. search \in {"one", "all"} => Cardinality(Endpoints(walks)) = Len(walks) /\ Endpoints(walks) = ShortestOf(A)
  <2>. SUFFICES ASSUME search \in {"one", "all"}
                PROVE  Cardinality(Endpoints(walks)) = Len(walks) /\ Endpoints(walks) = ShortestOf(A)
    OBVIOUS
  <2>1. Placed(walks) /\ Enumerates(Ends(walks), ShortestOf(A))
    BY <1>1, <1>7 DEF Shortened
  <2>. QED
    BY <1>5, <2>1 DEF Placed
<1>. QED
  <2>1. search = "done" => /\ Cardinality(Endpoints(walks)) = Len(walks)
                           /\ limit = NoLimit => Endpoints(walks) = all
                           /\ limit # NoLimit => Endpoints(walks) \subseteq all /\ Len(walks) = CutTo(all)
    BY ONLY <1>3, <1>9
  <2>2. search \in {"one", "all"} => /\ Cardinality(Endpoints(walks)) = Len(walks)
                                    /\ Endpoints(walks) = ShortestOf(all)
    BY ONLY <1>3, <1>10
  <2>3. search \in {"one pair", "all pair"} => Bounded(walks, duckdb) /\ AllOf(duckdb) = all
    BY <1>8 DEF AllOf
  <2>4. search \in {"one pair", "all pair"} /\ DistinctStarts =>
          Endpoints(walks) = {w \in ShortestOf(all) : \E s \in Range(starts) : s.start = w[1] /\ s.end = w[2]}
    BY ONLY <2>3 DEF Bounded
  <2>. QED
    BY ONLY <2>1, <2>2, <2>4 DEF ExpansionIsWalks, ShortestOf, CutTo

THEOREM ExpansionFindsWalks == PathsSpec => []ExpansionIsWalks
<1>1. PathsInit => PathsInv
  BY SearchBegins
<1>2. PathsInv /\ [PathsNext]_pathVars => PathsInv'
  BY SearchStep
<1>3. PathsInv => ExpansionIsWalks
  BY SearchExact
<1>. QED
  BY <1>1, <1>2, <1>3, PTL DEF PathsSpec

--------------------------------------------------------------------------------
(* Predicates and aggregates. An expression is a finite tree, so what holds   *)
(* of each whose arguments it holds of holds of all, and a rule that gives a  *)
(* result from those of the arguments has one function that follows it.       *)

\* What the assumption says of an expression.
LEMMA TermFacts ==
    ASSUME NEW e \in Terms
    PROVE  /\ e.args \in Seq(Terms) /\ WellFormed(e) /\ Depth[e] \in Nat
           /\ \A i \in DOMAIN e.args : e.args[i] \in Terms /\ Depth[e.args[i]] \in Nat /\ Depth[e.args[i]] < Depth[e]
<1>1. e.args \in Seq(Terms) /\ WellFormed(e) /\ Depth[e] \in Nat /\ \A i \in DOMAIN e.args : Depth[e.args[i]] < Depth[e]
  BY ExpressionAssumption
<1>2. \A i \in DOMAIN e.args : e.args[i] \in Terms
  BY <1>1
<1>3. \A i \in DOMAIN e.args : Depth[e.args[i]] \in Nat
  BY <1>2, ExpressionAssumption
<1>. QED
  BY <1>1, <1>2, <1>3

\* What holds of every expression whose arguments it holds of holds of all.
LEMMA TermInduction ==
    ASSUME NEW P, \A e \in Terms : (\A i \in DOMAIN e.args : e.args[i] \in P) => e \in P
    PROVE  Terms \subseteq P
<1>. DEFINE S == {n \in Nat : \A e \in Terms : Depth[e] < n => e \in P}
<1>1. 0 \in S
  BY TermFacts
<1>2. ASSUME NEW n \in S PROVE n + 1 \in S
  <2>. SUFFICES ASSUME NEW e \in Terms, Depth[e] < n + 1 PROVE e \in P
    OBVIOUS
  <2>1. ASSUME NEW i \in DOMAIN e.args PROVE e.args[i] \in P
    <3>1. e.args[i] \in Terms /\ Depth[e.args[i]] \in Nat /\ Depth[e.args[i]] < Depth[e] /\ Depth[e] \in Nat
      BY TermFacts
    <3>2. Depth[e.args[i]] < n
      BY <3>1
    <3>. QED
      BY <3>1, <3>2
  <2>. QED
    BY <2>1
<1>3. S = Nat
  <2>1. S \in SUBSET Nat
    OBVIOUS
  <2>. HIDE DEF S
  <2>. QED
    BY <1>1, <1>2, <2>1, SetInduction
<1>. SUFFICES ASSUME NEW e \in Terms PROVE e \in P
  OBVIOUS
<1>4. Depth[e] \in Nat /\ Depth[e] + 1 \in Nat /\ Depth[e] < Depth[e] + 1
  BY TermFacts
<1>5. Depth[e] + 1 \in S
  BY <1>3, <1>4
<1>. QED
  BY <1>4, <1>5

\* What a function on expressions makes of the arguments.
Of(f, e) == [i \in DOMAIN e.args |-> f[e.args[i]]]
Follows(f, D, step) == \A e \in D : f[e] = step[e][Of(f, e)]
Shallow(n) == {e \in Terms : Depth[e] < n}

\* Two functions that follow the same rule agree where both do.
LEMMA FollowersAgree ==
    ASSUME NEW step, NEW n \in Nat, NEW m \in Nat, n <= m,
           NEW f, Follows(f, Shallow(n), step), NEW g, Follows(g, Shallow(m), step)
    PROVE  \A e \in Shallow(n) : f[e] = g[e]
<1>. DEFINE P == {e \in Terms : e \in Shallow(n) => f[e] = g[e]}
<1>1. ASSUME NEW e \in Terms, \A i \in DOMAIN e.args : e.args[i] \in P PROVE e \in P
  <2>. SUFFICES ASSUME e \in Shallow(n) PROVE f[e] = g[e]
    OBVIOUS
  <2>1. \A i \in DOMAIN e.args : e.args[i] \in Shallow(n)
    BY TermFacts DEF Shallow
  <2>2. \A i \in DOMAIN e.args : f[e.args[i]] = g[e.args[i]]
    BY <1>1, <2>1
  <2>3. Of(f, e) = Of(g, e)
    BY <2>2 DEF Of
  <2>4. e \in Shallow(m)
    BY TermFacts DEF Shallow
  <2>. QED
    BY <2>3, <2>4 DEF Follows
<1>2. Terms \subseteq P
  <2>. HIDE DEF P
  <2>. QED
    BY <1>1, TermInduction
<1>. QED
  BY <1>2 DEF Shallow

\* There is a function that follows a rule whose results can be arguments again.
LEMMA TermRecursion ==
    ASSUME NEW V, NEW step, \A e \in Terms : \A s \in [DOMAIN e.args -> V] : step[e][s] \in V
    PROVE  \E f \in [Terms -> V] : Follows(f, Terms, step)
<1>. DEFINE Good(g, n) == g \in [Shallow(n) -> V] /\ Follows(g, Shallow(n), step)
            S == {n \in Nat : \E g : Good(g, n)}
<1>1. 0 \in S
  <2>1. Shallow(0) = {}
    BY TermFacts DEF Shallow
  <2>2. Good([e \in {} |-> e], 0)
    BY <2>1 DEF Follows
  <2>. QED
    BY <2>2
<1>2. ASSUME NEW n \in S PROVE n + 1 \in S
  <2>1. PICK g : Good(g, n)
    BY <1>2
  <2>. DEFINE h == [e \in Shallow(n + 1) |-> step[e][Of(g, e)]]
  <2>2. n \in Nat
    OBVIOUS
  <2>3. \A e \in Shallow(n + 1) : \A i \in DOMAIN e.args : e.args[i] \in Shallow(n)
    BY <2>2, TermFacts DEF Shallow
  <2>4. \A e \in Shallow(n + 1) : e \in Terms /\ Of(g, e) \in [DOMAIN e.args -> V]
    BY <2>1, <2>3 DEF Of, Shallow
  <2>5. h \in [Shallow(n + 1) -> V]
    BY <2>4
  <2>6. \A e \in Shallow(n) : e \in Shallow(n + 1)
    BY <2>2, TermFacts DEF Shallow
  <2>7. \A e \in Shallow(n) : h[e] = g[e]
    BY <2>1, <2>6 DEF Follows
  <2>8. ASSUME NEW e \in Shallow(n + 1) PROVE h[e] = step[e][Of(h, e)]
    <3>1. \A i \in DOMAIN e.args : h[e.args[i]] = g[e.args[i]]
      BY <2>3, <2>7
    <3>. HIDE DEF h
    <3>2. Of(h, e) = Of(g, e)
      BY <3>1 DEF Of
    <3>3. h[e] = step[e][Of(g, e)]
      BY DEF h
    <3>. QED
      BY <3>2, <3>3
  <2>. HIDE DEF h
  <2>9. Good(h, n + 1)
    BY <2>5, <2>8 DEF Follows
  <2>. HIDE DEF Good
  <2>. QED
    BY <2>2, <2>9
<1>3. S = Nat
  <2>1. S \in SUBSET Nat
    OBVIOUS
  <2>. HIDE DEF S
  <2>. QED
    BY <1>1, <1>2, <2>1, SetInduction
<1>. DEFINE G(n) == CHOOSE g : Good(g, n)
            f == [e \in Terms |-> G(Depth[e] + 1)[e]]
<1>4. ASSUME NEW n \in Nat PROVE Good(G(n), n)
  <2>. HIDE DEF Good
  <2>1. \E g : Good(g, n)
    BY <1>3
  <2>. QED
    BY <2>1
<1>5. ASSUME NEW n \in Nat, NEW e \in Shallow(n) PROVE f[e] = G(n)[e]
  <2>1. e \in Terms /\ Depth[e] \in Nat /\ Depth[e] + 1 \in Nat /\ Depth[e] + 1 <= n
    BY TermFacts DEF Shallow
  <2>2. e \in Shallow(Depth[e] + 1)
    BY <2>1 DEF Shallow
  <2>3. PICK a1, b1 : a1 = G(Depth[e] + 1) /\ b1 = G(n)
    OBVIOUS
  <2>4. Good(a1, Depth[e] + 1) /\ Good(b1, n)
    <3>. HIDE DEF Good, G
    <3>. QED
      BY <1>4, <2>1, <2>3
  <2>5. a1[e] = b1[e]
    BY <2>1, <2>2, <2>4, FollowersAgree
  <2>. HIDE DEF Good, G
  <2>. QED
    BY <2>1, <2>3, <2>5
<1>. HIDE DEF f
<1>6. ASSUME NEW e \in Terms PROVE f[e] \in V /\ f[e] = step[e][Of(f, e)]
  <2>1. PICK n \in Nat : n = Depth[e] + 1
    BY TermFacts
  <2>2. e \in Shallow(n) /\ \A i \in DOMAIN e.args : e.args[i] \in Shallow(n)
    BY <2>1, TermFacts DEF Shallow
  <2>3. PICK g : g = G(n)
    OBVIOUS
  <2>4. Good(g, n)
    <3>. HIDE DEF Good, G
    <3>. QED
      BY <1>4, <2>3
  <2>5. \A x \in Shallow(n) : f[x] = g[x]
    <3>. HIDE DEF Good, G
    <3>. QED
      BY <1>5, <2>3
  <2>6. Of(f, e) = Of(g, e)
    BY <2>2, <2>5 DEF Of
  <2>. QED
    BY <2>2, <2>4, <2>5, <2>6 DEF Follows
<1>7. f \in [Terms -> V]
  <2>1. f = [e \in Terms |-> f[e]]
    BY DEF f
  <2>. QED
    BY <1>6, <2>1
<1>. QED
  BY <1>6, <1>7 DEF Follows

\* Of natural numbers one is the least; of a few, one is the greatest.
LEMMA MinOfNaturals ==
    ASSUME NEW S \in SUBSET Nat, S # {}
    PROVE  Min(S) \in S /\ \A n \in S : Min(S) <= n
BY Least DEF Min

LEMMA MaxOfRanks ==
    ASSUME NEW S \in SUBSET {0, 1, 2}, S # {}
    PROVE  Max(S) \in S /\ \A n \in S : n <= Max(S)
<1>1. \E x \in S : \A y \in S : x >= y
  <2>1. CASE 2 \in S
    BY <2>1
  <2>2. CASE 2 \notin S /\ 1 \in S
    BY <2>2
  <2>3. CASE 2 \notin S /\ 1 \notin S
    <3>1. PICK x \in S : x = 0
      BY <2>3
    <3>. QED
      BY <2>3, <3>1
  <2>. QED
    BY <2>1, <2>2, <2>3
<1>2. Max(S) \in S /\ \A y \in S : Max(S) >= y
  BY <1>1 DEF Max
<1>. QED
  BY <1>2

LEMMA TruthFacts ==
    /\ True # False /\ True # Null /\ False # Null
    /\ \A b \in BOOLEAN : Truth(b) \in Truths /\ Truth(b) # Null /\ (Truth(b) = True <=> b) /\ (Truth(b) = False <=> ~b)
    /\ \A n : OfRank(n) \in Truths
    /\ \A x : Rank(x) \in {0, 1, 2} /\ (Rank(x) = 0 <=> x = False) /\ (Rank(x) = 1 <=> x = Null)
    /\ \A x \in Truths : OfRank(Rank(x)) = x /\ (Rank(x) = 2 <=> x = True)
BY ExpressionAssumption DEF Truth, Truths, OfRank, Rank

--------------------------------------------------------------------------------
\* The positions of the arguments of a CASE.
LEMMA WhenPositions ==
    ASSUME NEW e \in Terms, e.op \in {"case", "simple_case"}
    PROVE  /\ Len(e.args) \in Nat /\ Len(e.args) >= 1 /\ DOMAIN e.args = 1 .. Len(e.args) /\ 1 \in DOMAIN e.args
           /\ Whens(e) \in Nat
           /\ \A k \in 0 .. Whens(e) : 2 * k + 1 \in DOMAIN e.args
           /\ \A k \in 1 .. Whens(e) : 2 * k \in DOMAIN e.args
           /\ Len(e.args) \in DOMAIN e.args
<1>1. e.args \in Seq(Terms)
  BY TermFacts
<1>a. Len(e.args) \in Nat /\ DOMAIN e.args = 1 .. Len(e.args)
  BY <1>1
<1>2. PICK n \in Nat : n = Len(e.args) /\ DOMAIN e.args = 1 .. n
  BY <1>a
<1>3. n % 2 = 1 \/ (n >= 2 /\ n % 2 = 0)
  BY <1>2, TermFacts DEF WellFormed, Quantifiers
<1>4. PICK w : w = Whens(e)
  OBVIOUS
<1>b. n \in Nat
  BY <1>2
<1>c. n # 0
  BY ONLY <1>b, <1>3
<1>5. n >= 1
  BY ONLY <1>b, <1>c
<1>6. w = (n - 1) \div 2
  BY <1>2, <1>4 DEF Whens
<1>7. w \in Nat /\ 2 * w + 1 <= n
  BY ONLY <1>b, <1>5, <1>6
<1>8. \A k \in 0 .. w : 2 * k + 1 \in 1 .. n
  BY <1>2, <1>7
<1>9. \A k \in 1 .. w : 2 * k \in 1 .. n
  BY <1>2, <1>7
<1>. QED
  BY <1>2, <1>4, <1>5, <1>7, <1>8, <1>9

\* How many arguments other expressions have.
LEMMA ArgumentFacts ==
    ASSUME NEW e \in Terms
    PROVE  /\ DOMAIN e.args = 1 .. Len(e.args) /\ Len(e.args) \in Nat
           /\ e.op \in {"and", "or", "xor"} => Len(e.args) >= 1
           /\ e.op \in {"not", "is_null", "is_not_null", "in", "not_in"} \union Quantifiers => Len(e.args) = 1
           /\ e.op = "compare" => Len(e.args) = 2
           /\ e.op \in Connectives => \A i \in DOMAIN e.args : Logical(e.args[i])
           /\ e.op \in Quantifiers \union {"in", "not_in"} => IsList(e.of)
           /\ e.op \in {"property", "literal", "compare", "and", "or", "xor", "not", "is_null", "is_not_null",
                        "in", "not_in", "case", "simple_case"} \union Quantifiers
<1>1. e.args \in Seq(Terms) /\ WellFormed(e)
  BY TermFacts
<1>2. DOMAIN e.args = 1 .. Len(e.args) /\ Len(e.args) \in Nat
  BY <1>1
<1>. QED
  BY <1>1, <1>2 DEF WellFormed, Quantifiers, IsList

\* What an expression may mean.
Results0 == Truths \union {Lookup(row, e.of) : row \in Bindings, e \in Terms} \union {e.of : e \in Terms}

LEMMA QuantifierTyped ==
    ASSUME NEW kind \in Quantifiers, NEW m
    PROVE  QuantifierMeant(kind, m) \in Truths
<1>1. PICK matching : matching = {i \in DOMAIN m : m[i] = True}
  OBVIOUS
<1>2. PICK unknown : unknown = {i \in DOMAIN m : m[i] = Null}
  OBVIOUS
<1>3. True \in Truths /\ False \in Truths /\ Null \in Truths /\ \A b \in BOOLEAN : Truth(b) \in Truths
  BY TruthFacts DEF Truths
<1>4. Truth(Cardinality(matching) = 1) \in Truths
  BY <1>3
<1>. QED
  BY <1>1, <1>2, <1>3, <1>4 DEF QuantifierMeant, Quantifiers

LEMMA LogicalMeant ==
    ASSUME NEW e \in Terms, Logical(e), NEW cols, NEW row \in Bindings
    PROVE  Meant(e, cols, row) \in Truths
<1>1. CASE e.op \in {"and", "or", "not", "in", "not_in"}
  BY <1>1, TruthFacts DEF Meant, Quantifiers, Among
<1>2. CASE e.op \in {"xor", "compare", "is_null", "is_not_null"} \union Quantifiers
  <2>1. Null \in Truths
    BY DEF Truths
  <2>2. \A b \in BOOLEAN : Truth(b) \in Truths
    BY TruthFacts
  <2>3. CASE e.op = "xor"
    BY <2>1, <2>2, <2>3 DEF Meant, Quantifiers
  <2>4. CASE e.op = "compare"
    <3>1. \A v, w : Truth(Compares(e.of, v, w)) \in Truths
      BY DEF Truth, Truths
    <3>. QED
      BY <2>1, <2>4, <3>1 DEF Meant, Quantifiers
  <2>5. CASE e.op \in {"is_null", "is_not_null"}
    BY <2>2, <2>5 DEF Meant, Quantifiers
  <2>6. CASE e.op \in Quantifiers
    <3>1. PICK m : m = [i \in DOMAIN e.of |-> cols[1][WithElement(row, e, i)]]
      OBVIOUS
    <3>2. Meant(e, cols, row) = QuantifierMeant(e.op, m)
      BY <2>6, <3>1 DEF Meant, Quantifiers
    <3>. QED
      BY <2>6, <3>2, QuantifierTyped
  <2>. QED
    BY <1>2, <2>3, <2>4, <2>5, <2>6
<1>3. CASE e.op = "literal" /\ e.of \in Truths
  BY <1>3 DEF Meant, Quantifiers
<1>4. CASE e.op = "property" /\ \A r \in Bindings : Lookup(r, e.of) \in Truths
  BY <1>4 DEF Meant, Quantifiers
<1>. QED
  BY <1>1, <1>2, <1>3, <1>4 DEF Logical, Connectives, Quantifiers

LEMMA MeantTyped ==
    ASSUME NEW e \in Terms, NEW cols \in [DOMAIN e.args -> [Bindings -> Results0]], NEW row \in Bindings
    PROVE  Meant(e, cols, row) \in Results0
<1>1. CASE Logical(e)
  BY <1>1, LogicalMeant DEF Results0
<1>2. CASE e.op = "property"
  <2>1. Meant(e, cols, row) = Lookup(row, e.of)
    BY <1>2 DEF Meant, Quantifiers
  <2>. QED
    BY <2>1 DEF Results0
<1>3. CASE e.op = "literal"
  <2>1. Meant(e, cols, row) = e.of
    BY <1>3 DEF Meant, Quantifiers
  <2>. QED
    BY <2>1 DEF Results0
<1>4. CASE e.op \in {"case", "simple_case"}
  <2>. DEFINE values == [i \in DOMAIN e.args |-> cols[i][row]]
              Taken(k) == IF e.op = "case" THEN values[2 * k] = True
                          ELSE Equal(values[2 * k], values[Len(e.args)]) = True
              whens == {k \in 1 .. Whens(e) : Taken(k)}
  <2>1. \A i \in DOMAIN e.args : values[i] \in Results0
    OBVIOUS
  <2>. HIDE DEF Taken
  <2>2. whens = {} \/ Min(whens) \in whens
    <3>1. whens \in SUBSET Nat
      <4>1. \A k \in whens : k \in 1 .. Whens(e)
        OBVIOUS
      <4>2. Whens(e) \in Nat
        BY <1>4, WhenPositions
      <4>. HIDE DEF whens
      <4>. QED
        BY <4>1, <4>2
    <3>. HIDE DEF whens
    <3>. QED
      BY <3>1, MinOfNaturals
  <2>3. 1 \in DOMAIN e.args /\ (whens # {} => 2 * Min(whens) + 1 \in DOMAIN e.args)
    <3>1. whens # {} => Min(whens) \in 0 .. Whens(e)
      <4>1. \A k \in whens : k \in 1 .. Whens(e)
        OBVIOUS
      <4>2. Whens(e) \in Nat
        BY <1>4, WhenPositions
      <4>. HIDE DEF whens
      <4>. QED
        BY <2>2, <4>1, <4>2
    <3>. HIDE DEF whens
    <3>. QED
      BY <1>4, <3>1, WhenPositions
  <2>4. Meant(e, cols, row) = IF whens = {} THEN values[1] ELSE values[2 * Min(whens) + 1]
    BY <1>4 DEF Meant, Quantifiers, Taken
  <2>. HIDE DEF values, whens
  <2>. QED
    BY <2>1, <2>3, <2>4
<1>. QED
  BY <1>1, <1>2, <1>3, <1>4, ArgumentFacts DEF Logical, Connectives

\* Every expression has a meaning on every row.
LEMMA MeaningFacts ==
    /\ Meaning = [e \in Terms |-> Meaning[e]]
    /\ \A e \in Terms : Meaning[e] = MeaningColumn(e, Of(Meaning, e))
    /\ \A e \in Terms : \A row \in Bindings : Meaning[e][row] = Meant(e, Of(Meaning, e), row)
    /\ \A e \in Terms : Logical(e) => \A row \in Bindings : Meaning[e][row] \in Truths
<1>. DEFINE V == [Bindings -> Results0]
            step == [e \in Terms |-> [s \in [DOMAIN e.args -> V] |-> MeaningColumn(e, s)]]
            One(f) == f = [e \in Terms |-> MeaningColumn(e, [i \in DOMAIN e.args |-> f[e.args[i]]])]
<1>1. ASSUME NEW e \in Terms, NEW s \in [DOMAIN e.args -> V] PROVE step[e][s] \in V
  <2>1. \A row \in Bindings : Meant(e, s, row) \in Results0
    BY MeantTyped
  <2>. QED
    BY <2>1 DEF MeaningColumn
<1>. HIDE DEF V
<1>2. \E f \in [Terms -> V] : Follows(f, Terms, step)
  <2>. HIDE DEF step
  <2>. QED
    BY <1>1, TermRecursion
<1>3. PICK f \in [Terms -> V] : Follows(f, Terms, step)
  BY <1>2
<1>4. One(f)
  <2>1. ASSUME NEW e \in Terms PROVE f[e] = MeaningColumn(e, [i \in DOMAIN e.args |-> f[e.args[i]]])
    <3>1. \A i \in DOMAIN e.args : f[e.args[i]] \in V
      BY TermFacts
    <3>2. Of(f, e) \in [DOMAIN e.args -> V]
      BY <3>1 DEF Of
    <3>3. f[e] = step[e][Of(f, e)]
      BY <1>3 DEF Follows
    <3>4. f[e] = MeaningColumn(e, Of(f, e))
      BY <3>2, <3>3
    <3>. QED
      BY <3>4 DEF Of
  <2>. QED
    BY <2>1
<1>5. \E g : One(g)
  <2>. HIDE DEF One
  <2>. QED
    BY <1>4
<1>6. Meaning = CHOOSE g : One(g)
  BY DEF Meaning
<1>7. One(Meaning)
  <2>. HIDE DEF One
  <2>. QED
    BY <1>5, <1>6
<1>8. ASSUME NEW e \in Terms PROVE Meaning[e] = MeaningColumn(e, Of(Meaning, e))
  <2>1. PICK m : m = Meaning
    OBVIOUS
  <2>2. m = [x \in Terms |-> MeaningColumn(x, [i \in DOMAIN x.args |-> m[x.args[i]]])]
    BY <1>7, <2>1
  <2>3. m[e] = MeaningColumn(e, [i \in DOMAIN e.args |-> m[e.args[i]]])
    BY <2>2
  <2>. QED
    BY <2>1, <2>3 DEF Of
<1>9. ASSUME NEW e \in Terms, NEW row \in Bindings PROVE Meaning[e][row] = Meant(e, Of(Meaning, e), row)
  BY <1>8 DEF MeaningColumn
<1>10. Meaning = [e \in Terms |-> Meaning[e]]
  <2>1. PICK m : m = Meaning
    OBVIOUS
  <2>2. m = [x \in Terms |-> MeaningColumn(x, [i \in DOMAIN x.args |-> m[x.args[i]]])]
    BY <1>7, <2>1
  <2>3. m = [x \in Terms |-> m[x]]
    BY <2>2
  <2>. QED
    BY <2>1, <2>3
<1>. QED
  BY <1>8, <1>9, <1>10, LogicalMeant

\* What an expression comes to when an unknown element counts as no match.
CountedAt(e, cols, row) ==
    IF e.op \in Quantifiers
    THEN EvaluateQuantifier(e.op, [i \in DOMAIN e.of |-> cols[1][WithElement(row, e, i)]])
    ELSE Meant(e, cols, row)
CountedColumn(e, cols) == [row \in Bindings |-> CountedAt(e, cols, row)]
Counted[e \in Terms] == CountedColumn(e, [i \in DOMAIN e.args |-> Counted[e.args[i]]])

LEMMA LogicalCounted ==
    ASSUME NEW e \in Terms, Logical(e), NEW cols, NEW row \in Bindings
    PROVE  CountedAt(e, cols, row) \in Truths
<1>1. CASE e.op \in Quantifiers
  <2>1. \A b : Truth(b) \in Truths
    BY DEF Truth, Truths
  <2>. QED
    BY <1>1, <2>1 DEF CountedAt, EvaluateQuantifier
<1>2. CASE e.op \notin Quantifiers
  BY <1>2, LogicalMeant DEF CountedAt
<1>. QED
  BY <1>1, <1>2

LEMMA CountedTyped ==
    ASSUME NEW e \in Terms, NEW cols \in [DOMAIN e.args -> [Bindings -> Results0]], NEW row \in Bindings
    PROVE  CountedAt(e, cols, row) \in Results0
<1>1. CASE e.op \in Quantifiers
  <2>1. Logical(e)
    BY <1>1 DEF Logical, Connectives
  <2>. QED
    BY <2>1, LogicalCounted DEF Results0
<1>2. CASE e.op \notin Quantifiers
  BY <1>2, MeantTyped DEF CountedAt
<1>. QED
  BY <1>1, <1>2

LEMMA CountedFacts ==
    /\ Counted = [e \in Terms |-> Counted[e]]
    /\ \A e \in Terms : Counted[e] = CountedColumn(e, Of(Counted, e))
    /\ \A e \in Terms : \A row \in Bindings : Counted[e][row] = CountedAt(e, Of(Counted, e), row)
    /\ \A e \in Terms : Logical(e) => \A row \in Bindings : Counted[e][row] \in Truths
<1>. DEFINE V == [Bindings -> Results0]
            step == [e \in Terms |-> [s \in [DOMAIN e.args -> V] |-> CountedColumn(e, s)]]
            One(f) == f = [e \in Terms |-> CountedColumn(e, [i \in DOMAIN e.args |-> f[e.args[i]]])]
<1>1. ASSUME NEW e \in Terms, NEW s \in [DOMAIN e.args -> V] PROVE step[e][s] \in V
  <2>1. \A row \in Bindings : CountedAt(e, s, row) \in Results0
    BY CountedTyped
  <2>. QED
    BY <2>1 DEF CountedColumn
<1>. HIDE DEF V
<1>2. \E f \in [Terms -> V] : Follows(f, Terms, step)
  <2>. HIDE DEF step
  <2>. QED
    BY <1>1, TermRecursion
<1>3. PICK f \in [Terms -> V] : Follows(f, Terms, step)
  BY <1>2
<1>4. One(f)
  <2>1. ASSUME NEW e \in Terms PROVE f[e] = CountedColumn(e, [i \in DOMAIN e.args |-> f[e.args[i]]])
    <3>1. \A i \in DOMAIN e.args : f[e.args[i]] \in V
      BY TermFacts
    <3>2. Of(f, e) \in [DOMAIN e.args -> V]
      BY <3>1 DEF Of
    <3>3. f[e] = step[e][Of(f, e)]
      BY <1>3 DEF Follows
    <3>4. f[e] = CountedColumn(e, Of(f, e))
      BY <3>2, <3>3
    <3>. QED
      BY <3>4 DEF Of
  <2>. QED
    BY <2>1
<1>5. \E g : One(g)
  <2>. HIDE DEF One
  <2>. QED
    BY <1>4
<1>6. Counted = CHOOSE g : One(g)
  BY DEF Counted
<1>7. One(Counted)
  <2>. HIDE DEF One
  <2>. QED
    BY <1>5, <1>6
<1>8. ASSUME NEW e \in Terms PROVE Counted[e] = CountedColumn(e, Of(Counted, e))
  <2>1. PICK m : m = Counted
    OBVIOUS
  <2>2. m = [x \in Terms |-> CountedColumn(x, [i \in DOMAIN x.args |-> m[x.args[i]]])]
    BY <1>7, <2>1
  <2>3. m[e] = CountedColumn(e, [i \in DOMAIN e.args |-> m[e.args[i]]])
    BY <2>2
  <2>. QED
    BY <2>1, <2>3 DEF Of
<1>9. ASSUME NEW e \in Terms, NEW row \in Bindings PROVE Counted[e][row] = CountedAt(e, Of(Counted, e), row)
  BY <1>8 DEF CountedColumn
<1>10. Counted = [e \in Terms |-> Counted[e]]
  <2>1. PICK m : m = Counted
    OBVIOUS
  <2>2. m = [x \in Terms |-> CountedColumn(x, [i \in DOMAIN x.args |-> m[x.args[i]]])]
    BY <1>7, <2>1
  <2>3. m = [x \in Terms |-> m[x]]
    BY <2>2
  <2>. QED
    BY <2>1, <2>3
<1>. QED
  BY <1>8, <1>9, <1>10, LogicalCounted

\* And on every row it is decided or not.
LEMMA DecidedFacts == \A e \in Terms : \A row \in Bindings : Decided[e][row] = DecidedAt(e, Meaning[e], Of(Decided, e), row)
<1>. DEFINE V == [Bindings -> BOOLEAN]
            step == [e \in Terms |-> [s \in [DOMAIN e.args -> V] |-> DecidedColumn(e, s)]]
            One(f) == f = [e \in Terms |-> DecidedColumn(e, [i \in DOMAIN e.args |-> f[e.args[i]]])]
<1>1. ASSUME NEW e \in Terms, NEW s \in [DOMAIN e.args -> V] PROVE step[e][s] \in V
  <2>1. \A row \in Bindings : DecidedAt(e, Meaning[e], s, row) \in BOOLEAN
    BY DEF DecidedAt
  <2>. QED
    BY <2>1 DEF DecidedColumn
<1>. HIDE DEF V
<1>2. \E f \in [Terms -> V] : Follows(f, Terms, step)
  <2>. HIDE DEF step
  <2>. QED
    BY <1>1, TermRecursion
<1>3. PICK f \in [Terms -> V] : Follows(f, Terms, step)
  BY <1>2
<1>4. One(f)
  <2>1. ASSUME NEW e \in Terms PROVE f[e] = DecidedColumn(e, [i \in DOMAIN e.args |-> f[e.args[i]]])
    <3>1. \A i \in DOMAIN e.args : f[e.args[i]] \in V
      BY TermFacts
    <3>2. Of(f, e) \in [DOMAIN e.args -> V]
      BY <3>1 DEF Of
    <3>3. f[e] = step[e][Of(f, e)]
      BY <1>3 DEF Follows
    <3>4. f[e] = DecidedColumn(e, Of(f, e))
      BY <3>2, <3>3
    <3>. QED
      BY <3>4 DEF Of
  <2>. QED
    BY <2>1
<1>5. \E g : One(g)
  <2>. HIDE DEF One
  <2>. QED
    BY <1>4
<1>6. Decided = CHOOSE g : One(g)
  BY DEF Decided
<1>7. One(Decided)
  <2>. HIDE DEF One
  <2>. QED
    BY <1>5, <1>6
<1>8. ASSUME NEW e \in Terms PROVE Decided[e] = DecidedColumn(e, Of(Decided, e))
  <2>1. PICK m : m = Decided
    OBVIOUS
  <2>2. m = [x \in Terms |-> DecidedColumn(x, [i \in DOMAIN x.args |-> m[x.args[i]]])]
    BY <1>7, <2>1
  <2>3. m[e] = DecidedColumn(e, [i \in DOMAIN e.args |-> m[e.args[i]]])
    BY <2>2
  <2>. QED
    BY <2>1, <2>3 DEF Of
<1>. QED
  BY <1>8 DEF DecidedColumn

--------------------------------------------------------------------------------
\* A chain is evaluated operand by operand.
ChainOf(f, op, values, n) ==
    f = [i \in 1 .. n |-> IF i = 1 THEN values[1] ELSE Both(op, f[i - 1], values[i])]

LEMMA ChainRuns ==
    ASSUME NEW op, NEW values, NEW n \in Nat, DOMAIN values = 1 .. n, Len(values) = n
    PROVE  \E f : /\ \A i \in 1 .. n : f[i] = IF i = 1 THEN values[1] ELSE Both(op, f[i - 1], values[i])
                  /\ Chained(op, values) = f[n]
<1>. DEFINE S == {m \in Nat : \E f : ChainOf(f, op, values, m)}
<1>1. 0 \in S
  <2>1. ChainOf([i \in 1 .. 0 |-> values[i]], op, values, 0)
    BY DEF ChainOf
  <2>. QED
    BY <2>1
<1>2. ASSUME NEW m \in S PROVE m + 1 \in S
  <2>1. PICK f : ChainOf(f, op, values, m)
    BY <1>2
  <2>. DEFINE g == [i \in 1 .. (m + 1) |-> IF i = 1 THEN values[1] ELSE Both(op, f[i - 1], values[i])]
  <2>2. m \in Nat
    OBVIOUS
  <2>3. \A i \in 1 .. m : g[i] = f[i]
    <3>1. \A i \in 1 .. m : f[i] = IF i = 1 THEN values[1] ELSE Both(op, f[i - 1], values[i])
      BY <2>1 DEF ChainOf
    <3>2. \A i \in 1 .. m : i \in 1 .. (m + 1)
      BY <2>2
    <3>. QED
      BY <3>1, <3>2
  <2>4. \A i \in 1 .. (m + 1) : i # 1 => i - 1 \in 1 .. m
    BY <2>2
  <2>5. \A i \in 1 .. (m + 1) : g[i] = IF i = 1 THEN values[1] ELSE Both(op, g[i - 1], values[i])
    BY <2>3, <2>4
  <2>6. g = [i \in 1 .. (m + 1) |-> g[i]]
    OBVIOUS
  <2>. HIDE DEF g
  <2>7. ChainOf(g, op, values, m + 1)
    BY <2>5, <2>6 DEF ChainOf
  <2>8. \E h : ChainOf(h, op, values, m + 1)
    BY <2>7
  <2>. QED
    BY <2>2, <2>8
<1>3. S = Nat
  <2>1. S \in SUBSET Nat
    OBVIOUS
  <2>. HIDE DEF S
  <2>. QED
    BY <1>1, <1>2, <2>1, SetInduction
<1>5. \E f : ChainOf(f, op, values, n)
  BY <1>3
<1>6. Chained(op, values) = (CHOOSE f : ChainOf(f, op, values, n))[n]
  BY DEF Chained, ChainOf
<1>7. PICK f : f = CHOOSE g : ChainOf(g, op, values, n)
  OBVIOUS
<1>8. ChainOf(f, op, values, n)
  BY <1>5, <1>7
<1>. QED
  BY <1>6, <1>7, <1>8 DEF ChainOf

\* AND is the least of its operands, OR the greatest, XOR their parity.
AndOf(v, values, k) ==
    /\ v \in Truths
    /\ v = False <=> \E j \in 1 .. k : values[j] = False
    /\ v = True <=> \A j \in 1 .. k : values[j] = True
OrOf(v, values, k) ==
    /\ v \in Truths
    /\ v = True <=> \E j \in 1 .. k : values[j] = True
    /\ v = False <=> \A j \in 1 .. k : values[j] = False
XorOf(v, values, k) ==
    /\ v \in Truths
    /\ v = Null <=> \E j \in 1 .. k : values[j] = Null
    /\ v # Null => (v = True <=> Cardinality({j \in 1 .. k : values[j] = True}) % 2 = 1)
ChainIs(op, v, values, k) ==
    /\ op = "and" => AndOf(v, values, k)
    /\ op = "or" => OrOf(v, values, k)
    /\ op = "xor" => XorOf(v, values, k)

LEMMA ChainBegins ==
    ASSUME NEW op, NEW values, values[1] \in Truths
    PROVE  ChainIs(op, values[1], values, 1)
<1>1. \A j : j \in 1 .. 1 <=> j = 1
  OBVIOUS
<1>2. AndOf(values[1], values, 1) /\ OrOf(values[1], values, 1)
  BY <1>1 DEF AndOf, OrOf
<1>3. XorOf(values[1], values, 1)
  <2>. DEFINE T == {j \in 1 .. 1 : values[j] = True}
  <2>1. CASE values[1] = True
    <3>1. T = {1}
      BY <1>1, <2>1
    <3>2. Cardinality({1}) = 1
      BY FS_Singleton
    <3>3. Cardinality(T) % 2 = 1
      BY <3>1, <3>2
    <3>. QED
      BY <1>1, <2>1, <3>3 DEF XorOf
  <2>2. CASE values[1] # True
    <3>1. T = {}
      BY <1>1, <2>2
    <3>2. Cardinality({}) = 0
      BY FS_EmptySet
    <3>3. Cardinality(T) % 2 = 0
      BY <3>1, <3>2
    <3>. QED
      BY <1>1, <2>2, <3>3 DEF XorOf
  <2>. QED
    BY <2>1, <2>2
<1>. QED
  BY <1>2, <1>3 DEF ChainIs

LEMMA ChainGoesOn ==
    ASSUME NEW op, NEW values, NEW k \in Nat, k >= 1, NEW v, ChainIs(op, v, values, k), values[k + 1] \in Truths
    PROVE  ChainIs(op, Both(op, v, values[k + 1]), values, k + 1)
<1>. DEFINE x == values[k + 1]
<1>1. \A j : j \in 1 .. (k + 1) <=> j \in 1 .. k \/ j = k + 1
  OBVIOUS
<1>2. True # False /\ True # Null /\ False # Null
  BY TruthFacts
<1>3. ASSUME op = "and" PROVE AndOf(Both(op, v, x), values, k + 1)
  <2>1. Both(op, v, x) = KleeneAnd(v, x)
    BY <1>3 DEF Both
  <2>2. AndOf(v, values, k)
    BY <1>3 DEF ChainIs
  <2>3. AndOf(KleeneAnd(v, x), values, k + 1)
    BY <1>1, <1>2, <2>2 DEF AndOf, KleeneAnd, Truths
  <2>. QED
    BY <2>1, <2>3
<1>4. ASSUME op = "or" PROVE OrOf(Both(op, v, x), values, k + 1)
  <2>1. Both(op, v, x) = KleeneOr(v, x)
    BY <1>4 DEF Both
  <2>2. OrOf(v, values, k)
    BY <1>4 DEF ChainIs
  <2>3. OrOf(KleeneOr(v, x), values, k + 1)
    BY <1>1, <1>2, <2>2 DEF OrOf, KleeneOr, Truths
  <2>. QED
    BY <2>1, <2>3
<1>5. ASSUME op = "xor" PROVE XorOf(Both(op, v, x), values, k + 1)
  <2>1. Both(op, v, x) = KleeneXor(v, x)
    BY <1>5 DEF Both
  <2>2. XorOf(v, values, k)
    BY <1>5 DEF ChainIs
  <2>. DEFINE T(m) == {j \in 1 .. m : values[j] = True}
  <2>3. /\ x = True => T(k + 1) = T(k) \union {k + 1}
        /\ x # True => T(k + 1) = T(k)
    BY <1>1
  <2>4. IsFiniteSet(T(k)) /\ k + 1 \notin T(k)
    <3>1. IsFiniteSet(1 .. k)
      BY FS_Interval
    <3>. QED
      BY <3>1, FS_Subset
  <2>5. Cardinality(T(k)) \in Nat /\ Cardinality(T(k) \union {k + 1}) = Cardinality(T(k)) + 1
    BY <2>4, FS_CardinalityType, FS_AddElement
  <2>6. PICK c, d : c = Cardinality(T(k)) /\ d = Cardinality(T(k + 1))
    OBVIOUS
  <2>7. c \in Nat /\ (x = True => d = c + 1) /\ (x # True => d = c)
    BY <2>3, <2>5, <2>6
  <2>8. \A n \in Nat : (n + 1) % 2 = 1 <=> n % 2 # 1
    OBVIOUS
  <2>9. (x = True => (d % 2 = 1 <=> c % 2 # 1)) /\ (x # True => d = c)
    BY <2>7, <2>8
  <2>10. v \in Truths /\ (v = Null <=> \E j \in 1 .. k : values[j] = Null) /\ (v # Null => (v = True <=> c % 2 = 1))
    BY <2>2, <2>6 DEF XorOf
  <2>11. /\ KleeneXor(v, x) \in Truths
         /\ KleeneXor(v, x) = Null <=> v = Null \/ x = Null
         /\ KleeneXor(v, x) # Null => (KleeneXor(v, x) = True <=> v # x)
    BY <1>2, TruthFacts DEF KleeneXor, Truths
  <2>12. v # Null /\ x # Null => (v # x <=> d % 2 = 1)
    BY <1>2, <2>9, <2>10 DEF Truths
  <2>13. KleeneXor(v, x) = Null <=> \E j \in 1 .. (k + 1) : values[j] = Null
    BY <1>1, <2>10, <2>11
  <2>14. KleeneXor(v, x) # Null => (KleeneXor(v, x) = True <=> d % 2 = 1)
    BY <2>11, <2>12
  <2>15. XorOf(KleeneXor(v, x), values, k + 1)
    BY <2>6, <2>11, <2>13, <2>14 DEF XorOf
  <2>. QED
    BY <2>1, <2>15
<1>. QED
  BY <1>3, <1>4, <1>5 DEF ChainIs

LEMMA ChainFacts ==
    ASSUME NEW op, NEW values, NEW n \in Nat, n >= 1, DOMAIN values = 1 .. n, Len(values) = n,
           \A i \in 1 .. n : values[i] \in Truths
    PROVE  ChainIs(op, Chained(op, values), values, n)
<1>1. PICK f : /\ \A i \in 1 .. n : f[i] = IF i = 1 THEN values[1] ELSE Both(op, f[i - 1], values[i])
               /\ Chained(op, values) = f[n]
  BY ChainRuns
<1>. DEFINE S == {m \in Nat : m + 1 <= n => ChainIs(op, f[m + 1], values, m + 1)}
<1>2. 0 \in S
  <2>1. 1 \in 1 .. n
    OBVIOUS
  <2>2. f[1] = values[1] /\ values[1] \in Truths
    BY <1>1, <2>1
  <2>3. ChainIs(op, f[1], values, 1)
    BY <2>2, ChainBegins
  <2>. QED
    BY <2>3
<1>3. ASSUME NEW m \in S PROVE m + 1 \in S
  <2>. SUFFICES ASSUME (m + 1) + 1 <= n PROVE ChainIs(op, f[(m + 1) + 1], values, (m + 1) + 1)
    OBVIOUS
  <2>1. PICK k \in Nat : k = m + 1
    OBVIOUS
  <2>2. k >= 1 /\ k <= n /\ k + 1 \in 1 .. n /\ k + 1 # 1 /\ (k + 1) - 1 = k
    BY <2>1
  <2>3. ChainIs(op, f[k], values, k)
    BY <2>1, <2>2
  <2>4. f[k + 1] = Both(op, f[k], values[k + 1]) /\ values[k + 1] \in Truths
    BY <1>1, <2>2
  <2>5. ChainIs(op, f[k + 1], values, k + 1)
    BY <2>1, <2>2, <2>3, <2>4, ChainGoesOn
  <2>. QED
    BY <2>1, <2>5
<1>4. S = Nat
  <2>1. S \in SUBSET Nat
    OBVIOUS
  <2>. HIDE DEF S
  <2>. QED
    BY <1>2, <1>3, <2>1, SetInduction
<1>5. n - 1 \in S /\ (n - 1) + 1 = n
  <2>1. n - 1 \in Nat /\ (n - 1) + 1 = n
    OBVIOUS
  <2>. QED
    BY <1>4, <2>1
<1>6. ChainIs(op, f[n], values, n)
  BY <1>5
<1>. QED
  BY <1>1, <1>6

\* What Cypher says of a chain.
LEMMA ChainMeans ==
    ASSUME NEW values, NEW n \in Nat, n >= 1, DOMAIN values = 1 .. n, Len(values) = n,
           \A i \in 1 .. n : values[i] \in Truths
    PROVE  LET ranks == {Rank(values[i]) : i \in DOMAIN values}
           IN  /\ Chained("and", values) = OfRank(Min(ranks))
               /\ Chained("or", values) = OfRank(Max(ranks))
               /\ Chained("xor", values) =
                    IF Null \in Range(values) THEN Null
                    ELSE Truth(Cardinality({i \in DOMAIN values : values[i] = True}) % 2 = 1)
               /\ Min(ranks) \in {0, 1, 2}
               /\ Min(ranks) = 0 <=> False \in Range(values)
               /\ Min(ranks) = 1 <=> False \notin Range(values) /\ Null \in Range(values)
               /\ Max(ranks) \in {0, 1, 2}
               /\ Max(ranks) = 2 <=> True \in Range(values)
               /\ Max(ranks) = 1 <=> True \notin Range(values) /\ Null \in Range(values)
<1>. DEFINE ranks == {Rank(values[i]) : i \in DOMAIN values}
<1>1. ranks \in SUBSET {0, 1, 2} /\ ranks # {} /\ ranks \in SUBSET Nat
  <2>1. \A x : Rank(x) \in {0, 1, 2}
    BY TruthFacts
  <2>2. 1 \in DOMAIN values
    OBVIOUS
  <2>. QED
    BY <2>1, <2>2
<1>2. /\ 0 \in ranks <=> False \in Range(values)
      /\ 1 \in ranks <=> Null \in Range(values)
      /\ 2 \in ranks <=> True \in Range(values)
  <2>1. \A x \in Truths : (Rank(x) = 0 <=> x = False) /\ (Rank(x) = 1 <=> x = Null) /\ (Rank(x) = 2 <=> x = True)
    BY TruthFacts
  <2>2. \A m : m \in ranks <=> \E i \in 1 .. n : Rank(values[i]) = m
    OBVIOUS
  <2>3. \A x : x \in Range(values) <=> \E i \in 1 .. n : values[i] = x
    BY DEF Range
  <2>. HIDE DEF ranks
  <2>. QED
    BY <2>1, <2>2, <2>3
<1>. HIDE DEF ranks
<1>3. Min(ranks) \in ranks /\ \A m \in ranks : Min(ranks) <= m
  BY <1>1, MinOfNaturals
<1>4. Max(ranks) \in ranks /\ \A m \in ranks : m <= Max(ranks)
  BY <1>1, MaxOfRanks
<1>5. PICK lo, hi : lo = Min(ranks) /\ hi = Max(ranks)
  OBVIOUS
<1>6. lo \in {0, 1, 2} /\ (lo = 0 <=> 0 \in ranks) /\ (lo = 1 <=> 0 \notin ranks /\ 1 \in ranks)
  <2>1. lo \in ranks /\ \A m \in ranks : lo <= m
    BY <1>3, <1>5
  <2>2. \A m \in ranks : m = 0 \/ m = 1 \/ m = 2
    BY <1>1
  <2>. QED
    BY ONLY <2>1, <2>2
<1>7. hi \in {0, 1, 2} /\ (hi = 2 <=> 2 \in ranks) /\ (hi = 1 <=> 2 \notin ranks /\ 1 \in ranks)
  <2>1. hi \in ranks /\ \A m \in ranks : m <= hi
    BY <1>4, <1>5
  <2>2. \A m \in ranks : m = 0 \/ m = 1 \/ m = 2
    BY <1>1
  <2>. QED
    BY ONLY <2>1, <2>2
<1>8. \A x : x \in Range(values) <=> \E i \in 1 .. n : values[i] = x
  BY DEF Range
<1>9. True # False /\ True # Null /\ False # Null
  BY TruthFacts
<1>10. Chained("and", values) = OfRank(lo)
  <2>1. PICK v : v = Chained("and", values)
    OBVIOUS
  <2>2. AndOf(v, values, n)
    BY <2>1, ChainFacts DEF ChainIs
  <2>3. v \in {True, False, Null} /\ (v = False <=> False \in Range(values)) /\ (v = True <=> \A j \in 1 .. n : values[j] = True)
    BY <1>8, <2>2 DEF AndOf, Truths
  <2>4. (\A j \in 1 .. n : values[j] = True) <=> False \notin Range(values) /\ Null \notin Range(values)
    BY <1>8, <1>9 DEF Truths
  <2>5. OfRank(lo) = IF lo = 0 THEN False ELSE IF lo = 1 THEN Null ELSE True
    BY DEF OfRank
  <2>. QED
    BY <1>2, <1>6, <1>9, <2>1, <2>3, <2>4, <2>5
<1>11. Chained("or", values) = OfRank(hi)
  <2>1. PICK v : v = Chained("or", values)
    OBVIOUS
  <2>2. OrOf(v, values, n)
    BY <2>1, ChainFacts DEF ChainIs
  <2>3. v \in {True, False, Null} /\ (v = True <=> True \in Range(values)) /\ (v = False <=> \A j \in 1 .. n : values[j] = False)
    BY <1>8, <2>2 DEF OrOf, Truths
  <2>4. (\A j \in 1 .. n : values[j] = False) <=> True \notin Range(values) /\ Null \notin Range(values)
    BY <1>8, <1>9 DEF Truths
  <2>5. OfRank(hi) = IF hi = 0 THEN False ELSE IF hi = 1 THEN Null ELSE True
    BY DEF OfRank
  <2>. QED
    BY <1>2, <1>7, <1>9, <2>1, <2>3, <2>4, <2>5
<1>12. Chained("xor", values) = IF Null \in Range(values) THEN Null
                               ELSE Truth(Cardinality({i \in DOMAIN values : values[i] = True}) % 2 = 1)
  <2>1. PICK v : v = Chained("xor", values)
    OBVIOUS
  <2>2. XorOf(v, values, n)
    BY <2>1, ChainFacts DEF ChainIs
  <2>3. PICK odd : odd = (Cardinality({i \in DOMAIN values : values[i] = True}) % 2 = 1)
    OBVIOUS
  <2>4. v \in {True, False, Null} /\ (v = Null <=> Null \in Range(values)) /\ (v # Null => (v = True <=> odd))
    BY <1>8, <2>2, <2>3 DEF XorOf, Truths
  <2>5. Truth(odd) = IF odd THEN True ELSE False
    BY DEF Truth
  <2>6. v = IF Null \in Range(values) THEN Null ELSE Truth(odd)
    BY <2>4, <2>5
  <2>. QED
    BY <2>1, <2>3, <2>6
<1>. QED
  BY <1>2, <1>5, <1>6, <1>7, <1>10, <1>11, <1>12 DEF ranks

\* Membership in a list is the best of the comparisons.
LEMMA InListMeans ==
    ASSUME NEW x, NEW list, IsList(list)
    PROVE  InList(x, list) = Among(x, list) /\ InList(x, list) \in Truths
<1>. DEFINE ranks == {0} \union {Rank(Equal(x, list[i])) : i \in DOMAIN list}
<1>1. ranks \in SUBSET {0, 1, 2} /\ ranks # {}
  <2>1. \A y : Rank(y) \in {0, 1, 2}
    BY TruthFacts
  <2>. QED
    BY <2>1
<1>2. \A m : m \in ranks <=> m = 0 \/ \E i \in DOMAIN list : Rank(Equal(x, list[i])) = m
  OBVIOUS
<1>. HIDE DEF ranks
<1>3. PICK hi : hi = Max(ranks)
  OBVIOUS
<1>4. hi \in ranks /\ \A m \in ranks : m <= hi
  BY <1>1, <1>3, MaxOfRanks
<1>5. \A m \in ranks : m = 0 \/ m = 1 \/ m = 2
  BY <1>1
<1>6. (hi = 0 \/ hi = 1 \/ hi = 2) /\ (hi = 2 <=> 2 \in ranks) /\ (hi = 1 <=> 2 \notin ranks /\ 1 \in ranks)
  BY ONLY <1>4, <1>5
<1>7. Among(x, list) = OfRank(hi)
  BY <1>3 DEF Among, ranks
<1>8. True # False /\ True # Null /\ False # Null
  BY TruthFacts
<1>9. \A y : (Rank(y) = 1 <=> y = Null) /\ (y \in Truths => (Rank(y) = 2 <=> y = True))
  BY TruthFacts
<1>10. \A i \in DOMAIN list : Equal(x, list[i]) = IF x = Null \/ list[i] = Null THEN Null ELSE IF x = list[i] THEN True ELSE False
  BY DEF Equal, Truth
<1>11. 1 \in ranks <=> \E i \in DOMAIN list : x = Null \/ list[i] = Null
  BY <1>2, <1>8, <1>9, <1>10
<1>12. 2 \in ranks <=> \E i \in DOMAIN list : x # Null /\ list[i] # Null /\ x = list[i]
  <2>1. \A i \in DOMAIN list : Equal(x, list[i]) \in Truths
    BY <1>10 DEF Truths
  <2>. QED
    BY <1>2, <1>8, <1>9, <1>10, <2>1
<1>13. list = <<>> <=> DOMAIN list = {}
  <2>1. Len(list) \in Nat /\ DOMAIN list = 1 .. Len(list) /\ list \in Seq(Range(list))
    BY ListFacts DEF IsList
  <2>. QED
    BY <2>1
<1>14. Null \in Range(list) <=> \E i \in DOMAIN list : list[i] = Null
  BY DEF Range
<1>15. OfRank(hi) = IF hi = 0 THEN False ELSE IF hi = 1 THEN Null ELSE True
  BY DEF OfRank
<1>16. InList(x, list) = IF x = Null THEN IF list = <<>> THEN False ELSE Null
                         ELSE IF \E i \in DOMAIN list : list[i] # Null /\ list[i] = x THEN True
                         ELSE IF Null \in Range(list) THEN Null ELSE False
  BY DEF InList
<1>17. CASE x = Null
  BY <1>6, <1>7, <1>11, <1>12, <1>13, <1>15, <1>16, <1>17 DEF Truths
<1>18. CASE x # Null
  BY <1>6, <1>7, <1>11, <1>12, <1>14, <1>15, <1>16, <1>18 DEF Truths
<1>. QED
  BY <1>17, <1>18

--------------------------------------------------------------------------------
LaidOf(f, n, matched, result, m) ==
    f = [k \in 0 .. m |-> IF k = 0 THEN result[0] ELSE IF n + 1 - k \in matched THEN result[n + 1 - k] ELSE f[k - 1]]

\* f has what is laid by and by, the value of the CASE at the end.
Lays(f, n, matched, result) ==
    /\ f[0] = result[0]
    /\ \A k \in 1 .. n : f[k] = IF n + 1 - k \in matched THEN result[n + 1 - k] ELSE f[k - 1]
    /\ EvaluateCase(n, matched, result) = f[n]

LEMMA LaidRuns ==
    ASSUME NEW n \in Nat, NEW matched, NEW result
    PROVE  \E f : Lays(f, n, matched, result)
<1>. DEFINE S == {m \in Nat : \E f : LaidOf(f, n, matched, result, m)}
<1>1. 0 \in S
  <2>1. \A k \in 0 .. 0 : k = 0
    OBVIOUS
  <2>2. LaidOf([k \in 0 .. 0 |-> result[0]], n, matched, result, 0)
    BY <2>1 DEF LaidOf
  <2>. QED
    BY <2>2
<1>2. ASSUME NEW m \in S PROVE m + 1 \in S
  <2>1. PICK f : LaidOf(f, n, matched, result, m)
    BY <1>2
  <2>. DEFINE Next1(g, k) == IF k = 0 THEN result[0] ELSE IF n + 1 - k \in matched THEN result[n + 1 - k] ELSE g[k - 1]
              h == [k \in 0 .. (m + 1) |-> Next1(f, k)]
  <2>2. m \in Nat
    OBVIOUS
  <2>3. \A k \in 0 .. m : h[k] = f[k]
    <3>1. \A k \in 0 .. m : f[k] = Next1(f, k)
      BY <2>1 DEF LaidOf
    <3>2. \A k \in 0 .. m : k \in 0 .. (m + 1)
      BY <2>2
    <3>. HIDE DEF Next1
    <3>. QED
      BY <3>1, <3>2
  <2>4. \A k \in 0 .. (m + 1) : k # 0 => k - 1 \in 0 .. m
    BY <2>2
  <2>5. h = [k \in 0 .. (m + 1) |-> h[k]]
    OBVIOUS
  <2>6. \A k \in 0 .. (m + 1) : h[k] = Next1(f, k)
    OBVIOUS
  <2>. HIDE DEF h
  <2>7. \A k \in 0 .. (m + 1) : h[k] = Next1(h, k)
    BY <2>3, <2>4, <2>6
  <2>8. LaidOf(h, n, matched, result, m + 1)
    BY <2>5, <2>7 DEF LaidOf
  <2>9. \E g : LaidOf(g, n, matched, result, m + 1)
    BY <2>8
  <2>. QED
    BY <2>2, <2>9
<1>3. S = Nat
  <2>1. S \in SUBSET Nat
    OBVIOUS
  <2>. HIDE DEF S
  <2>. QED
    BY <1>1, <1>2, <2>1, SetInduction
<1>4. \E f : LaidOf(f, n, matched, result, n)
  BY <1>3
<1>5. EvaluateCase(n, matched, result) = (CHOOSE f : LaidOf(f, n, matched, result, n))[n]
  BY DEF EvaluateCase, LaidOf
<1>6. PICK f : f = CHOOSE g : LaidOf(g, n, matched, result, n)
  OBVIOUS
<1>7. LaidOf(f, n, matched, result, n)
  BY <1>4, <1>6
<1>8. \A k \in 0 .. n : f[k] = IF k = 0 THEN result[0] ELSE IF n + 1 - k \in matched THEN result[n + 1 - k] ELSE f[k - 1]
  BY <1>7 DEF LaidOf
<1>9. f[0] = result[0]
  BY <1>8
<1>10. \A k \in 1 .. n : f[k] = IF n + 1 - k \in matched THEN result[n + 1 - k] ELSE f[k - 1]
  BY <1>8
<1>11. EvaluateCase(n, matched, result) = f[n]
  BY <1>5, <1>6
<1>12. Lays(f, n, matched, result)
  BY ONLY <1>9, <1>10, <1>11 DEF Lays
<1>. QED
  BY ONLY <1>12

\* The first WHEN that matches is the one that counts.
LEMMA CaseMeans ==
    ASSUME NEW n \in Nat, NEW matched \in SUBSET (1 .. n), NEW result
    PROVE  EvaluateCase(n, matched, result) = IF matched = {} THEN result[0] ELSE result[Min(matched)]
<1>0. PICK f : Lays(f, n, matched, result)
  BY ONLY n \in Nat, LaidRuns
<1>1. /\ f[0] = result[0]
      /\ \A k \in 1 .. n : f[k] = IF n + 1 - k \in matched THEN result[n + 1 - k] ELSE f[k - 1]
      /\ EvaluateCase(n, matched, result) = f[n]
  BY ONLY <1>0 DEF Lays
<1>a. \A m \in matched : m \in Nat /\ m >= 1
  <2>. SUFFICES ASSUME NEW m \in matched PROVE m \in Nat /\ m >= 1
    OBVIOUS
  <2>1. m \in 1 .. n
    OBVIOUS
  <2>. QED
    BY <2>1
<1>. DEFINE Right(k) ==
                \/ f[k] = result[0] /\ \A m \in matched : m < n + 1 - k
                \/ \E m \in matched : f[k] = result[m] /\ m >= n + 1 - k /\ \A j \in matched : j >= n + 1 - k => m <= j
            S == {k \in Nat : k <= n => Right(k)}
<1>2. 0 \in S
  <2>1. \A m \in matched : m \in 1 .. n /\ m < n + 1 - 0
    OBVIOUS
  <2>. QED
    BY <1>1, <2>1
<1>3. ASSUME NEW k \in S PROVE k + 1 \in S
  <2>0. k + 1 \in Nat
    OBVIOUS
  <2>. SUFFICES ASSUME k + 1 <= n PROVE Right(k + 1)
    <3>. HIDE DEF Right
    <3>. QED
      BY <2>0
  <2>1. k \in Nat /\ k <= n /\ k + 1 \in 1 .. n /\ (k + 1) - 1 = k /\ n + 1 - (k + 1) = n - k
    OBVIOUS
  <2>2. Right(k)
    BY <2>1
  <2>3. f[k + 1] = IF n - k \in matched THEN result[n - k] ELSE f[k]
    BY <1>1, <2>1
  <2>4. \A m \in matched : m \in Nat
    BY <1>a
  <2>5. CASE n - k \in matched
    <3>1. \A j \in matched : j >= n + 1 - (k + 1) => n - k <= j
      BY <2>1, <2>4
    <3>. QED
      BY <2>1, <2>3, <2>5, <3>1
  <2>6. CASE n - k \notin matched
    <3>1. \A m \in matched : m # n - k
      BY <2>6
    <3>2. \A m \in Nat : m # n - k => (m >= n + 1 - k <=> m >= n + 1 - (k + 1)) /\ (m < n + 1 - k <=> m < n + 1 - (k + 1))
      BY ONLY n \in Nat, <2>1
    <3>3. \A m \in matched : (m >= n + 1 - k <=> m >= n + 1 - (k + 1)) /\ (m < n + 1 - k <=> m < n + 1 - (k + 1))
      BY <2>4, <3>1, <3>2
    <3>. QED
      BY <2>2, <2>3, <2>6, <3>3
  <2>. QED
    BY <2>5, <2>6
<1>4. S = Nat
  <2>1. S \in SUBSET Nat
    OBVIOUS
  <2>. HIDE DEF S
  <2>. QED
    BY <1>2, <1>3, <2>1, SetInduction
<1>5. Right(n)
  BY <1>4
<1>6. n + 1 - n = 1 /\ \A m \in matched : m \in Nat /\ m >= 1
  BY <1>a
<1>7. CASE f[n] = result[0] /\ \A m \in matched : m < n + 1 - n
  <2>1. matched = {}
    BY <1>6, <1>7
  <2>. QED
    BY <1>1, <1>7, <2>1
<1>8. ASSUME NEW m \in matched, f[n] = result[m], \A j \in matched : j >= n + 1 - n => m <= j
      PROVE  f[n] = IF matched = {} THEN result[0] ELSE result[Min(matched)]
  <2>1. matched \in SUBSET Nat /\ matched # {}
    BY <1>8
  <2>2. PICK lo : lo = Min(matched)
    OBVIOUS
  <2>3. lo \in matched /\ \A j \in matched : lo <= j
    BY <2>1, <2>2, MinOfNaturals
  <2>4. \A j \in matched : m <= j
    BY <1>6, <1>8
  <2>5. lo = m
    <3>1. lo <= m /\ m <= lo /\ lo \in Nat /\ m \in Nat
      BY <2>1, <2>3, <2>4
    <3>. QED
      BY ONLY <3>1
  <2>. QED
    BY <1>8, <2>1, <2>2, <2>5
<1>. QED
  BY <1>1, <1>5, <1>7, <1>8

--------------------------------------------------------------------------------
\* Counting the matches says which elements match.
LEMMA QuantifierMeans ==
    ASSUME NEW kind \in Quantifiers, NEW list, IsList(list), NEW matches, IsList(matches), DOMAIN matches = DOMAIN list,
           NEW matching \in SUBSET DOMAIN list, \A i \in DOMAIN list : i \in matching <=> matches[i] = True
    PROVE  /\ kind = "any" => EvaluateQuantifier(kind, matches) = Truth(matching # {})
           /\ kind = "all" => EvaluateQuantifier(kind, matches) = Truth(matching = DOMAIN list)
           /\ kind = "none" => EvaluateQuantifier(kind, matches) = Truth(matching = {})
           /\ kind = "single" => EvaluateQuantifier(kind, matches) = Truth(Cardinality(matching) = 1)
<1>1. PICK n \in Nat : n = Len(list) /\ DOMAIN list = 1 .. n
  BY ListFacts
<1>3. Len(matches) = n
  <2>1. Len(matches) \in Nat /\ DOMAIN matches = 1 .. Len(matches)
    BY ListFacts
  <2>. QED
    BY <1>1, <2>1
<1>4. IsFiniteSet(DOMAIN list) /\ Cardinality(DOMAIN list) = n
  <2>1. 1 \in Int /\ n \in Int
    OBVIOUS
  <2>2. IsFiniteSet(1 .. n) /\ Cardinality(1 .. n) = IF 1 > n THEN 0 ELSE n - 1 + 1
    BY ONLY <2>1, FS_Interval
  <2>. QED
    BY <1>1, <2>2
<1>5. matching \in SUBSET DOMAIN list /\ {i \in DOMAIN matches : matches[i] = True} = matching
  OBVIOUS
<1>6. IsFiniteSet(matching) /\ Cardinality(matching) \in Nat /\ (Cardinality(matching) = n <=> matching = DOMAIN list)
  BY <1>4, <1>5, FS_Subset, FS_CardinalityType
<1>7. Cardinality(matching) = 0 <=> matching = {}
  BY <1>6, FS_EmptySet
<1>8. PICK c \in Nat : c = Cardinality(matching)
  BY <1>6
<1>9. EvaluateQuantifier(kind, matches) =
        Truth(CASE kind = "any" -> c > 0
                [] kind = "all" -> c = n
                [] kind = "none" -> c = 0
                [] kind = "single" -> c = 1)
  BY <1>3, <1>5, <1>8 DEF EvaluateQuantifier
<1>10. kind = "any" \/ kind = "all" \/ kind = "none" \/ kind = "single"
  BY DEF Quantifiers
<1>11. (c > 0 <=> matching # {}) /\ (c = n <=> matching = DOMAIN list) /\ (c = 0 <=> matching = {})
  BY <1>6, <1>7, <1>8
<1>12. CASE kind = "any"
  BY <1>9, <1>11, <1>12
<1>13. CASE kind = "all"
  BY <1>9, <1>11, <1>13
<1>14. CASE kind = "none"
  BY <1>9, <1>11, <1>14
<1>15. CASE kind = "single"
  BY <1>8, <1>9, <1>15
<1>. QED
  BY <1>10, <1>12, <1>13, <1>14, <1>15

\* A sequence is a list of what is in it.
LEMMA SequenceIsList ==
    ASSUME NEW S, NEW s \in Seq(S)
    PROVE  IsList(s) /\ Range(s) \subseteq S
<1>1. Len(s) \in Nat /\ s = [i \in 1 .. Len(s) |-> s[i]] /\ \A i \in DOMAIN s : s[i] \in S
  OBVIOUS
<1>2. PICK n \in Nat : n = Len(s)
  BY <1>1
<1>3. IsList(s)
  BY <1>1, <1>2, ListOf
<1>. QED
  BY <1>1, <1>3 DEF Range

\* The argument values of a row.
ValuesAt(e, cols, row) == [i \in DOMAIN e.args |-> cols[i][row]]

LEMMA ValuesFacts ==
    ASSUME NEW e \in Terms, NEW cols, NEW row
    PROVE  LET values == ValuesAt(e, cols, row)
           IN  /\ DOMAIN values = 1 .. Len(e.args) /\ Len(values) = Len(e.args) /\ IsList(values)
               /\ \A i \in DOMAIN e.args : values[i] = cols[i][row]
<1>. DEFINE values == ValuesAt(e, cols, row)
<1>1. IsList(e.args)
  BY TermFacts, SequenceIsList
<1>2. values = [i \in DOMAIN e.args |-> values[i]] /\ \A i \in DOMAIN e.args : values[i] = cols[i][row]
  BY DEF ValuesAt
<1>. HIDE DEF values
<1>3. IsList(values) /\ DOMAIN values = DOMAIN e.args
  BY <1>1, <1>2, MappedList
<1>4. Len(values) \in Nat /\ DOMAIN values = 1 .. Len(values)
  BY <1>3, ListFacts
<1>5. DOMAIN e.args = 1 .. Len(e.args) /\ Len(e.args) \in Nat
  BY ArgumentFacts
<1>6. Len(values) = Len(e.args)
  <2>1. PICK a, b : a = Len(values) /\ b = Len(e.args)
    OBVIOUS
  <2>2. a \in Nat /\ b \in Nat /\ 1 .. a = 1 .. b
    BY <1>3, <1>4, <1>5, <2>1
  <2>. QED
    BY ONLY <2>1, <2>2
<1>. QED
  BY <1>2, <1>3, <1>5, <1>6 DEF values

\* NOT turns the order of the truth values around.
LEMMA NotMeans ==
    ASSUME NEW x \in Truths
    PROVE  KleeneNot(x) = OfRank(2 - Rank(x))
<1>1. True # False /\ True # Null /\ False # Null
  BY TruthFacts
<1>2. CASE x = True
  BY <1>1, <1>2 DEF KleeneNot, OfRank, Rank, Truth
<1>3. CASE x = False
  BY <1>1, <1>3 DEF KleeneNot, OfRank, Rank, Truth
<1>4. CASE x = Null
  BY <1>1, <1>4 DEF KleeneNot, OfRank, Rank, Truth
<1>. QED
  BY <1>2, <1>3, <1>4 DEF Truths

\* A CASE takes the first WHEN, and those of a simple one are comparisons.
WhensTaken(e, values) ==
    {k \in 1 .. Whens(e) : IF e.op = "case" THEN values[2 * k] = True
                           ELSE values[2 * k] # Null /\ values[2 * k] = values[Len(e.args)]}
CaseChoice(e, values) ==
    IF WhensTaken(e, values) = {} THEN values[1] ELSE values[2 * Min(WhensTaken(e, values)) + 1]

LEMMA CaseChosen ==
    ASSUME NEW e \in Terms, NEW cols, NEW row, e.op \in {"case", "simple_case"}
    PROVE  /\ EvaluatedAt(e, cols, row) = CaseChoice(e, ValuesAt(e, cols, row))
           /\ Meant(e, cols, row) = CaseChoice(e, ValuesAt(e, cols, row))
<1>. DEFINE values == ValuesAt(e, cols, row)
            n == Whens(e)
            taken == WhensTaken(e, values)
<1>1. n \in Nat
  BY WhenPositions
<1>2. EvaluatedAt(e, cols, row) = EvaluateCase(n, taken, Results(values, n))
  <2>1. CASE e.op = "case"
    BY <2>1 DEF EvaluatedAt, Quantifiers, ValuesAt, WhensTaken
  <2>2. CASE e.op = "simple_case"
    BY <2>2 DEF EvaluatedAt, Quantifiers, ValuesAt, WhensTaken
  <2>. QED
    BY <2>1, <2>2
<1>3. Meant(e, cols, row) = IF taken = {} THEN values[1] ELSE values[2 * Min(taken) + 1]
  <2>. DEFINE Taken(k) == IF e.op = "case" THEN values[2 * k] = True
                          ELSE Equal(values[2 * k], values[Len(e.args)]) = True
              whens == {k \in 1 .. Whens(e) : Taken(k)}
  <2>1. Meant(e, cols, row) = IF whens = {} THEN values[1] ELSE values[2 * Min(whens) + 1]
    BY DEF Meant, Quantifiers, ValuesAt
  <2>2. \A x, y : Equal(x, y) = True <=> x # Null /\ x = y
    BY TruthFacts DEF Equal, Truth
  <2>3. whens = taken
    BY <2>2 DEF WhensTaken
  <2>. HIDE DEF whens, taken
  <2>. QED
    BY <2>1, <2>3
<1>4. taken \in SUBSET (1 .. n)
  BY DEF WhensTaken
<1>5. \A m \in taken : m \in 0 .. n
  <2>1. \A m \in taken : m \in 1 .. n
    BY <1>4
  <2>. HIDE DEF taken, n
  <2>. QED
    BY <1>1, <2>1
<1>. HIDE DEF values, taken, n
<1>6. EvaluateCase(n, taken, Results(values, n)) =
        IF taken = {} THEN Results(values, n)[0] ELSE Results(values, n)[Min(taken)]
  BY <1>1, <1>4, CaseMeans
<1>7. \A k \in 0 .. n : Results(values, n)[k] = values[2 * k + 1]
  BY DEF Results
<1>8. Results(values, n)[0] = values[1]
  <2>1. 0 \in 0 .. n /\ 2 * 0 + 1 = 1
    BY <1>1
  <2>. QED
    BY <1>7, <2>1
<1>9. taken # {} => Results(values, n)[Min(taken)] = values[2 * Min(taken) + 1]
  <2>1. taken \in SUBSET Nat
    BY <1>1, <1>5
  <2>2. taken # {} => Min(taken) \in taken
    BY <2>1, MinOfNaturals
  <2>. QED
    BY <1>5, <1>7, <2>2
<1>. QED
  BY <1>2, <1>3, <1>6, <1>8, <1>9 DEF values, taken, CaseChoice

\* On one row, an evaluator gives what an expression means from what its
\* arguments mean.
LEMMA PlainEvaluatorMeans ==
    ASSUME NEW e \in Terms, e.op \notin Quantifiers, NEW row \in Bindings, NEW cols,
           e.op \in Connectives => \A i \in DOMAIN e.args : cols[i][row] \in Truths
    PROVE  EvaluatedAt(e, cols, row) = Meant(e, cols, row)
<1>. DEFINE values == ValuesAt(e, cols, row)
<1>1. DOMAIN values = 1 .. Len(e.args) /\ Len(values) = Len(e.args) /\ \A i \in DOMAIN e.args : values[i] = cols[i][row]
  BY ValuesFacts
<1>2. DOMAIN e.args = 1 .. Len(e.args) /\ Len(e.args) \in Nat
  BY ArgumentFacts
<1>. HIDE DEF values
<1>3. CASE e.op \in {"property", "literal"}
  BY <1>3 DEF EvaluatedAt, Quantifiers, Meant
<1>4. CASE e.op = "compare"
  <2>1. EvaluatedAt(e, cols, row) = EvaluateComparison(e.of, values[1], values[2])
    BY <1>4 DEF EvaluatedAt, Quantifiers, ValuesAt, values
  <2>2. Meant(e, cols, row) = IF Null \in {values[1], values[2]} THEN Null ELSE Truth(Compares(e.of, values[1], values[2]))
    BY <1>4 DEF Meant, Quantifiers, ValuesAt, values
  <2>. QED
    BY <2>1, <2>2 DEF EvaluateComparison
<1>5. CASE e.op \in {"and", "or", "xor"}
  <2>1. EvaluatedAt(e, cols, row) = Chained(e.op, values)
    BY <1>5 DEF EvaluatedAt, Quantifiers, ValuesAt, values
  <2>2. Meant(e, cols, row) =
          CASE e.op = "and" -> OfRank(Min({Rank(values[i]) : i \in DOMAIN values}))
            [] e.op = "or" -> OfRank(Max({Rank(values[i]) : i \in DOMAIN values}))
            [] e.op = "xor" -> IF Null \in Range(values) THEN Null
                               ELSE Truth(Cardinality({i \in DOMAIN values : values[i] = True}) % 2 = 1)
    <3>1. CASE e.op = "and"
      BY <3>1 DEF Meant, Quantifiers, ValuesAt, values
    <3>2. CASE e.op = "or"
      BY <3>2 DEF Meant, Quantifiers, ValuesAt, values
    <3>3. CASE e.op = "xor"
      BY <3>3 DEF Meant, Quantifiers, ValuesAt, values
    <3>. QED
      BY <1>5, <3>1, <3>2, <3>3
  <2>3. PICK n \in Nat : n = Len(e.args)
    BY <1>2
  <2>4. n >= 1 /\ DOMAIN values = 1 .. n /\ Len(values) = n /\ \A i \in 1 .. n : values[i] \in Truths
    BY <1>1, <1>2, <1>5, <2>3, ArgumentFacts DEF Connectives
  <2>5. /\ Chained("and", values) = OfRank(Min({Rank(values[i]) : i \in DOMAIN values}))
        /\ Chained("or", values) = OfRank(Max({Rank(values[i]) : i \in DOMAIN values}))
        /\ Chained("xor", values) =
             IF Null \in Range(values) THEN Null
             ELSE Truth(Cardinality({i \in DOMAIN values : values[i] = True}) % 2 = 1)
    BY <2>4, ChainMeans
  <2>6. CASE e.op = "and"
    BY <2>1, <2>2, <2>5, <2>6
  <2>7. CASE e.op = "or"
    BY <2>1, <2>2, <2>5, <2>7
  <2>8. CASE e.op = "xor"
    BY <2>1, <2>2, <2>5, <2>8
  <2>. QED
    BY <1>5, <2>6, <2>7, <2>8
<1>6. CASE e.op = "not"
  <2>1. EvaluatedAt(e, cols, row) = KleeneNot(values[1]) /\ Meant(e, cols, row) = OfRank(2 - Rank(values[1]))
    BY <1>6 DEF EvaluatedAt, Quantifiers, Meant, ValuesAt, values
  <2>2. values[1] \in Truths
    BY <1>1, <1>2, <1>6, ArgumentFacts DEF Connectives
  <2>. QED
    BY <2>1, <2>2, NotMeans
<1>7. CASE e.op \in {"is_null", "is_not_null"}
  BY <1>7 DEF EvaluatedAt, Quantifiers, Meant
<1>8. CASE e.op \in {"in", "not_in"}
  <2>1. InList(values[1], e.of) = Among(values[1], e.of) /\ InList(values[1], e.of) \in Truths
    BY <1>8, ArgumentFacts, InListMeans
  <2>2. CASE e.op = "in"
    <3>1. EvaluatedAt(e, cols, row) = InList(values[1], e.of) /\ Meant(e, cols, row) = Among(values[1], e.of)
      BY <2>2 DEF EvaluatedAt, Quantifiers, Meant, ValuesAt, values
    <3>. QED
      BY <2>1, <3>1
  <2>3. CASE e.op = "not_in"
    <3>1. /\ EvaluatedAt(e, cols, row) = KleeneNot(InList(values[1], e.of))
          /\ Meant(e, cols, row) = OfRank(2 - Rank(Among(values[1], e.of)))
      BY <2>3 DEF EvaluatedAt, Quantifiers, Meant, ValuesAt, values
    <3>. QED
      BY <2>1, <3>1, NotMeans
  <2>. QED
    BY <1>8, <2>2, <2>3
<1>9. CASE e.op \in {"case", "simple_case"}
  BY <1>9, CaseChosen
<1>. QED
  BY <1>3, <1>4, <1>5, <1>6, <1>7, <1>8, <1>9, ArgumentFacts

\* And, counting, what a quantifier comes to.
LEMMA EvaluatorMeans ==
    ASSUME NEW e \in Terms, NEW row \in Bindings, NEW cols,
           e.op \in Connectives => \A i \in DOMAIN e.args : cols[i][row] \in Truths
    PROVE  EvaluatedAt(e, cols, row) = CountedAt(e, cols, row)
<1>1. CASE e.op \in Quantifiers
  BY <1>1 DEF EvaluatedAt, CountedAt, Quantifiers
<1>2. CASE e.op \notin Quantifiers
  <2>1. EvaluatedAt(e, cols, row) = Meant(e, cols, row)
    BY <1>2, PlainEvaluatorMeans
  <2>. QED
    BY <1>2, <2>1 DEF CountedAt
<1>. QED
  BY <1>1, <1>2

--------------------------------------------------------------------------------
\* Counting gives what a quantifier means, unless that is unknown.
LEMMA QuantifierKnown ==
    ASSUME NEW kind \in Quantifiers, NEW matches, IsList(matches), QuantifierMeant(kind, matches) # Null
    PROVE  EvaluateQuantifier(kind, matches) = QuantifierMeant(kind, matches)
<1>. DEFINE matching == {i \in DOMAIN matches : matches[i] = True}
            unknown == {i \in DOMAIN matches : matches[i] = Null}
            failing == DOMAIN matches \ (matching \union unknown)
<1>1. matching \in SUBSET DOMAIN matches /\ \A i \in DOMAIN matches : i \in matching <=> matches[i] = True
  OBVIOUS
<1>2. matching = DOMAIN matches <=> failing = {} /\ unknown = {}
  BY TruthFacts
<1>3. kind = "any" => QuantifierMeant(kind, matches) =
                        IF matching # {} THEN True ELSE IF unknown # {} THEN Null ELSE False
  BY DEF QuantifierMeant
<1>4. kind = "all" => QuantifierMeant(kind, matches) =
                        IF failing # {} THEN False ELSE IF unknown # {} THEN Null ELSE True
  BY DEF QuantifierMeant
<1>5. kind = "none" => QuantifierMeant(kind, matches) =
                         IF matching # {} THEN False ELSE IF unknown # {} THEN Null ELSE True
  BY DEF QuantifierMeant
<1>6. kind = "single" => QuantifierMeant(kind, matches) =
                           IF Cardinality(matching) > 1 THEN False
                           ELSE IF unknown # {} THEN Null ELSE Truth(Cardinality(matching) = 1)
  BY DEF QuantifierMeant
<1>. HIDE DEF matching, unknown, failing
<1>7. /\ kind = "any" => EvaluateQuantifier(kind, matches) = Truth(matching # {})
      /\ kind = "all" => EvaluateQuantifier(kind, matches) = Truth(matching = DOMAIN matches)
      /\ kind = "none" => EvaluateQuantifier(kind, matches) = Truth(matching = {})
      /\ kind = "single" => EvaluateQuantifier(kind, matches) = Truth(Cardinality(matching) = 1)
  BY <1>1, QuantifierMeans
<1>8. kind = "any" \/ kind = "all" \/ kind = "none" \/ kind = "single"
  BY DEF Quantifiers
<1>9. \A b \in BOOLEAN : Truth(b) = IF b THEN True ELSE False
  BY DEF Truth
<1>10. CASE kind = "any"
  BY <1>3, <1>7, <1>9, <1>10
<1>11. CASE kind = "all"
  BY <1>2, <1>4, <1>7, <1>9, <1>11
<1>12. CASE kind = "none"
  BY <1>5, <1>7, <1>9, <1>12
<1>13. CASE kind = "single"
  <2>1. PICK c : c = Cardinality(matching)
    OBVIOUS
  <2>2. c = 1 => ~(c > 1)
    OBVIOUS
  <2>. QED
    BY <1>6, <1>7, <1>9, <1>13, <2>1, <2>2
<1>. QED
  BY <1>8, <1>10, <1>11, <1>12, <1>13

\* Without a quantifier, what the arguments are on the row decides.
LEMMA MeantOfValues ==
    ASSUME NEW e \in Terms, e.op \notin Quantifiers, NEW row, NEW one, NEW other,
           ValuesAt(e, one, row) = ValuesAt(e, other, row)
    PROVE  Meant(e, one, row) = Meant(e, other, row)
<1>1. PICK v : v = ValuesAt(e, one, row) /\ v = ValuesAt(e, other, row)
  OBVIOUS
<1>2. CASE e.op \in {"case", "simple_case"}
  BY <1>2, CaseChosen
<1>3. CASE e.op \in {"and", "or"}
  <2>. DEFINE result == IF e.op = "and" THEN OfRank(Min({Rank(v[i]) : i \in DOMAIN v}))
                                         ELSE OfRank(Max({Rank(v[i]) : i \in DOMAIN v}))
  <2>1. ASSUME NEW c, v = ValuesAt(e, c, row) PROVE Meant(e, c, row) = result
    <3>1. CASE e.op = "and"
      BY <2>1, <3>1 DEF Meant, Quantifiers, ValuesAt
    <3>2. CASE e.op = "or"
      BY <2>1, <3>2 DEF Meant, Quantifiers, ValuesAt
    <3>. QED
      BY <1>3, <3>1, <3>2
  <2>. HIDE DEF result
  <2>. QED
    BY <1>1, <2>1
<1>4. CASE e.op = "xor"
  <2>. DEFINE result == IF Null \in Range(v) THEN Null
                        ELSE Truth(Cardinality({i \in DOMAIN v : v[i] = True}) % 2 = 1)
  <2>1. ASSUME NEW c, v = ValuesAt(e, c, row) PROVE Meant(e, c, row) = result
    BY <1>4, <2>1 DEF Meant, Quantifiers, ValuesAt
  <2>. HIDE DEF result
  <2>. QED
    BY <1>1, <2>1
<1>5. CASE e.op \in {"not", "compare", "in", "not_in", "is_null", "is_not_null"}
  <2>1. v = [i \in DOMAIN e.args |-> one[i][row]] /\ v = [i \in DOMAIN e.args |-> other[i][row]]
    BY <1>1 DEF ValuesAt
  <2>. QED
    BY <1>5, <2>1 DEF Meant, Quantifiers
<1>6. CASE e.op \in {"property", "literal"}
  BY <1>6 DEF Meant, Quantifiers
<1>. QED
  BY <1>2, <1>3, <1>4, <1>5, <1>6, ArgumentFacts

\* Where no quantifier is unknown, counting gives what an expression means.
LEMMA DecidedMeans ==
    \A e \in Terms : \A row \in Bindings : Decided[e][row] => Counted[e][row] = Meaning[e][row]
<1>. DEFINE Same(x) == \A row \in Bindings : Decided[x][row] => Counted[x][row] = Meaning[x][row]
            P == {x \in Terms : Same(x)}
<1>1. ASSUME NEW x \in Terms, \A i \in DOMAIN x.args : x.args[i] \in P PROVE x \in P
  <2>1. \A i \in DOMAIN x.args : Same(x.args[i]) /\ x.args[i] \in Terms
    BY <1>1
  <2>. SUFFICES ASSUME NEW row \in Bindings, Decided[x][row] PROVE Counted[x][row] = Meaning[x][row]
    OBVIOUS
  <2>2. DecidedAt(x, Meaning[x], Of(Decided, x), row)
    BY DecidedFacts
  <2>3. Counted[x][row] = CountedAt(x, Of(Counted, x), row) /\ Meaning[x][row] = Meant(x, Of(Meaning, x), row)
    BY CountedFacts, MeaningFacts
  <2>4. CASE x.op \in Quantifiers
    <3>1. 1 \in DOMAIN x.args /\ IsList(x.of)
      BY <2>4, ArgumentFacts
    <3>2. PICK y : y = x.args[1] /\ y \in Terms /\ Same(y)
      BY <2>1, <3>1
    <3>3. Of(Decided, x)[1] = Decided[y] /\ Of(Counted, x)[1] = Counted[y] /\ Of(Meaning, x)[1] = Meaning[y]
      BY <3>1, <3>2 DEF Of
    <3>4. \A i \in DOMAIN x.of : WithElement(row, x, i) \in Bindings /\ Decided[y][WithElement(row, x, i)]
      <4>1. \A i \in DOMAIN x.of : WithElement(row, x, i) \in Bindings
        BY <2>4, ExpressionAssumption DEF WithElement
      <4>2. \A i \in DOMAIN x.of : Of(Decided, x)[1][WithElement(row, x, i)]
        BY <2>2, <2>4 DEF DecidedAt
      <4>. QED
        BY <3>3, <4>1, <4>2
    <3>5. \A i \in DOMAIN x.of : Counted[y][WithElement(row, x, i)] = Meaning[y][WithElement(row, x, i)]
      BY <3>2, <3>4
    <3>6. PICK m : m = [i \in DOMAIN x.of |-> Meaning[y][WithElement(row, x, i)]]
      OBVIOUS
    <3>7. [i \in DOMAIN x.of |-> Counted[y][WithElement(row, x, i)]] = m
      BY <3>5, <3>6
    <3>8. Meaning[x][row] = QuantifierMeant(x.op, m)
      BY <2>3, <2>4, <3>3, <3>6 DEF Meant, Quantifiers
    <3>9. Counted[x][row] = EvaluateQuantifier(x.op, m)
      BY <2>3, <2>4, <3>3, <3>7 DEF CountedAt
    <3>10. Meaning[x][row] # Null
      BY <2>2, <2>4 DEF DecidedAt
    <3>11. IsList(m)
      BY <3>1, <3>6, MappedList
    <3>. QED
      BY <2>4, <3>8, <3>9, <3>10, <3>11, QuantifierKnown
  <2>5. CASE x.op \notin Quantifiers
    <3>1. \A i \in DOMAIN x.args : Decided[x.args[i]][row]
      BY <2>2, <2>5 DEF DecidedAt, Of
    <3>2. \A i \in DOMAIN x.args : Counted[x.args[i]][row] = Meaning[x.args[i]][row]
      BY <2>1, <3>1
    <3>3. ValuesAt(x, Of(Counted, x), row) = ValuesAt(x, Of(Meaning, x), row)
      BY <3>2 DEF ValuesAt, Of
    <3>4. CountedAt(x, Of(Counted, x), row) = Meant(x, Of(Counted, x), row)
      BY <2>5 DEF CountedAt
    <3>. QED
      BY <2>3, <2>5, <3>3, <3>4, MeantOfValues
  <2>. QED
    BY <2>4, <2>5
<1>2. Terms \subseteq P
  <2>. HIDE DEF P
  <2>. QED
    BY <1>1, TermInduction
<1>. QED
  BY <1>2

--------------------------------------------------------------------------------
\* What expressions mean obeys the evaluators' rule, and nothing else does.
LEMMA CountedEvaluates ==
    ASSUME NEW e \in Terms
    PROVE  EvaluatedColumn(e, Of(Counted, e)) = Counted[e]
<1>1. \A row \in Bindings : EvaluatedAt(e, Of(Counted, e), row) = CountedAt(e, Of(Counted, e), row)
  <2>. SUFFICES ASSUME NEW row \in Bindings
                PROVE  EvaluatedAt(e, Of(Counted, e), row) = CountedAt(e, Of(Counted, e), row)
    OBVIOUS
  <2>1. e.op \in Connectives => \A i \in DOMAIN e.args : Of(Counted, e)[i][row] \in Truths
    <3>. SUFFICES ASSUME e.op \in Connectives, NEW i \in DOMAIN e.args PROVE Of(Counted, e)[i][row] \in Truths
      OBVIOUS
    <3>1. e.args[i] \in Terms /\ Logical(e.args[i])
      BY TermFacts, ArgumentFacts
    <3>2. Of(Counted, e)[i] = Counted[e.args[i]]
      BY DEF Of
    <3>. QED
      BY <3>1, <3>2, CountedFacts
  <2>. QED
    BY <2>1, EvaluatorMeans
<1>. QED
  BY <1>1, CountedFacts DEF EvaluatedColumn, CountedColumn

LEMMA EvaluatesCounted == \A e \in Terms : Evaluate[e] = Counted[e]
<1>. DEFINE One(f) == f = [e \in Terms |-> EvaluatedColumn(e, [i \in DOMAIN e.args |-> f[e.args[i]]])]
<1>1. One(Counted)
  <2>1. \A e \in Terms : Counted[e] = EvaluatedColumn(e, [i \in DOMAIN e.args |-> Counted[e.args[i]]])
    BY CountedEvaluates DEF Of
  <2>2. Counted = [e \in Terms |-> Counted[e]]
    BY CountedFacts
  <2>3. PICK m : m = Counted
    OBVIOUS
  <2>4. m = [e \in Terms |-> EvaluatedColumn(e, [i \in DOMAIN e.args |-> m[e.args[i]]])]
    BY <2>1, <2>2, <2>3
  <2>. QED
    BY <2>3, <2>4
<1>2. Evaluate = CHOOSE f : One(f)
  BY DEF Evaluate
<1>3. One(Evaluate)
  <2>1. \E f : One(f)
    <3>. HIDE DEF One
    <3>. QED
      BY <1>1
  <2>. HIDE DEF One
  <2>. QED
    BY <1>2, <2>1
<1>4. ASSUME NEW e \in Terms PROVE Evaluate[e] = EvaluatedColumn(e, Of(Evaluate, e))
  <2>1. PICK f : f = Evaluate
    OBVIOUS
  <2>2. f = [x \in Terms |-> EvaluatedColumn(x, [i \in DOMAIN x.args |-> f[x.args[i]]])]
    BY <1>3, <2>1
  <2>3. f[e] = EvaluatedColumn(e, [i \in DOMAIN e.args |-> f[e.args[i]]])
    BY <2>2
  <2>. QED
    BY <2>1, <2>3 DEF Of
<1>. HIDE DEF One
<1>. DEFINE P == {e \in Terms : Evaluate[e] = Counted[e]}
<1>5. ASSUME NEW e \in Terms, \A i \in DOMAIN e.args : e.args[i] \in P PROVE e \in P
  <2>1. \A i \in DOMAIN e.args : Evaluate[e.args[i]] = Counted[e.args[i]]
    BY <1>5
  <2>2. Of(Evaluate, e) = Of(Counted, e)
    BY <2>1 DEF Of
  <2>. QED
    BY <1>4, <2>2, CountedEvaluates
<1>6. Terms \subseteq P
  <2>. HIDE DEF P
  <2>. QED
    BY <1>5, TermInduction
<1>. QED
  BY <1>6

--------------------------------------------------------------------------------
\* What is compiled, what has an IN, and what an AND is made of.
CompilesFrom(e, parts) ==
    /\ e.op \in {"property", "literal", "compare", "and", "or", "not", "is_null", "is_not_null",
                 "case", "simple_case"}
    /\ e.op = "literal" => e.of # Null
    /\ \A i \in DOMAIN e.args : parts[i] = TRUE

LEMMA CompilesFacts ==
    ASSUME NEW e \in Terms
    PROVE  Compiles[e] \in BOOLEAN /\ (Compiles[e] <=> CompilesFrom(e, Of(Compiles, e)))
<1>. DEFINE One(f) ==
       f = [x \in Terms |->
              /\ x.op \in {"property", "literal", "compare", "and", "or", "not", "is_null", "is_not_null",
                           "case", "simple_case"}
              /\ x.op = "literal" => x.of # Null
              /\ \A i \in DOMAIN x.args : f[x.args[i]]]
     step == [x \in Terms |-> [s \in [DOMAIN x.args -> BOOLEAN] |-> CompilesFrom(x, s)]]
<1>1. ASSUME NEW x \in Terms, NEW s \in [DOMAIN x.args -> BOOLEAN] PROVE step[x][s] \in BOOLEAN
  BY DEF CompilesFrom
<1>2. \E f \in [Terms -> BOOLEAN] : Follows(f, Terms, step)
  <2>. HIDE DEF step
  <2>. QED
    BY <1>1, TermRecursion
<1>3. PICK f \in [Terms -> BOOLEAN] : Follows(f, Terms, step)
  BY <1>2
<1>4. ASSUME NEW x \in Terms PROVE f[x] = CompilesFrom(x, Of(f, x))
  <2>1. Of(f, x) \in [DOMAIN x.args -> BOOLEAN]
    BY TermFacts DEF Of
  <2>. QED
    BY <1>3, <2>1 DEF Follows
<1>. HIDE DEF step
<1>5. One(f)
  <2>1. ASSUME NEW x \in Terms
        PROVE  f[x] = (/\ x.op \in {"property", "literal", "compare", "and", "or", "not", "is_null", "is_not_null",
                           "case", "simple_case"}
                       /\ x.op = "literal" => x.of # Null
                       /\ \A i \in DOMAIN x.args : f[x.args[i]])
    <3>1. \A i \in DOMAIN x.args : f[x.args[i]] \in BOOLEAN
      BY TermFacts
    <3>2. \A i \in DOMAIN x.args : (Of(f, x)[i] = TRUE) <=> f[x.args[i]]
      BY <3>1 DEF Of
    <3>. QED
      BY <1>4, <3>2 DEF CompilesFrom
  <2>2. f = [x \in Terms |-> f[x]]
    BY <1>3
  <2>. QED
    BY <2>1, <2>2
<1>6. Compiles = CHOOSE g : One(g)
  BY DEF Compiles
<1>7. One(Compiles)
  <2>1. \E g : One(g)
    <3>. HIDE DEF One
    <3>. QED
      BY <1>5
  <2>. HIDE DEF One
  <2>. QED
    BY <1>6, <2>1
<1>8. PICK g : g = Compiles
  OBVIOUS
<1>9. ASSUME NEW x \in Terms
      PROVE  /\ g[x] \in BOOLEAN
             /\ g[x] <=> (/\ x.op \in {"property", "literal", "compare", "and", "or", "not", "is_null", "is_not_null",
                           "case", "simple_case"}
                          /\ x.op = "literal" => x.of # Null
                          /\ \A i \in DOMAIN x.args : g[x.args[i]])
  <2>1. One(g)
    BY <1>7, <1>8
  <2>. QED
    BY <2>1
<1>10. \A i \in DOMAIN e.args : (Of(g, e)[i] = TRUE) <=> g[e.args[i]]
  <2>1. \A i \in DOMAIN e.args : g[e.args[i]] \in BOOLEAN
    BY <1>9, TermFacts
  <2>. QED
    BY <2>1 DEF Of
<1>. QED
  BY <1>8, <1>9, <1>10 DEF CompilesFrom

HasInFrom(e, parts) ==
    \/ e.op \in {"in", "not_in"}
    \/ e.op \notin Quantifiers /\ \E i \in DOMAIN e.args : parts[i] = TRUE

LEMMA HasInFacts ==
    ASSUME NEW e \in Terms
    PROVE  HasIn[e] \in BOOLEAN /\ (HasIn[e] <=> HasInFrom(e, Of(HasIn, e)))
<1>. DEFINE One(f) ==
       f = [x \in Terms |-> \/ x.op \in {"in", "not_in"}
                            \/ x.op \notin Quantifiers /\ \E i \in DOMAIN x.args : f[x.args[i]]]
     step == [x \in Terms |-> [s \in [DOMAIN x.args -> BOOLEAN] |-> HasInFrom(x, s)]]
<1>1. ASSUME NEW x \in Terms, NEW s \in [DOMAIN x.args -> BOOLEAN] PROVE step[x][s] \in BOOLEAN
  BY DEF HasInFrom
<1>2. \E f \in [Terms -> BOOLEAN] : Follows(f, Terms, step)
  <2>. HIDE DEF step
  <2>. QED
    BY <1>1, TermRecursion
<1>3. PICK f \in [Terms -> BOOLEAN] : Follows(f, Terms, step)
  BY <1>2
<1>4. ASSUME NEW x \in Terms PROVE f[x] = HasInFrom(x, Of(f, x))
  <2>1. Of(f, x) \in [DOMAIN x.args -> BOOLEAN]
    BY TermFacts DEF Of
  <2>. QED
    BY <1>3, <2>1 DEF Follows
<1>. HIDE DEF step
<1>5. One(f)
  <2>1. ASSUME NEW x \in Terms
        PROVE  f[x] = (\/ x.op \in {"in", "not_in"}
                       \/ x.op \notin Quantifiers /\ \E i \in DOMAIN x.args : f[x.args[i]])
    <3>1. \A i \in DOMAIN x.args : f[x.args[i]] \in BOOLEAN
      BY TermFacts
    <3>2. \A i \in DOMAIN x.args : (Of(f, x)[i] = TRUE) <=> f[x.args[i]]
      BY <3>1 DEF Of
    <3>. QED
      BY <1>4, <3>2 DEF HasInFrom
  <2>2. f = [x \in Terms |-> f[x]]
    BY <1>3
  <2>. QED
    BY <2>1, <2>2
<1>6. HasIn = CHOOSE g : One(g)
  BY DEF HasIn
<1>7. One(HasIn)
  <2>1. \E g : One(g)
    <3>. HIDE DEF One
    <3>. QED
      BY <1>5
  <2>. HIDE DEF One
  <2>. QED
    BY <1>6, <2>1
<1>8. PICK g : g = HasIn
  OBVIOUS
<1>9. ASSUME NEW x \in Terms
      PROVE  /\ g[x] \in BOOLEAN
             /\ g[x] <=> (\/ x.op \in {"in", "not_in"}
                          \/ x.op \notin Quantifiers /\ \E i \in DOMAIN x.args : g[x.args[i]])
  <2>1. One(g)
    BY <1>7, <1>8
  <2>. QED
    BY <2>1
<1>10. \A i \in DOMAIN e.args : (Of(g, e)[i] = TRUE) <=> g[e.args[i]]
  <2>1. \A i \in DOMAIN e.args : g[e.args[i]] \in BOOLEAN
    BY <1>9, TermFacts
  <2>. QED
    BY <2>1 DEF Of
<1>. QED
  BY <1>8, <1>9, <1>10 DEF HasInFrom

\* A list of sequences of expressions is flattened to one.
LEMMA FlattenedTerms ==
    ASSUME NEW ss, IsList(ss), \A i \in DOMAIN ss : ss[i] \in Seq(Terms)
    PROVE  /\ FlattenSeq(ss) \in Seq(Terms)
           /\ \A x : x \in Range(FlattenSeq(ss)) <=> \E i \in DOMAIN ss : x \in Range(ss[i])
<1>1. \A i \in DOMAIN ss : IsList(ss[i]) /\ Range(ss[i]) \subseteq Terms
  BY SequenceIsList
<1>2. IsList(FlattenSeq(ss))
  BY <1>1, FlattenedIsList
<1>3. \A x : x \in Range(FlattenSeq(ss)) <=> \E i \in DOMAIN ss : x \in Range(ss[i])
  BY <1>1, FlattenedRange
<1>4. Range(FlattenSeq(ss)) \subseteq Terms
  BY <1>1, <1>3
<1>5. FlattenSeq(ss) \in Seq(Terms)
  <2>1. PICK s : s = FlattenSeq(ss)
    OBVIOUS
  <2>2. s \in Seq(Range(s)) /\ Range(s) \subseteq Terms
    BY <1>2, <1>4, <2>1 DEF IsList
  <2>3. s \in Seq(Terms)
    BY <2>2
  <2>. QED
    BY <2>1, <2>3
<1>. QED
  BY <1>3, <1>5

LEMMA SplitFacts ==
    ASSUME NEW e \in Terms
    PROVE  /\ SplitConjuncts[e] \in Seq(Terms)
           /\ e.op # "and" => SplitConjuncts[e] = <<e>>
           /\ e.op = "and" => \A x : x \in Range(SplitConjuncts[e]) <=>
                                     \E i \in DOMAIN e.args : x \in Range(SplitConjuncts[e.args[i]])
<1>. DEFINE V == Seq(Terms)
            From(x, parts) == IF x.op # "and" THEN <<x>> ELSE FlattenSeq(parts)
            One(f) == f = [x \in Terms |-> IF x.op # "and" THEN <<x>>
                                           ELSE FlattenSeq([i \in DOMAIN x.args |-> f[x.args[i]]])]
            step == [x \in Terms |-> [s \in [DOMAIN x.args -> V] |-> From(x, s)]]
<1>0. ASSUME NEW x \in Terms, NEW s \in [DOMAIN x.args -> V] PROVE IsList(s)
  <2>1. IsList(x.args)
    BY TermFacts, SequenceIsList
  <2>2. s = [i \in DOMAIN x.args |-> s[i]]
    OBVIOUS
  <2>. QED
    BY <2>1, <2>2, MappedList
<1>1. ASSUME NEW x \in Terms, NEW s \in [DOMAIN x.args -> V] PROVE step[x][s] \in V
  <2>1. FlattenSeq(s) \in V
    BY <1>0, FlattenedTerms
  <2>2. <<x>> \in V
    OBVIOUS
  <2>. QED
    BY <2>1, <2>2
<1>. HIDE DEF V
<1>2. \E f \in [Terms -> V] : Follows(f, Terms, step)
  <2>. HIDE DEF step
  <2>. QED
    BY <1>1, TermRecursion
<1>3. PICK f \in [Terms -> V] : Follows(f, Terms, step)
  BY <1>2
<1>4. ASSUME NEW x \in Terms PROVE f[x] = From(x, Of(f, x))
  <2>1. Of(f, x) \in [DOMAIN x.args -> V]
    BY TermFacts DEF Of
  <2>. QED
    BY <1>3, <2>1 DEF Follows
<1>. HIDE DEF step
<1>5. One(f)
  <2>1. f = [x \in Terms |-> f[x]]
    BY <1>3
  <2>. QED
    BY <1>4, <2>1 DEF Of
<1>6. SplitConjuncts = CHOOSE g : One(g)
  BY DEF SplitConjuncts
<1>7. One(SplitConjuncts)
  <2>1. \E g : One(g)
    <3>. HIDE DEF One
    <3>. QED
      BY <1>5
  <2>. HIDE DEF One
  <2>. QED
    BY <1>6, <2>1
<1>8. PICK g : g = SplitConjuncts
  OBVIOUS
<1>9. ASSUME NEW x \in Terms PROVE g[x] = From(x, Of(g, x))
  <2>1. g = [y \in Terms |-> IF y.op # "and" THEN <<y>>
                             ELSE FlattenSeq([i \in DOMAIN y.args |-> g[y.args[i]]])]
    BY <1>7, <1>8
  <2>. QED
    BY <2>1 DEF Of
<1>. HIDE DEF One
<1>. DEFINE P == {x \in Terms : g[x] \in V}
<1>10. ASSUME NEW x \in Terms, \A i \in DOMAIN x.args : x.args[i] \in P PROVE x \in P
  <2>1. Of(g, x) \in [DOMAIN x.args -> V]
    BY <1>10 DEF Of
  <2>2. From(x, Of(g, x)) \in V
    <3>1. FlattenSeq(Of(g, x)) \in V
      BY <1>0, <2>1, FlattenedTerms DEF V
    <3>2. <<x>> \in V
      BY DEF V
    <3>. QED
      BY <3>1, <3>2
  <2>. QED
    BY <1>9, <2>2
<1>11. Terms \subseteq P
  <2>. HIDE DEF P
  <2>. QED
    BY <1>10, TermInduction
<1>12. Of(g, e) \in [DOMAIN e.args -> V]
  BY <1>11, TermFacts DEF Of
<1>13. \A x : x \in Range(FlattenSeq(Of(g, e))) <=> \E i \in DOMAIN e.args : x \in Range(g[e.args[i]])
  <2>1. IsList(Of(g, e)) /\ DOMAIN Of(g, e) = DOMAIN e.args /\ \A i \in DOMAIN e.args : Of(g, e)[i] = g[e.args[i]] /\ Of(g, e)[i] \in Seq(Terms)
    BY <1>0, <1>12 DEF Of, V
  <2>2. \A x : x \in Range(FlattenSeq(Of(g, e))) <=> \E i \in DOMAIN e.args : x \in Range(Of(g, e)[i])
    BY <2>1, FlattenedTerms
  <2>. QED
    BY <2>1, <2>2
<1>14. g[e] \in V /\ g[e] = From(e, Of(g, e))
  BY <1>9, <1>11
<1>. QED
  BY <1>8, <1>13, <1>14 DEF V

--------------------------------------------------------------------------------
\* A predicate is true where each of its conjuncts is.
LEMMA AndIsTrue ==
    ASSUME NEW e \in Terms, e.op = "and", NEW row \in Bindings
    PROVE  Counted[e][row] = True <=> \A i \in DOMAIN e.args : Counted[e.args[i]][row] = True
<1>. DEFINE cols == Of(Counted, e)
            values == ValuesAt(e, cols, row)
<1>1. PICK n \in Nat : n = Len(e.args) /\ DOMAIN e.args = 1 .. n /\ n >= 1
  BY ArgumentFacts
<1>2. \A i \in DOMAIN e.args : values[i] = Counted[e.args[i]][row] /\ values[i] \in Truths
  <2>. SUFFICES ASSUME NEW i \in DOMAIN e.args PROVE values[i] = Counted[e.args[i]][row] /\ values[i] \in Truths
    OBVIOUS
  <2>1. e.args[i] \in Terms /\ Logical(e.args[i])
    BY TermFacts, ArgumentFacts DEF Connectives
  <2>2. values[i] = Counted[e.args[i]][row]
    BY DEF Of, ValuesAt
  <2>. QED
    BY <2>1, <2>2, CountedFacts
<1>3. DOMAIN values = 1 .. n /\ Len(values) = n
  BY <1>1, ValuesFacts
<1>4. Counted[e][row] = OfRank(Min({Rank(values[i]) : i \in DOMAIN values}))
  <2>1. Counted[e][row] = CountedAt(e, cols, row)
    BY CountedFacts
  <2>2. CountedAt(e, cols, row) = Meant(e, cols, row)
    BY DEF CountedAt, Quantifiers
  <2>. QED
    BY <2>1, <2>2 DEF Meant, Quantifiers, ValuesAt
<1>. HIDE DEF values
<1>5. PICK lo : lo = Min({Rank(values[i]) : i \in DOMAIN values})
  OBVIOUS
<1>6. lo \in {0, 1, 2} /\ (lo = 0 <=> False \in Range(values)) /\ (lo = 1 <=> False \notin Range(values) /\ Null \in Range(values))
  BY <1>1, <1>2, <1>3, <1>5, ChainMeans
<1>7. True # False /\ True # Null /\ False # Null
  BY TruthFacts
<1>8. OfRank(lo) = True <=> False \notin Range(values) /\ Null \notin Range(values)
  BY <1>6, <1>7 DEF OfRank
<1>9. \A x : x \in Range(values) <=> \E i \in 1 .. n : values[i] = x
  BY <1>3 DEF Range
<1>10. OfRank(lo) = True <=> \A i \in 1 .. n : values[i] = True
  BY <1>1, <1>2, <1>7, <1>8, <1>9 DEF Truths
<1>. QED
  BY <1>1, <1>2, <1>4, <1>5, <1>10

LEMMA ConjunctsMean ==
    ASSUME NEW e \in Terms
    PROVE  /\ \A row \in Bindings :
                Counted[e][row] = True <=> \A c \in Range(SplitConjuncts[e]) : Counted[c][row] = True
           /\ \A c \in Range(SplitConjuncts[e]) : HasIn[c] => HasIn[e]
<1>. DEFINE Same(x) == \A row \in Bindings :
                         Counted[x][row] = True <=> \A c \in Range(SplitConjuncts[x]) : Counted[c][row] = True
            Within(x) == \A c \in Range(SplitConjuncts[x]) : HasIn[c] => HasIn[x]
            P == {x \in Terms : Same(x) /\ Within(x)}
<1>1. ASSUME NEW x \in Terms, \A i \in DOMAIN x.args : x.args[i] \in P PROVE x \in P
  <2>1. CASE x.op # "and"
    <3>1. \A c : c \in Range(SplitConjuncts[x]) <=> c = x
      <4>1. SplitConjuncts[x] = <<x>>
        BY <2>1, SplitFacts
      <4>. QED
        BY <4>1 DEF Range
    <3>. QED
      BY <3>1
  <2>2. CASE x.op = "and"
    <3>1. \A c : c \in Range(SplitConjuncts[x]) <=> \E i \in DOMAIN x.args : c \in Range(SplitConjuncts[x.args[i]])
      BY <2>2, SplitFacts
    <3>2. \A i \in DOMAIN x.args : Same(x.args[i]) /\ Within(x.args[i])
      BY <1>1
    <3>. HIDE DEF Same, Within, P
    <3>3. Same(x)
      <4>. SUFFICES ASSUME NEW row \in Bindings
                    PROVE  Counted[x][row] = True <=> \A c \in Range(SplitConjuncts[x]) : Counted[c][row] = True
        BY DEF Same
      <4>1. \A i \in DOMAIN x.args : Counted[x.args[i]][row] = True <=> \A c \in Range(SplitConjuncts[x.args[i]]) : Counted[c][row] = True
        BY <3>2 DEF Same
      <4>2. Counted[x][row] = True <=> \A i \in DOMAIN x.args : Counted[x.args[i]][row] = True
        BY <2>2, AndIsTrue
      <4>. QED
        BY <3>1, <4>1, <4>2
    <3>4. Within(x)
      <4>. SUFFICES ASSUME NEW c \in Range(SplitConjuncts[x]), HasIn[c] PROVE HasIn[x]
        BY DEF Within
      <4>1. PICK i \in DOMAIN x.args : c \in Range(SplitConjuncts[x.args[i]])
        BY <3>1
      <4>2. HasIn[x.args[i]]
        BY <3>2, <4>1 DEF Within
      <4>3. x.args[i] \in Terms /\ HasIn[x.args[i]] \in BOOLEAN
        BY TermFacts, HasInFacts
      <4>4. Of(HasIn, x)[i] = TRUE
        BY <4>2, <4>3 DEF Of
      <4>5. HasInFrom(x, Of(HasIn, x))
        BY <2>2, <4>4 DEF HasInFrom, Quantifiers
      <4>. QED
        BY <4>5, HasInFacts
    <3>. QED
      BY <3>3, <3>4 DEF P
  <2>. QED
    BY <2>1, <2>2
<1>2. Terms \subseteq P
  <2>. HIDE DEF P
  <2>. QED
    BY <1>1, TermInduction
<1>. QED
  BY <1>2

--------------------------------------------------------------------------------
SqlOps == {"property", "literal", "compare", "and", "or", "not", "is_null", "is_not_null", "case", "simple_case"}

\* On one row, SQL too gives what a compiled expression means.
LEMMA SqlMeans ==
    ASSUME NEW e \in Terms, e.op \in SqlOps, NEW row \in Bindings, NEW cols,
           e.op \in Connectives => \A i \in DOMAIN e.args : cols[i][row] \in Truths
    PROVE  SqlEvaluated(e, cols, row) = Meant(e, cols, row)
<1>. DEFINE values == ValuesAt(e, cols, row)
<1>1. DOMAIN values = 1 .. Len(e.args) /\ Len(values) = Len(e.args) /\ \A i \in DOMAIN e.args : values[i] = cols[i][row]
  BY ValuesFacts
<1>2. DOMAIN e.args = 1 .. Len(e.args) /\ Len(e.args) \in Nat
  BY ArgumentFacts
<1>. HIDE DEF values
<1>s. \A b \in BOOLEAN : Sql(b) = Truth(b)
  BY DEF Sql, Truth
<1>3. CASE e.op \in {"property", "literal"}
  BY <1>3 DEF SqlEvaluated, Meant, Quantifiers
<1>4. CASE e.op = "compare"
  <2>1. SqlEvaluated(e, cols, row) = IF Null \in Range(values) THEN Null ELSE Sql(Compares(e.of, values[1], values[2]))
    BY <1>4 DEF SqlEvaluated, ValuesAt, values
  <2>2. Meant(e, cols, row) = IF Null \in {values[1], values[2]} THEN Null ELSE Truth(Compares(e.of, values[1], values[2]))
    BY <1>4 DEF Meant, Quantifiers, ValuesAt, values
  <2>3. DOMAIN values = 1 .. 2
    BY <1>1, <1>4, ArgumentFacts
  <2>4. Null \in Range(values) <=> Null \in {values[1], values[2]}
    <3>1. \A i : i \in 1 .. 2 <=> i = 1 \/ i = 2
      OBVIOUS
    <3>. QED
      BY <2>3, <3>1 DEF Range
  <2>5. Sql(Compares(e.of, values[1], values[2])) = Truth(Compares(e.of, values[1], values[2]))
    BY DEF Sql, Truth
  <2>. QED
    BY <2>1, <2>2, <2>4, <2>5
<1>5. CASE e.op \in {"and", "or"}
  <2>1. PICK n \in Nat : n = Len(e.args)
    BY <1>2
  <2>2. n >= 1 /\ DOMAIN values = 1 .. n /\ Len(values) = n /\ \A i \in 1 .. n : values[i] \in Truths
    BY <1>1, <1>2, <1>5, <2>1, ArgumentFacts DEF Connectives
  <2>3. PICK lo, hi : lo = Min({Rank(values[i]) : i \in DOMAIN values}) /\ hi = Max({Rank(values[i]) : i \in DOMAIN values})
    OBVIOUS
  <2>4. /\ lo \in {0, 1, 2} /\ (lo = 0 <=> False \in Range(values)) /\ (lo = 1 <=> False \notin Range(values) /\ Null \in Range(values))
        /\ hi \in {0, 1, 2} /\ (hi = 2 <=> True \in Range(values)) /\ (hi = 1 <=> True \notin Range(values) /\ Null \in Range(values))
    BY <2>2, <2>3, ChainMeans
  <2>5. OfRank(lo) = IF False \in Range(values) THEN False ELSE IF Null \in Range(values) THEN Null ELSE True
    BY <2>4 DEF OfRank
  <2>6. OfRank(hi) = IF True \in Range(values) THEN True ELSE IF Null \in Range(values) THEN Null ELSE False
    BY <2>4 DEF OfRank
  <2>7. CASE e.op = "and"
    <3>1. SqlEvaluated(e, cols, row) = IF False \in Range(values) THEN False ELSE IF Null \in Range(values) THEN Null ELSE True
      BY <2>7 DEF SqlEvaluated, ValuesAt, values
    <3>2. Meant(e, cols, row) = OfRank(Min({Rank(values[i]) : i \in DOMAIN values}))
      BY <2>7 DEF Meant, Quantifiers, ValuesAt, values
    <3>. QED
      BY <2>3, <2>5, <3>1, <3>2
  <2>8. CASE e.op = "or"
    <3>1. SqlEvaluated(e, cols, row) = IF True \in Range(values) THEN True ELSE IF Null \in Range(values) THEN Null ELSE False
      BY <2>8 DEF SqlEvaluated, ValuesAt, values
    <3>2. Meant(e, cols, row) = OfRank(Max({Rank(values[i]) : i \in DOMAIN values}))
      BY <2>8 DEF Meant, Quantifiers, ValuesAt, values
    <3>. QED
      BY <2>3, <2>6, <3>1, <3>2
  <2>. QED
    BY <1>5, <2>7, <2>8
<1>6. CASE e.op = "not"
  <2>1. /\ SqlEvaluated(e, cols, row) = IF values[1] = Null THEN Null ELSE Sql(values[1] = False)
        /\ Meant(e, cols, row) = OfRank(2 - Rank(values[1]))
    BY <1>6 DEF SqlEvaluated, Meant, Quantifiers, ValuesAt, values
  <2>2. values[1] \in Truths
    <3>1. Len(e.args) = 1
      BY <1>6, ArgumentFacts
    <3>2. 1 \in DOMAIN e.args
      BY <1>2, <3>1
    <3>. QED
      BY <1>1, <1>6, <3>2 DEF Connectives
  <2>3. KleeneNot(values[1]) = IF values[1] = Null THEN Null ELSE Sql(values[1] = False)
    BY DEF KleeneNot, Sql, Truth
  <2>. QED
    BY <2>1, <2>2, <2>3, NotMeans
<1>7. CASE e.op \in {"is_null", "is_not_null"}
  BY <1>7, <1>s DEF SqlEvaluated, Meant, Quantifiers
<1>8. CASE e.op \in {"case", "simple_case"}
  <2>. DEFINE taken == WhensTaken(e, values)
  <2>1. SqlEvaluated(e, cols, row) = IF taken = {} THEN values[1] ELSE values[2 * Min(taken) + 1]
    <3>1. CASE e.op = "case"
      <4>. DEFINE whens == {k \in 1 .. Whens(e) : values[2 * k] = True}
      <4>1. SqlEvaluated(e, cols, row) = IF whens = {} THEN values[1] ELSE values[2 * Min(whens) + 1]
        BY <3>1 DEF SqlEvaluated, ValuesAt, values
      <4>2. whens = taken
        BY <3>1 DEF WhensTaken
      <4>. HIDE DEF whens, taken
      <4>. QED
        BY <4>1, <4>2
    <3>2. CASE e.op = "simple_case"
      <4>. DEFINE whens == {k \in 1 .. Whens(e) : values[Len(e.args)] # Null /\ values[2 * k] = values[Len(e.args)]}
      <4>1. SqlEvaluated(e, cols, row) = IF whens = {} THEN values[1] ELSE values[2 * Min(whens) + 1]
        BY <3>2 DEF SqlEvaluated, ValuesAt, values
      <4>2. whens = taken
        BY <3>2 DEF WhensTaken
      <4>. HIDE DEF whens, taken
      <4>. QED
        BY <4>1, <4>2
    <3>. QED
      BY <1>8, <3>1, <3>2
  <2>2. Meant(e, cols, row) = CaseChoice(e, values)
    BY <1>8, CaseChosen DEF values
  <2>. QED
    BY <2>1, <2>2 DEF CaseChoice
<1>. QED
  BY <1>3, <1>4, <1>5, <1>6, <1>7, <1>8 DEF SqlOps

\* What is compiled means what it meant.
LEMMA CompiledParts ==
    ASSUME NEW e \in Terms, Compiles[e]
    PROVE  e.op \in SqlOps /\ \A i \in DOMAIN e.args : e.args[i] \in Terms /\ Compiles[e.args[i]]
<1>1. CompilesFrom(e, Of(Compiles, e))
  BY CompilesFacts
<1>2. \A i \in DOMAIN e.args : e.args[i] \in Terms /\ Of(Compiles, e)[i] = Compiles[e.args[i]]
  BY TermFacts DEF Of
<1>. QED
  BY <1>1, <1>2 DEF CompilesFrom, SqlOps

LEMMA CountedInSql ==
    ASSUME NEW e \in Terms, Compiles[e]
    PROVE  SqlColumn(e, Of(Counted, e)) = Counted[e]
<1>1. \A row \in Bindings : SqlEvaluated(e, Of(Counted, e), row) = CountedAt(e, Of(Counted, e), row)
  <2>. SUFFICES ASSUME NEW row \in Bindings
                PROVE  SqlEvaluated(e, Of(Counted, e), row) = CountedAt(e, Of(Counted, e), row)
    OBVIOUS
  <2>1. e.op \in Connectives => \A i \in DOMAIN e.args : Of(Counted, e)[i][row] \in Truths
    <3>. SUFFICES ASSUME e.op \in Connectives, NEW i \in DOMAIN e.args PROVE Of(Counted, e)[i][row] \in Truths
      OBVIOUS
    <3>1. e.args[i] \in Terms /\ Logical(e.args[i])
      BY TermFacts, ArgumentFacts
    <3>2. Of(Counted, e)[i] = Counted[e.args[i]]
      BY DEF Of
    <3>. QED
      BY <3>1, <3>2, CountedFacts
  <2>2. e.op \in SqlOps
    BY CompiledParts
  <2>3. CountedAt(e, Of(Counted, e), row) = Meant(e, Of(Counted, e), row)
    BY <2>2 DEF CountedAt, SqlOps, Quantifiers
  <2>. QED
    BY <2>1, <2>2, <2>3, SqlMeans
<1>. QED
  BY <1>1, CountedFacts DEF SqlColumn, CountedColumn

LEMMA SqlEvaluatesCounted == \A e \in Terms : Compiles[e] => SqlValue[e] = Counted[e]
<1>. DEFINE D == {t \in Terms : Compiles[t]}
            One(f) == f = [e \in D |-> SqlColumn(e, [i \in DOMAIN e.args |-> f[e.args[i]]])]
            m == [e \in D |-> Counted[e]]
<1>0. \A e \in D : \A i \in DOMAIN e.args : e.args[i] \in D
  BY CompiledParts
<1>1. One(m)
  <2>1. ASSUME NEW e \in D PROVE m[e] = SqlColumn(e, [i \in DOMAIN e.args |-> m[e.args[i]]])
    <3>1. [i \in DOMAIN e.args |-> m[e.args[i]]] = Of(Counted, e)
      BY <1>0 DEF Of
    <3>. QED
      BY <3>1, CountedInSql
  <2>2. m = [e \in D |-> m[e]]
    OBVIOUS
  <2>. HIDE DEF D, m
  <2>. QED
    BY <2>1, <2>2
<1>2. SqlValue = CHOOSE f : One(f)
  BY DEF SqlValue, CompiledTerms
<1>3. One(SqlValue)
  <2>1. \E f : One(f)
    <3>. HIDE DEF One
    <3>. QED
      BY <1>1
  <2>. HIDE DEF One
  <2>. QED
    BY <1>2, <2>1
<1>. HIDE DEF D, m
<1>4. ASSUME NEW e \in D PROVE SqlValue[e] = SqlColumn(e, Of(SqlValue, e))
  <2>1. PICK f : f = SqlValue
    OBVIOUS
  <2>2. f = [x \in D |-> SqlColumn(x, [i \in DOMAIN x.args |-> f[x.args[i]]])]
    BY <1>3, <2>1
  <2>3. f[e] = SqlColumn(e, [i \in DOMAIN e.args |-> f[e.args[i]]])
    BY <2>2
  <2>. QED
    BY <2>1, <2>3 DEF Of
<1>. HIDE DEF One
<1>. DEFINE P == {e \in Terms : Compiles[e] => SqlValue[e] = Counted[e]}
<1>5. ASSUME NEW e \in Terms, \A i \in DOMAIN e.args : e.args[i] \in P PROVE e \in P
  <2>. SUFFICES ASSUME Compiles[e] PROVE SqlValue[e] = Counted[e]
    OBVIOUS
  <2>1. \A i \in DOMAIN e.args : SqlValue[e.args[i]] = Counted[e.args[i]]
    BY <1>5, CompiledParts
  <2>2. Of(SqlValue, e) = Of(Counted, e)
    BY <2>1 DEF Of
  <2>3. e \in D
    BY DEF D
  <2>. QED
    BY <1>4, <2>2, <2>3, CountedInSql
<1>6. Terms \subseteq P
  <2>. HIDE DEF P
  <2>. QED
    BY <1>5, TermInduction
<1>. QED
  BY <1>6

--------------------------------------------------------------------------------
\* There is one way to put numbers in order.
Ascends(a, n) == /\ \A i \in 1 .. n : a[i] \in Int
                 /\ \A i, j \in 1 .. n : i < j => a[i] < a[j]
Inside(a, m, b, n) == \A i \in 1 .. m : \E j \in 1 .. n : a[i] = b[j]

LEMMA AscendingAgree ==
    ASSUME NEW m \in Nat, NEW n \in Nat, NEW a, NEW b,
           Ascends(a, m), Ascends(b, n), Inside(a, m, b, n), Inside(b, n, a, m)
    PROVE  \A k \in Nat : k <= m /\ k <= n => \A i \in 1 .. k : a[i] = b[i]
<1>. USE DEF Ascends, Inside
<1>. DEFINE S == {k \in Nat : k <= m /\ k <= n => \A i \in 1 .. k : a[i] = b[i]}
<1>1. 0 \in S
  OBVIOUS
<1>2. ASSUME NEW k \in S PROVE k + 1 \in S
  <2>. SUFFICES ASSUME k + 1 <= m, k + 1 <= n PROVE \A i \in 1 .. (k + 1) : a[i] = b[i]
    OBVIOUS
  <2>1. k \in Nat /\ k <= m /\ k <= n /\ k + 1 \in 1 .. m /\ k + 1 \in 1 .. n
    OBVIOUS
  <2>2. \A i \in 1 .. k : a[i] = b[i]
    BY <2>1
  <2>3. a[k + 1] \in Int /\ b[k + 1] \in Int
    BY <2>1
  <2>4. ~(a[k + 1] < b[k + 1])
    <3>. SUFFICES ASSUME a[k + 1] < b[k + 1] PROVE FALSE
      OBVIOUS
    <3>1. PICK j \in 1 .. n : a[k + 1] = b[j]
      BY <2>1
    <3>2. ~(k + 1 < j) /\ j # k + 1
      BY <2>1, <2>3, <3>1
    <3>3. j \in 1 .. k /\ j \in 1 .. m /\ j < k + 1
      BY <2>1, <3>2
    <3>4. a[j] = b[j] /\ a[j] < a[k + 1] /\ a[j] \in Int
      BY <2>1, <2>2, <3>3
    <3>. QED
      BY <2>3, <3>1, <3>4
  <2>5. ~(b[k + 1] < a[k + 1])
    <3>. SUFFICES ASSUME b[k + 1] < a[k + 1] PROVE FALSE
      OBVIOUS
    <3>1. PICK j \in 1 .. m : b[k + 1] = a[j]
      BY <2>1
    <3>2. ~(k + 1 < j) /\ j # k + 1
      BY <2>1, <2>3, <3>1
    <3>3. j \in 1 .. k /\ j \in 1 .. n /\ j < k + 1
      BY <2>1, <3>2
    <3>4. a[j] = b[j] /\ b[j] < b[k + 1] /\ b[j] \in Int
      BY <2>1, <2>2, <3>3
    <3>. QED
      BY <2>3, <3>1, <3>4
  <2>6. a[k + 1] = b[k + 1]
    BY <2>3, <2>4, <2>5
  <2>7. \A i \in 1 .. (k + 1) : i \in 1 .. k \/ i = k + 1
    BY <2>1
  <2>. QED
    BY <2>2, <2>6, <2>7
<1>3. S = Nat
  <2>1. S \in SUBSET Nat
    OBVIOUS
  <2>. HIDE DEF S
  <2>. QED
    BY <1>1, <1>2, <2>1, SetInduction
<1>. QED
  BY <1>3

LEMMA AscendingSame ==
    ASSUME NEW m \in Nat, NEW n \in Nat, NEW a, NEW b,
           Ascends(a, m), Ascends(b, n), Inside(a, m, b, n), Inside(b, n, a, m)
    PROVE  m = n /\ \A i \in 1 .. m : a[i] = b[i]
<1>1. \A k \in Nat : k <= m /\ k <= n => \A i \in 1 .. k : a[i] = b[i]
  BY AscendingAgree
<1>. USE DEF Ascends, Inside
<1>2. ~(m < n)
  <2>. SUFFICES ASSUME m < n PROVE FALSE
    OBVIOUS
  <2>0. m \in Nat /\ m <= m /\ m <= n
    OBVIOUS
  <2>1. \A i \in 1 .. m : a[i] = b[i]
    BY <1>1, <2>0
  <2>2. m + 1 \in 1 .. n
    OBVIOUS
  <2>3. PICK i \in 1 .. m : b[m + 1] = a[i]
    BY <2>2
  <2>4. i \in 1 .. n /\ i < m + 1
    OBVIOUS
  <2>5. b[i] < b[m + 1] /\ b[i] \in Int /\ b[i] = b[m + 1]
    BY <2>1, <2>2, <2>3, <2>4
  <2>. QED
    BY ONLY <2>5
<1>3. ~(n < m)
  <2>. SUFFICES ASSUME n < m PROVE FALSE
    OBVIOUS
  <2>0. n \in Nat /\ n <= m /\ n <= n
    OBVIOUS
  <2>1. \A i \in 1 .. n : a[i] = b[i]
    BY <1>1, <2>0
  <2>2. n + 1 \in 1 .. m
    OBVIOUS
  <2>3. PICK j \in 1 .. n : a[n + 1] = b[j]
    BY <2>2
  <2>4. j \in 1 .. m /\ j < n + 1
    OBVIOUS
  <2>5. a[j] < a[n + 1] /\ a[j] \in Int /\ a[j] = a[n + 1]
    BY <2>1, <2>2, <2>3, <2>4
  <2>. QED
    BY ONLY <2>5
<1>4. m = n /\ m <= m
  BY <1>2, <1>3
<1>. QED
  BY ONLY m \in Nat, <1>1, <1>4

\* The rows at some positions are those positions in order, however found.
PlacesOf(p, n, at) ==
    /\ \A k \in 1 .. n : p[k] \in at
    /\ \A j, k \in 1 .. n : j < k => p[j] < p[k]
    /\ \A i \in at : \E k \in 1 .. n : p[k] = i
Takes(t, s, p, n) == IsList(t) /\ DOMAIN t = 1 .. n /\ \A k \in 1 .. n : t[k] = s[p[k]]

LEMMA RowsAtPlaces ==
    ASSUME NEW s, IsList(s), NEW at, at \subseteq DOMAIN s
    PROVE  /\ Cardinality(at) \in Nat /\ PlacesOf(InOrder(at), Cardinality(at), at)
           /\ Takes(RowsAt(s, at), s, InOrder(at), Cardinality(at))
<1>1. PICK p, r, n : p = InOrder(at) /\ r = RowsAt(s, at) /\ n = Cardinality(at)
  OBVIOUS
<1>2. /\ n \in Nat /\ IsList(r) /\ DOMAIN r = DOMAIN p /\ DOMAIN p = 1 .. n
      /\ \A k \in DOMAIN p : p[k] \in at /\ r[k] = s[p[k]]
      /\ \A j, k \in DOMAIN p : j < k => p[j] < p[k]
      /\ \A i \in at : \E k \in DOMAIN p : p[k] = i
  BY <1>1, RowsAtShape
<1>3. PlacesOf(p, n, at)
  BY <1>2 DEF PlacesOf
<1>4. Takes(r, s, p, n)
  BY <1>2 DEF Takes
<1>. QED
  BY <1>1, <1>2, <1>3, <1>4

LEMMA RowsAtIs ==
    ASSUME NEW s, IsList(s), NEW at, at \subseteq DOMAIN s, NEW n \in Nat, NEW places, PlacesOf(places, n, at),
           NEW t, Takes(t, s, places, n)
    PROVE  RowsAt(s, at) = t
<1>1. DOMAIN s = 1 .. Len(s) /\ Len(s) \in Nat
  BY ListFacts
<1>2. \A i \in at : i \in Int
  BY <1>1
<1>3. PICK m, spots, r : m = Cardinality(at) /\ spots = InOrder(at) /\ r = RowsAt(s, at)
  OBVIOUS
<1>4. m \in Nat /\ PlacesOf(spots, m, at) /\ Takes(r, s, spots, m)
  BY <1>3, RowsAtPlaces
<1>5. Ascends(spots, m) /\ Ascends(places, n)
  BY <1>2, <1>4 DEF Ascends, PlacesOf
<1>6. Inside(spots, m, places, n) /\ Inside(places, n, spots, m)
  BY <1>4 DEF Inside, PlacesOf
<1>7. m = n /\ \A i \in 1 .. m : spots[i] = places[i]
  BY <1>4, <1>5, <1>6, AscendingSame
<1>8. t = [k \in DOMAIN t |-> t[k]] /\ r = [k \in DOMAIN r |-> r[k]]
  BY <1>4, ListFacts DEF Takes
<1>9. r = t
  BY <1>4, <1>7, <1>8 DEF Takes
<1>. QED
  BY <1>3, <1>9

LEMMA AllRows ==
    ASSUME NEW s, IsList(s)
    PROVE  RowsAt(s, DOMAIN s) = s
<1>1. PICK n \in Nat : DOMAIN s = 1 .. n /\ s = [i \in 1 .. n |-> s[i]]
  BY ListFacts
<1>2. PICK places : places = [k \in 1 .. n |-> k]
  OBVIOUS
<1>3. \A k \in 1 .. n : places[k] = k
  BY <1>2
<1>4. PlacesOf(places, n, DOMAIN s)
  BY <1>1, <1>3 DEF PlacesOf
<1>5. Takes(s, s, places, n)
  BY <1>1, <1>3 DEF Takes
<1>. QED
  BY <1>4, <1>5, RowsAtIs

--------------------------------------------------------------------------------
\* The rows of a sequence that are in D.
RowsIn(s, D) == RowsAt(s, {i \in DOMAIN s : s[i] \in D})

LEMMA RowsInFacts ==
    ASSUME NEW s, IsList(s), NEW D
    PROVE  IsList(RowsIn(s, D)) /\ \A i \in DOMAIN RowsIn(s, D) : RowsIn(s, D)[i] \in D /\ RowsIn(s, D)[i] \in Range(s)
<1>. DEFINE at == {i \in DOMAIN s : s[i] \in D}
<1>1. at \subseteq DOMAIN s
  OBVIOUS
<1>2. PICK left, found : left = RowsAt(s, at) /\ found = InOrder(at)
  OBVIOUS
<1>3. IsList(left) /\ DOMAIN left = DOMAIN found /\ \A k \in DOMAIN found : found[k] \in at /\ left[k] = s[found[k]]
  BY <1>1, <1>2, RowsAtShape
<1>4. \A k \in DOMAIN left : left[k] \in D /\ left[k] \in Range(s)
  BY <1>3 DEF Range
<1>. QED
  BY <1>2, <1>3, <1>4 DEF RowsIn

\* To take the rows in D, then of those the ones in E, is to take those in both.
LEMMA RowsInTwice ==
    ASSUME NEW s, IsList(s), NEW D, NEW E
    PROVE  RowsIn(RowsIn(s, D), E) = RowsIn(s, D \cap E)
<1>. DEFINE at == {i \in DOMAIN s : s[i] \in D}
            left == RowsAt(s, at)
            kept == {k \in DOMAIN left : left[k] \in E}
            both == {i \in DOMAIN s : s[i] \in D \cap E}
<1>1. both \subseteq DOMAIN s
  OBVIOUS
<1>2. PICK a, b, l : a = InOrder(at) /\ b = InOrder(kept) /\ l = left
  OBVIOUS
<1>3. PICK m : m = Cardinality(at) /\ m \in Nat /\ PlacesOf(a, m, at) /\ Takes(l, s, a, m)
  <2>1. at \subseteq DOMAIN s
    OBVIOUS
  <2>. HIDE DEF at
  <2>. QED
    BY <1>2, <2>1, RowsAtPlaces
<1>4. PICK n, r : n \in Nat /\ r = RowsAt(l, kept) /\ PlacesOf(b, n, kept) /\ Takes(r, l, b, n)
  <2>1. kept \subseteq DOMAIN l /\ IsList(l)
    BY <1>2, <1>3 DEF Takes
  <2>. HIDE DEF kept
  <2>. QED
    BY <1>2, <2>1, RowsAtPlaces
<1>5. PICK places : places = [k \in 1 .. n |-> a[b[k]]]
  OBVIOUS
<1>6. \A k \in kept : k \in 1 .. m /\ l[k] \in E
  BY <1>2, <1>3 DEF Takes
<1>7. \A k \in 1 .. n : places[k] = a[b[k]] /\ b[k] \in kept /\ b[k] \in 1 .. m
  BY <1>4, <1>5, <1>6 DEF PlacesOf
<1>8. ASSUME NEW k \in 1 .. n PROVE places[k] \in both
  <2>1. b[k] \in 1 .. m /\ l[b[k]] \in E /\ places[k] = a[b[k]]
    BY <1>6, <1>7
  <2>2. a[b[k]] \in at /\ l[b[k]] = s[a[b[k]]]
    BY <1>3, <2>1 DEF PlacesOf, Takes
  <2>. QED
    BY <2>1, <2>2
<1>9. ASSUME NEW j \in 1 .. n, NEW k \in 1 .. n, j < k PROVE places[j] < places[k]
  <2>1. b[j] < b[k] /\ b[j] \in 1 .. m /\ b[k] \in 1 .. m
    BY <1>4, <1>7, <1>9 DEF PlacesOf
  <2>. QED
    BY <1>3, <1>7, <2>1 DEF PlacesOf
<1>10. ASSUME NEW i \in both PROVE \E k \in 1 .. n : places[k] = i
  <2>1. i \in at /\ s[i] \in E
    OBVIOUS
  <2>2. PICK j \in 1 .. m : a[j] = i
    BY <1>3, <2>1 DEF PlacesOf
  <2>3. j \in kept
    BY <1>2, <1>3, <2>1, <2>2 DEF Takes
  <2>4. PICK k \in 1 .. n : b[k] = j
    BY <1>4, <2>3 DEF PlacesOf
  <2>. QED
    BY <1>7, <2>2, <2>4
<1>11. PlacesOf(places, n, both)
  <2>. HIDE DEF both
  <2>. QED
    BY <1>8, <1>9, <1>10 DEF PlacesOf
<1>12. Takes(r, s, places, n)
  <2>1. ASSUME NEW k \in 1 .. n PROVE r[k] = s[places[k]]
    <3>1. r[k] = l[b[k]] /\ b[k] \in 1 .. m /\ places[k] = a[b[k]]
      BY <1>4, <1>7 DEF Takes
    <3>. QED
      BY <1>3, <3>1 DEF Takes
  <2>. QED
    BY <1>4, <2>1 DEF Takes
<1>. HIDE DEF at, left, kept, both
<1>13. RowsAt(s, both) = r
  BY <1>1, <1>4, <1>11, <1>12, RowsAtIs
<1>. QED
  BY <1>2, <1>4, <1>13 DEF RowsIn, at, left, kept, both

LEMMA AllRowsIn ==
    ASSUME NEW s, IsList(s), NEW D, \A i \in DOMAIN s : s[i] \in D
    PROVE  RowsIn(s, D) = s
<1>1. {i \in DOMAIN s : s[i] \in D} = DOMAIN s
  OBVIOUS
<1>. QED
  BY <1>1, AllRows DEF RowsIn

--------------------------------------------------------------------------------
\* The rows on which a predicate, and on which every one of a few, is true.
Truly(c) == {row \in Bindings : Counted[c][row] = True}
AllTrue(C) == {row \in Bindings : \A c \in C : Counted[c][row] = True}

FilterInv ==
    /\ where \in Terms /\ given \in Seq(Bindings) /\ passing \in Seq(Bindings) /\ residual \in Seq(Terms)
    /\ filtering \in {"start", "residual", "done", "index_error"}
    /\ filtering = "start" => passing = given
    /\ filtering = "residual" =>
         /\ RowsIn(passing, AllTrue(Range(residual))) = RowsIn(given, Truly(where))
         /\ \A c \in Range(residual) : HasIn[c] => HasIn[where]
         /\ residual # <<>> /\ (~lazy \/ SplitConjuncts[where] = <<where>>) =>
              passing = given /\ Tail(residual) = <<>>
    /\ filtering = "done" => passing = RowsIn(given, Truly(where))
    /\ filtering = "index_error" =>
         HasIn[where] /\ (given = <<>> \/ (lazy /\ SplitConjuncts[where] # <<where>>))

\* A column picks the rows on which its predicate is true.
LEMMA TrueRowsIn ==
    ASSUME NEW s \in Seq(Bindings), NEW c \in Terms, NEW column, column = Counted[c]
    PROVE  TrueRows(s, column) = RowsIn(s, Truly(c))
<1>1. \A i \in DOMAIN s : s[i] \in Bindings
  OBVIOUS
<1>2. {i \in DOMAIN s : column[s[i]] = True} = {i \in DOMAIN s : s[i] \in Truly(c)}
  BY <1>1 DEF Truly
<1>. QED
  BY <1>2 DEF TrueRows, RowsIn

LEMMA FewerBindings ==
    ASSUME NEW s \in Seq(Bindings), NEW D
    PROVE  RowsIn(s, D) \in Seq(Bindings)
<1>1. IsList(s) /\ Range(s) \subseteq Bindings
  BY SequenceIsList
<1>2. PICK r : r = RowsIn(s, D)
  OBVIOUS
<1>3. IsList(r) /\ \A i \in DOMAIN r : r[i] \in Range(s)
  BY <1>1, <1>2, RowsInFacts
<1>4. r \in Seq(Range(r)) /\ Range(r) \subseteq Bindings
  BY <1>1, <1>3 DEF IsList, Range
<1>. QED
  BY <1>2, <1>4

LEMMA FilterBegins == ExpressionInit => FilterInv
<1>. SUFFICES ASSUME ExpressionInit PROVE FilterInv
  OBVIOUS
<1>1. where \in Terms /\ given \in Seq(Bindings)
  BY ExpressionAssumption DEF ExpressionInit
<1>2. <<>> \in Seq(Terms)
  OBVIOUS
<1>. QED
  BY <1>1, <1>2 DEF ExpressionInit, FilterInv

LEMMA SoleTerm ==
    ASSUME NEW e \in Terms
    PROVE  <<e>> \in Seq(Terms) /\ Range(<<e>>) = {e} /\ Tail(<<e>>) = <<>> /\ DOMAIN <<e>> = {1} /\ <<e>>[1] = e
<1>1. <<e>> \in Seq(Terms) /\ DOMAIN <<e>> = {1} /\ <<e>>[1] = e /\ Len(<<e>>) = 1
  OBVIOUS
<1>2. Range(<<e>>) = {e}
  BY <1>1 DEF Range
<1>3. Tail(<<e>>) = <<>>
  OBVIOUS
<1>. QED
  BY <1>1, <1>2, <1>3

LEMMA InMemoryKeeps == FilterInv /\ ApplyInMemory => FilterInv'
<1>. SUFFICES ASSUME FilterInv, ApplyInMemory PROVE FilterInv'
  OBVIOUS
<1>1. where \in Terms /\ given \in Seq(Bindings) /\ passing = given
  BY DEF FilterInv, ApplyInMemory
<1>2. residual' = <<where>> /\ filtering' = "residual" /\ where' = where /\ given' = given /\ passing' = passing /\ lazy' = lazy
  BY DEF ApplyInMemory
<1>3. <<where>> \in Seq(Terms) /\ Range(<<where>>) = {where} /\ Tail(<<where>>) = <<>>
  BY <1>1, SoleTerm
<1>4. AllTrue({where}) = Truly(where)
  BY DEF AllTrue, Truly
<1>5. PICK r : r = <<where>>
  OBVIOUS
<1>6. residual' = r /\ r \in Seq(Terms) /\ Range(r) = {where} /\ Tail(r) = <<>>
  BY <1>2, <1>3, <1>5
<1>. QED
  BY <1>1, <1>2, <1>4, <1>6 DEF FilterInv

LEMMA EndOfFilterKeeps == FilterInv /\ EndOfFilter => FilterInv'
<1>. SUFFICES ASSUME FilterInv, EndOfFilter PROVE FilterInv'
  OBVIOUS
<1>1. /\ where \in Terms /\ given \in Seq(Bindings) /\ passing \in Seq(Bindings) /\ residual \in Seq(Terms)
      /\ residual = <<>> /\ filtering' = "done"
      /\ where' = where /\ given' = given /\ passing' = passing /\ lazy' = lazy /\ residual' = residual
      /\ RowsIn(passing, AllTrue(Range(residual))) = RowsIn(given, Truly(where))
  BY DEF FilterInv, EndOfFilter
<1>2. AllTrue(Range(residual)) = Bindings
  <2>1. Range(<<>>) = {}
    BY DEF Range
  <2>. QED
    BY <1>1, <2>1 DEF AllTrue
<1>3. IsList(passing) /\ \A i \in DOMAIN passing : passing[i] \in Bindings
  BY <1>1, SequenceIsList
<1>4. RowsIn(passing, Bindings) = passing
  BY <1>3, AllRowsIn
<1>. QED
  BY <1>1, <1>2, <1>4 DEF FilterInv

LEMMA ResidualKeeps == FilterInv /\ ApplyResidual => FilterInv'
<1>. SUFFICES ASSUME FilterInv, ApplyResidual PROVE FilterInv'
  OBVIOUS
<1>1. /\ where \in Terms /\ given \in Seq(Bindings) /\ passing \in Seq(Bindings) /\ residual \in Seq(Terms)
      /\ filtering = "residual" /\ residual # <<>>
      /\ where' = where /\ given' = given /\ lazy' = lazy
      /\ RowsIn(passing, AllTrue(Range(residual))) = RowsIn(given, Truly(where))
      /\ \A c \in Range(residual) : HasIn[c] => HasIn[where]
      /\ ~lazy \/ SplitConjuncts[where] = <<where>> => passing = given /\ Tail(residual) = <<>>
  BY DEF FilterInv, ApplyResidual
<1>2. PICK c, rest : c = Head(residual) /\ rest = Tail(residual)
  OBVIOUS
<1>3. /\ c \in Terms /\ rest \in Seq(Terms)
      /\ \A x : x \in Range(residual) <=> x = c \/ x \in Range(rest)
  <2>1. c \in Terms /\ rest \in Seq(Terms)
    BY <1>1, <1>2
  <2>2. c = residual[1] /\ Len(residual) \in Nat /\ Len(residual) >= 1 /\ DOMAIN residual = 1 .. Len(residual)
        /\ DOMAIN rest = 1 .. Len(residual) - 1 /\ \A i \in 1 .. Len(residual) - 1 : rest[i] = residual[i + 1]
    BY <1>1, <1>2
  <2>3. PICK n : n = Len(residual)
    OBVIOUS
  <2>4. \A i \in 1 .. n : i = 1 \/ (i - 1 \in 1 .. n - 1 /\ (i - 1) + 1 = i)
    BY <2>2, <2>3
  <2>5. \A i \in 1 .. n - 1 : i + 1 \in 1 .. n
    BY <2>2, <2>3
  <2>6. 1 \in 1 .. n
    BY <2>2, <2>3
  <2>7. ASSUME NEW i \in 1 .. n PROVE residual[i] = c \/ \E j \in 1 .. n - 1 : rest[j] = residual[i]
    <3>1. i - 1 \in 1 .. n - 1 => rest[i - 1] = residual[(i - 1) + 1]
      BY <2>2, <2>3
    <3>. QED
      BY <2>2, <2>4, <3>1
  <2>8. ASSUME NEW j \in 1 .. n - 1 PROVE \E i \in 1 .. n : residual[i] = rest[j]
    BY <2>2, <2>3, <2>5
  <2>9. \A x : x \in Range(residual) <=> \E i \in 1 .. n : residual[i] = x
    BY <2>2, <2>3 DEF Range
  <2>10. \A x : x \in Range(rest) <=> \E j \in 1 .. n - 1 : rest[j] = x
    BY <2>2, <2>3 DEF Range
  <2>11. c \in Range(residual)
    BY <2>2, <2>6, <2>9
  <2>. QED
    BY <2>1, <2>7, <2>8, <2>9, <2>10, <2>11
<1>4. CASE EvaluationRaises(c, passing)
  <2>1. filtering' = "index_error" /\ passing' = passing /\ residual' = residual
    BY <1>2, <1>4 DEF ApplyResidual
  <2>2. passing = <<>> /\ HasIn[where]
    BY <1>1, <1>3, <1>4 DEF EvaluationRaises
  <2>3. given = <<>> \/ (lazy /\ SplitConjuncts[where] # <<where>>)
    BY <1>1, <2>2
  <2>. QED
    BY <1>1, <2>1, <2>2, <2>3 DEF FilterInv
<1>5. CASE ~EvaluationRaises(c, passing)
  <2>1. passing' = Kept(c, passing) /\ residual' = rest /\ filtering' = "residual"
    BY <1>1, <1>2, <1>5 DEF ApplyResidual
  <2>2. passing' = RowsIn(passing, Truly(c))
    <3>1. Evaluate[c] = Counted[c]
      BY <1>3, EvaluatesCounted
    <3>. QED
      BY <1>1, <1>3, <2>1, <3>1, TrueRowsIn DEF Kept
  <2>3. passing' \in Seq(Bindings)
    BY <1>1, <2>2, FewerBindings
  <2>4. RowsIn(passing', AllTrue(Range(rest))) = RowsIn(given, Truly(where))
    <3>1. IsList(passing)
      BY <1>1, SequenceIsList
    <3>2. RowsIn(RowsIn(passing, Truly(c)), AllTrue(Range(rest))) = RowsIn(passing, Truly(c) \cap AllTrue(Range(rest)))
      BY <3>1, RowsInTwice
    <3>3. Truly(c) \cap AllTrue(Range(rest)) = AllTrue(Range(residual))
      BY <1>3 DEF Truly, AllTrue
    <3>. QED
      BY <1>1, <2>2, <3>2, <3>3
  <2>5. \A x \in Range(rest) : HasIn[x] => HasIn[where]
    BY <1>1, <1>3
  <2>6. ~(rest # <<>> /\ (~lazy \/ SplitConjuncts[where] = <<where>>))
    BY <1>1, <1>2
  <2>. QED
    BY <1>1, <1>3, <2>1, <2>3, <2>4, <2>5, <2>6 DEF FilterInv
<1>. QED
  BY <1>4, <1>5

LEMMA PushToSqlKeeps == FilterInv /\ PushToSql => FilterInv'
<1>. SUFFICES ASSUME FilterInv, PushToSql PROVE FilterInv'
  OBVIOUS
<1>1. where \in Terms /\ given \in Seq(Bindings) /\ passing = given
  BY DEF FilterInv, PushToSql
<1>2. PICK conj : conj = SplitConjuncts[where]
  OBVIOUS
<1>3. conj \in Seq(Terms) /\ IsList(conj) /\ \A i \in DOMAIN conj : conj[i] \in Terms
  BY <1>1, <1>2, SplitFacts, SequenceIsList
<1>. DEFINE pushed == {i \in DOMAIN conj : Compiles[conj[i]]}
            over == DOMAIN conj \ pushed
            P == {conj[i] : i \in pushed}
<1>4. /\ passing' = RowsAt(passing, {k \in DOMAIN passing : \A i \in pushed : [j \in pushed |-> SqlValue[conj[j]]][i][passing[k]] = True})
      /\ residual' = RowsAt(conj, over)
      /\ filtering' = "residual" /\ where' = where /\ given' = given /\ lazy' = lazy
  BY <1>2 DEF PushToSql
<1>5. passing' = RowsIn(passing, AllTrue(P))
  <2>1. \A i \in pushed : SqlValue[conj[i]] = Counted[conj[i]]
    BY <1>3, SqlEvaluatesCounted
  <2>2. \A k \in DOMAIN passing : passing[k] \in Bindings
    BY <1>1
  <2>3. {k \in DOMAIN passing : \A i \in pushed : [j \in pushed |-> SqlValue[conj[j]]][i][passing[k]] = True}
          = {k \in DOMAIN passing : passing[k] \in AllTrue(P)}
    <3>1. ASSUME NEW k \in DOMAIN passing
          PROVE  (\A i \in pushed : [j \in pushed |-> SqlValue[conj[j]]][i][passing[k]] = True) <=> passing[k] \in AllTrue(P)
      <4>1. \A i \in pushed : [j \in pushed |-> SqlValue[conj[j]]][i][passing[k]] = Counted[conj[i]][passing[k]]
        BY <2>1
      <4>2. passing[k] \in AllTrue(P) <=> \A i \in pushed : Counted[conj[i]][passing[k]] = True
        BY <2>2 DEF AllTrue
      <4>. HIDE DEF pushed, P
      <4>. QED
        BY <4>1, <4>2
    <3>. HIDE DEF pushed, P
    <3>. QED
      BY <3>1
  <2>. QED
    BY <1>4, <2>3 DEF RowsIn
<1>6. PICK r : r = RowsAt(conj, over)
  OBVIOUS
<1>7. /\ IsList(r) /\ r \in Seq(Terms)
      /\ \A x : x \in Range(r) <=> \E i \in over : x = conj[i]
  <2>1. over \subseteq DOMAIN conj
    OBVIOUS
  <2>. HIDE DEF over
  <2>2. PICK p, n : p = InOrder(over) /\ n = Cardinality(over)
    OBVIOUS
  <2>3. n \in Nat /\ PlacesOf(p, n, over) /\ Takes(r, conj, p, n)
    BY <1>3, <1>6, <2>1, <2>2, RowsAtPlaces
  <2>4. \A x : x \in Range(r) <=> \E i \in over : x = conj[i]
    BY <2>3 DEF PlacesOf, Takes, Range
  <2>5. r \in Seq(Range(r)) /\ Range(r) \subseteq Terms
    BY <1>3, <2>1, <2>3, <2>4 DEF Takes, IsList
  <2>. QED
    BY <2>3, <2>4, <2>5 DEF Takes
<1>8. AllTrue(P) \cap AllTrue(Range(r)) = Truly(where)
  <2>1. \A x : x \in Range(conj) <=> x \in P \/ x \in Range(r)
    BY <1>7 DEF Range
  <2>2. \A row \in Bindings : Counted[where][row] = True <=> \A c \in Range(conj) : Counted[c][row] = True
    BY <1>1, <1>2, ConjunctsMean
  <2>. HIDE DEF P
  <2>. QED
    BY <2>1, <2>2 DEF AllTrue, Truly
<1>9. RowsIn(passing', AllTrue(Range(r))) = RowsIn(given, Truly(where))
  <2>1. IsList(passing)
    BY <1>1, SequenceIsList
  <2>. HIDE DEF P
  <2>2. RowsIn(RowsIn(passing, AllTrue(P)), AllTrue(Range(r))) = RowsIn(passing, AllTrue(P) \cap AllTrue(Range(r)))
    BY <2>1, RowsInTwice
  <2>. QED
    BY <1>1, <1>5, <1>8, <2>2
<1>10. passing' \in Seq(Bindings)
  BY <1>1, <1>5, FewerBindings
<1>11. \A c \in Range(r) : HasIn[c] => HasIn[where]
  <2>1. \A c \in Range(r) : c \in Range(conj)
    BY <1>7 DEF Range
  <2>. QED
    BY <1>1, <1>2, <2>1, ConjunctsMean
<1>12. ASSUME r # <<>>, SplitConjuncts[where] = <<where>> PROVE passing' = given /\ Tail(r) = <<>>
  <2>1. conj = <<where>> /\ DOMAIN conj = {1} /\ Tail(conj) = <<>>
    BY <1>1, <1>2, <1>12, SoleTerm
  <2>2. pushed = {}
    <3>. SUFFICES ASSUME pushed # {} PROVE FALSE
      OBVIOUS
    <3>1. over = {}
      BY <2>1
    <3>2. Range(r) = {}
      BY <1>7, <3>1
    <3>3. r = <<>>
      <4>1. r \in Seq(Range(r))
        BY <1>7 DEF IsList
      <4>. QED
        BY <3>2, <4>1
    <3>. QED
      BY <1>12, <3>3
  <2>3. over = DOMAIN conj /\ P = {}
    BY <2>2
  <2>4. r = conj
    BY <1>3, <1>6, <2>3, AllRows
  <2>5. AllTrue(P) = Bindings
    BY <2>3 DEF AllTrue
  <2>6. RowsIn(passing, Bindings) = passing
    <3>1. IsList(passing) /\ \A i \in DOMAIN passing : passing[i] \in Bindings
      BY <1>1, SequenceIsList
    <3>. QED
      BY <3>1, AllRowsIn
  <2>. QED
    BY <1>1, <1>5, <2>1, <2>4, <2>5, <2>6
<1>13. lazy
  BY DEF PushToSql
<1>. HIDE DEF pushed, over, P
<1>. QED
  BY <1>1, <1>4, <1>6, <1>7, <1>9, <1>10, <1>11, <1>12, <1>13 DEF FilterInv

LEMMA FilterStays == FilterInv /\ UNCHANGED expressionVars => FilterInv'
<1>. QED
  BY DEF FilterInv, expressionVars

LEMMA FilterSteps == FilterInv /\ ExpressionNext => FilterInv'
BY InMemoryKeeps, PushToSqlKeeps, ResidualKeeps, EndOfFilterKeeps DEF ExpressionNext

LEMMA FilterIsExact == FilterInv => FilterKeepsTrue
<1>. SUFFICES ASSUME FilterInv PROVE FilterKeepsTrue
  OBVIOUS
<1>1. where \in Terms /\ given \in Seq(Bindings)
  BY DEF FilterInv
<1>. DEFINE kept == {i \in DOMAIN given : Counted[where][given[i]] = True}
<1>2. ASSUME filtering = "done" PROVE passing = RowsAt(given, kept)
  <2>1. PICK column : column = Counted[where]
    OBVIOUS
  <2>2. TrueRows(given, column) = RowsIn(given, Truly(where))
    BY <1>1, <2>1, TrueRowsIn
  <2>. QED
    BY <1>2, <2>1, <2>2 DEF FilterInv, TrueRows
<1>3. ASSUME NEW i \in DOMAIN given, Decided[where][given[i]]
      PROVE  i \in kept <=> Meaning[where][given[i]] = True
  <2>1. given[i] \in Bindings
    BY <1>1
  <2>2. Counted[where][given[i]] = Meaning[where][given[i]]
    BY <1>1, <1>3, <2>1, DecidedMeans
  <2>. QED
    BY <2>2
<1>4. kept \in SUBSET DOMAIN given
  OBVIOUS
<1>5. filtering = "done" =>
        \E K \in SUBSET DOMAIN given :
          /\ passing = RowsAt(given, K)
          /\ \A i \in DOMAIN given : Decided[where][given[i]] => (i \in K <=> Meaning[where][given[i]] = True)
  <2>. HIDE DEF kept
  <2>. QED
    BY <1>2, <1>3, <1>4
<1>. QED
  BY <1>5 DEF FilterInv, FilterKeepsTrue

--------------------------------------------------------------------------------
\* A column without its repeats.
LEMMA DropDuplicatesFacts ==
    ASSUME NEW s, IsList(s)
    PROVE  Enumerates(DropDuplicates(s), Range(s))
<1>1. PICK out : out = DropDuplicates(s)
  OBVIOUS
<1>2. out = FirstOfEach(s, s)
  BY <1>1 DEF FirstOfEach, DropDuplicates
<1>3. PICK at : OneOfEach(out, s, s, at)
  BY <1>2, FirstOfEachFacts
<1>4. PICK own : own = [k \in DOMAIN at |-> s[at[k]]]
  OBVIOUS
<1>5. Enumerates(own, Range(s)) /\ IsList(out) /\ DOMAIN out = DOMAIN own /\ \A k \in DOMAIN own : out[k] = own[k]
  BY <1>3, <1>4 DEF OneOfEach
<1>6. out = own
  <2>1. out = [k \in DOMAIN out |-> out[k]]
    BY <1>5, ListFacts
  <2>. QED
    BY <1>4, <1>5, <2>1
<1>. QED
  BY <1>1, <1>5, <1>6

AllKeys == {aggRows[i].key : i \in DOMAIN aggRows}
KeyColumn == [i \in DOMAIN aggRows |-> aggRows[i].key]

LEMMA KeyFacts ==
    ASSUME aggRows \in AggregatedRows
    PROVE  /\ IsList(aggRows) /\ \A i \in DOMAIN aggRows : IsList(aggRows[i].key)
           /\ Enumerates(GroupKeys(FALSE), AllKeys)
           /\ Enumerates(GroupKeys(TRUE), {k \in AllKeys : ~HasNull(k)})
           /\ Len(GroupKeys(TRUE)) = Len(GroupKeys(FALSE)) => GroupKeys(TRUE) = GroupKeys(FALSE)
           /\ (\A k \in AllKeys : ~HasNull(k)) => GroupKeys(TRUE) = GroupKeys(FALSE)
<1>1. IsList(aggRows) /\ \A i \in DOMAIN aggRows : IsList(aggRows[i].key)
  BY ExpressionAssumption DEF IsList
<1>2. IsList(KeyColumn) /\ Range(KeyColumn) = AllKeys
  <2>1. PICK s : s = KeyColumn
    OBVIOUS
  <2>2. s = [i \in DOMAIN aggRows |-> s[i]] /\ \A i \in DOMAIN aggRows : s[i] = aggRows[i].key
    BY <2>1 DEF KeyColumn
  <2>3. IsList(s) /\ DOMAIN s = DOMAIN aggRows
    BY <1>1, <2>2, MappedList
  <2>4. Range(s) = AllKeys
    BY <2>2, <2>3 DEF Range, AllKeys
  <2>. QED
    BY <2>1, <2>3, <2>4
<1>3. PICK k0 : k0 = DropDuplicates(KeyColumn)
  OBVIOUS
<1>4. Enumerates(k0, AllKeys)
  BY <1>2, <1>3, DropDuplicatesFacts
<1>5. IsList(k0)
  BY <1>4 DEF Enumerates
<1>. DEFINE A == {i \in DOMAIN k0 : ~HasNull(k0[i])}
<1>6. A \subseteq DOMAIN k0
  OBVIOUS
<1>7. GroupKeys(FALSE) = k0
  <2>1. GroupKeys(FALSE) = RowsAt(k0, {i \in DOMAIN k0 : ~(FALSE /\ HasNull(k0[i]))})
    BY <1>3 DEF GroupKeys, KeyColumn
  <2>2. {i \in DOMAIN k0 : ~(FALSE /\ HasNull(k0[i]))} = DOMAIN k0
    OBVIOUS
  <2>. QED
    BY <1>5, <2>1, <2>2, AllRows
<1>8. GroupKeys(TRUE) = RowsAt(k0, A)
  <2>1. GroupKeys(TRUE) = RowsAt(k0, {i \in DOMAIN k0 : ~(TRUE /\ HasNull(k0[i]))})
    BY <1>3 DEF GroupKeys, KeyColumn
  <2>2. {i \in DOMAIN k0 : ~(TRUE /\ HasNull(k0[i]))} = A
    OBVIOUS
  <2>. QED
    BY <2>1, <2>2
<1>9. Enumerates(RowsAt(k0, A), {k \in AllKeys : ~HasNull(k)})
  <2>1. {k0[i] : i \in A} = {k \in AllKeys : ~HasNull(k)}
    BY <1>4 DEF Enumerates
  <2>. HIDE DEF A
  <2>2. Enumerates([k \in DOMAIN InOrder(A) |-> k0[InOrder(A)[k]]], {k0[i] : i \in A})
    BY <1>4, <1>6, ChosenEnumerates
  <2>. QED
    BY <2>1, <2>2 DEF RowsAt
<1>. HIDE DEF A
<1>10. A = DOMAIN k0 => RowsAt(k0, A) = k0
  BY <1>5, AllRows
<1>11. Len(RowsAt(k0, A)) = Len(k0) => A = DOMAIN k0
  <2>1. Len(RowsAt(k0, A)) = Cardinality(A)
    BY <1>5, <1>6, RowsAtShape
  <2>2. PICK n \in Nat : n = Len(k0) /\ DOMAIN k0 = 1 .. n
    BY <1>5, ListFacts
  <2>3. IsFiniteSet(1 .. n) /\ Cardinality(1 .. n) = IF 1 > n THEN 0 ELSE n - 1 + 1
    <3>1. 1 \in Int /\ n \in Int
      OBVIOUS
    <3>. QED
      BY ONLY <3>1, FS_Interval
  <2>4. Cardinality(1 .. n) = n
    BY <2>3
  <2>. QED
    BY <1>6, <2>1, <2>2, <2>3, <2>4, FS_Subset
<1>12. (\A k \in AllKeys : ~HasNull(k)) => A = DOMAIN k0
  BY <1>4 DEF A, Enumerates
<1>. QED
  BY <1>1, <1>4, <1>7, <1>8, <1>9, <1>10, <1>11, <1>12

--------------------------------------------------------------------------------
\* The value of a group is that of the aggregate over its rows.
LEMMA GroupIsList ==
    ASSUME aggRows \in AggregatedRows, NEW key
    PROVE  IsList(Group(key))
<1>. DEFINE at == {i \in DOMAIN aggRows : aggRows[i].key = key}
<1>1. at \subseteq DOMAIN aggRows /\ IsList(aggRows)
  BY KeyFacts
<1>2. Group(key) = RowsAt(aggRows, at)
  BY DEF Group
<1>. HIDE DEF at
<1>. QED
  BY <1>1, <1>2, RowsAtShape

LEMMA GroupValueIs ==
    ASSUME NEW item, ~IsFallback(item), NEW rs, IsList(rs)
    PROVE  GroupValue(item, rs) = EvaluateAggregation(item, rs)
<1>. DEFINE column == Distinct(item, Values(rs))
<1>1. IsList(Values(rs))
  <2>1. PICK s : s = Values(rs)
    OBVIOUS
  <2>2. s = [i \in DOMAIN rs |-> s[i]]
    BY <2>1 DEF Values
  <2>. QED
    BY <2>1, <2>2, MappedList
<1>2. ASSUME NEW s, IsList(s) PROVE Len(DropNa(s)) < MinCount <=> DropNa(s) = <<>>
  <2>. DEFINE at == {i \in DOMAIN s : s[i] # Null}
  <2>1. at \subseteq DOMAIN s
    OBVIOUS
  <2>. HIDE DEF at
  <2>2. PICK r : r = RowsAt(s, at)
    OBVIOUS
  <2>3. IsList(r)
    BY <1>2, <2>1, <2>2, RowsAtShape
  <2>4. r \in Seq(Range(r))
    BY <2>3 DEF IsList
  <2>5. Len(r) < 1 <=> r = <<>>
    BY <2>4
  <2>. QED
    BY <2>2, <2>5 DEF DropNa, MinCount, at
<1>3. item.func # "next"
  BY DEF IsFallback
<1>4. CASE item.func = "count_star"
  BY <1>4 DEF GroupValue, EvaluateAggregation
<1>. HIDE DEF column
<1>5. item.func # "count_star" => EvaluateAggregation(item, rs) = AggOp(item.func, column)
  BY <1>3 DEF EvaluateAggregation, Distinct, column
<1>6. CASE item.func = "count"
  <2>1. GroupValue(item, rs) = Len(DropNa(column))
    BY <1>6 DEF GroupValue, column
  <2>2. AggOp(item.func, column) = Len(DropNa(column))
    BY <1>6 DEF AggOp
  <2>. QED
    BY <1>5, <1>6, <2>1, <2>2
<1>7. CASE ~item.distinct /\ item.func \in {"sum", "avg", "min", "max"}
  <2>1. GroupValue(item, rs) = NativeAgg(item.func, Values(rs)) /\ column = Values(rs)
    BY <1>7 DEF GroupValue, column, Distinct
  <2>2. CASE item.func = "sum"
    <3>1. NativeAgg(item.func, column) = IF Len(DropNa(column)) < MinCount THEN Null ELSE Total(DropNa(column))
      BY <2>2 DEF NativeAgg
    <3>2. AggOp(item.func, column) = IF DropNa(column) = <<>> THEN Null ELSE Total(DropNa(column))
      BY <2>2 DEF AggOp
    <3>3. Len(DropNa(column)) < MinCount <=> DropNa(column) = <<>>
      BY <1>1, <1>2, <2>1
    <3>. QED
      BY <1>5, <2>1, <2>2, <3>1, <3>2, <3>3
  <2>3. CASE item.func # "sum"
    <3>1. NativeAgg(item.func, column) = AggOp(item.func, column)
      BY <2>3 DEF NativeAgg
    <3>. QED
      BY <1>5, <1>7, <2>1, <3>1
  <2>. QED
    BY <2>2, <2>3
<1>8. CASE item.func \notin {"count_star", "count"} /\ ~(~item.distinct /\ item.func \in {"sum", "avg", "min", "max"})
  <2>1. GroupValue(item, rs) = AggOp(item.func, column)
    BY <1>8 DEF GroupValue, column
  <2>. QED
    BY <1>5, <1>8, <2>1
<1>. QED
  BY <1>4, <1>6, <1>7, <1>8

--------------------------------------------------------------------------------
GroupInv == (aggregation = "pending" => aggRows \in AggregatedRows) /\ GroupsAgree

LEMMA GroupsBegin == AggregationInit => GroupInv
BY DEF AggregationInit, GroupInv, GroupsAgree

LEMMA GroupsStay == GroupInv /\ UNCHANGED aggregationVars => GroupInv'
<1>. SUFFICES ASSUME GroupInv, UNCHANGED aggregationVars PROVE GroupInv'
  OBVIOUS
<1>1. aggRows' = aggRows /\ aggItems' = aggItems /\ aggregated' = aggregated /\ aggregation' = aggregation
  BY DEF aggregationVars
<1>. QED
  BY <1>1 DEF GroupInv, GroupsAgree, Group, EvaluateAggregation

\* What is left to say of the groups once they are aggregated.
GroupRows(rs) ==
    /\ {key \in AllKeys : ~HasNull(key)} \subseteq {rs[g].key : g \in DOMAIN rs}
    /\ \A g \in DOMAIN rs : ~HasNull(rs[g].key) =>
         /\ rs[g].values = [i \in DOMAIN aggItems |-> EvaluateAggregation(aggItems[i], Group(rs[g].key))]
         /\ \A h \in DOMAIN rs : rs[h].key = rs[g].key => h = g

LEMMA GroupsDone ==
    ASSUME aggregation = "pending", aggregation' = "done", UNCHANGED <<aggRows, aggItems>>, GroupRows(aggregated')
    PROVE  GroupInv'
<1>1. aggRows' = aggRows /\ aggItems' = aggItems
  OBVIOUS
<1>2. PICK rs : rs = aggregated'
  OBVIOUS
<1>3. GroupsAgree' <=>
        /\ aggregation' = "length_error" => \E i \in DOMAIN aggRows : HasNull(aggRows[i].key)
        /\ aggregation' = "done" => GroupRows(rs)
  BY <1>1, <1>2 DEF GroupsAgree, GroupRows, AllKeys, Group
<1>. QED
  BY <1>2, <1>3 DEF GroupInv

LEMMA AggregateAllKeeps == GroupInv /\ AggregateAll => GroupInv'
<1>. SUFFICES ASSUME GroupInv, AggregateAll PROVE GroupInv'
  OBVIOUS
<1>1. aggRows \in AggregatedRows /\ aggregation = "pending" /\ \A i \in DOMAIN aggRows : aggRows[i].key = <<>>
  BY DEF GroupInv, AggregateAll
<1>2. PICK vs : vs = [i \in DOMAIN aggItems |-> EvaluateAggregation(aggItems[i], aggRows)]
  OBVIOUS
<1>3. PICK rs : rs = aggregated'
  OBVIOUS
<1>4. rs = <<[key |-> <<>>, values |-> vs]>> /\ aggregation' = "done" /\ UNCHANGED <<aggRows, aggItems>>
  BY <1>2, <1>3 DEF AggregateAll
<1>5. DOMAIN rs = {1} /\ rs[1].key = <<>> /\ rs[1].values = vs
  BY <1>4
<1>6. Group(<<>>) = aggRows
  <2>1. {i \in DOMAIN aggRows : aggRows[i].key = <<>>} = DOMAIN aggRows
    BY <1>1
  <2>. QED
    BY <1>1, <2>1, KeyFacts, AllRows DEF Group
<1>7. GroupRows(rs)
  <2>1. \A k \in AllKeys : k = <<>>
    BY <1>1 DEF AllKeys
  <2>2. {k \in AllKeys : ~HasNull(k)} \subseteq {rs[g].key : g \in DOMAIN rs}
    BY <1>5, <2>1
  <2>3. vs = [i \in DOMAIN aggItems |-> EvaluateAggregation(aggItems[i], Group(<<>>))]
    BY <1>2, <1>6
  <2>. QED
    BY <1>5, <2>2, <2>3 DEF GroupRows
<1>. QED
  BY <1>1, <1>3, <1>4, <1>7, GroupsDone

LEMMA AggregateGroupsKeeps == GroupInv /\ AggregateGroups => GroupInv'
<1>. SUFFICES ASSUME GroupInv, AggregateGroups PROVE GroupInv'
  OBVIOUS
<1>. DEFINE plain == GroupKeys(TRUE)
            series == GroupKeys(FALSE)
            Series(i) == GroupedSeries(aggItems[i])
            blank == [j \in DOMAIN series[1] |-> Null]
            left == IF plain = <<>> /\ Vectorized # {} THEN [g \in DOMAIN series |-> blank] ELSE plain
            Value(i, g) == IF IsFallback(aggItems[i]) THEN IF plain = <<>> THEN Null
                                                           ELSE EvaluateAggregation(aggItems[i], Group(plain[g]))
                           ELSE Series(i)[g]
            lopsided == Vectorized # {} /\ plain # <<>> /\ Len(plain) # Len(series)
            made == [g \in DOMAIN left |-> [key |-> left[g], values |-> [i \in DOMAIN aggItems |-> Value(i, g)]]]
<1>1. /\ aggRows \in AggregatedRows /\ aggregation = "pending" /\ aggRows # <<>>
      /\ \A i \in DOMAIN aggRows : aggRows[i].key # <<>>
      /\ UNCHANGED <<aggRows, aggItems>>
  BY DEF GroupInv, AggregateGroups
<1>2. IF lopsided THEN aggregation' = "length_error"
      ELSE aggregated' = made /\ aggregation' = "done"
  BY DEF AggregateGroups
<1>3. /\ Enumerates(series, AllKeys) /\ Enumerates(plain, {k \in AllKeys : ~HasNull(k)})
      /\ Len(plain) = Len(series) => plain = series
      /\ (\A k \in AllKeys : ~HasNull(k)) => plain = series
      /\ \A i \in DOMAIN aggRows : IsList(aggRows[i].key)
  BY <1>1, KeyFacts
<1>. HIDE DEF plain, series
<1>4. CASE lopsided
  <2>1. \E k \in AllKeys : HasNull(k)
    BY <1>3, <1>4
  <2>2. \E i \in DOMAIN aggRows : HasNull(aggRows[i].key)
    BY <2>1 DEF AllKeys
  <2>3. aggregation' = "length_error" /\ aggRows' = aggRows
    BY <1>1, <1>2, <1>4
  <2>. QED
    BY <2>2, <2>3 DEF GroupInv, GroupsAgree
<1>5. CASE ~lopsided
  <2>1. aggregated' = made /\ aggregation' = "done"
    BY <1>2, <1>5
  <2>2. CASE plain = <<>> /\ Vectorized # {}
    <3>1. left = [g \in DOMAIN series |-> blank]
      BY <2>2
    <3>2. ASSUME NEW g \in DOMAIN made PROVE HasNull(made[g].key)
      <4>1. g \in DOMAIN series /\ made[g].key = blank
        BY <3>1
      <4>2. 1 \in DOMAIN series
        <5>1. Len(series) \in Nat /\ DOMAIN series = 1 .. Len(series)
          BY <1>3, ListFacts DEF Enumerates
        <5>. QED
          BY <4>1, <5>1
      <4>3. PICK i \in DOMAIN aggRows : series[1] = aggRows[i].key
        BY <1>3, <4>2 DEF Enumerates, AllKeys
      <4>4. \E j : j \in DOMAIN series[1]
        <5>1. PICK k : k = series[1]
          OBVIOUS
        <5>2. k \in Seq(Range(k)) /\ k # <<>>
          BY <1>1, <1>3, <4>3, <5>1 DEF IsList
        <5>3. 1 \in DOMAIN k
          BY <5>2
        <5>. QED
          BY <5>1, <5>3
      <4>5. Null \in Range(blank)
        BY <4>4 DEF Range
      <4>. QED
        BY <4>1, <4>5 DEF HasNull
    <3>3. {k \in AllKeys : ~HasNull(k)} = {}
      <4>1. DOMAIN plain = {}
        BY <2>2
      <4>. QED
        BY <1>3, <4>1 DEF Enumerates
    <3>. HIDE DEF made
    <3>4. GroupRows(made)
      BY <3>2, <3>3 DEF GroupRows
    <3>. HIDE DEF lopsided, left
    <3>. QED
      BY <1>1, <2>1, <3>4, GroupsDone
  <2>3. CASE ~(plain = <<>> /\ Vectorized # {})
    <3>1. left = plain
      BY <2>3
    <3>2. ASSUME NEW g \in DOMAIN plain
          PROVE  made[g].key = plain[g] /\ made[g].values = [i \in DOMAIN aggItems |-> EvaluateAggregation(aggItems[i], Group(plain[g]))]
      <4>1. plain # <<>>
        BY <1>3 DEF Enumerates
      <4>2. ASSUME NEW i \in DOMAIN aggItems PROVE Value(i, g) = EvaluateAggregation(aggItems[i], Group(plain[g]))
        <5>1. CASE IsFallback(aggItems[i])
          BY <4>1, <5>1
        <5>2. CASE ~IsFallback(aggItems[i])
          <6>1. Vectorized # {}
            BY <5>2 DEF Vectorized
          <6>2. plain = series
            BY <1>3, <1>5, <4>1, <6>1
          <6>3. Value(i, g) = GroupValue(aggItems[i], Group(series[g]))
            BY <5>2, <6>2 DEF GroupedSeries, series
          <6>4. IsList(Group(series[g]))
            BY <1>1, GroupIsList
          <6>. QED
            BY <5>2, <6>2, <6>3, <6>4, GroupValueIs
        <5>. QED
          BY <5>1, <5>2
      <4>3. made[g].key = plain[g] /\ made[g].values = [i \in DOMAIN aggItems |-> Value(i, g)]
        BY <3>1
      <4>. HIDE DEF Value, made
      <4>. QED
        BY <4>2, <4>3
    <3>3. DOMAIN made = DOMAIN plain
      BY <3>1
    <3>. HIDE DEF made
    <3>4. {k \in AllKeys : ~HasNull(k)} \subseteq {made[g].key : g \in DOMAIN made}
      <4>. SUFFICES ASSUME NEW k \in {k \in AllKeys : ~HasNull(k)} PROVE \E g \in DOMAIN made : made[g].key = k
        OBVIOUS
      <4>1. PICK g \in DOMAIN plain : plain[g] = k
        BY <1>3 DEF Enumerates
      <4>. QED
        BY <3>2, <3>3, <4>1
    <3>5. \A g, h \in DOMAIN made : made[h].key = made[g].key => h = g
      BY <1>3, <3>2, <3>3 DEF Enumerates
    <3>6. \A g \in DOMAIN made : made[g].values = [i \in DOMAIN aggItems |-> EvaluateAggregation(aggItems[i], Group(made[g].key))]
      BY <3>2, <3>3
    <3>7. GroupRows(made)
      BY <3>4, <3>5, <3>6 DEF GroupRows
    <3>. HIDE DEF lopsided, left
    <3>. QED
      BY <1>1, <2>1, <3>7, GroupsDone
  <2>. QED
    BY <2>2, <2>3
<1>. QED
  BY <1>4, <1>5

LEMMA GroupSteps == GroupInv /\ AggregationNext => GroupInv'
BY AggregateAllKeeps, AggregateGroupsKeeps DEF AggregationNext

\* Whatever the predicate, the rows and the aggregates, of the rows on which no
\* quantifier is unknown a WHERE leaves those on which the predicate is true in
\* three-valued logic, decided by the evaluators, by SQL or by both, and a grouped aggregate says of each key what the aggregates say of
\* its rows (boolean_evaluator.py, scan_operators.py, aggregation_planner.py).
THEOREM EvaluationIsExact == EvaluationSpec => []EvaluationExact
<1>1. EvaluationInit => FilterInv /\ GroupInv
  BY FilterBegins, GroupsBegin DEF EvaluationInit
<1>2. FilterInv /\ GroupInv /\ [EvaluationNext]_<<expressionVars, aggregationVars>> => (FilterInv /\ GroupInv)'
  <2>1. FilterInv /\ GroupInv /\ ExpressionNext /\ UNCHANGED aggregationVars => (FilterInv /\ GroupInv)'
    BY FilterSteps, GroupsStay
  <2>2. FilterInv /\ GroupInv /\ AggregationNext /\ UNCHANGED expressionVars => (FilterInv /\ GroupInv)'
    BY GroupSteps, FilterStays
  <2>3. FilterInv /\ GroupInv /\ UNCHANGED <<expressionVars, aggregationVars>> => (FilterInv /\ GroupInv)'
    BY FilterStays, GroupsStay
  <2>. QED
    BY <2>1, <2>2, <2>3 DEF EvaluationNext
<1>3. FilterInv /\ GroupInv => EvaluationExact
  BY FilterIsExact DEF GroupInv, EvaluationExact
<1>. QED
  BY <1>1, <1>2, <1>3, PTL DEF EvaluationSpec
================================================================================
