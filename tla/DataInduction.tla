---------------------------- MODULE DataInduction ----------------------------
(***************************************************************************)
(* Facts about numbers and sequences that proofs by induction over data    *)
(* need: every set of naturals has a least element, so a set of naturals   *)
(* with 0 and with every successor is all of them; the members of a finite *)
(* set are numbered by how many come before each, and so can be written in *)
(* order; the running sums of a sequence of numbers exist, are determined, *)
(* and change in the expected way when a number is added at the end or     *)
(* taken out; and so do the sums of a function over a finite set.          *)
(*                                                                         *)
(* The induction of the proof library takes the property as an operator    *)
(* argument; here the property is a set, { n \in Nat : P(n) }.             *)
(***************************************************************************)
EXTENDS Integers, FiniteSets, SequencesExt, FiniteSetTheorems, SequenceTheorems, TLAPS

\* Of a set of initial segments 1 .. n, the smallest is that of the least n.
LEMMA Least ==
    ASSUME NEW S \in SUBSET Nat, S # {}
    PROVE  \E n \in S : \A m \in S : n <= m
<1>. DEFINE T == {1 .. n : n \in S}
<1>1. T # {}
  OBVIOUS
<1>2. T \subseteq FiniteSubsetsOf(Nat)
  BY FS_Interval DEF FiniteSubsetsOf
<1>3. IsWellFoundedOn(StrictSubsetOrdering(Nat), FiniteSubsetsOf(Nat))
  BY FS_StrictSubsetOrderingWellFounded
<1>. HIDE DEF T
<1>4. \E x \in T : \A y \in T : <<y, x>> \notin StrictSubsetOrdering(Nat)
  BY <1>1, <1>2, <1>3, WFMin
<1>5. PICK x \in T : \A y \in T : <<y, x>> \notin StrictSubsetOrdering(Nat)
  BY <1>4
<1>6. PICK n \in S : x = 1 .. n
  BY <1>5 DEF T
<1>7. ASSUME NEW m \in S, ~(n <= m) PROVE FALSE
  <2>1. 1 .. m \in T
    BY DEF T
  <2>2. 1 .. m \in SUBSET Nat /\ x \in SUBSET Nat
    BY <1>6
  <2>3. (1 .. m) \subseteq x /\ n \in x /\ n \notin 1 .. m
    BY <1>6, <1>7
  <2>. QED
    BY <1>5, <2>1, <2>2, <2>3 DEF StrictSubsetOrdering
<1>. QED
  BY <1>7

\* Induction over the natural numbers.
LEMMA SetInduction ==
    ASSUME NEW S \in SUBSET Nat, 0 \in S, \A n \in S : n + 1 \in S
    PROVE  S = Nat
<1>. SUFFICES ASSUME Nat \ S # {} PROVE FALSE
  OBVIOUS
<1>1. PICK n \in Nat \ S : \A m \in Nat \ S : n <= m
  BY Least
<1>2. n # 0 /\ n - 1 \in Nat /\ n - 1 \in S
  BY <1>1
<1>. QED
  BY <1>1, <1>2
-----------------------------------------------------------------------------
\* A function on the naturals: its value at 0, and every next one from the one before.
RunsFrom(f, base, step) == f = [n \in Nat |-> IF n = 0 THEN base ELSE step[<<n - 1, f[n - 1]>>]]

\* There is one, for every first value and every step from a value to the next.
LEMMA NatRecursion ==
    ASSUME NEW V, NEW base \in V, NEW step \in [Nat \X V -> V]
    PROVE  \E f \in [Nat -> V] : RunsFrom(f, base, step)
<1>. DEFINE Upto(g, n) == /\ g \in [0 .. n -> V] /\ g[0] = base
                          /\ \A i \in 1 .. n : g[i] = step[<<i - 1, g[i - 1]>>]
            S == {n \in Nat : \E g : Upto(g, n)}
<1>1. 0 \in S
  <2>1. Upto([i \in 0 .. 0 |-> base], 0)
    OBVIOUS
  <2>. QED
    BY <2>1
<1>2. ASSUME NEW n \in S PROVE n + 1 \in S
  <2>1. PICK g : Upto(g, n)
    OBVIOUS
  <2>2. n \in Nat
    OBVIOUS
  <2>. DEFINE h == [i \in 0 .. (n + 1) |-> IF i <= n THEN g[i] ELSE step[<<n, g[n]>>]]
  <2>3. step[<<n, g[n]>>] \in V
    BY <2>1, <2>2
  <2>4. h \in [0 .. (n + 1) -> V] /\ h[0] = base /\ \A i \in 0 .. n : h[i] = g[i]
    BY <2>1, <2>2, <2>3
  <2>5. ASSUME NEW i \in 1 .. (n + 1) PROVE h[i] = step[<<i - 1, h[i - 1]>>]
    <3>1. CASE i <= n
      <4>1. i \in 1 .. n /\ i - 1 \in 0 .. n /\ i \in 0 .. n
        BY <2>2, <3>1
      <4>. HIDE DEF h
      <4>. QED
        BY <2>1, <2>4, <4>1
    <3>2. CASE i = n + 1
      <4>1. i - 1 = n /\ n \in 0 .. n /\ ~(i <= n) /\ i \in 0 .. (n + 1)
        BY <2>2, <3>2
      <4>2. h[i] = step[<<n, g[n]>>]
        BY <4>1
      <4>. HIDE DEF h
      <4>. QED
        BY <2>4, <4>1, <4>2
    <3>. QED
      BY <2>2, <3>1, <3>2
  <2>. HIDE DEF h
  <2>6. Upto(h, n + 1)
    BY <2>4, <2>5
  <2>. QED
    BY <2>2, <2>6
<1>3. S = Nat
  <2>1. S \in SUBSET Nat
    OBVIOUS
  <2>. HIDE DEF S
  <2>. QED
    BY <1>1, <1>2, <2>1, SetInduction
<1>4. \A n \in Nat : \E g : Upto(g, n)
  BY <1>3
<1>5. ASSUME NEW m \in Nat, NEW n \in Nat, NEW g, NEW h, Upto(g, m), Upto(h, n) PROVE \A i \in Nat : i <= m /\ i <= n => g[i] = h[i]
  <2>. DEFINE E == {i \in Nat : i <= m /\ i <= n => g[i] = h[i]}
  <2>1. 0 \in E
    BY <1>5
  <2>2. ASSUME NEW i \in E PROVE i + 1 \in E
    <3>. SUFFICES ASSUME i + 1 <= m, i + 1 <= n PROVE g[i + 1] = h[i + 1]
      OBVIOUS
    <3>1. i + 1 \in 1 .. m /\ i + 1 \in 1 .. n /\ (i + 1) - 1 = i /\ g[i] = h[i]
      OBVIOUS
    <3>2. g[i + 1] = step[<<(i + 1) - 1, g[(i + 1) - 1]>>] /\ h[i + 1] = step[<<(i + 1) - 1, h[(i + 1) - 1]>>]
      BY <1>5, <3>1
    <3>. QED
      BY <3>1, <3>2
  <2>3. E = Nat
    <3>1. E \in SUBSET Nat
      OBVIOUS
    <3>. HIDE DEF E
    <3>. QED
      BY <2>1, <2>2, <3>1, SetInduction
  <2>. QED
    BY <2>3
<1>. DEFINE run == [n \in Nat |-> CHOOSE g : Upto(g, n)]
            f == [n \in Nat |-> run[n][n]]
<1>6. \A n \in Nat : Upto(run[n], n)
  <2>. HIDE DEF Upto
  <2>. QED
    BY <1>4
<1>. HIDE DEF run, S
<1>7. \A n \in Nat : run[n][n] \in V /\ (n = 0 => run[n][n] = base)
  BY <1>6
<1>8. ASSUME NEW n \in Nat, n # 0 PROVE run[n][n] = step[<<n - 1, run[n - 1][n - 1]>>]
  <2>1. n \in 1 .. n /\ n - 1 \in Nat /\ n - 1 <= n /\ n - 1 <= n - 1
    BY <1>8
  <2>2. run[n][n] = step[<<n - 1, run[n][n - 1]>>]
    BY <1>6, <2>1
  <2>3. run[n][n - 1] = run[n - 1][n - 1]
    <3>. HIDE DEF Upto
    <3>. QED
      BY <1>5, <1>6, <2>1
  <2>. QED
    BY <2>2, <2>3
<1>9. f \in [Nat -> V]
  BY <1>7
<1>10. f = [n \in Nat |-> IF n = 0 THEN base ELSE step[<<n - 1, f[n - 1]>>]]
  <2>1. \A n \in Nat : n # 0 => n - 1 \in Nat
    OBVIOUS
  <2>2. \A n \in Nat : f[n] = IF n = 0 THEN base ELSE step[<<n - 1, f[n - 1]>>]
    BY <1>7, <1>8, <2>1
  <2>. HIDE DEF f
  <2>. QED
    BY <1>9, <2>2
<1>. HIDE DEF f
<1>. QED
  BY <1>9, <1>10 DEF RunsFrom
-----------------------------------------------------------------------------
\* A number has fewer numbers of a finite set before it than one that comes later.
LEMMA FewerBefore ==
    ASSUME NEW S \in SUBSET Int, IsFiniteSet(S), NEW x \in S, NEW T \in SUBSET S,
           {y \in S : y < x} \subseteq T, x \in T
    PROVE  /\ Cardinality({y \in S : y < x}) \in Nat
           /\ Cardinality({y \in S : y < x}) < Cardinality(T)
<1>1. IsFiniteSet(T) /\ Cardinality(T) \in Nat
  BY FS_Subset, FS_CardinalityType
<1>2. {y \in S : y < x} \in SUBSET (T \ {x})
  OBVIOUS
<1>3. IsFiniteSet(T \ {x}) /\ Cardinality(T \ {x}) = Cardinality(T) - 1
  BY <1>1, FS_RemoveElement
<1>4. /\ IsFiniteSet({y \in S : y < x})
      /\ Cardinality({y \in S : y < x}) <= Cardinality(T \ {x})
  BY <1>2, <1>3, FS_Subset
<1>. QED
  BY <1>1, <1>3, <1>4, FS_CardinalityType

\* The ranks of the members of a finite set of integers number them, in order.
LEMMA RanksEnumerate ==
    ASSUME NEW S \in SUBSET Int, IsFiniteSet(S)
    PROVE  LET n == Cardinality(S)
               rank == [x \in S |-> Cardinality({y \in S : y < x})]
           IN  /\ n \in Nat
               /\ rank \in [S -> 0 .. (n - 1)]
               /\ \A x, y \in S : x < y => rank[x] < rank[y]
               /\ \A x, y \in S : rank[x] = rank[y] => x = y
               /\ \A k \in 1 .. n : \E x \in S : rank[x] = k - 1
<1>. DEFINE n == Cardinality(S)
            rank == [x \in S |-> Cardinality({y \in S : y < x})]
<1>1. n \in Nat
  BY FS_CardinalityType
<1>2. \A x \in S : rank[x] \in Nat /\ rank[x] < n
  <2>. SUFFICES ASSUME NEW x \in S PROVE rank[x] \in Nat /\ rank[x] < n
    OBVIOUS
  <2>1. {y \in S : y < x} \subseteq S /\ S \in SUBSET S
    OBVIOUS
  <2>. QED
    BY <2>1, FewerBefore
<1>3. \A x, y \in S : x < y => rank[x] < rank[y]
  <2>. SUFFICES ASSUME NEW x \in S, NEW y \in S, x < y PROVE rank[x] < rank[y]
    OBVIOUS
  <2>. DEFINE T == {z \in S : z < y}
  <2>1. \A z \in S : z < x => z < y
    OBVIOUS
  <2>2. T \in SUBSET S /\ {z \in S : z < x} \subseteq T /\ x \in T
    BY <2>1
  <2>. HIDE DEF T
  <2>3. Cardinality({z \in S : z < x}) < Cardinality(T)
    BY <2>2, FewerBefore
  <2>. QED
    BY <2>3 DEF T
<1>. HIDE DEF rank
<1>4. rank \in [S -> 0 .. (n - 1)]
  BY <1>1, <1>2 DEF rank
<1>5. \A x, y \in S : rank[x] = rank[y] => x = y
  <2>. SUFFICES ASSUME NEW x \in S, NEW y \in S, rank[x] = rank[y], x # y PROVE FALSE
    OBVIOUS
  <2>1. x < y \/ y < x
    OBVIOUS
  <2>2. rank[x] < rank[y] \/ rank[y] < rank[x]
    BY <1>3, <2>1
  <2>. QED
    BY <1>2, <2>2
<1>6. rank \in Injection(S, 0 .. (n - 1))
  BY <1>4, <1>5 DEF Injection, IsInjective
<1>7. IsFiniteSet(0 .. (n - 1)) /\ Cardinality(0 .. (n - 1)) = n
  BY <1>1, FS_Interval
<1>8. rank \in Surjection(S, 0 .. (n - 1))
  BY <1>6, <1>7, FS_Injection
<1>9. ASSUME NEW k \in 1 .. n PROVE \E x \in S : rank[x] = k - 1
  <2>1. k - 1 \in 0 .. (n - 1)
    BY <1>1
  <2>. QED
    BY <1>8, <2>1 DEF Surjection
<1>. QED
  BY <1>1, <1>3, <1>4, <1>5, <1>9 DEF rank

\* A finite set of integers written by rank is an ascending sequence of it.
LEMMA AscendingSequence ==
    ASSUME NEW S \in SUBSET Int, IsFiniteSet(S),
           NEW s, s = [n \in 1 .. Cardinality(S) |-> CHOOSE x \in S : Cardinality({y \in S : y < x}) = n - 1]
    PROVE  /\ s \in Seq(S)
           /\ Cardinality(S) \in Nat /\ Len(s) = Cardinality(S) /\ DOMAIN s = 1 .. Len(s)
           /\ \A i, j \in 1 .. Len(s) : i < j => s[i] < s[j]
           /\ Range(s) = S
<1>. DEFINE rank == [x \in S |-> Cardinality({y \in S : y < x})]
            N == Cardinality(S)
<1>1. /\ N \in Nat
      /\ rank \in [S -> 0 .. (N - 1)]
      /\ \A x, y \in S : x < y => rank[x] < rank[y]
      /\ \A x, y \in S : rank[x] = rank[y] => x = y
      /\ \A k \in 1 .. N : \E x \in S : rank[x] = k - 1
  BY RanksEnumerate
<1>2. \A x \in S : rank[x] = Cardinality({y \in S : y < x})
  OBVIOUS
<1>3. DOMAIN s = 1 .. N /\ \A n \in 1 .. N : s[n] = CHOOSE x \in S : Cardinality({y \in S : y < x}) = n - 1
  OBVIOUS
<1>. HIDE DEF rank, N
<1>4. ASSUME NEW n \in 1 .. N PROVE s[n] \in S /\ rank[s[n]] = n - 1
  <2>1. \E x \in S : Cardinality({y \in S : y < x}) = n - 1
    BY <1>1, <1>2
  <2>2. s[n] \in S /\ Cardinality({y \in S : y < s[n]}) = n - 1
    BY <1>3, <2>1
  <2>. QED
    BY <1>2, <2>2
<1>5. s \in Seq(S) /\ Len(s) = N
  <2>. DEFINE at(n) == CHOOSE x \in S : Cardinality({y \in S : y < x}) = n - 1
  <2>0. s = [n \in 1 .. N |-> at(n)]
    BY DEF N
  <2>. HIDE DEF at
  <2>1. s = [n \in 1 .. N |-> s[n]]
    BY ONLY <2>0
  <2>2. s \in [1 .. N -> S]
    BY ONLY <1>4, <2>1
  <2>. QED
    BY ONLY <1>1, <2>2
<1>6. ASSUME NEW i \in 1 .. N, NEW j \in 1 .. N, i < j PROVE s[i] < s[j]
  <2>1. s[i] \in S /\ s[j] \in S /\ s[i] \in Int /\ s[j] \in Int
    BY <1>4
  <2>2. i \in Int /\ j \in Int /\ i - 1 < j - 1
    BY <1>1, <1>6
  <2>3. rank[s[i]] = i - 1 /\ rank[s[j]] = j - 1
    BY <1>4
  <2>4. ~(s[j] < s[i]) /\ s[i] # s[j]
    <3>1. s[j] < s[i] => j - 1 < i - 1
      BY <1>1, <2>1, <2>3
    <3>. QED
      BY <2>2, <2>3, <3>1
  <2>. QED
    BY <2>1, <2>4
<1>7. ASSUME NEW x \in S PROVE \E n \in 1 .. N : s[n] = x
  <2>1. rank[x] + 1 \in 1 .. N /\ (rank[x] + 1) - 1 = rank[x]
    BY <1>1
  <2>2. s[rank[x] + 1] \in S /\ rank[s[rank[x] + 1]] = rank[x]
    BY <1>4, <2>1
  <2>3. s[rank[x] + 1] = x
    BY <1>1, <2>2
  <2>. QED
    BY <2>1, <2>3
<1>8. Range(s) = S
  <2>1. \A n \in DOMAIN s : s[n] \in S
    BY ONLY <1>3, <1>4
  <2>2. \A x \in S : \E n \in DOMAIN s : s[n] = x
    BY ONLY <1>3, <1>7
  <2>. QED
    BY ONLY <2>1, <2>2 DEF Range
<1>. QED
  BY <1>1, <1>3, <1>5, <1>6, <1>8 DEF N
-----------------------------------------------------------------------------
\* Append(s, x) is s followed by x.
LEMMA AppendShape ==
    ASSUME NEW S, NEW s \in Seq(S), NEW x \in S
    PROVE  /\ Append(s, x) \in Seq(S)
           /\ Len(s) \in Nat /\ Len(Append(s, x)) = Len(s) + 1
           /\ DOMAIN s = 1 .. Len(s)
           /\ DOMAIN Append(s, x) = 1 .. Len(s) + 1
           /\ \A i \in 1 .. Len(s) : Append(s, x)[i] = s[i]
           /\ Append(s, x)[Len(s) + 1] = x
<1>1. Append(s, x) \in Seq(S)
  OBVIOUS
<1>2. Len(s) \in Nat /\ Len(Append(s, x)) = Len(s) + 1 /\ DOMAIN s = 1 .. Len(s)
  OBVIOUS
<1>3. DOMAIN Append(s, x) = 1 .. Len(s) + 1
  BY <1>1, <1>2
<1>4. ASSUME NEW i \in 1 .. Len(s) PROVE Append(s, x)[i] = s[i]
  OBVIOUS
<1>5. Append(s, x)[Len(s) + 1] = x
  OBVIOUS
<1>. QED
  BY <1>1, <1>2, <1>3, <1>4, <1>5

\* RemoveAt(s, i) is s without its i-th element.
LEMMA RemoveAtShape ==
    ASSUME NEW S, NEW s \in Seq(S), NEW i \in 1 .. Len(s)
    PROVE  /\ RemoveAt(s, i) \in Seq(S)
           /\ Len(RemoveAt(s, i)) = Len(s) - 1
           /\ \A n \in 1 .. (Len(s) - 1) :
                RemoveAt(s, i)[n] = IF n < i THEN s[n] ELSE s[n + 1]
<1>. DEFINE a == SubSeq(s, 1, i - 1)
            b == SubSeq(s, i + 1, Len(s))
<1>0. Len(s) \in Nat
  OBVIOUS
<1>1. a \in Seq(S) /\ Len(a) = i - 1 /\ \A n \in 1 .. (i - 1) : a[n] = s[n]
  BY <1>0
<1>2. b \in Seq(S) /\ Len(b) = Len(s) - i /\ \A n \in 1 .. (Len(s) - i) : b[n] = s[n + i]
  BY <1>0
<1>3. RemoveAt(s, i) = a \o b
  BY DEF RemoveAt
<1>. HIDE DEF a, b
<1>4. RemoveAt(s, i) \in Seq(S) /\ Len(RemoveAt(s, i)) = Len(s) - 1
  BY <1>0, <1>1, <1>2, <1>3
<1>5. ASSUME NEW n \in 1 .. (Len(s) - 1)
      PROVE  RemoveAt(s, i)[n] = IF n < i THEN s[n] ELSE s[n + 1]
  <2>1. RemoveAt(s, i)[n] = IF n <= Len(a) THEN a[n] ELSE b[n - Len(a)]
    BY <1>0, <1>1, <1>2, <1>3, ConcatProperties
  <2>2. CASE n < i
    BY <1>0, <1>1, <2>1, <2>2
  <2>3. CASE ~(n < i)
    <3>1. n - (i - 1) \in 1 .. (Len(s) - i) /\ (n - (i - 1)) + i = n + 1 /\ ~(n <= i - 1)
      BY <1>0, <2>3
    <3>. QED
      BY <1>1, <1>2, <2>1, <2>3, <3>1
  <2>. QED
    BY <2>2, <2>3
<1>. QED
  BY <1>4, <1>5

-----------------------------------------------------------------------------
\* f[n] is the sum of the first n of the numbers w[1], ..., w[N].
RunningSum(f, w, N) ==
    /\ f = [n \in 0 .. N |-> f[n]]
    /\ f[0] = 0
    /\ \A n \in 1 .. N : f[n] = f[n - 1] + w[n]

\* The running sums of natural numbers exist and are natural numbers.
LEMMA RunningSumExists ==
    ASSUME NEW N \in Nat, NEW w, \A n \in 1 .. N : w[n] \in Nat
    PROVE  \E f \in [0 .. N -> Nat] : RunningSum(f, w, N)
<1>. DEFINE S == {m \in Nat : m <= N => \E f \in [0 .. m -> Nat] : RunningSum(f, w, m)}
<1>1. 0 \in S
  <2>. DEFINE f == [n \in 0 .. 0 |-> 0]
  <2>1. f \in [0 .. 0 -> Nat] /\ RunningSum(f, w, 0)
    BY DEF RunningSum
  <2>. QED
    BY <2>1
<1>2. ASSUME NEW m \in S PROVE m + 1 \in S
  <2>. SUFFICES ASSUME m + 1 <= N
                PROVE  \E g \in [0 .. (m + 1) -> Nat] : RunningSum(g, w, m + 1)
    OBVIOUS
  <2>1. PICK f \in [0 .. m -> Nat] : RunningSum(f, w, m)
    BY <1>2
  <2>2. m \in Nat /\ m + 1 \in 1 .. N
    BY <1>2
  <2>. DEFINE g == [n \in 0 .. (m + 1) |-> IF n <= m THEN f[n] ELSE f[m] + w[m + 1]]
  <2>3. g \in [0 .. (m + 1) -> Nat]
    BY <2>2
  <2>4. g[0] = 0
    BY <2>1, <2>2 DEF RunningSum
  <2>5. ASSUME NEW n \in 1 .. (m + 1) PROVE g[n] = g[n - 1] + w[n]
    <3>1. CASE n \in 1 .. m
      <4>1. f[n] = f[n - 1] + w[n]
        BY <2>1, <3>1 DEF RunningSum
      <4>2. g[n] = f[n] /\ g[n - 1] = f[n - 1]
        BY <2>2, <3>1
      <4>. QED
        BY <4>1, <4>2
    <3>2. CASE n = m + 1
      BY <2>2, <3>2
    <3>. QED
      BY <2>2, <3>1, <3>2
  <2>6. RunningSum(g, w, m + 1)
    BY <2>3, <2>4, <2>5 DEF RunningSum
  <2>. QED
    BY <2>3, <2>6
<1>. HIDE DEF S
<1>3. S = Nat
  <2>1. S \in SUBSET Nat
    BY DEF S
  <2>. QED
    BY <1>1, <1>2, <2>1, SetInduction
<1>. QED
  BY <1>3 DEF S

\* There is one sequence of running sums.
LEMMA RunningSumUnique ==
    ASSUME NEW N \in Nat, NEW w, NEW f, NEW g,
           RunningSum(f, w, N), RunningSum(g, w, N)
    PROVE  f = g
<1>. DEFINE S == {m \in Nat : m <= N => f[m] = g[m]}
<1>1. 0 \in S
  BY DEF RunningSum
<1>2. ASSUME NEW m \in S PROVE m + 1 \in S
  <2>. SUFFICES ASSUME m + 1 <= N PROVE f[m + 1] = g[m + 1]
    OBVIOUS
  <2>1. m + 1 \in 1 .. N /\ f[m] = g[m] /\ (m + 1) - 1 = m
    BY <1>2
  <2>2. f[m + 1] = f[(m + 1) - 1] + w[m + 1] /\ g[m + 1] = g[(m + 1) - 1] + w[m + 1]
    BY <2>1 DEF RunningSum
  <2>. QED
    BY <2>1, <2>2
<1>. HIDE DEF S
<1>3. S = Nat
  <2>1. S \in SUBSET Nat
    BY DEF S
  <2>. QED
    BY <1>1, <1>2, <2>1, SetInduction
<1>4. \A n \in 0 .. N : f[n] = g[n]
  BY <1>3 DEF S
<1>. QED
  BY <1>4 DEF RunningSum

\* One more number at the end adds itself to the sum.
LEMMA RunningSumAppend ==
    ASSUME NEW N \in Nat, NEW w, NEW w2,
           \A n \in 1 .. (N + 1) : w2[n] \in Nat,
           \A n \in 1 .. N : w[n] = w2[n],
           NEW f \in [0 .. N -> Nat], RunningSum(f, w, N),
           NEW g, RunningSum(g, w2, N + 1)
    PROVE  g[N + 1] = f[N] + w2[N + 1]
<1>. DEFINE h == [n \in 0 .. (N + 1) |-> IF n <= N THEN f[n] ELSE f[N] + w2[N + 1]]
<1>1. h[0] = 0
  BY DEF RunningSum
<1>2. ASSUME NEW n \in 1 .. (N + 1) PROVE h[n] = h[n - 1] + w2[n]
  <2>1. CASE n \in 1 .. N
    <3>1. f[n] = f[n - 1] + w[n]
      BY <2>1 DEF RunningSum
    <3>2. h[n] = f[n] /\ h[n - 1] = f[n - 1] /\ w2[n] = w[n]
      BY <2>1
    <3>. QED
      BY <3>1, <3>2
  <2>2. CASE n = N + 1
    BY <2>2
  <2>. QED
    BY <2>1, <2>2
<1>3. h[N + 1] = f[N] + w2[N + 1]
  OBVIOUS
<1>. HIDE DEF h
<1>4. h = [n \in 0 .. (N + 1) |-> h[n]]
  BY DEF h
<1>5. RunningSum(h, w2, N + 1)
  BY <1>1, <1>2, <1>4 DEF RunningSum
<1>. QED
  BY <1>3, <1>5, RunningSumUnique

\* The N numbers that are left when the i-th is taken out of N + 1 of them.
TakenOut(w2, w, i, N) ==
    /\ i \in 1 .. (N + 1)
    /\ \A n \in 1 .. (N + 1) : w[n] \in Nat
    /\ \A n \in 1 .. (i - 1) : w2[n] = w[n]
    /\ \A n \in i .. N : w2[n] = w[n + 1]

\* A number taken out, with those after it closing up, is subtracted from the sum.
LEMMA RunningSumRemove ==
    ASSUME NEW N \in Nat, NEW M, M = N + 1, NEW i, NEW w, NEW w2, TakenOut(w2, w, i, N),
           NEW f, RunningSum(f, w, M), NEW g, RunningSum(g, w2, N)
    PROVE  g[N] = f[M] - w[i]
<1>. DEFINE h == [n \in 0 .. N |-> IF n < i THEN f[n] ELSE f[n + 1] - w[i]]
<1>0. /\ M \in Nat /\ i \in 1 .. M
      /\ \A n \in 1 .. M : w[n] \in Nat /\ f[n] = f[n - 1] + w[n]
      /\ \A n \in 1 .. (i - 1) : w2[n] = w[n]
      /\ \A n \in i .. N : w2[n] = w[n + 1]
  BY DEF TakenOut, RunningSum
<1>a. f \in [0 .. M -> Nat]
  <2>1. PICK s \in [0 .. M -> Nat] : RunningSum(s, w, M)
    BY <1>0, RunningSumExists
  <2>2. f = s
    BY <1>0, <2>1, RunningSumUnique
  <2>. QED
    BY <2>1, <2>2
<1>1. h[0] = 0
  BY <1>0 DEF RunningSum
<1>2. ASSUME NEW n \in 1 .. N PROVE h[n] = h[n - 1] + w2[n]
  <2>1. f[n] = f[n - 1] + w[n] /\ f[n + 1] = f[n] + w[n + 1]
    <3>1. n \in 1 .. M /\ n + 1 \in 1 .. M /\ (n + 1) - 1 = n
      BY <1>0
    <3>. QED
      BY <1>0, <3>1
  <2>2. /\ n \in 0 .. N /\ n - 1 \in 0 .. N /\ (n - 1) + 1 = n
        /\ n \in 1 .. M /\ n + 1 \in 1 .. M
        /\ n \in 0 .. M /\ n - 1 \in 0 .. M /\ n + 1 \in 0 .. M
    OBVIOUS
  <2>3. h[n] = (IF n < i THEN f[n] ELSE f[n + 1] - w[i])
    BY <2>2
  <2>4. h[n - 1] = (IF n - 1 < i THEN f[n - 1] ELSE f[n] - w[i])
    BY <2>2
  <2>5. /\ f[n - 1] \in Nat /\ f[n] \in Nat /\ f[n + 1] \in Nat
        /\ w[n] \in Nat /\ w[n + 1] \in Nat /\ w[i] \in Nat /\ i \in Nat
    BY <1>0, <1>a, <2>2
  <2>. HIDE DEF h
  <2>6. CASE n < i
    <3>1. n \in 1 .. (i - 1) /\ n - 1 < i
      BY <2>5, <2>6
    <3>. QED
      BY <1>0, <2>1, <2>3, <2>4, <2>5, <2>6, <3>1
  <2>7. CASE n = i
    <3>1. n \in i .. N /\ n - 1 < i
      BY <2>5, <2>7
    <3>2. w2[n] = w[n + 1]
      BY <1>0, <3>1
    <3>. QED
      BY <2>1, <2>3, <2>4, <2>5, <2>7, <3>1, <3>2
  <2>8. CASE n > i
    <3>1. n \in i .. N /\ ~(n - 1 < i)
      BY <2>5, <2>8
    <3>2. w2[n] = w[n + 1]
      BY <1>0, <3>1
    <3>. QED
      BY <2>1, <2>3, <2>4, <2>5, <2>8, <3>1, <3>2
  <2>. QED
    BY <2>5, <2>6, <2>7, <2>8
<1>3. h[N] = f[M] - w[i]
  <2>1. CASE i = M
    <3>1. M \in 1 .. M /\ M - 1 = N /\ N \in 0 .. N /\ N < i
      BY <2>1
    <3>2. f[M] = f[N] + w[M] /\ f[N] \in Nat /\ w[M] \in Nat
      BY <1>0, <1>a, <3>1
    <3>3. h[N] = f[N]
      BY <3>1
    <3>. QED
      BY <2>1, <3>2, <3>3
  <2>2. CASE i # M
    BY <1>0, <2>2
  <2>. QED
    BY <2>1, <2>2
<1>. HIDE DEF h
<1>4. h = [n \in 0 .. N |-> h[n]]
  BY DEF h
<1>5. RunningSum(h, w2, N)
  BY <1>1, <1>2, <1>4 DEF RunningSum
<1>. QED
  BY <1>3, <1>5, RunningSumUnique
-----------------------------------------------------------------------------
\* Subsets of a finite set are in P if each is once those with an element less are.
LEMMA SubsetInduction ==
    ASSUME NEW S, IsFiniteSet(S), NEW P,
           \A s \in SUBSET S : (\A x \in s : s \ {x} \in P) => s \in P
    PROVE  SUBSET S \subseteq P
<1>. DEFINE N == {n \in Nat : \A s \in SUBSET S : Cardinality(s) = n => s \in P}
<1>1. \A s \in SUBSET S : IsFiniteSet(s) /\ Cardinality(s) \in Nat
  BY FS_Subset, FS_CardinalityType
<1>2. 0 \in N
  <2>. SUFFICES ASSUME NEW s \in SUBSET S, Cardinality(s) = 0 PROVE s \in P
    OBVIOUS
  <2>1. s = {}
    BY <1>1, FS_EmptySet
  <2>. QED
    BY <2>1
<1>3. ASSUME NEW n \in N PROVE n + 1 \in N
  <2>. SUFFICES ASSUME NEW s \in SUBSET S, Cardinality(s) = n + 1 PROVE s \in P
    OBVIOUS
  <2>1. ASSUME NEW x \in s PROVE s \ {x} \in P
    <3>1. Cardinality(s \ {x}) = Cardinality(s) - 1 /\ s \ {x} \in SUBSET S
      BY <1>1, FS_RemoveElement
    <3>2. Cardinality(s \ {x}) = n
      BY <3>1
    <3>. QED
      BY <3>1, <3>2
  <2>. QED
    BY <2>1
<1>. HIDE DEF N
<1>4. N = Nat
  <2>1. N \in SUBSET Nat
    BY DEF N
  <2>. QED
    BY <1>2, <1>3, <2>1, SetInduction
<1>. QED
  <2>. SUFFICES ASSUME NEW s \in SUBSET S PROVE s \in P
    OBVIOUS
  <2>1. Cardinality(s) \in N
    BY <1>1, <1>4
  <2>. QED
    BY <2>1 DEF N
-----------------------------------------------------------------------------
\* The sum of f over a set, as the models write it, and the sums over its
\* subsets, each of any element of the subset and of what is left.
SumOf(f, S) == FoldFunctionOnSet(+, 0, f, S)
AnyOf(s) == CHOOSE x \in s : TRUE
PartialSums(g, f, S) ==
    g = [s \in SUBSET S |-> IF s = {} THEN 0 ELSE f[AnyOf(s)] + g[s \ {AnyOf(s)}]]

\* The sums over subsets exist.
LEMMA PartialSumsExist ==
    ASSUME NEW f, NEW S, IsFiniteSet(S)
    PROVE  \E g : PartialSums(g, f, S)
<1>. DEFINE D(n) == {s \in SUBSET S : Cardinality(s) <= n}
            Upto(g, n) == g = [s \in D(n) |-> IF s = {} THEN 0 ELSE f[AnyOf(s)] + g[s \ {AnyOf(s)}]]
            N == {n \in Nat : \E g : Upto(g, n)}
<1>1. \A s \in SUBSET S : IsFiniteSet(s) /\ Cardinality(s) \in Nat
  BY FS_Subset, FS_CardinalityType
<1>2. 0 \in N
  <2>. DEFINE g == [s \in D(0) |-> 0]
  <2>1. \A s \in D(0) : s = {}
    BY <1>1, FS_EmptySet
  <2>2. Upto(g, 0)
    BY <2>1
  <2>. QED
    BY <2>2
<1>3. ASSUME NEW n \in N PROVE n + 1 \in N
  <2>1. n \in Nat
    OBVIOUS
  <2>2. PICK g : Upto(g, n)
    BY <1>3
  <2>. DEFINE h == [s \in D(n + 1) |-> IF s = {} THEN 0 ELSE f[AnyOf(s)] + g[s \ {AnyOf(s)}]]
  <2>3. \A s \in D(n) : s \in D(n + 1)
    BY <1>1, <2>1
  <2>4. \A s \in D(n) : h[s] = g[s]
    <3>1. \A s \in D(n) : g[s] = IF s = {} THEN 0 ELSE f[AnyOf(s)] + g[s \ {AnyOf(s)}]
      BY <2>2
    <3>2. \A s \in D(n) : h[s] = IF s = {} THEN 0 ELSE f[AnyOf(s)] + g[s \ {AnyOf(s)}]
      BY <2>3
    <3>. QED
      BY ONLY <3>1, <3>2
  <2>5. ASSUME NEW s \in D(n + 1), s # {} PROVE s \ {AnyOf(s)} \in D(n)
    <3>1. AnyOf(s) \in s
      BY <2>5 DEF AnyOf
    <3>2. Cardinality(s \ {AnyOf(s)}) = Cardinality(s) - 1
      BY <1>1, <3>1, FS_RemoveElement
    <3>. QED
      BY <1>1, <2>1, <3>2
  <2>6. h = [s \in D(n + 1) |-> IF s = {} THEN 0 ELSE f[AnyOf(s)] + h[s \ {AnyOf(s)}]]
    <3>1. \A s \in D(n + 1) : (IF s = {} THEN 0 ELSE f[AnyOf(s)] + g[s \ {AnyOf(s)}])
                            = (IF s = {} THEN 0 ELSE f[AnyOf(s)] + h[s \ {AnyOf(s)}])
      BY <2>4, <2>5
    <3>. QED
      BY <3>1
  <2>7. Upto(h, n + 1)
    BY <2>6
  <2>. HIDE DEF Upto, h
  <2>. QED
    BY <2>1, <2>7
<1>4. N = Nat
  <2>1. N \in SUBSET Nat
    OBVIOUS
  <2>. HIDE DEF N
  <2>. QED
    BY <1>2, <1>3, <2>1, SetInduction
<1>5. Cardinality(S) \in Nat /\ D(Cardinality(S)) = SUBSET S
  <2>1. \A s \in SUBSET S : Cardinality(s) <= Cardinality(S)
    BY FS_Subset
  <2>. QED
    BY <1>1, <2>1
<1>6. PICK g : Upto(g, Cardinality(S))
  BY <1>4, <1>5
<1>. QED
  BY <1>5, <1>6 DEF PartialSums

\* The sum is the last of them.
LEMMA SumIsPartial ==
    ASSUME NEW f, NEW S, IsFiniteSet(S)
    PROVE  \E g : PartialSums(g, f, S) /\ SumOf(f, S) = g[S]
<1>1. SumOf(f, S) = (CHOOSE g : PartialSums(g, f, S))[S]
  BY DEF SumOf, FoldFunctionOnSet, MapThenFoldSet, PartialSums, AnyOf
<1>. QED
  BY <1>1, PartialSumsExist

\* What the function is elsewhere does not matter.
LEMMA PartialSumsAgree ==
    ASSUME NEW f, NEW g, NEW h, NEW k, NEW S, NEW T \in SUBSET S, IsFiniteSet(S),
           PartialSums(g, f, S), PartialSums(h, k, T), \A x \in T : f[x] = k[x]
    PROVE  g[T] = h[T]
<1>. DEFINE P == {s \in SUBSET T : g[s] = h[s]}
<1>1. IsFiniteSet(T)
  BY FS_Subset
<1>2. /\ \A s \in SUBSET T : g[s] = IF s = {} THEN 0 ELSE f[AnyOf(s)] + g[s \ {AnyOf(s)}]
      /\ \A s \in SUBSET T : h[s] = IF s = {} THEN 0 ELSE k[AnyOf(s)] + h[s \ {AnyOf(s)}]
  BY DEF PartialSums
<1>3. ASSUME NEW s \in SUBSET T, \A x \in s : s \ {x} \in P PROVE s \in P
  <2>1. CASE s = {}
    BY <1>2, <2>1
  <2>2. CASE s # {}
    <3>1. AnyOf(s) \in s
      BY <2>2 DEF AnyOf
    <3>2. g[s \ {AnyOf(s)}] = h[s \ {AnyOf(s)}] /\ f[AnyOf(s)] = k[AnyOf(s)]
      BY <1>3, <3>1
    <3>. QED
      BY <1>2, <2>2, <3>2
  <2>. QED
    BY <2>1, <2>2
<1>. HIDE DEF P
<1>4. SUBSET T \subseteq P
  BY <1>1, <1>3, SubsetInduction
<1>. QED
  BY <1>4 DEF P

LEMMA SumSame ==
    ASSUME NEW f, NEW k, NEW S, IsFiniteSet(S), \A x \in S : f[x] = k[x]
    PROVE  SumOf(f, S) = SumOf(k, S)
<1>1. PICK g : PartialSums(g, f, S) /\ SumOf(f, S) = g[S]
  BY SumIsPartial
<1>2. PICK h : PartialSums(h, k, S) /\ SumOf(k, S) = h[S]
  BY SumIsPartial
<1>. QED
  BY <1>1, <1>2, PartialSumsAgree

\* The sum over a set is that of any of its elements and of the others.
LEMMA SumStep ==
    ASSUME NEW S, IsFiniteSet(S), NEW f, \A x \in S : f[x] \in Int
    PROVE  /\ SumOf(f, S) \in Int
           /\ \A x \in S : SumOf(f, S) = f[x] + SumOf(f, S \ {x})
           /\ S = {} => SumOf(f, S) = 0
<1>1. PICK g : PartialSums(g, f, S) /\ SumOf(f, S) = g[S]
  BY SumIsPartial
<1>2. \A s \in SUBSET S : g[s] = IF s = {} THEN 0 ELSE f[AnyOf(s)] + g[s \ {AnyOf(s)}]
  BY <1>1 DEF PartialSums
<1>. DEFINE I == {s \in SUBSET S : g[s] \in Int}
<1>3. ASSUME NEW s \in SUBSET S, \A x \in s : s \ {x} \in I PROVE s \in I
  <2>1. CASE s = {}
    <3>1. g[s] = 0
      BY <1>2, <2>1
    <3>. QED
      BY <3>1
  <2>2. CASE s # {}
    <3>1. AnyOf(s) \in s /\ g[s] = f[AnyOf(s)] + g[s \ {AnyOf(s)}]
      BY <1>2, <2>2 DEF AnyOf
    <3>. QED
      BY <1>3, <3>1
  <2>. QED
    BY <2>1, <2>2
<1>. HIDE DEF I
<1>4. SUBSET S \subseteq I
  BY <1>3, SubsetInduction
<1>5. \A s \in SUBSET S : g[s] \in Int
  BY <1>4 DEF I
<1>. DEFINE P == {s \in SUBSET S : \A x \in s : g[s] = f[x] + g[s \ {x}]}
<1>6. ASSUME NEW s \in SUBSET S, \A x \in s : s \ {x} \in P PROVE s \in P
  <2>. SUFFICES ASSUME NEW x \in s PROVE g[s] = f[x] + g[s \ {x}]
    OBVIOUS
  <2>. DEFINE c == AnyOf(s)
              r == (s \ {x}) \ {c}
  <2>1. c \in s /\ g[s] = f[c] + g[s \ {c}]
    BY <1>2 DEF AnyOf
  <2>. HIDE DEF c
  <2>2. CASE x = c
    BY <2>1, <2>2
  <2>3. CASE x # c
    <3>1. (s \ {c}) \ {x} = r /\ x \in s \ {c} /\ c \in s \ {x} /\ r \in SUBSET S
      BY <2>1, <2>3
    <3>2. g[s \ {c}] = f[x] + g[(s \ {c}) \ {x}] /\ g[s \ {x}] = f[c] + g[r]
      BY <1>6, <2>1, <3>1
    <3>. HIDE DEF r
    <3>3. g[r] \in Int /\ f[x] \in Int /\ f[c] \in Int
      BY <1>5, <2>1, <3>1
    <3>4. g[s \ {c}] = f[x] + g[r]
      BY <3>1, <3>2
    <3>. QED
      BY ONLY <2>1, <3>2, <3>3, <3>4
  <2>. QED
    BY <2>2, <2>3
<1>. HIDE DEF P
<1>7. SUBSET S \subseteq P
  BY <1>6, SubsetInduction
<1>8. \A x \in S : g[S] = f[x] + g[S \ {x}]
  BY <1>7 DEF P
<1>9. ASSUME NEW x \in S PROVE SumOf(f, S \ {x}) = g[S \ {x}]
  <2>1. IsFiniteSet(S \ {x}) /\ S \ {x} \in SUBSET S
    BY FS_RemoveElement
  <2>2. PICK h : PartialSums(h, f, S \ {x}) /\ SumOf(f, S \ {x}) = h[S \ {x}]
    BY <2>1, SumIsPartial
  <2>. QED
    BY <1>1, <2>1, <2>2, PartialSumsAgree
<1>10. S = {} => g[S] = 0
  BY <1>2
<1>. QED
  BY <1>1, <1>5, <1>8, <1>9, <1>10

LEMMA SumOfZeros ==
    ASSUME NEW S, IsFiniteSet(S)
    PROVE  SumOf([x \in S |-> 0], S) = 0
<1>. DEFINE f == [x \in S |-> 0]
            P == {s \in SUBSET S : SumOf(f, s) = 0}
<1>1. \A s \in SUBSET S : IsFiniteSet(s) /\ \A x \in s : f[x] = 0 /\ f[x] \in Int
  BY FS_Subset
<1>. HIDE DEF f
<1>2. ASSUME NEW s \in SUBSET S, \A x \in s : s \ {x} \in P PROVE s \in P
  <2>1. CASE s = {}
    BY <1>1, <2>1, SumStep
  <2>2. CASE s # {}
    <3>1. PICK x \in s : TRUE
      BY <2>2
    <3>2. SumOf(f, s) = f[x] + SumOf(f, s \ {x}) /\ f[x] = 0
      BY <1>1, SumStep
    <3>3. SumOf(f, s \ {x}) = 0
      BY <1>2
    <3>4. SumOf(f, s) = 0
      BY ONLY <3>2, <3>3
    <3>. QED
      BY <3>4
  <2>. QED
    BY <2>1, <2>2
<1>. HIDE DEF P
<1>3. SUBSET S \subseteq P
  BY <1>2, SubsetInduction
<1>. QED
  BY <1>3 DEF P, f

\* A number changed by d changes the sum by d.
LEMMA SumChange ==
    ASSUME NEW S, IsFiniteSet(S), NEW f, \A y \in S : f[y] \in Int,
           NEW x \in S, NEW d \in Int, NEW k, k[x] = f[x] + d, \A y \in S \ {x} : k[y] = f[y]
    PROVE  SumOf(k, S) = SumOf(f, S) + d
<1>1. IsFiniteSet(S \ {x}) /\ \A y \in S : k[y] \in Int
  BY FS_RemoveElement
<1>2. SumOf(f, S) = f[x] + SumOf(f, S \ {x})
  BY SumStep
<1>3. SumOf(k, S) = k[x] + SumOf(k, S \ {x})
  BY <1>1, SumStep
<1>4. SumOf(k, S \ {x}) = SumOf(f, S \ {x}) /\ SumOf(f, S \ {x}) \in Int
  <2>1. \A y \in S \ {x} : f[y] \in Int
    OBVIOUS
  <2>. QED
    BY <1>1, <2>1, SumSame, SumStep
<1>. QED
  BY <1>2, <1>3, <1>4

\* Numbers none of which is less have no lesser sum, and a greater one has a greater.
LEMMA SumGrows ==
    ASSUME NEW S, IsFiniteSet(S), NEW f, NEW g,
           \A x \in S : f[x] \in Int /\ g[x] \in Int /\ f[x] <= g[x]
    PROVE  /\ SumOf(f, S) \in Int /\ SumOf(g, S) \in Int /\ SumOf(f, S) <= SumOf(g, S)
           /\ (\E x \in S : f[x] < g[x]) => SumOf(f, S) < SumOf(g, S)
<1>. DEFINE P == {s \in SUBSET S : SumOf(f, s) <= SumOf(g, s)}
<1>1. \A s \in SUBSET S : IsFiniteSet(s) /\ SumOf(f, s) \in Int /\ SumOf(g, s) \in Int
  <2>. SUFFICES ASSUME NEW s \in SUBSET S PROVE IsFiniteSet(s) /\ SumOf(f, s) \in Int /\ SumOf(g, s) \in Int
    OBVIOUS
  <2>1. IsFiniteSet(s) /\ \A x \in s : f[x] \in Int /\ g[x] \in Int
    BY FS_Subset
  <2>. QED
    BY <2>1, SumStep
<1>2. ASSUME NEW s \in SUBSET S, NEW x \in s
      PROVE  SumOf(f, s) = f[x] + SumOf(f, s \ {x}) /\ SumOf(g, s) = g[x] + SumOf(g, s \ {x})
  <2>1. IsFiniteSet(s) /\ \A y \in s : f[y] \in Int /\ g[y] \in Int
    BY <1>1
  <2>. QED
    BY <2>1, SumStep
<1>3. ASSUME NEW s \in SUBSET S, \A x \in s : s \ {x} \in P PROVE s \in P
  <2>1. CASE s = {}
    <3>1. SumOf(f, {}) = 0 /\ SumOf(g, {}) = 0
      BY FS_EmptySet, SumStep
    <3>. QED
      BY <2>1, <3>1
  <2>2. CASE s # {}
    <3>1. PICK x \in s : TRUE
      BY <2>2
    <3>2. SumOf(f, s \ {x}) <= SumOf(g, s \ {x}) /\ s \ {x} \in SUBSET S
      BY <1>3
    <3>3. SumOf(f, s \ {x}) \in Int /\ SumOf(g, s \ {x}) \in Int /\ f[x] \in Int /\ g[x] \in Int /\ f[x] <= g[x]
      BY <1>1, <3>2
    <3>4. f[x] + SumOf(f, s \ {x}) <= g[x] + SumOf(g, s \ {x})
      BY <3>2, <3>3
    <3>. QED
      BY <1>2, <3>4
  <2>. QED
    BY <2>1, <2>2
<1>. HIDE DEF P
<1>4. SUBSET S \subseteq P
  BY <1>3, SubsetInduction
<1>5. \A s \in SUBSET S : SumOf(f, s) <= SumOf(g, s)
  BY <1>4 DEF P
<1>6. ASSUME NEW x \in S, f[x] < g[x] PROVE SumOf(f, S) < SumOf(g, S)
  <2>1. SumOf(f, S \ {x}) <= SumOf(g, S \ {x}) /\ SumOf(f, S \ {x}) \in Int /\ SumOf(g, S \ {x}) \in Int
    BY <1>1, <1>5
  <2>2. SumOf(f, S) = f[x] + SumOf(f, S \ {x}) /\ SumOf(g, S) = g[x] + SumOf(g, S \ {x})
    BY <1>2
  <2>. QED
    BY <1>6, <2>1, <2>2
<1>. QED
  BY <1>1, <1>5, <1>6

\* Term by term, and over two parts of a set.
LEMMA SumPlus ==
    ASSUME NEW S, IsFiniteSet(S), NEW f, NEW g, NEW h,
           \A x \in S : f[x] \in Int /\ g[x] \in Int /\ h[x] = f[x] + g[x]
    PROVE  SumOf(h, S) = SumOf(f, S) + SumOf(g, S)
<1>. DEFINE P == {s \in SUBSET S : SumOf(h, s) = SumOf(f, s) + SumOf(g, s)}
<1>1. ASSUME NEW s \in SUBSET S
      PROVE  /\ SumOf(f, s) \in Int /\ SumOf(g, s) \in Int /\ SumOf(h, s) \in Int
             /\ \A x \in s : /\ SumOf(f, s) = f[x] + SumOf(f, s \ {x})
                            /\ SumOf(g, s) = g[x] + SumOf(g, s \ {x})
                            /\ SumOf(h, s) = h[x] + SumOf(h, s \ {x})
             /\ s = {} => SumOf(f, s) = 0 /\ SumOf(g, s) = 0 /\ SumOf(h, s) = 0
  <2>1. IsFiniteSet(s) /\ \A x \in s : f[x] \in Int /\ g[x] \in Int /\ h[x] \in Int
    BY FS_Subset
  <2>. QED
    BY <2>1, SumStep
<1>2. ASSUME NEW s \in SUBSET S, \A x \in s : s \ {x} \in P PROVE s \in P
  <2>1. CASE s = {}
    BY <1>1, <2>1
  <2>2. CASE s # {}
    <3>1. PICK x \in s : TRUE
      BY <2>2
    <3>2. /\ SumOf(h, s \ {x}) = SumOf(f, s \ {x}) + SumOf(g, s \ {x})
          /\ SumOf(f, s \ {x}) \in Int /\ SumOf(g, s \ {x}) \in Int
      BY <1>1, <1>2
    <3>3. /\ SumOf(f, s) = f[x] + SumOf(f, s \ {x})
          /\ SumOf(g, s) = g[x] + SumOf(g, s \ {x})
          /\ SumOf(h, s) = h[x] + SumOf(h, s \ {x})
      BY <1>1
    <3>. QED
      BY <3>2, <3>3
  <2>. QED
    BY <2>1, <2>2
<1>. HIDE DEF P
<1>3. SUBSET S \subseteq P
  BY <1>2, SubsetInduction
<1>. QED
  BY <1>3 DEF P

LEMMA SumOfParts ==
    ASSUME NEW S, IsFiniteSet(S), NEW T \in SUBSET S, NEW f, \A x \in S : f[x] \in Int
    PROVE  SumOf(f, S) = SumOf(f, T) + SumOf(f, S \ T)
<1>. DEFINE P == {s \in SUBSET T : SumOf(f, (S \ T) \union s) = SumOf(f, s) + SumOf(f, S \ T)}
<1>1. ASSUME NEW s \in SUBSET S
      PROVE  /\ SumOf(f, s) \in Int
             /\ \A x \in s : SumOf(f, s) = f[x] + SumOf(f, s \ {x})
             /\ s = {} => SumOf(f, s) = 0
  <2>1. IsFiniteSet(s) /\ \A x \in s : f[x] \in Int
    BY FS_Subset
  <2>. QED
    BY <2>1, SumStep
<1>2. ASSUME NEW s \in SUBSET T, \A x \in s : s \ {x} \in P PROVE s \in P
  <2>1. CASE s = {}
    <3>1. (S \ T) \union s = S \ T /\ S \ T \in SUBSET S /\ s \in SUBSET S
      BY <2>1
    <3>2. SumOf(f, s) = 0 /\ SumOf(f, S \ T) \in Int
      BY <1>1, <2>1, <3>1
    <3>3. SumOf(f, (S \ T) \union s) = SumOf(f, S \ T)
      BY <3>1
    <3>4. SumOf(f, (S \ T) \union s) = SumOf(f, s) + SumOf(f, S \ T)
      BY ONLY <3>2, <3>3
    <3>. QED
      BY <3>4
  <2>2. CASE s # {}
    <3>1. PICK x \in s : TRUE
      BY <2>2
    <3>. DEFINE u == (S \ T) \union s
    <3>2. /\ u \in SUBSET S /\ x \in u /\ u \ {x} = (S \ T) \union (s \ {x})
          /\ s \in SUBSET S /\ s \ {x} \in SUBSET S /\ S \ T \in SUBSET S
      OBVIOUS
    <3>3. SumOf(f, (S \ T) \union (s \ {x})) = SumOf(f, s \ {x}) + SumOf(f, S \ T)
      BY <1>2
    <3>. HIDE DEF u
    <3>4. /\ SumOf(f, u) = f[x] + SumOf(f, u \ {x}) /\ SumOf(f, s) = f[x] + SumOf(f, s \ {x})
          /\ SumOf(f, s \ {x}) \in Int /\ SumOf(f, S \ T) \in Int /\ f[x] \in Int
      BY <1>1, <3>2
    <3>5. SumOf(f, u \ {x}) = SumOf(f, s \ {x}) + SumOf(f, S \ T)
      BY <3>2, <3>3
    <3>6. SumOf(f, u) = SumOf(f, s) + SumOf(f, S \ T)
      BY ONLY <3>4, <3>5
    <3>. QED
      BY <3>6 DEF u
  <2>. QED
    BY <2>1, <2>2
<1>3. IsFiniteSet(T)
  BY FS_Subset
<1>. HIDE DEF P
<1>4. SUBSET T \subseteq P
  BY <1>2, <1>3, SubsetInduction
<1>5. (S \ T) \union T = S
  OBVIOUS
<1>. QED
  BY <1>4, <1>5 DEF P

LEMMA DisjointUnionSize ==
    ASSUME NEW a, IsFiniteSet(a), NEW b, IsFiniteSet(b), a \intersect b = {}
    PROVE  Cardinality(a \union b) = Cardinality(a) + Cardinality(b)
<1>1. Cardinality(a \union b) = Cardinality(a) + Cardinality(b) - Cardinality(a \intersect b)
  BY FS_Union
<1>2. IsFiniteSet(a \intersect b)
  BY FS_Subset
<1>3. Cardinality(a \intersect b) = 0
  BY <1>2, FS_EmptySet
<1>4. Cardinality(a) \in Nat /\ Cardinality(b) \in Nat
  BY FS_CardinalityType
<1>. QED
  BY ONLY <1>1, <1>3, <1>4

\* The sizes of disjoint sets add up to that of all of them together.
LEMMA SizesAddUp ==
    ASSUME NEW S, IsFiniteSet(S), NEW C, IsFiniteSet(C), NEW A, \A x \in S : A[x] \in SUBSET C,
           \A x, y \in S : x # y => A[x] \intersect A[y] = {},
           NEW f, \A x \in S : f[x] = Cardinality(A[x])
    PROVE  SumOf(f, S) = Cardinality(UNION {A[x] : x \in S})
<1>. DEFINE All(s) == UNION {A[x] : x \in s}
            P == {s \in SUBSET S : SumOf(f, s) = Cardinality(All(s))}
<1>1. \A s \in SUBSET C : IsFiniteSet(s) /\ Cardinality(s) \in Nat
  BY FS_Subset, FS_CardinalityType
<1>2. ASSUME NEW s \in SUBSET S, \A x \in s : s \ {x} \in P PROVE s \in P
  <2>1. IsFiniteSet(s) /\ \A x \in s : f[x] \in Int
    BY <1>1, FS_Subset
  <2>2. CASE s = {}
    <3>1. All(s) = {} /\ SumOf(f, s) = 0
      BY <2>1, <2>2, SumStep
    <3>. QED
      BY <3>1, FS_EmptySet
  <2>3. CASE s # {}
    <3>1. PICK x \in s : TRUE
      BY <2>3
    <3>2. SumOf(f, s) = f[x] + SumOf(f, s \ {x})
      BY <2>1, SumStep
    <3>3. SumOf(f, s \ {x}) = Cardinality(All(s \ {x}))
      BY <1>2
    <3>4. All(s) = A[x] \union All(s \ {x}) /\ A[x] \in SUBSET C /\ All(s \ {x}) \in SUBSET C
      OBVIOUS
    <3>5. A[x] \intersect All(s \ {x}) = {}
      OBVIOUS
    <3>6. f[x] = Cardinality(A[x])
      OBVIOUS
    <3>. HIDE DEF All
    <3>7. Cardinality(A[x] \union All(s \ {x})) = Cardinality(A[x]) + Cardinality(All(s \ {x}))
      BY <1>1, <3>4, <3>5, DisjointUnionSize
    <3>8. SumOf(f, s) = Cardinality(All(s))
      BY ONLY <3>2, <3>3, <3>4, <3>6, <3>7
    <3>. QED
      BY <3>8
  <2>. QED
    BY <2>2, <2>3
<1>. HIDE DEF P
<1>3. SUBSET S \subseteq P
  BY <1>2, SubsetInduction
<1>. QED
  BY <1>3 DEF P
=============================================================================
