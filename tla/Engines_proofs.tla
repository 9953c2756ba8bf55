----------------------------- MODULE Engines_proofs ------------------------------
(* What is proved of the runs of nmetl, for all configurations: a query runs *)
(* behind those that produce what it consumes, and the exit code, the        *)
(* outputs, a dry run and the scratch database tell what was done.  And of   *)
(* the engines of frames, for all frames: that they agree.                   *)
EXTENDS Backends, Pipeline, DataInduction, FiniteSetTheorems, FunctionTheorems, TLAPS

--------------------------------------------------------------------------------
(* The order of the queries. *)

\* The queries of a configuration that was read are a list, and so are its outputs.
LEMMA QueriesListed ==
    ASSUME job \in Jobs, config.state = "read"
    PROVE  /\ Selected \in SUBSET (Nat \ {0}) /\ IsFiniteSet(Selected)
           /\ Nodes \in SUBSET Selected /\ IsFiniteSet(Nodes) /\ Cardinality(Nodes) \in Nat
           /\ DOMAIN config.output \in SUBSET (Nat \ {0}) /\ IsFiniteSet(DOMAIN config.output)
           /\ config.sources \in Seq(Range(config.sources))
<1>1. /\ config.queries \in Seq(Range(config.queries)) /\ config.output \in Seq(Range(config.output))
      /\ config.sources \in Seq(Range(config.sources))
  BY PipelineAssumption DEF config
<1>2. ASSUME NEW s, NEW S, s \in Seq(S) PROVE DOMAIN s \in SUBSET (Nat \ {0}) /\ IsFiniteSet(DOMAIN s)
  <2>1. PICK n \in Nat : DOMAIN s = 1 .. n
    BY <1>2
  <2>2. IsFiniteSet(1 .. n)
    BY FS_Interval
  <2>. QED
    BY <2>1, <2>2
<1>3. /\ DOMAIN config.queries \in SUBSET (Nat \ {0}) /\ IsFiniteSet(DOMAIN config.queries)
      /\ DOMAIN config.output \in SUBSET (Nat \ {0}) /\ IsFiniteSet(DOMAIN config.output)
  BY <1>1, <1>2
<1>4. Selected \in SUBSET DOMAIN config.queries /\ Nodes \in SUBSET Selected
  BY DEF Selected, Nodes
<1>5. IsFiniteSet(Selected) /\ IsFiniteSet(Nodes)
  BY <1>3, <1>4, FS_Subset
<1>. QED
  BY <1>1, <1>3, <1>4, <1>5, FS_CardinalityType

\* The numbers of a finite set, in order.
LEMMA InOrderFacts ==
    ASSUME NEW S \in SUBSET Nat, IsFiniteSet(S)
    PROVE  /\ InOrder(S) \in Seq(S) /\ Range(InOrder(S)) = S
           /\ \A i, j \in DOMAIN InOrder(S) : i < j => InOrder(S)[i] < InOrder(S)[j]
<1>1. PICK s : s = InOrder(S)
  OBVIOUS
<1>2. S \in SUBSET Int
  OBVIOUS
<1>3. s \in Seq(S) /\ DOMAIN s = 1 .. Len(s) /\ Range(s) = S
      /\ \A i, j \in 1 .. Len(s) : i < j => s[i] < s[j]
  BY <1>1, <1>2, AscendingSequence DEF InOrder
<1>. QED
  BY <1>1, <1>3

\* A list of some is a list of more.
LEMMA WiderList ==
    ASSUME NEW S, NEW T, S \subseteq T, NEW s \in Seq(S)
    PROVE  s \in Seq(T)
<1>1. PICK n \in Nat : n = Len(s) /\ DOMAIN s = 1 .. n /\ s = [i \in 1 .. n |-> s[i]]
  OBVIOUS
<1>2. \A i \in 1 .. n : s[i] \in T
  BY <1>1
<1>3. s \in [1 .. n -> T]
  BY ONLY <1>1, <1>2
<1>. QED
  BY <1>3

\* One list behind another.
LEMMA BehindOneAnother ==
    ASSUME NEW S, NEW s \in Seq(S), NEW t \in Seq(S), NEW all, all = s \o t
    PROVE  /\ all \in Seq(S) /\ Len(s) \in Nat /\ Len(t) \in Nat
           /\ DOMAIN all = 1 .. Len(s) + Len(t) /\ DOMAIN s = 1 .. Len(s) /\ DOMAIN t = 1 .. Len(t)
           /\ \A i \in DOMAIN all : all[i] = IF i <= Len(s) THEN s[i] ELSE t[i - Len(s)]
<1>1. PICK m \in Nat, n \in Nat : m = Len(s) /\ n = Len(t)
  OBVIOUS
<1>2. /\ all \in Seq(S) /\ Len(all) = m + n
      /\ \A i \in 1 .. m + n : all[i] = IF i <= m THEN s[i] ELSE t[i - m]
  BY <1>1, ConcatProperties
<1>3. DOMAIN all = 1 .. m + n /\ DOMAIN s = 1 .. m /\ DOMAIN t = 1 .. n
  BY <1>1, <1>2
<1>. QED
  BY <1>1, <1>2, <1>3

\* They hold what either holds.
LEMMA RangeBehind ==
    ASSUME NEW S, NEW s \in Seq(S), NEW t \in Seq(S)
    PROVE  Range(s \o t) = Range(s) \union Range(t)
<1>. PICK all : all = s \o t
  OBVIOUS
<1>1. /\ all \in Seq(S) /\ Len(s) \in Nat /\ Len(t) \in Nat
      /\ DOMAIN all = 1 .. Len(s) + Len(t) /\ DOMAIN s = 1 .. Len(s) /\ DOMAIN t = 1 .. Len(t)
      /\ \A i \in DOMAIN all : all[i] = IF i <= Len(s) THEN s[i] ELSE t[i - Len(s)]
  BY BehindOneAnother
<1>2. ASSUME NEW i \in DOMAIN all PROVE all[i] \in Range(s) \union Range(t)
  BY <1>1 DEF Range
<1>3. ASSUME NEW i \in DOMAIN s PROVE i \in DOMAIN all /\ all[i] = s[i]
  BY <1>1
<1>4. ASSUME NEW i \in DOMAIN t PROVE Len(s) + i \in DOMAIN all /\ all[Len(s) + i] = t[i]
  BY <1>1
<1>5. Range(all) = Range(s) \union Range(t)
  <2>1. \A x \in Range(all) : x \in Range(s) \union Range(t)
    BY <1>2 DEF Range
  <2>2. \A x : x \in Range(s) \/ x \in Range(t) => x \in Range(all)
    BY <1>3, <1>4 DEF Range
  <2>. QED
    BY ONLY <2>1, <2>2
<1>. QED
  BY <1>5

\* What remains after every round.
LEMMA RemainingFound ==
    /\ Remaining[0] = Ids(Nodes)
    /\ \A n \in Nat : Remaining[n + 1] = Remaining[n] \ Ids(Ready(Remaining[n]))
<1>. DEFINE V == SUBSET Ids(Nodes)
            step == [p \in Nat \X V |-> p[2] \ Ids(Ready(p[2]))]
            Good(g) == g = [n \in Nat |-> IF n = 0 THEN Ids(Nodes) ELSE g[n - 1] \ Ids(Ready(g[n - 1]))]
<1>1. Ids(Nodes) \in V /\ step \in [Nat \X V -> V]
  OBVIOUS
<1>. PICK base : base = Ids(Nodes)
  OBVIOUS
<1>2. PICK f \in [Nat -> V] : RunsFrom(f, base, step)
  <2>. HIDE DEF V, step
  <2>1. base \in V
    BY <1>1
  <2>. QED
    BY ONLY <1>1, <2>1, NatRecursion
<1>3. \A n \in Nat : n # 0 => step[<<n - 1, f[n - 1]>>] = f[n - 1] \ Ids(Ready(f[n - 1]))
  <2>1. \A n \in Nat : n # 0 => <<n - 1, f[n - 1]>> \in Nat \X V
    OBVIOUS
  <2>. QED
    BY <2>1
<1>. HIDE DEF V, step
<1>4. Good(f)
  BY <1>2, <1>3 DEF RunsFrom
<1>5. Remaining = CHOOSE g : Good(g)
  BY DEF Remaining
<1>. HIDE DEF Good
<1>6. Good(Remaining)
  BY <1>4, <1>5
<1>7. \A n \in Nat : Remaining[n] = IF n = 0 THEN Ids(Nodes) ELSE Remaining[n - 1] \ Ids(Ready(Remaining[n - 1]))
  BY ONLY <1>6 DEF Good
<1>8. \A n \in Nat : n + 1 \in Nat /\ n + 1 # 0 /\ (n + 1) - 1 = n
  OBVIOUS
<1>. QED
  BY <1>7, <1>8

\* What remains is never more than before.
LEMMA RemainingShrinks ==
    ASSUME NEW n \in Nat, NEW m \in Nat, m <= n
    PROVE  Remaining[n] \subseteq Remaining[m]
<1>. DEFINE L == {k \in Nat : \A l \in Nat : l <= k => Remaining[k] \subseteq Remaining[l]}
<1>1. 0 \in L
  OBVIOUS
<1>2. ASSUME NEW k \in L PROVE k + 1 \in L
  <2>1. k \in Nat /\ Remaining[k + 1] \subseteq Remaining[k]
    BY RemainingFound
  <2>2. \A l \in Nat : l <= k + 1 => l <= k \/ l = k + 1
    BY <2>1
  <2>. QED
    BY <2>1, <2>2
<1>3. L = Nat
  <2>1. L \in SUBSET Nat
    OBVIOUS
  <2>. HIDE DEF L
  <2>. QED
    BY <1>1, <1>2, <2>1, SetInduction
<1>. QED
  BY <1>3

\* Nobody needs a query of the same round or of a later one.
LEMMA RoundsNeedNothing ==
    ASSUME NEW k \in Nat, NEW m \in Nat, 1 <= k, k <= m, NEW q \in Round(k), NEW other \in Round(m)
    PROVE  ~Needs(q, other)
<1>1. k - 1 \in Nat /\ m - 1 \in Nat /\ k - 1 <= m - 1
  OBVIOUS
<1>2. Id(other) \in Remaining[k - 1]
  BY <1>1, RemainingShrinks DEF Round, Ready
<1>3. other \in Nodes /\ DependsOn(q) \intersect Remaining[k - 1] = {}
  BY DEF Round, Ready
<1>. QED
  BY <1>2, <1>3 DEF DependsOn, Ids

\* The queries of the first n rounds, in the order of the rounds.
SortedTo(n, list) ==
    /\ list \in Seq(Nodes)
    /\ \A q : q \in Range(list) <=> \E k \in 1 .. n : q \in Round(k)
    /\ \A i, j \in DOMAIN list : i < j => ~Needs(list[i], list[j])

\* The result after every round.
LEMMA ResultFound ==
    ASSUME job \in Jobs, config.state = "read"
    PROVE  /\ Result[0] = <<>>
           /\ \A n \in Nat : Result[n + 1] = Result[n] \o InOrder(Round(n + 1))
<1>. DEFINE V == Seq(Nat)
            step == [p \in Nat \X V |-> p[2] \o InOrder(Round(p[1] + 1))]
            Good(g) == g = [n \in Nat |-> IF n = 0 THEN <<>> ELSE g[n - 1] \o InOrder(Round(n))]
<1>1. \A n : InOrder(Round(n)) \in V
  <2>. SUFFICES ASSUME NEW n PROVE InOrder(Round(n)) \in V
    OBVIOUS
  <2>1. Round(n) \in SUBSET Nat /\ IsFiniteSet(Round(n))
    BY QueriesListed, FS_Subset DEF Round, Ready
  <2>. QED
    BY <2>1, InOrderFacts
<1>2. <<>> \in V /\ step \in [Nat \X V -> V]
  BY <1>1
<1>. PICK base : base = <<>>
  OBVIOUS
<1>3. PICK f \in [Nat -> V] : RunsFrom(f, base, step)
  <2>. HIDE DEF V, step
  <2>1. base \in V
    BY <1>2
  <2>. QED
    BY ONLY <1>2, <2>1, NatRecursion
<1>4. \A n \in Nat : n # 0 => step[<<n - 1, f[n - 1]>>] = f[n - 1] \o InOrder(Round(n))
  <2>1. \A n \in Nat : n # 0 => <<n - 1, f[n - 1]>> \in Nat \X V /\ (n - 1) + 1 = n
    OBVIOUS
  <2>. QED
    BY <2>1
<1>. HIDE DEF V, step
<1>5. Good(f)
  BY <1>3, <1>4 DEF RunsFrom
<1>6. Result = CHOOSE g : Good(g)
  BY DEF Result
<1>. HIDE DEF Good
<1>7. Good(Result)
  BY <1>5, <1>6
<1>8. \A n \in Nat : n + 1 \in Nat /\ n + 1 # 0 /\ (n + 1) - 1 = n
  OBVIOUS
<1>9. \A n \in Nat : Result[n] = IF n = 0 THEN <<>> ELSE Result[n - 1] \o InOrder(Round(n))
  BY ONLY <1>7 DEF Good
<1>. QED
  BY <1>8, <1>9

LEMMA ResultSorted ==
    ASSUME job \in Jobs, config.state = "read", NEW n \in Nat
    PROVE  SortedTo(n, Result[n])
<1>. DEFINE L == {k \in Nat : SortedTo(k, Result[k])}
<1>1. 0 \in L
  <2>1. Result[0] = <<>> /\ 1 .. 0 = {}
    BY ResultFound
  <2>2. SortedTo(0, <<>>)
    BY <2>1 DEF SortedTo, Range
  <2>. QED
    BY <2>1, <2>2
<1>2. ASSUME NEW k \in L PROVE k + 1 \in L
  <2>1. k \in Nat /\ SortedTo(k, Result[k])
    OBVIOUS
  <2>2. PICK s, o, t : s = Result[k] /\ o = InOrder(Round(k + 1)) /\ t = Result[k + 1]
    OBVIOUS
  <2>3. t = s \o o
    BY <2>1, <2>2, ResultFound
  <2>4. Round(k + 1) \in SUBSET Nodes /\ Round(k + 1) \in SUBSET Nat /\ IsFiniteSet(Round(k + 1))
    BY QueriesListed, FS_Subset DEF Round, Ready
  <2>5. o \in Seq(Round(k + 1)) /\ Range(o) = Round(k + 1)
    BY <2>2, <2>4, InOrderFacts
  <2>6. o \in Seq(Nodes) /\ s \in Seq(Nodes)
    BY <2>1, <2>2, <2>4, <2>5 DEF SortedTo
  <2>7. /\ t \in Seq(Nodes) /\ Len(s) \in Nat /\ Len(o) \in Nat
        /\ DOMAIN t = 1 .. Len(s) + Len(o) /\ DOMAIN s = 1 .. Len(s) /\ DOMAIN o = 1 .. Len(o)
        /\ \A i \in DOMAIN t : t[i] = IF i <= Len(s) THEN s[i] ELSE o[i - Len(s)]
    BY ONLY <2>3, <2>6, BehindOneAnother
  <2>8. Range(t) = Range(s) \union Range(o)
    BY ONLY <2>3, <2>6, RangeBehind
  <2>9. \A q : q \in Range(s) <=> \E l \in 1 .. k : q \in Round(l)
    BY <2>1, <2>2 DEF SortedTo
  <2>10. \A q : q \in Range(t) <=> \E l \in 1 .. k + 1 : q \in Round(l)
    <3>1. \A l : l \in 1 .. k + 1 <=> l \in 1 .. k \/ l = k + 1
      BY <2>1
    <3>. QED
      BY ONLY <2>5, <2>8, <2>9, <3>1
  <2>11. ASSUME NEW i \in DOMAIN t, NEW j \in DOMAIN t, i < j PROVE ~Needs(t[i], t[j])
    <3>1. CASE j <= Len(s)
      <4>1. i \in DOMAIN s /\ j \in DOMAIN s /\ t[i] = s[i] /\ t[j] = s[j]
        BY <2>7, <2>11, <3>1
      <4>. QED
        BY <2>1, <2>2, <2>11, <4>1 DEF SortedTo
    <3>2. CASE ~(j <= Len(s))
      <4>1. t[j] = o[j - Len(s)] /\ j - Len(s) \in DOMAIN o
        BY <2>7, <3>2
      <4>2. t[j] \in Round(k + 1)
        BY <2>5, <4>1 DEF Range
      <4>3. t[i] \in Range(t)
        BY DEF Range
      <4>4. PICK l \in 1 .. k + 1 : t[i] \in Round(l)
        BY <2>10, <4>3
      <4>5. l \in Nat /\ k + 1 \in Nat /\ 1 <= l /\ l <= k + 1
        BY <2>1
      <4>. QED
        BY ONLY <4>2, <4>4, <4>5, RoundsNeedNothing
    <3>. QED
      BY <3>1, <3>2
  <2>12. SortedTo(k + 1, t)
    BY <2>7, <2>10, <2>11 DEF SortedTo
  <2>. QED
    BY <2>1, <2>2, <2>12
<1>3. L = Nat
  <2>1. L \in SUBSET Nat
    OBVIOUS
  <2>. HIDE DEF L
  <2>. QED
    BY <1>1, <1>2, <2>1, SetInduction
<1>. QED
  BY <1>3

\* If nothing remains, every query was in some round.
LEMMA RoundsTakeAll ==
    ASSUME job \in Jobs, config.state = "read", Sortable, DistinctIds, NEW q \in Nodes
    PROVE  \E k \in 1 .. Cardinality(Nodes) : q \in Round(k)
<1>. DEFINE L == {n \in Nat : Id(q) \in Remaining[n] \/ \E k \in 1 .. n : q \in Round(k)}
<1>1. 0 \in L
  BY RemainingFound DEF Ids
<1>2. ASSUME NEW n \in L PROVE n + 1 \in L
  <2>1. n \in Nat /\ \A k : k \in 1 .. n \/ k = n + 1 => k \in 1 .. n + 1
    OBVIOUS
  <2>2. CASE \E k \in 1 .. n : q \in Round(k)
    BY <2>1, <2>2
  <2>3. CASE Id(q) \in Remaining[n] /\ Id(q) \notin Remaining[n + 1]
    <3>1. Id(q) \in Ids(Ready(Remaining[n]))
      BY <2>1, <2>3, RemainingFound
    <3>2. PICK other \in Ready(Remaining[n]) : Id(other) = Id(q)
      BY <3>1 DEF Ids
    <3>3. other = q
      BY <3>2, QueriesListed DEF DistinctIds, Ready
    <3>4. (n + 1) - 1 = n
      BY <2>1
    <3>5. q \in Round(n + 1)
      BY <3>2, <3>3, <3>4 DEF Round
    <3>. QED
      BY <2>1, <3>5
  <2>. QED
    BY <2>1, <2>2, <2>3
<1>3. L = Nat
  <2>1. L \in SUBSET Nat
    OBVIOUS
  <2>. HIDE DEF L
  <2>. QED
    BY <1>1, <1>2, <2>1, SetInduction
<1>. QED
  BY <1>3, QueriesListed DEF Sortable

\* The last selected query with an identifier is selected.
LEMMA LastSelected ==
    ASSUME job \in Jobs, config.state = "read", NEW q \in Selected
    PROVE  LastWithId(Id(q)) \in Selected /\ (DistinctIds => LastWithId(Id(q)) = q)
<1>. DEFINE Same == {other \in Selected : Id(other) = Id(q)}
<1>1. PICK N \in Nat : \A other \in Selected : other \in Nat /\ other <= N
  <2>1. PICK n \in Nat : DOMAIN config.queries = 1 .. n
    <3>1. config.queries \in Seq(Range(config.queries))
      BY PipelineAssumption DEF config
    <3>. QED
      BY <3>1
  <2>. QED
    BY <2>1 DEF Selected
<1>2. \E last \in Same : \A other \in Same : other <= last
  <2>. DEFINE Gaps == {N - other : other \in Same}
  <2>1. Gaps \in SUBSET Nat /\ Gaps # {}
    BY <1>1
  <2>2. PICK gap \in Gaps : \A other \in Gaps : gap <= other
    <3>. HIDE DEF Gaps
    <3>. QED
      BY <2>1, Least
  <2>3. PICK last \in Same : gap = N - last
    OBVIOUS
  <2>4. \A other \in Same : other <= last
    BY <1>1, <2>2, <2>3
  <2>. QED
    BY <2>4
<1>3. \E last \in Selected : Id(last) = Id(q) /\ \A other \in Selected : Id(other) = Id(q) => other <= last
  BY <1>2
<1>4. LastWithId(Id(q)) \in Selected /\ Id(LastWithId(Id(q))) = Id(q)
  BY <1>3 DEF LastWithId
<1>. QED
  BY <1>4 DEF DistinctIds

\* The queries to run are selected ones, all of them if their identifiers
\* differ; those that were sorted need nothing that comes later and loads.
LEMMA ReorderedFacts ==
    ASSUME job \in Jobs, config.state = "read"
    PROVE  /\ Reordered \in Seq(Nat) /\ Range(Reordered) \subseteq Selected
           /\ DistinctIds => Range(Reordered) = Selected
           /\ Analysable /\ DistinctIds =>
                \A i, j \in DOMAIN Reordered : i < j /\ Loads(Reordered[j]) => ~Needs(Reordered[i], Reordered[j])
<1>1. Selected \in SUBSET Nat /\ IsFiniteSet(Selected)
  BY QueriesListed
<1>2. CASE ~Analysable
  <2>1. PICK all : all = InOrder(Selected)
    OBVIOUS
  <2>2. all \in Seq(Selected) /\ Range(all) = Selected
    BY <1>1, <2>1, InOrderFacts
  <2>3. all \in Seq(Nat)
    BY <1>1, <2>2, WiderList
  <2>. QED
    BY <1>2, <2>1, <2>2, <2>3 DEF Reordered
<1>3. CASE Analysable
  <2>1. PICK N \in Nat : N = Cardinality(Nodes)
    BY QueriesListed
  <2>2. PICK list : list = Sorted
    OBVIOUS
  <2>3. SortedTo(N, list)
    BY <2>1, <2>2, ResultSorted DEF Sorted
  <2>4. list \in Seq(Nodes) /\ Len(list) \in Nat /\ DOMAIN list = 1 .. Len(list)
        /\ \A i \in DOMAIN list : list[i] \in Nodes /\ list[i] \in Selected
    BY <2>3, QueriesListed DEF SortedTo
  <2>. PICK first : first = [i \in DOMAIN list |-> LastWithId(Id(list[i]))]
    OBVIOUS
  <2>5. \A i \in DOMAIN list : LastWithId(Id(list[i])) \in Selected /\ (DistinctIds => LastWithId(Id(list[i])) = list[i])
    BY <2>4, LastSelected
  <2>6. first \in Seq(Selected) /\ Len(first) = Len(list) /\ DOMAIN first = DOMAIN list
    BY <2>4, <2>5
  <2>7. PICK last : last = InOrder(Selected \ Nodes)
    OBVIOUS
  <2>8. last \in Seq(Selected \ Nodes) /\ Range(last) = Selected \ Nodes
    <3>1. Selected \ Nodes \in SUBSET Nat /\ IsFiniteSet(Selected \ Nodes)
      BY <1>1, FS_Subset
    <3>. QED
      BY <2>7, <3>1, InOrderFacts
  <2>9. last \in Seq(Selected) /\ Len(last) \in Nat /\ DOMAIN last = 1 .. Len(last)
    BY <2>8, WiderList
  <2>10. Reordered = first \o last
    BY <1>3, <2>2, <2>7 DEF Reordered
  <2>11. \A i \in DOMAIN first : first[i] \in Selected /\ (DistinctIds => first[i] = list[i])
    BY <2>5
  <2>12. PICK all : all = first \o last
    OBVIOUS
  <2>13. /\ all \in Seq(Selected) /\ DOMAIN all = 1 .. Len(list) + Len(last)
         /\ \A i \in DOMAIN all : all[i] = IF i <= Len(list) THEN first[i] ELSE last[i - Len(list)]
    BY <2>6, <2>9, <2>12, BehindOneAnother
  <2>14. Range(all) \subseteq Selected
    BY <2>13 DEF Range
  <2>15. ASSUME DistinctIds, NEW q \in Selected PROVE q \in Range(all)
    <3>1. CASE q \in Nodes
      <4>1. q \in Range(list)
        BY <1>3, <2>1, <2>3, <2>15, <3>1, RoundsTakeAll DEF Analysable, SortedTo
      <4>2. PICK i \in DOMAIN list : list[i] = q
        BY <4>1 DEF Range
      <4>3. i \in DOMAIN all /\ all[i] = q
        BY <2>4, <2>6, <2>9, <2>11, <2>13, <2>15, <4>2
      <4>. QED
        BY <4>3 DEF Range
    <3>2. CASE q \notin Nodes
      <4>1. PICK i \in DOMAIN last : last[i] = q
        BY <2>8, <3>2 DEF Range
      <4>2. Len(list) + i \in DOMAIN all /\ all[Len(list) + i] = q
        BY <2>4, <2>9, <2>13, <4>1
      <4>. QED
        BY <4>2 DEF Range
    <3>. QED
      BY <3>1, <3>2
  <2>16. ASSUME DistinctIds, NEW i \in DOMAIN all, NEW j \in DOMAIN all, i < j, Loads(all[j])
         PROVE  ~Needs(all[i], all[j])
    <3>1. j <= Len(list)
      <4>. SUFFICES ASSUME ~(j <= Len(list)) PROVE FALSE
        OBVIOUS
      <4>1. all[j] = last[j - Len(list)] /\ j - Len(list) \in DOMAIN last
        BY <2>4, <2>9, <2>13
      <4>2. all[j] \in Selected \ Nodes
        BY <2>8, <4>1 DEF Range
      <4>. QED
        BY <2>16, <4>2 DEF Nodes
    <3>2. i \in DOMAIN list /\ j \in DOMAIN list /\ all[i] = list[i] /\ all[j] = list[j]
      BY <2>4, <2>6, <2>11, <2>13, <2>16, <3>1
    <3>. QED
      BY <2>3, <2>16, <3>2 DEF SortedTo
  <2>17. all \in Seq(Nat)
    BY <1>1, <2>13, WiderList
  <2>. QED
    BY <2>10, <2>12, <2>14, <2>15, <2>16, <2>17
<1>. QED
  BY <1>2, <1>3

\* The order depends on the job alone.
LEMMA OrderStays ==
    ASSUME job' = job
    PROVE  /\ Selected' = Selected /\ Reordered' = Reordered
           /\ (Analysable' <=> Analysable) /\ (DistinctIds' <=> DistinctIds)
<1>1. config' = config
  BY DEF config
<1>2. \A q : /\ Id(q)' = Id(q) /\ TextOf(q)' = TextOf(q) /\ (Loads(q)' <=> Loads(q))
  BY <1>1 DEF Id, TextOf, Loads
<1>3. Selected' = Selected
  BY <1>1, <1>2 DEF Selected
<1>4. Nodes' = Nodes
  BY <1>2, <1>3 DEF Nodes
<1>5. \A q, other : Needs(q, other)' <=> Needs(q, other)
  BY <1>2 DEF Needs
<1>6. \A S : Ids(S)' = Ids(S)
  BY <1>2 DEF Ids
<1>7. \A q : DependsOn(q)' = DependsOn(q)
  BY <1>2, <1>4, <1>5 DEF DependsOn, Ids
<1>8. \A S : Ready(S)' = Ready(S)
  BY <1>2, <1>4, <1>7 DEF Ready
<1>9. Remaining' = Remaining
  <2>. DEFINE Good(g) == g = [n \in Nat |-> IF n = 0 THEN Ids(Nodes) ELSE g[n - 1] \ Ids(Ready(g[n - 1]))]
  <2>1. \A g : Good(g)' <=> Good(g)
    <3>1. Ids(Nodes)' = Ids(Nodes) /\ \A S : Ids(Ready(S))' = Ids(Ready(S))
      BY <1>2, <1>4, <1>8 DEF Ids
    <3>. QED
      BY <3>1
  <2>2. Remaining = CHOOSE g : Good(g)
    BY DEF Remaining
  <2>3. Remaining' = CHOOSE g : Good(g)'
    BY DEF Remaining
  <2>. HIDE DEF Good
  <2>. QED
    BY <2>1, <2>2, <2>3, Zenon
<1>10. \A n : Round(n)' = Round(n)
  BY <1>8, <1>9 DEF Round
<1>11. Result' = Result
  <2>. DEFINE Good(g) == g = [n \in Nat |-> IF n = 0 THEN <<>> ELSE g[n - 1] \o InOrder(Round(n))]
  <2>1. \A g : Good(g)' <=> Good(g)
    BY <1>10
  <2>2. Result = CHOOSE g : Good(g)
    BY DEF Result
  <2>3. Result' = CHOOSE g : Good(g)'
    BY DEF Result
  <2>. HIDE DEF Good
  <2>. QED
    BY <2>1, <2>2, <2>3, Zenon
<1>12. Sorted' = Sorted
  BY <1>4, <1>11 DEF Sorted
<1>13. Sortable' <=> Sortable
  BY <1>2, <1>4, <1>9, <1>10 DEF Sortable
<1>14. Analysable' <=> Analysable
  BY <1>2, <1>3, <1>4, <1>13 DEF Analysable
<1>15. \A id : LastWithId(id)' = LastWithId(id)
  BY <1>2, <1>3 DEF LastWithId
<1>16. Reordered' = Reordered
  BY <1>2, <1>3, <1>4, <1>12, <1>14, <1>15 DEF Reordered
<1>17. DistinctIds' <=> DistinctIds
  BY <1>2, <1>3 DEF DistinctIds
<1>. QED
  BY <1>3, <1>14, <1>16, <1>17

--------------------------------------------------------------------------------
(* The inductive invariant: what holds of a job at a stage with these lists. *)

Stages == {"load", "order", "dry run", "open", "functions", "sources", "queries", "ended", "killed"}

\* The lists are of queries, of outputs of queries and of sources.
Shaped(st, str, sl, td, sk, hs) ==
    /\ st \in Stages /\ str \in BOOLEAN
    /\ sl \in Seq(Range(config.sources)) /\ td \in Seq(Nat) /\ hs \in Seq(Nat) /\ sk \in Seq(Nat \X Nat)
    /\ st \notin {"load", "ended", "killed"} => config.state = "read"
    /\ st = "dry run" => job.command = "dry run"
    /\ Range(td) \subseteq Range(Reordered)
    /\ \A s \in Range(sk) : s[2] \in SinksOf(s[1]) /\ (str => Deferred(s[1]))

\* Nothing is executed before the queries' turn.
Untouched(st, sk, hs, wr, fl) ==
    st \in {"load", "order", "dry run", "open", "functions", "sources"} =>
        sk = <<>> /\ hs = <<>> /\ wr = {} /\ fl = {}

\* What was executed needs nothing that is still to run, but for reads put off,
\* and what it needed of the rest came before it.
ComesBefore(hs, i, j) == \E k \in DOMAIN hs : hs[k] = i /\ \A l \in DOMAIN hs : hs[l] = j => k < l
InOrderSoFar(td, hs, str) ==
    /\ \A i, j \in DOMAIN td : i < j /\ Loads(td[j]) => ~Needs(td[i], td[j])
    /\ \A h \in Range(hs) : \A other \in Range(td) : Loads(other) /\ ~(str /\ Deferred(other)) => ~Needs(h, other)
    /\ \A h, other \in Range(hs) : Needs(h, other) /\ ~(str /\ Deferred(other)) => ComesBefore(hs, other, h)
Sorting(td, hs, str) == config.state = "read" /\ Analysable /\ DistinctIds => InOrderSoFar(td, hs, str)

\* A query is still to run, or failed, or was executed and its results are
\* written, failed or waiting, or was put off and its outputs failed or wait.
Accounted(q, str, td, sk, hs, wr, fl) ==
    \/ q \in Range(td) \/ <<q, 0>> \in fl
    \/ /\ q \in Range(hs)
       /\ (str /\ Mutation(q)) \/ \A o \in SinksOf(q) : <<q, o>> \in wr \union fl \union Range(sk)
    \/ str /\ Deferred(q) /\ \A o \in SinksOf(q) : <<q, o>> \in fl \union Range(sk)
Accounting(st, str, td, sk, hs, wr, fl) ==
    /\ st \in {"open", "functions", "sources", "queries"} /\ DistinctIds =>
         \A q \in Selected : Accounted(q, str, td, sk, hs, wr, fl)
    /\ fl # {} => job.on_error \in {"warn", "skip"}

\* What the end of a command says.
Verdict(st, str, hs, wr, fl, ex, ca) ==
    st = "ended" =>
        /\ ex = 0 /\ job.command = "run" /\ DistinctIds =>
             \A q \in Selected : Accounted(q, str, <<>>, <<>>, hs, wr, fl)
        /\ ca = "policy" => job.on_error \in {None, "fail"}
        /\ ca = "missing source" =>
             \E s \in Range(config.sources) : s.at = "config directory"
        /\ ca = "uncaught" =>
             /\ config.state = "read"
             /\ IF str THEN \E q \in Range(Reordered) : ~Loads(q) \/ ~TextOf(q).parses
                ELSE \E o \in Range(config.output) : o.cloud

\* The scratch database is there while its run goes on, and no old one beside it.
Scratched(st, sc, left) == sc => st \in {"functions", "sources", "queries"} /\ "old" \notin left

StateIs(st, str, sl, td, sk, hs, wr, fl, ex, ca, sc, left) ==
    /\ Shaped(st, str, sl, td, sk, hs)
    /\ Untouched(st, sk, hs, wr, fl)
    /\ Sorting(td, hs, str)
    /\ Accounting(st, str, td, sk, hs, wr, fl)
    /\ Verdict(st, str, hs, wr, fl, ex, ca)
    /\ Scratched(st, sc, left)

PipelineInv ==
    /\ job \in Jobs
    /\ StateIs(stage, streaming, sourcesLeft, todo, sinks, history, written, failed, exit, cause, scratch, orphans)

\* The job stays, so what holds of the next values holds next.
LEMMA JobStays ==
    ASSUME job \in Jobs, job' = job,
           StateIs(stage', streaming', sourcesLeft', todo', sinks', history', written', failed', exit', cause',
                   scratch', orphans')
    PROVE  PipelineInv'
<1>1. config' = config
  BY DEF config
<1>2. /\ Selected' = Selected /\ Reordered' = Reordered
      /\ (Analysable' <=> Analysable) /\ (DistinctIds' <=> DistinctIds)
  BY OrderStays
<1>3. \A q : /\ Id(q)' = Id(q) /\ TextOf(q)' = TextOf(q) /\ (Loads(q)' <=> Loads(q))
  BY <1>1 DEF Id, TextOf, Loads
<1>4. \A q, other : Needs(q, other)' <=> Needs(q, other)
  BY <1>3 DEF Needs
<1>5. \A q : SinksOf(q)' = SinksOf(q)
  BY <1>1, <1>3 DEF SinksOf
<1>6. \A q : (Deferred(q)' <=> Deferred(q)) /\ (Mutation(q)' <=> Mutation(q))
  BY <1>3, <1>5 DEF Deferred, Mutation
<1>7. Shaped(stage, streaming, sourcesLeft, todo, sinks, history)'
  BY <1>1, <1>2, <1>5, <1>6 DEF StateIs, Shaped
<1>8. Untouched(stage, sinks, history, written, failed)'
  BY DEF StateIs, Untouched
<1>9. Sorting(todo, history, streaming)'
  <2>1. InOrderSoFar(todo, history, streaming)' <=> InOrderSoFar(todo', history', streaming')
    BY <1>3, <1>4, <1>6 DEF InOrderSoFar, ComesBefore
  <2>. QED
    BY <1>1, <1>2, <2>1 DEF StateIs, Sorting
<1>10. \A q : /\ Accounted(q, streaming, todo, sinks, history, written, failed)'
                 <=> Accounted(q, streaming', todo', sinks', history', written', failed')
              /\ Accounted(q, streaming, <<>>, <<>>, history, written, failed)'
                 <=> Accounted(q, streaming', <<>>, <<>>, history', written', failed')
  BY <1>5, <1>6 DEF Accounted
<1>11. Accounting(stage, streaming, todo, sinks, history, written, failed)'
  BY <1>2, <1>10 DEF StateIs, Accounting
<1>12. Verdict(stage, streaming, history, written, failed, exit, cause)'
  BY <1>1, <1>2, <1>3, <1>10 DEF StateIs, Verdict
<1>13. Scratched(stage, scratch, orphans)'
  BY DEF StateIs, Scratched
<1>. QED
  BY <1>7, <1>8, <1>9, <1>11, <1>12, <1>13 DEF PipelineInv, StateIs

--------------------------------------------------------------------------------
(* Taking from the front of a list and adding at its end. *)

LEMMA TakenFirst ==
    ASSUME NEW S, NEW s \in Seq(S), s # <<>>
    PROVE  /\ Head(s) \in S /\ Head(s) \in Range(s) /\ 1 \in DOMAIN s /\ s[1] = Head(s)
           /\ Tail(s) \in Seq(S) /\ Range(Tail(s)) \subseteq Range(s)
           /\ \A x \in Range(s) : x = Head(s) \/ x \in Range(Tail(s))
           /\ \A i \in DOMAIN Tail(s) : i \in Nat /\ 1 < i + 1 /\ i + 1 \in DOMAIN s /\ Tail(s)[i] = s[i + 1]
<1>1. PICK n \in Nat : n = Len(s) /\ n # 0 /\ DOMAIN s = 1 .. n
  OBVIOUS
<1>2. PICK t : t = Tail(s)
  OBVIOUS
<1>3. /\ t \in Seq(S) /\ Len(t) = n - 1 /\ DOMAIN t = 1 .. n - 1
      /\ \A i \in 1 .. n - 1 : t[i] = s[i + 1]
  BY <1>1, <1>2
<1>4. 1 \in DOMAIN s /\ s[1] = Head(s) /\ Head(s) \in S
  BY <1>1
<1>5. \A i \in DOMAIN t : i \in Nat /\ 1 < i + 1 /\ i + 1 \in DOMAIN s /\ t[i] = s[i + 1]
  BY <1>1, <1>3
<1>6. ASSUME NEW i \in DOMAIN s, i # 1 PROVE i - 1 \in DOMAIN t /\ t[i - 1] = s[i]
  <2>1. i - 1 \in 1 .. n - 1 /\ (i - 1) + 1 = i
    BY <1>1, <1>6
  <2>. QED
    BY <1>3, <2>1
<1>7. \A x \in Range(s) : x = s[1] \/ x \in Range(t)
  BY <1>6 DEF Range
<1>8. Range(t) \subseteq Range(s)
  BY <1>5 DEF Range
<1>9. s[1] \in Range(s)
  BY <1>4 DEF Range
<1>. QED
  BY <1>2, <1>3, <1>4, <1>5, <1>7, <1>8, <1>9

LEMMA AddedLast ==
    ASSUME NEW S, NEW s \in Seq(S), NEW x \in S
    PROVE  /\ Append(s, x) \in Seq(S) /\ Range(Append(s, x)) = Range(s) \union {x}
           /\ Len(s) + 1 \in DOMAIN Append(s, x) /\ Append(s, x)[Len(s) + 1] = x
           /\ \A i \in DOMAIN s : i \in DOMAIN Append(s, x) /\ Append(s, x)[i] = s[i] /\ i < Len(s) + 1
           /\ \A i \in DOMAIN Append(s, x) : i \in DOMAIN s \/ i = Len(s) + 1
<1>1. PICK n \in Nat : n = Len(s) /\ DOMAIN s = 1 .. n
  OBVIOUS
<1>2. PICK t : t = Append(s, x)
  OBVIOUS
<1>3. /\ t \in Seq(S) /\ DOMAIN t = 1 .. n + 1 /\ t[n + 1] = x
      /\ \A i \in 1 .. n : t[i] = s[i]
  BY <1>1, <1>2, AppendShape
<1>4. /\ n + 1 \in DOMAIN t
      /\ \A i \in DOMAIN s : i \in DOMAIN t /\ t[i] = s[i] /\ i < n + 1
      /\ \A i \in DOMAIN t : i \in DOMAIN s \/ i = n + 1
  BY <1>1, <1>3
<1>5. Range(t) = Range(s) \union {x}
  <2>1. \A y \in Range(t) : y \in Range(s) \union {x}
    BY <1>3, <1>4 DEF Range
  <2>2. \A y \in Range(s) \union {x} : y \in Range(t)
    BY <1>3, <1>4 DEF Range
  <2>. QED
    BY ONLY <2>1, <2>2
<1>. QED
  BY <1>1, <1>2, <1>3, <1>4, <1>5

--------------------------------------------------------------------------------
(* The order is kept when a query is passed over, executed, or executed late. *)

\* Executing a query keeps what was before what.
LEMMA StaysBefore ==
    ASSUME NEW hs \in Seq(Nat), NEW q \in Nat, NEW i, NEW j, i \in Range(hs),
           ComesBefore(hs, i, j) \/ (j = q /\ j \notin Range(hs))
    PROVE  ComesBefore(Append(hs, q), i, j)
<1>1. PICK new : new = Append(hs, q)
  OBVIOUS
<1>2. PICK n : n = Len(hs) + 1
  OBVIOUS
<1>3. /\ \A k \in DOMAIN hs : k \in DOMAIN new /\ new[k] = hs[k] /\ k < n
      /\ \A k \in DOMAIN new : k \in DOMAIN hs \/ k = n
  BY <1>1, <1>2, AddedLast
<1>4. CASE ComesBefore(hs, i, j)
  <2>1. PICK k \in DOMAIN hs : hs[k] = i /\ \A l \in DOMAIN hs : hs[l] = j => k < l
    BY <1>4 DEF ComesBefore
  <2>2. \A l \in DOMAIN new : new[l] = j => k < l
    BY <1>3, <2>1
  <2>. QED
    BY <1>1, <1>3, <2>1, <2>2 DEF ComesBefore
<1>5. CASE j = q /\ j \notin Range(hs)
  <2>1. PICK k \in DOMAIN hs : hs[k] = i
    BY DEF Range
  <2>2. \A l \in DOMAIN hs : hs[l] # j
    BY <1>5 DEF Range
  <2>3. \A l \in DOMAIN new : new[l] = j => k < l
    BY <1>3, <2>1, <2>2
  <2>. QED
    BY <1>1, <1>3, <2>1, <2>3 DEF ComesBefore
<1>. QED
  BY <1>4, <1>5

\* Passing over the first query.
LEMMA SkipKeeps ==
    ASSUME NEW td \in Seq(Nat), NEW hs, NEW str, td # <<>>, InOrderSoFar(td, hs, str)
    PROVE  InOrderSoFar(Tail(td), hs, str)
<1>1. PICK rest : rest = Tail(td)
  OBVIOUS
<1>2. /\ rest \in Seq(Nat) /\ Range(rest) \subseteq Range(td)
      /\ \A i \in DOMAIN rest : i \in Nat /\ i + 1 \in DOMAIN td /\ rest[i] = td[i + 1]
  BY <1>1, TakenFirst
<1>3. \A i, j \in DOMAIN rest : i < j /\ Loads(rest[j]) => ~Needs(rest[i], rest[j])
  <2>. SUFFICES ASSUME NEW i \in DOMAIN rest, NEW j \in DOMAIN rest, i < j, Loads(rest[j])
                PROVE  ~Needs(rest[i], rest[j])
    OBVIOUS
  <2>1. i + 1 \in DOMAIN td /\ j + 1 \in DOMAIN td /\ i + 1 < j + 1 /\ rest[i] = td[i + 1] /\ rest[j] = td[j + 1]
    BY <1>2
  <2>. QED
    BY <2>1 DEF InOrderSoFar
<1>. QED
  BY <1>1, <1>2, <1>3 DEF InOrderSoFar

\* Executing the first query.
LEMMA TakeKeeps ==
    ASSUME NEW td \in Seq(Nat), NEW hs \in Seq(Nat), NEW str, td # <<>>, InOrderSoFar(td, hs, str),
           Loads(Head(td)), ~(str /\ Deferred(Head(td)))
    PROVE  InOrderSoFar(Tail(td), Append(hs, Head(td)), str)
<1>1. PICK rest : rest = Tail(td)
  OBVIOUS
<1>2. PICK q : q = Head(td)
  OBVIOUS
<1>3. PICK new : new = Append(hs, q)
  OBVIOUS
<1>4. /\ rest \in Seq(Nat) /\ Range(rest) \subseteq Range(td) /\ q \in Nat /\ q \in Range(td)
      /\ 1 \in DOMAIN td /\ td[1] = q
      /\ \A i \in DOMAIN rest : i \in Nat /\ 1 < i + 1 /\ i + 1 \in DOMAIN td /\ rest[i] = td[i + 1]
  BY <1>1, <1>2, TakenFirst
<1>5. Range(new) = Range(hs) \union {q}
  BY <1>3, <1>4, AddedLast
<1>6. InOrderSoFar(rest, hs, str)
  BY <1>1, SkipKeeps
<1>7. ASSUME NEW other \in Range(rest), Loads(other) PROVE ~Needs(q, other)
  <2>1. PICK i \in DOMAIN rest : rest[i] = other
    BY DEF Range
  <2>2. 1 < i + 1 /\ i + 1 \in DOMAIN td /\ td[i + 1] = other
    BY <1>4, <2>1
  <2>. QED
    BY <1>4, <1>7, <2>2 DEF InOrderSoFar
<1>8. \A h \in Range(new) : \A other \in Range(rest) : Loads(other) /\ ~(str /\ Deferred(other)) => ~Needs(h, other)
  BY <1>5, <1>6, <1>7 DEF InOrderSoFar
<1>9. ASSUME NEW h \in Range(new), NEW other \in Range(new), Needs(h, other), ~(str /\ Deferred(other))
      PROVE  ComesBefore(new, other, h)
  <2>1. h # other
    BY <1>9 DEF Needs
  <2>2. CASE h \in Range(hs) /\ other \in Range(hs)
    <3>1. ComesBefore(hs, other, h)
      BY <1>9, <2>2 DEF InOrderSoFar
    <3>. QED
      BY <1>3, <1>4, <2>2, <3>1, StaysBefore
  <2>3. CASE h \notin Range(hs)
    <3>1. h = q /\ other \in Range(hs)
      BY <1>5, <1>9, <2>1, <2>3
    <3>. QED
      BY <1>3, <1>4, <2>3, <3>1, StaysBefore
  <2>4. CASE h \in Range(hs) /\ other \notin Range(hs)
    <3>1. other = q
      BY <1>5, <1>9, <2>4
    <3>2. Loads(q) /\ q \in Range(td)
      BY <1>2, <1>4
    <3>. QED
      BY <1>9, <2>4, <3>1, <3>2 DEF InOrderSoFar
  <2>. QED
    BY <2>2, <2>3, <2>4
<1>10. InOrderSoFar(rest, new, str)
  BY <1>6, <1>8, <1>9 DEF InOrderSoFar
<1>. QED
  BY <1>1, <1>2, <1>3, <1>10

\* Executing a read that was put off.
LEMMA LateKeeps ==
    ASSUME NEW hs \in Seq(Nat), NEW q \in Nat, Deferred(q), InOrderSoFar(<<>>, hs, TRUE)
    PROVE  InOrderSoFar(<<>>, Append(hs, q), TRUE)
<1>1. PICK new : new = Append(hs, q)
  OBVIOUS
<1>2. Range(new) = Range(hs) \union {q}
  BY <1>1, AddedLast
<1>3. Range(<<>>) = {}
  BY DEF Range
<1>4. ASSUME NEW h \in Range(new), NEW other \in Range(new), Needs(h, other), ~Deferred(other)
      PROVE  ComesBefore(new, other, h)
  <2>1. other # q
    BY <1>4
  <2>2. other \in Range(hs)
    BY <1>2, <2>1
  <2>3. CASE h \in Range(hs)
    <3>1. ComesBefore(hs, other, h)
      BY <1>4, <2>2, <2>3 DEF InOrderSoFar
    <3>. QED
      BY <1>1, <2>2, <3>1, StaysBefore
  <2>4. CASE h \notin Range(hs)
    <3>1. h = q
      BY <1>2, <2>4
    <3>. QED
      BY <1>1, <2>2, <2>4, <3>1, StaysBefore
  <2>. QED
    BY <2>3, <2>4
<1>5. InOrderSoFar(<<>>, new, TRUE)
  BY <1>3, <1>4 DEF InOrderSoFar
<1>. QED
  BY <1>1, <1>5

\* The outputs of a query, as pairs of the query and the output.
LEMMA PairsFacts ==
    ASSUME job \in Jobs, config.state = "read", NEW q \in Nat
    PROVE  Pairs(q) \in Seq(Nat \X Nat) /\ Range(Pairs(q)) = {<<q, o>> : o \in SinksOf(q)}
<1>1. PICK outputs : outputs = InOrder(SinksOf(q))
  OBVIOUS
<1>2. PICK pairs : pairs = Pairs(q)
  OBVIOUS
<1>3. SinksOf(q) \in SUBSET Nat /\ IsFiniteSet(SinksOf(q))
  <2>1. SinksOf(q) \subseteq DOMAIN config.output
    BY DEF SinksOf
  <2>. QED
    BY <2>1, QueriesListed, FS_Subset
<1>4. outputs \in Seq(SinksOf(q)) /\ Range(outputs) = SinksOf(q)
  BY <1>1, <1>3, InOrderFacts
<1>5. PICK n \in Nat : DOMAIN outputs = 1 .. n
  BY <1>4
<1>6. pairs = [i \in 1 .. n |-> <<q, outputs[i]>>]
  BY <1>1, <1>2, <1>5 DEF Pairs
<1>7. \A i \in 1 .. n : outputs[i] \in Nat
  BY <1>3, <1>4, <1>5
<1>8. pairs \in Seq(Nat \X Nat)
  <2>1. \A i \in 1 .. n : <<q, outputs[i]>> \in Nat \X Nat
    BY <1>7
  <2>2. pairs \in [1 .. n -> Nat \X Nat]
    BY ONLY <1>6, <2>1
  <2>. QED
    BY <2>2
<1>9. Range(pairs) = {<<q, o>> : o \in SinksOf(q)}
  <2>1. Range(pairs) = {<<q, outputs[i]>> : i \in 1 .. n}
    BY ONLY <1>6 DEF Range
  <2>2. SinksOf(q) = {outputs[i] : i \in 1 .. n}
    BY <1>4, <1>5 DEF Range
  <2>. QED
    BY ONLY <2>1, <2>2
<1>. QED
  BY <1>2, <1>8, <1>9

--------------------------------------------------------------------------------
(* The invariant holds at first, and after the end, the next stage or a failure. *)

\* At first there is nothing in the lists.
LEMMA AtFirst ==
    ASSUME NEW ex, NEW ca, NEW sc, ~sc, NEW left
    PROVE  StateIs("load", FALSE, <<>>, <<>>, <<>>, <<>>, {}, {}, ex, ca, sc, left)
<1>1. Range(<<>>) = {} /\ DOMAIN <<>> = {}
  BY DEF Range
<1>2. \A S : <<>> \in Seq(S)
  OBVIOUS
<1>3. Shaped("load", FALSE, <<>>, <<>>, <<>>, <<>>)
  <2>1. <<>> \in Seq(Range(config.sources)) /\ <<>> \in Seq(Nat) /\ <<>> \in Seq(Nat \X Nat)
    BY <1>2
  <2>2. \A s \in Range(<<>>) : FALSE
    BY ONLY <1>1
  <2>3. "load" \in Stages
    BY DEF Stages
  <2>. QED
    BY <1>1, <2>1, <2>2, <2>3 DEF Shaped
<1>4. Untouched("load", <<>>, <<>>, {}, {})
  BY DEF Untouched
<1>5. Sorting(<<>>, <<>>, FALSE)
  BY <1>1 DEF Sorting, InOrderSoFar
<1>6. Accounting("load", FALSE, <<>>, <<>>, <<>>, {}, {})
  BY DEF Accounting
<1>7. Verdict("load", FALSE, <<>>, {}, {}, ex, ca)
  BY DEF Verdict
<1>8. Scratched("load", sc, left)
  BY DEF Scratched
<1>. QED
  BY <1>3, <1>4, <1>5, <1>6, <1>7, <1>8 DEF StateIs

LEMMA PipelineInitially == PipelineInit => PipelineInv
<1>. SUFFICES ASSUME PipelineInit PROVE PipelineInv
  OBVIOUS
<1>1. /\ job \in Jobs /\ stage = "load" /\ streaming = FALSE /\ sourcesLeft = <<>> /\ todo = <<>> /\ sinks = <<>>
      /\ history = <<>> /\ written = {} /\ failed = {} /\ scratch = FALSE
  BY DEF PipelineInit
<1>2. StateIs("load", FALSE, <<>>, <<>>, <<>>, <<>>, {}, {}, exit, cause, scratch, orphans)
  BY ONLY <1>1, AtFirst
<1>. QED
  BY <1>1, <1>2 DEF PipelineInv

\* The command ends: the lists are as they were or as a step left them.
LEMMA Ended ==
    ASSUME PipelineInv, NEW code, NEW why, End(code, why),
           Shaped("ended", streaming, sourcesLeft', todo', sinks', history'),
           Sorting(todo', history', streaming),
           failed' # {} => job.on_error \in {"warn", "skip"},
           Verdict("ended", streaming, history', written', failed', code, why)
    PROVE  PipelineInv'
<1>1. /\ job' = job /\ stage' = "ended" /\ streaming' = streaming /\ scratch' = FALSE /\ exit' = code /\ cause' = why
  BY DEF End
<1>2. Untouched("ended", sinks', history', written', failed')
  BY DEF Untouched
<1>3. Accounting("ended", streaming, todo', sinks', history', written', failed')
  BY DEF Accounting
<1>4. Scratched("ended", FALSE, orphans')
  BY DEF Scratched
<1>5. StateIs(stage', streaming', sourcesLeft', todo', sinks', history', written', failed', exit', cause',
              scratch', orphans')
  BY <1>1, <1>2, <1>3, <1>4 DEF StateIs
<1>. QED
  BY <1>1, <1>5, JobStays DEF PipelineInv

\* It ends with the lists as they were.
LEMMA EndedThere ==
    ASSUME PipelineInv, NEW code, NEW why, End(code, why), UNCHANGED <<todo, sinks, outcome>>,
           sourcesLeft' = sourcesLeft \/ sourcesLeft' \in Seq(Range(config.sources)),
           Verdict("ended", streaming, history, written, failed, code, why)
    PROVE  PipelineInv'
<1>1. /\ todo' = todo /\ sinks' = sinks /\ history' = history /\ written' = written /\ failed' = failed
  BY DEF outcome
<1>2. /\ Shaped("ended", streaming, sourcesLeft', todo', sinks', history')
      /\ Sorting(todo', history', streaming)
      /\ failed' # {} => job.on_error \in {"warn", "skip"}
  BY <1>1 DEF PipelineInv, StateIs, Shaped, Accounting, Stages
<1>. QED
  BY <1>1, <1>2, Ended

\* It ends for a reason of which nothing is to be said.
LEMMA EndedSo ==
    ASSUME PipelineInv, NEW code, NEW why, End(code, why), UNCHANGED <<work, outcome>>,
           code = 0 => job.command # "run", why \notin {"policy", "missing source", "uncaught"}
    PROVE  PipelineInv'
<1>1. Verdict("ended", streaming, history, written, failed, code, why)
  BY DEF Verdict
<1>. QED
  BY <1>1, EndedThere DEF work

\* It goes on to a stage that is not the end.
LEMMA WentOn ==
    ASSUME PipelineInv, NEW next, next # "ended", Goes(next),
           Shaped(next, streaming, sourcesLeft', todo', sinks', history'),
           Untouched(next, sinks', history', written', failed'),
           Sorting(todo', history', streaming),
           Accounting(next, streaming, todo', sinks', history', written', failed'),
           Scratched(next, scratch, orphans')
    PROVE  PipelineInv'
<1>1. /\ job' = job /\ stage' = next /\ streaming' = streaming /\ scratch' = scratch
  BY DEF Goes, ending
<1>2. Verdict(next, streaming, history', written', failed', exit', cause')
  BY DEF Verdict
<1>3. StateIs(stage', streaming', sourcesLeft', todo', sinks', history', written', failed', exit', cause',
              scratch', orphans')
  BY <1>1, <1>2 DEF StateIs
<1>. QED
  BY <1>1, <1>3, JobStays DEF PipelineInv

\* It goes on with the queries.
LEMMA QueriesGoOn ==
    ASSUME PipelineInv, stage = "queries", Stays, orphans' = orphans,
           Shaped("queries", streaming, sourcesLeft', todo', sinks', history'),
           Sorting(todo', history', streaming),
           Accounting("queries", streaming, todo', sinks', history', written', failed')
    PROVE  PipelineInv'
<1>1. Goes("queries")
  BY DEF Stays
<1>2. Untouched("queries", sinks', history', written', failed')
  BY DEF Untouched
<1>3. Scratched("queries", scratch, orphans')
  BY DEF PipelineInv, StateIs, Scratched
<1>. QED
  BY <1>1, <1>2, <1>3, WentOn

\* Something failed: the policy ends the command, or notes it.
LEMMA Handled ==
    ASSUME PipelineInv, stage = "queries", NEW what, Handle(what), orphans' = orphans,
           Shaped("queries", streaming, sourcesLeft', todo', sinks', history'),
           Sorting(todo', history', streaming),
           DistinctIds => \A q \in Selected :
               Accounted(q, streaming, todo', sinks', history', written', failed \union {what})
    PROVE  PipelineInv'
<1>1. CASE job.on_error \in {None, "fail"}
  <2>1. End(1, "policy") /\ failed' = failed
    BY <1>1 DEF Handle
  <2>2. Shaped("ended", streaming, sourcesLeft', todo', sinks', history')
    BY DEF Shaped, Stages
  <2>3. failed' # {} => job.on_error \in {"warn", "skip"}
    BY <2>1 DEF PipelineInv, StateIs, Accounting
  <2>4. Verdict("ended", streaming, history', written', failed', 1, "policy")
    BY <1>1 DEF Verdict
  <2>. QED
    BY <2>1, <2>2, <2>3, <2>4, Ended
<1>2. CASE job.on_error \notin {None, "fail"}
  <2>1. failed' = failed \union {what} /\ Stays
    BY <1>2 DEF Handle
  <2>2. job.on_error \in {"warn", "skip"}
    BY <1>2, PipelineAssumption DEF PipelineInv
  <2>3. Accounting("queries", streaming, todo', sinks', history', written', failed')
    BY <2>1, <2>2 DEF Accounting
  <2>. QED
    BY <2>1, <2>3, QueriesGoOn
<1>. QED
  BY <1>1, <1>2

--------------------------------------------------------------------------------
(* Every step before the queries' turn keeps the invariant. *)

LEMMA RunKeeps ==
    ASSUME PipelineInv, Run
    PROVE  PipelineInv'
<1>1. /\ stage = "load" /\ job.command # "validate" /\ LoadConfig(Goes("order"))
      /\ UNCHANGED <<work, outcome, world>>
  BY DEF Run
<1>2. CASE config.state = "absent"
  <2>1. End(2, "config")
    BY <1>1, <1>2 DEF LoadConfig
  <2>2. 2 # 0 /\ "config" \notin {"policy", "missing source", "uncaught"}
    OBVIOUS
  <2>. QED
    BY <1>1, <2>1, <2>2, EndedSo
<1>3. CASE config.state # "absent" /\ (config.state = "not yaml" \/ ~ConfigAccepted)
  <2>1. End(2, "config")
    BY <1>1, <1>3 DEF LoadConfig
  <2>2. 2 # 0 /\ "config" \notin {"policy", "missing source", "uncaught"}
    OBVIOUS
  <2>. QED
    BY <1>1, <2>1, <2>2, EndedSo
<1>4. CASE config.state # "absent" /\ config.state # "not yaml" /\ ConfigAccepted
  <2>1. Goes("order")
    BY <1>1, <1>4 DEF LoadConfig
  <2>2. config.state = "read"
    BY <1>4, PipelineAssumption DEF PipelineInv, config
  <2>3. /\ sourcesLeft' = sourcesLeft /\ todo' = todo /\ sinks' = sinks /\ history' = history
        /\ written' = written /\ failed' = failed /\ orphans' = orphans
    BY <1>1 DEF work, outcome, world
  <2>4. Shaped("order", streaming, sourcesLeft', todo', sinks', history')
    BY <1>1, <2>2, <2>3 DEF PipelineInv, StateIs, Shaped, Stages
  <2>5. Untouched("order", sinks', history', written', failed')
    BY <1>1, <2>3 DEF PipelineInv, StateIs, Untouched
  <2>6. Sorting(todo', history', streaming)
    BY <2>3 DEF PipelineInv, StateIs
  <2>7. Accounting("order", streaming, todo', sinks', history', written', failed')
    BY <2>3 DEF PipelineInv, StateIs, Accounting
  <2>8. Scratched("order", scratch, orphans')
    BY <1>1, <2>3 DEF PipelineInv, StateIs, Scratched
  <2>. QED
    BY <2>1, <2>4, <2>5, <2>6, <2>7, <2>8, WentOn
<1>. QED
  BY <1>2, <1>3, <1>4

LEMMA LooksKeep ==
    ASSUME PipelineInv, Validate \/ ListQueries
    PROVE  PipelineInv'
<1>1. /\ job.command # "run" /\ LoadConfig(End(0, "done"))
      /\ UNCHANGED <<work, outcome, world>>
  BY DEF Validate, ListQueries
<1>2. \/ End(1, "config") \/ End(2, "config") \/ End(0, "done")
  BY <1>1 DEF LoadConfig
<1>. QED
  BY <1>1, <1>2, EndedSo

LEMMA OrderKeeps ==
    ASSUME PipelineInv, Order
    PROVE  PipelineInv'
<1>1. PICK next : next = (IF job.command = "dry run" THEN "dry run" ELSE IF config.backend = "duckdb" THEN "open" ELSE "sources")
  OBVIOUS
<1>2. next \in {"dry run", "open", "sources"} /\ (next = "dry run" => job.command = "dry run")
  BY <1>1
<1>3. /\ stage = "order" /\ Goes(next) /\ todo' = Reordered /\ sourcesLeft' = config.sources
      /\ sinks' = sinks /\ history' = history /\ written' = written /\ failed' = failed /\ orphans' = orphans
  BY <1>1 DEF Order, outcome, world
<1>4. /\ job \in Jobs /\ config.state = "read" /\ streaming \in BOOLEAN
      /\ sinks = <<>> /\ history = <<>> /\ written = {} /\ failed = {}
  BY <1>3 DEF PipelineInv, StateIs, Shaped, Untouched
<1>5. /\ Reordered \in Seq(Nat) /\ (DistinctIds => Range(Reordered) = Selected)
      /\ Analysable /\ DistinctIds =>
           \A i, j \in DOMAIN Reordered : i < j /\ Loads(Reordered[j]) => ~Needs(Reordered[i], Reordered[j])
  BY <1>4, ReorderedFacts
<1>6. config.sources \in Seq(Range(config.sources))
  BY <1>4, QueriesListed
<1>7. Shaped(next, streaming, sourcesLeft', todo', sinks', history')
  <2>1. /\ next \in Stages /\ sinks \in Seq(Nat \X Nat) /\ history \in Seq(Nat)
        /\ \A s \in Range(sinks) : s[2] \in SinksOf(s[1]) /\ (streaming => Deferred(s[1]))
    BY <1>2 DEF PipelineInv, StateIs, Shaped, Stages
  <2>. QED
    BY <1>2, <1>3, <1>4, <1>5, <1>6, <2>1 DEF Shaped
<1>8. Untouched(next, sinks', history', written', failed')
  BY <1>3, <1>4 DEF Untouched
<1>9. Sorting(todo', history', streaming)
  <2>1. Range(<<>>) = {}
    BY DEF Range
  <2>2. ASSUME Analysable, DistinctIds PROVE InOrderSoFar(Reordered, <<>>, streaming)
    BY <1>5, <2>1, <2>2 DEF InOrderSoFar
  <2>. QED
    BY <1>3, <1>4, <2>2 DEF Sorting
<1>10. Accounting(next, streaming, todo', sinks', history', written', failed')
  <2>1. ASSUME DistinctIds, NEW q \in Selected
        PROVE  Accounted(q, streaming, Reordered, sinks', history', written', failed')
    BY <1>5, <2>1 DEF Accounted
  <2>. QED
    BY <1>3, <1>4, <2>1 DEF Accounting
<1>11. Scratched(next, scratch, orphans')
  BY <1>3 DEF PipelineInv, StateIs, Scratched
<1>. QED
  BY <1>2, <1>3, <1>7, <1>8, <1>9, <1>10, <1>11, WentOn

LEMMA DryRunKeeps ==
    ASSUME PipelineInv, DryRun
    PROVE  PipelineInv'
<1>1. /\ stage = "dry run" /\ End(IF DryRunErrors THEN 1 ELSE 0, "dry run")
      /\ UNCHANGED <<work, outcome>>
  BY DEF DryRun
<1>2. job.command # "run"
  BY <1>1 DEF PipelineInv, StateIs, Shaped
<1>. QED
  BY <1>1, <1>2, EndedSo

LEMMA OpenKeeps ==
    ASSUME PipelineInv, OpenScratch
    PROVE  PipelineInv'
<1>1. PICK next : next = (IF StreamingRequested THEN "functions" ELSE "sources")
  OBVIOUS
<1>2. PICK str \in BOOLEAN : str = StreamingRequested
  BY DEF StreamingRequested
<1>3. /\ stage = "open" /\ stage' = next /\ streaming' = str /\ scratch' = str /\ orphans' = orphans \ {"old"}
      /\ job' = job /\ sourcesLeft' = sourcesLeft /\ todo' = todo /\ sinks' = sinks
      /\ history' = history /\ written' = written /\ failed' = failed /\ exit' = exit /\ cause' = cause
  BY <1>1, <1>2 DEF OpenScratch, work, outcome
<1>4. next \in {"functions", "sources"}
  BY <1>1
<1>5. /\ sinks = <<>> /\ history = <<>> /\ written = {} /\ failed = {} /\ config.state = "read"
  BY <1>3 DEF PipelineInv, StateIs, Shaped, Untouched
<1>6. Range(<<>>) = {}
  BY DEF Range
<1>7. Shaped(next, str, sourcesLeft, todo, sinks, history)
  <2>1. \A s \in Range(sinks) : FALSE
    BY <1>5, <1>6
  <2>. QED
    BY <1>4, <1>5, <2>1 DEF PipelineInv, StateIs, Shaped, Stages
<1>8. Untouched(next, sinks, history, written, failed)
  BY <1>5 DEF Untouched
<1>9. Sorting(todo, history, str)
  <2>1. InOrderSoFar(todo, <<>>, streaming) => InOrderSoFar(todo, <<>>, str)
    BY <1>6 DEF InOrderSoFar
  <2>. QED
    BY <1>5, <2>1 DEF PipelineInv, StateIs, Sorting
<1>10. Accounting(next, str, todo, sinks, history, written, failed)
  <2>1. ASSUME NEW q, Accounted(q, streaming, todo, sinks, history, written, failed)
        PROVE  Accounted(q, str, todo, sinks, history, written, failed)
    BY <1>5, <1>6, <2>1 DEF Accounted, Deferred
  <2>. QED
    BY <1>3, <1>4, <2>1 DEF PipelineInv, StateIs, Accounting
<1>11. Verdict(next, str, history, written, failed, exit, cause)
  BY <1>4 DEF Verdict
<1>12. Scratched(next, str, orphans \ {"old"})
  BY <1>4 DEF Scratched
<1>13. StateIs(stage', streaming', sourcesLeft', todo', sinks', history', written', failed', exit', cause',
               scratch', orphans')
  BY <1>3, <1>7, <1>8, <1>9, <1>10, <1>11, <1>12 DEF StateIs
<1>. QED
  BY <1>3, <1>13, JobStays DEF PipelineInv

\* From the functions to the sources or the queries, and from the sources to
\* the functions or the queries, nothing else changes.
LEMMA TurnsKeep ==
    ASSUME PipelineInv, NEW next, Goes(next), UNCHANGED <<todo, sinks, outcome, orphans>>,
           sourcesLeft' = sourcesLeft \/ sourcesLeft' \in Seq(Range(config.sources)),
           stage \in {"functions", "sources"}, next \in {"functions", "sources", "queries"}
    PROVE  PipelineInv'
<1>1. /\ todo' = todo /\ sinks' = sinks /\ history' = history
      /\ written' = written /\ failed' = failed /\ orphans' = orphans
  BY DEF outcome
<1>2. Shaped(next, streaming, sourcesLeft', todo', sinks', history')
  BY <1>1 DEF PipelineInv, StateIs, Shaped, Stages
<1>3. Untouched(next, sinks', history', written', failed')
  BY <1>1 DEF PipelineInv, StateIs, Untouched
<1>4. Sorting(todo', history', streaming)
  BY <1>1 DEF PipelineInv, StateIs
<1>5. Accounting(next, streaming, todo', sinks', history', written', failed')
  BY <1>1 DEF PipelineInv, StateIs, Accounting
<1>6. Scratched(next, scratch, orphans')
  BY <1>1 DEF PipelineInv, StateIs, Scratched
<1>. QED
  BY <1>2, <1>3, <1>4, <1>5, <1>6, WentOn

LEMMA FunctionsKeep ==
    ASSUME PipelineInv, RegisterFunctions
    PROVE  PipelineInv'
<1>1. stage = "functions" /\ UNCHANGED <<work, outcome, world>>
  BY DEF RegisterFunctions
<1>2. \/ End(1, "functions")
      \/ \E next \in {"sources", "queries"} : Goes(next)
  BY DEF RegisterFunctions
<1>3. CASE End(1, "functions")
  <2>1. 1 # 0 /\ "functions" \notin {"policy", "missing source", "uncaught"}
    OBVIOUS
  <2>. QED
    BY <1>1, <1>3, <2>1, EndedSo
<1>4. ASSUME NEW next \in {"sources", "queries"}, Goes(next) PROVE PipelineInv'
  BY <1>1, <1>4, TurnsKeep DEF work, world
<1>. QED
  BY <1>2, <1>3, <1>4

LEMMA LoadKeeps ==
    ASSUME PipelineInv, LoadSource
    PROVE  PipelineInv'
<1>1. stage = "sources" /\ sourcesLeft # <<>> /\ UNCHANGED <<todo, sinks, outcome>>
  BY DEF LoadSource
<1>2. sourcesLeft \in Seq(Range(config.sources))
  BY DEF PipelineInv, StateIs, Shaped
<1>3. Head(sourcesLeft) \in Range(config.sources) /\ Tail(sourcesLeft) \in Seq(Range(config.sources))
  BY <1>1, <1>2, TakenFirst
<1>4. CASE sourcesLeft' = Tail(sourcesLeft) /\ Stays /\ UNCHANGED world
  <2>1. Goes("sources") /\ orphans' = orphans
    BY <1>1, <1>4 DEF Stays, world
  <2>. QED
    BY <1>1, <1>3, <1>4, <2>1, TurnsKeep
<1>5. CASE Head(sourcesLeft).at = "config directory" /\ End(1, "missing source") /\ UNCHANGED sourcesLeft
  <2>1. Verdict("ended", streaming, history, written, failed, 1, "missing source")
    <3>1. 1 # 0 /\ "missing source" \notin {"policy", "uncaught"}
      OBVIOUS
    <3>. QED
      BY <1>3, <1>5, <3>1 DEF Verdict
  <2>. QED
    BY <1>1, <1>5, <2>1, EndedThere
<1>6. CASE End(1, "unreadable source") /\ UNCHANGED sourcesLeft
  <2>1. 1 # 0 /\ "unreadable source" \notin {"policy", "missing source", "uncaught"}
    OBVIOUS
  <2>. QED
    BY <1>1, <1>6, <2>1, EndedSo DEF work
<1>. QED
  BY <1>4, <1>5, <1>6 DEF LoadSource

LEMMA LoadedKeeps ==
    ASSUME PipelineInv, SourcesLoaded
    PROVE  PipelineInv'
<1>1. stage = "sources" /\ UNCHANGED <<work, outcome, world>>
  BY DEF SourcesLoaded
<1>2. \E next \in {"functions", "queries"} : Goes(next)
  BY DEF SourcesLoaded
<1>3. ASSUME NEW next \in {"functions", "queries"}, Goes(next) PROVE PipelineInv'
  BY <1>1, <1>3, TurnsKeep DEF work, world
<1>. QED
  BY <1>2, <1>3

--------------------------------------------------------------------------------
(* Every step of the queries keeps the invariant. *)

\* What is accounted for stays so as more is executed, written or failed.
LEMMA MoreAccounted ==
    ASSUME NEW q, NEW str, NEW td, NEW sk, NEW hs, NEW wr, NEW fl, NEW hs2, NEW wr2, NEW fl2,
           Accounted(q, str, td, sk, hs, wr, fl),
           Range(hs) \subseteq Range(hs2), wr \subseteq wr2, fl \subseteq fl2
    PROVE  Accounted(q, str, td, sk, hs2, wr2, fl2)
  BY DEF Accounted

\* The next query, and the state in which the others are left to run.
LEMMA NextQuery ==
    ASSUME PipelineInv, stage = "queries", todo # <<>>, NEW q, q = Head(todo)
    PROVE  /\ job \in Jobs /\ config.state = "read" /\ streaming \in BOOLEAN
           /\ q \in Nat /\ q \in Range(Reordered) /\ sinks \in Seq(Nat \X Nat)
           /\ Range(history) \subseteq Range(Append(history, q)) /\ q \in Range(Append(history, q))
           /\ Shaped("queries", streaming, sourcesLeft, Tail(todo), sinks, history)
           /\ Shaped("queries", streaming, sourcesLeft, Tail(todo), sinks, Append(history, q))
           /\ Sorting(Tail(todo), history, streaming)
           /\ Loads(q) /\ ~(streaming /\ Deferred(q)) => Sorting(Tail(todo), Append(history, q), streaming)
           /\ DistinctIds => \A other \in Selected :
                  other # q => Accounted(other, streaming, Tail(todo), sinks, history, written, failed)
           /\ DistinctIds => \A other \in Selected :
                  Accounted(other, streaming, Tail(todo), sinks, history, written, failed \union {<<q, 0>>})
           /\ failed # {} => job.on_error \in {"warn", "skip"}
<1>1. /\ job \in Jobs /\ config.state = "read" /\ streaming \in BOOLEAN
      /\ todo \in Seq(Nat) /\ history \in Seq(Nat) /\ sinks \in Seq(Nat \X Nat) /\ Range(todo) \subseteq Range(Reordered)
      /\ failed # {} => job.on_error \in {"warn", "skip"}
  BY DEF PipelineInv, StateIs, Shaped, Accounting
<1>2. PICK rest : rest = Tail(todo)
  OBVIOUS
<1>3. /\ q \in Nat /\ q \in Range(todo) /\ rest \in Seq(Nat) /\ Range(rest) \subseteq Range(todo)
      /\ \A x \in Range(todo) : x = q \/ x \in Range(rest)
  BY <1>1, <1>2, TakenFirst
<1>4. PICK new : new = Append(history, q)
  OBVIOUS
<1>5. new \in Seq(Nat) /\ Range(new) = Range(history) \union {q}
  BY <1>1, <1>3, <1>4, AddedLast
<1>6. /\ Shaped("queries", streaming, sourcesLeft, rest, sinks, history)
      /\ Shaped("queries", streaming, sourcesLeft, rest, sinks, new)
  BY <1>1, <1>3, <1>5 DEF PipelineInv, StateIs, Shaped
<1>7. Sorting(rest, history, streaming)
  <2>1. ASSUME InOrderSoFar(todo, history, streaming) PROVE InOrderSoFar(rest, history, streaming)
    BY <1>1, <1>2, <2>1, SkipKeeps
  <2>. QED
    BY <2>1 DEF PipelineInv, StateIs, Sorting
<1>8. ASSUME Loads(q), ~(streaming /\ Deferred(q)) PROVE Sorting(rest, new, streaming)
  <2>1. ASSUME InOrderSoFar(todo, history, streaming) PROVE InOrderSoFar(rest, new, streaming)
    BY <1>1, <1>2, <1>4, <1>8, <2>1, TakeKeeps
  <2>. QED
    BY <2>1 DEF PipelineInv, StateIs, Sorting
<1>9. ASSUME DistinctIds, NEW other \in Selected
      PROVE  other = q \/ Accounted(other, streaming, rest, sinks, history, written, failed)
  <2>1. Accounted(other, streaming, todo, sinks, history, written, failed)
    BY <1>9 DEF PipelineInv, StateIs, Accounting
  <2>. QED
    BY <1>3, <2>1 DEF Accounted
<1>10. ASSUME DistinctIds, NEW other \in Selected
       PROVE  Accounted(other, streaming, rest, sinks, history, written, failed \union {<<q, 0>>})
  <2>1. CASE other = q
    BY <2>1 DEF Accounted
  <2>2. CASE other # q
    BY <1>9, <1>10, <2>2, MoreAccounted
  <2>. QED
    BY <2>1, <2>2
<1>. QED
  BY <1>1, <1>2, <1>3, <1>4, <1>5, <1>6, <1>7, <1>8, <1>9, <1>10

\* The next output, and the state in which the others are left to write.
LEMMA NextSink ==
    ASSUME PipelineInv, stage = "queries", sinks # <<>>, NEW sink, sink = Head(sinks)
    PROVE  /\ job \in Jobs /\ config.state = "read" /\ streaming \in BOOLEAN
           /\ sink[1] \in Nat /\ sink[2] \in DOMAIN config.output /\ (streaming => Deferred(sink[1]))
           /\ Shaped("queries", streaming, sourcesLeft, todo, Tail(sinks), history)
           /\ Sorting(todo, history, streaming)
           /\ DistinctIds => \A q \in Selected :
                  /\ ~streaming =>
                       Accounted(q, streaming, todo, Tail(sinks), history, written \union {sink}, failed)
                  /\ Accounted(q, streaming, todo, Tail(sinks), Append(history, sink[1]), written \union {sink}, failed)
                  /\ Accounted(q, streaming, todo, Tail(sinks), history, written, failed \union {sink})
           /\ failed # {} => job.on_error \in {"warn", "skip"}
<1>1. /\ job \in Jobs /\ config.state = "read" /\ streaming \in BOOLEAN /\ sinks \in Seq(Nat \X Nat)
      /\ \A s \in Range(sinks) : s[2] \in SinksOf(s[1]) /\ (streaming => Deferred(s[1]))
      /\ Sorting(todo, history, streaming)
      /\ failed # {} => job.on_error \in {"warn", "skip"}
  BY DEF PipelineInv, StateIs, Shaped, Accounting
<1>2. PICK rest : rest = Tail(sinks)
  OBVIOUS
<1>3. /\ sink \in Nat \X Nat /\ sink \in Range(sinks)
      /\ rest \in Seq(Nat \X Nat) /\ Range(rest) \subseteq Range(sinks)
      /\ \A x \in Range(sinks) : x = sink \/ x \in Range(rest)
  BY <1>1, <1>2, TakenFirst
<1>4. sink[1] \in Nat /\ sink[2] \in DOMAIN config.output /\ (streaming => Deferred(sink[1]))
  BY <1>1, <1>3 DEF SinksOf
<1>5. Shaped("queries", streaming, sourcesLeft, todo, rest, history)
  BY <1>1, <1>3 DEF PipelineInv, StateIs, Shaped
<1>6. PICK new : new = Append(history, sink[1])
  OBVIOUS
<1>7. Range(new) = Range(history) \union {sink[1]}
  <2>1. history \in Seq(Nat)
    BY DEF PipelineInv, StateIs, Shaped
  <2>. QED
    BY <1>4, <1>6, <2>1, AddedLast
<1>8. ASSUME DistinctIds, NEW q \in Selected
      PROVE  /\ ~streaming => Accounted(q, streaming, todo, rest, history, written \union {sink}, failed)
             /\ Accounted(q, streaming, todo, rest, new, written \union {sink}, failed)
             /\ Accounted(q, streaming, todo, rest, history, written, failed \union {sink})
  <2>1. Accounted(q, streaming, todo, sinks, history, written, failed)
    BY <1>8 DEF PipelineInv, StateIs, Accounting
  <2>2. Accounted(q, streaming, todo, rest, history, written, failed \union {sink})
    BY <1>3, <2>1 DEF Accounted
  <2>3. ~streaming => Accounted(q, streaming, todo, rest, history, written \union {sink}, failed)
    BY <1>3, <2>1 DEF Accounted
  <2>4. Accounted(q, streaming, todo, rest, new, written \union {sink}, failed)
    <3>1. CASE q = sink[1]
      <4>1. q \in Range(new)
        BY <1>7, <3>1
      <4>. QED
        BY <1>3, <2>1, <4>1 DEF Accounted
    <3>2. CASE q # sink[1]
      <4>1. \A o : <<q, o>> # sink
        BY <1>3, <3>2
      <4>. QED
        BY <1>3, <1>7, <2>1, <4>1 DEF Accounted
    <3>. QED
      BY <3>1, <3>2
  <2>. QED
    BY <2>2, <2>3, <2>4
<1>. QED
  BY <1>1, <1>2, <1>4, <1>5, <1>6, <1>8

LEMMA InMemoryKeeps ==
    ASSUME PipelineInv, RunInMemory
    PROVE  PipelineInv'
<1>. PICK q : q = Head(todo)
  OBVIOUS
<1>1. /\ stage = "queries" /\ ~streaming /\ sinks = <<>> /\ todo # <<>>
      /\ todo' = Tail(todo) /\ sourcesLeft' = sourcesLeft /\ written' = written
  BY DEF RunInMemory
<1>2. /\ job \in Jobs /\ config.state = "read" /\ streaming \in BOOLEAN
      /\ q \in Nat /\ q \in Range(Reordered) /\ sinks \in Seq(Nat \X Nat)
      /\ Range(history) \subseteq Range(Append(history, q)) /\ q \in Range(Append(history, q))
      /\ Shaped("queries", streaming, sourcesLeft, Tail(todo), sinks, history)
      /\ Shaped("queries", streaming, sourcesLeft, Tail(todo), sinks, Append(history, q))
      /\ Sorting(Tail(todo), history, streaming)
      /\ Loads(q) /\ ~(streaming /\ Deferred(q)) => Sorting(Tail(todo), Append(history, q), streaming)
      /\ DistinctIds => \A other \in Selected :
             other # q => Accounted(other, streaming, Tail(todo), sinks, history, written, failed)
      /\ DistinctIds => \A other \in Selected :
             Accounted(other, streaming, Tail(todo), sinks, history, written, failed \union {<<q, 0>>})
      /\ failed # {} => job.on_error \in {"warn", "skip"}
  BY <1>1, NextQuery
<1>3. CASE Loads(q) /\ Executed(q) /\ sinks' = Pairs(q) /\ Stays /\ UNCHANGED <<failed, world>>
  <2>1. /\ history' = Append(history, q) /\ failed' = failed /\ orphans' = orphans
    BY <1>3 DEF Executed, world
  <2>2. /\ sinks' \in Seq(Nat \X Nat) /\ Range(sinks') = {<<q, o>> : o \in SinksOf(q)}
    BY <1>2, <1>3, PairsFacts
  <2>3. Shaped("queries", streaming, sourcesLeft', todo', sinks', history')
    BY <1>1, <1>2, <2>1, <2>2 DEF Shaped
  <2>4. Sorting(todo', history', streaming)
    BY <1>1, <1>2, <1>3, <2>1
  <2>5. ASSUME DistinctIds, NEW other \in Selected
        PROVE  Accounted(other, streaming, todo', sinks', history', written', failed')
    <3>1. CASE other = q
      BY <1>2, <2>1, <2>2, <3>1 DEF Accounted
    <3>2. CASE other # q
      <4>1. Accounted(other, streaming, Tail(todo), sinks, history, written, failed)
        BY <1>2, <2>5, <3>2
      <4>2. Range(sinks) = {}
        BY <1>1 DEF Range
      <4>. QED
        BY <1>1, <1>2, <2>1, <4>1, <4>2 DEF Accounted
    <3>. QED
      BY <3>1, <3>2
  <2>6. Accounting("queries", streaming, todo', sinks', history', written', failed')
    BY <1>2, <2>1, <2>5 DEF Accounting
  <2>. QED
    BY <1>1, <1>3, <2>1, <2>3, <2>4, <2>6, QueriesGoOn
<1>4. CASE Handle(<<q, 0>>) /\ UNCHANGED <<history, sinks, orphans>>
  BY <1>1, <1>2, <1>4, Handled
<1>. QED
  BY <1>3, <1>4 DEF RunInMemory, Fault, world

LEMMA WriteKeeps ==
    ASSUME PipelineInv, WriteInMemory
    PROVE  PipelineInv'
<1>. PICK sink : sink = Head(sinks)
  OBVIOUS
<1>1. /\ stage = "queries" /\ ~streaming /\ sinks # <<>> /\ sinks' = Tail(sinks)
      /\ todo' = todo /\ sourcesLeft' = sourcesLeft /\ history' = history
  BY DEF WriteInMemory
<1>2. /\ job \in Jobs /\ config.state = "read" /\ streaming \in BOOLEAN
      /\ sink[1] \in Nat /\ sink[2] \in DOMAIN config.output
      /\ Shaped("queries", streaming, sourcesLeft, todo, Tail(sinks), history)
      /\ Sorting(todo, history, streaming)
      /\ DistinctIds => \A q \in Selected :
             /\ ~streaming => Accounted(q, streaming, todo, Tail(sinks), history, written \union {sink}, failed)
             /\ Accounted(q, streaming, todo, Tail(sinks), history, written, failed \union {sink})
      /\ failed # {} => job.on_error \in {"warn", "skip"}
  BY <1>1, NextSink
<1>3. CASE written' = written \union {sink} /\ Stays /\ UNCHANGED <<failed, world>>
  <2>1. failed' = failed /\ orphans' = orphans
    BY <1>3 DEF world
  <2>2. Accounting("queries", streaming, todo', sinks', history', written', failed')
    BY <1>1, <1>2, <1>3, <2>1 DEF Accounting
  <2>. QED
    BY <1>1, <1>2, <1>3, <2>1, <2>2, QueriesGoOn
<1>4. CASE Handle(sink) /\ UNCHANGED <<written, orphans>>
  BY <1>1, <1>2, <1>4, Handled
<1>5. CASE Refused(sink) /\ End(1, "uncaught") /\ UNCHANGED <<written, failed, world>>
  <2>1. Shaped("ended", streaming, sourcesLeft', todo', sinks', history')
    BY <1>1, <1>2 DEF Shaped, Stages
  <2>2. \E o \in Range(config.output) : o.cloud
    BY <1>2, <1>5 DEF Refused, Range
  <2>3. Verdict("ended", streaming, history', written', failed', 1, "uncaught")
    <3>1. 1 # 0 /\ "uncaught" \notin {"policy", "missing source"}
      OBVIOUS
    <3>. QED
      BY <1>1, <1>2, <2>2, <3>1 DEF Verdict
  <2>. QED
    BY <1>1, <1>2, <1>5, <2>1, <2>3, Ended
<1>. QED
  BY <1>3, <1>4, <1>5 DEF WriteInMemory, Fault, world

LEMMA ClassifyKeeps ==
    ASSUME PipelineInv, Classify
    PROVE  PipelineInv'
<1>. PICK q : q = Head(todo)
  OBVIOUS
<1>1. /\ stage = "queries" /\ streaming /\ todo # <<>>
      /\ todo' = Tail(todo) /\ sourcesLeft' = sourcesLeft /\ written' = written
  BY DEF Classify
<1>2. /\ job \in Jobs /\ config.state = "read" /\ streaming \in BOOLEAN
      /\ q \in Nat /\ q \in Range(Reordered) /\ sinks \in Seq(Nat \X Nat)
      /\ Range(history) \subseteq Range(Append(history, q)) /\ q \in Range(Append(history, q))
      /\ Shaped("queries", streaming, sourcesLeft, Tail(todo), sinks, history)
      /\ Shaped("queries", streaming, sourcesLeft, Tail(todo), sinks, Append(history, q))
      /\ Sorting(Tail(todo), history, streaming)
      /\ Loads(q) /\ ~(streaming /\ Deferred(q)) => Sorting(Tail(todo), Append(history, q), streaming)
      /\ DistinctIds => \A other \in Selected :
             other # q => Accounted(other, streaming, Tail(todo), sinks, history, written, failed)
      /\ DistinctIds => \A other \in Selected :
             Accounted(other, streaming, Tail(todo), sinks, history, written, failed \union {<<q, 0>>})
      /\ failed # {} => job.on_error \in {"warn", "skip"}
  BY <1>1, NextQuery
<1>3. CASE ~(Loads(q) /\ TextOf(q).parses) /\ End(1, "uncaught") /\ UNCHANGED <<history, sinks, failed, world>>
  <2>1. Shaped("ended", streaming, sourcesLeft', todo', sinks', history')
    BY <1>1, <1>2, <1>3 DEF Shaped, Stages
  <2>2. Verdict("ended", streaming, history', written', failed', 1, "uncaught")
    <3>1. 1 # 0 /\ "uncaught" \notin {"policy", "missing source"}
      OBVIOUS
    <3>. QED
      BY <1>1, <1>2, <1>3, <3>1 DEF Verdict
  <2>. QED
    BY <1>1, <1>2, <1>3, <2>1, <2>2, Ended
<1>4. CASE Handle(<<q, 0>>) /\ UNCHANGED <<history, sinks, orphans>>
  BY <1>1, <1>2, <1>4, Handled
<1>5. CASE Deferred(q) /\ sinks' = sinks \o Pairs(q) /\ Stays /\ UNCHANGED <<history, failed, world>>
  <2>1. history' = history /\ failed' = failed /\ orphans' = orphans
    BY <1>5 DEF world
  <2>2. Pairs(q) \in Seq(Nat \X Nat) /\ Range(Pairs(q)) = {<<q, o>> : o \in SinksOf(q)}
    BY <1>2, PairsFacts
  <2>3. sinks' \in Seq(Nat \X Nat) /\ Range(sinks') = Range(sinks) \union Range(Pairs(q))
    BY <1>2, <1>5, <2>2, BehindOneAnother, RangeBehind
  <2>4. Shaped("queries", streaming, sourcesLeft', todo', sinks', history')
    BY <1>1, <1>2, <1>5, <2>1, <2>2, <2>3 DEF Shaped
  <2>5. ASSUME DistinctIds, NEW other \in Selected
        PROVE  Accounted(other, streaming, todo', sinks', history', written', failed')
    <3>1. CASE other = q
      BY <1>1, <1>5, <2>2, <2>3, <3>1 DEF Accounted
    <3>2. CASE other # q
      <4>1. Accounted(other, streaming, Tail(todo), sinks, history, written, failed)
        BY <1>2, <2>5, <3>2
      <4>. QED
        BY <1>1, <2>1, <2>3, <4>1 DEF Accounted
    <3>. QED
      BY <3>1, <3>2
  <2>6. Accounting("queries", streaming, todo', sinks', history', written', failed')
    BY <1>2, <2>1, <2>5 DEF Accounting
  <2>. QED
    BY <1>1, <1>2, <1>5, <2>1, <2>4, <2>6, QueriesGoOn
<1>6. CASE /\ Loads(q) /\ Translatable(q) /\ ~Deferred(q) /\ Executed(q)
           /\ Stays /\ UNCHANGED <<sinks, failed, world>>
  <2>1. history' = Append(history, q) /\ sinks' = sinks /\ failed' = failed /\ orphans' = orphans
    BY <1>6 DEF Executed, world
  <2>2. Mutation(q) \/ SinksOf(q) = {}
    BY <1>6 DEF Translatable, Deferred, Mutation
  <2>3. ASSUME DistinctIds, NEW other \in Selected
        PROVE  Accounted(other, streaming, todo', sinks', history', written', failed')
    <3>1. CASE other = q
      BY <1>1, <1>2, <2>1, <2>2, <3>1 DEF Accounted
    <3>2. CASE other # q
      <4>1. Accounted(other, streaming, Tail(todo), sinks, history, written, failed)
        BY <1>2, <2>3, <3>2
      <4>. QED
        BY <1>1, <1>2, <2>1, <4>1, MoreAccounted
    <3>. QED
      BY <3>1, <3>2
  <2>4. Accounting("queries", streaming, todo', sinks', history', written', failed')
    BY <1>2, <2>1, <2>3 DEF Accounting
  <2>5. Sorting(todo', history', streaming)
    BY <1>1, <1>2, <1>6, <2>1
  <2>. QED
    BY <1>1, <1>2, <1>6, <2>1, <2>4, <2>5, QueriesGoOn
<1>. QED
  BY <1>3, <1>4, <1>5, <1>6 DEF Classify, Fault, world

LEMMA StreamKeeps ==
    ASSUME PipelineInv, StreamToSink
    PROVE  PipelineInv'
<1>. PICK sink : sink = Head(sinks)
  OBVIOUS
<1>1. /\ stage = "queries" /\ streaming /\ todo = <<>> /\ sinks # <<>> /\ sinks' = Tail(sinks)
      /\ todo' = todo /\ sourcesLeft' = sourcesLeft
  BY DEF StreamToSink
<1>2. /\ job \in Jobs /\ config.state = "read" /\ streaming \in BOOLEAN
      /\ sink[1] \in Nat /\ Deferred(sink[1])
      /\ Shaped("queries", streaming, sourcesLeft, todo, Tail(sinks), history)
      /\ Sorting(todo, history, streaming)
      /\ DistinctIds => \A q \in Selected :
             /\ Accounted(q, streaming, todo, Tail(sinks), Append(history, sink[1]), written \union {sink}, failed)
             /\ Accounted(q, streaming, todo, Tail(sinks), history, written, failed \union {sink})
      /\ failed # {} => job.on_error \in {"warn", "skip"}
  BY <1>1, NextSink
<1>3. CASE Handle(sink) /\ UNCHANGED <<history, written, orphans>>
  BY <1>1, <1>2, <1>3, Handled
<1>. PICK new : new = Append(history, sink[1])
  OBVIOUS
<1>4. /\ history \in Seq(Nat) /\ new \in Seq(Nat) /\ Range(history) \subseteq Range(new)
      /\ new = Append(history, sink[1])
  <2>1. history \in Seq(Nat)
    BY <1>2 DEF Shaped
  <2>. QED
    BY <1>2, <2>1, AddedLast
<1>5. Shaped("queries", streaming, sourcesLeft', todo', sinks', new)
  BY <1>1, <1>2, <1>4 DEF Shaped
<1>6. Sorting(todo', new, streaming)
  <2>1. streaming = TRUE
    BY <1>1, <1>2
  <2>2. ASSUME InOrderSoFar(<<>>, history, TRUE) PROVE InOrderSoFar(<<>>, new, TRUE)
    BY <1>2, <1>4, <2>2, LateKeeps
  <2>. QED
    BY <1>1, <1>2, <2>1, <2>2 DEF Sorting
<1>7. ASSUME DistinctIds, NEW q \in Selected
      PROVE  /\ Accounted(q, streaming, todo', sinks', new, written \union {sink}, failed)
             /\ Accounted(q, streaming, todo', sinks', new, written, failed \union {sink})
  <2>1. Accounted(q, streaming, todo', sinks', new, written \union {sink}, failed)
    BY <1>1, <1>2, <1>4, <1>7
  <2>2. Accounted(q, streaming, todo', sinks', history, written, failed \union {sink})
    BY <1>1, <1>2, <1>7
  <2>3. Accounted(q, streaming, todo', sinks', new, written, failed \union {sink})
    BY ONLY <1>4, <2>2, MoreAccounted
  <2>. QED
    BY <2>1, <2>3
<1>8. CASE Executed(sink[1]) /\ Handle(sink) /\ UNCHANGED <<written, orphans>>
  <2>1. history' = new
    BY <1>8 DEF Executed
  <2>. QED
    BY <1>1, <1>5, <1>6, <1>7, <1>8, <2>1, Handled
<1>9. CASE Executed(sink[1]) /\ written' = written \union {sink} /\ Stays /\ UNCHANGED <<failed, world>>
  <2>1. history' = new /\ failed' = failed /\ orphans' = orphans
    BY <1>9 DEF Executed, world
  <2>2. Accounting("queries", streaming, todo', sinks', history', written', failed')
    BY <1>2, <1>7, <1>9, <2>1 DEF Accounting
  <2>. QED
    BY <1>1, <1>5, <1>6, <1>9, <2>1, <2>2, QueriesGoOn
<1>. QED
  BY <1>3, <1>8, <1>9 DEF StreamToSink, Fault, world

LEMMA FinishKeeps ==
    ASSUME PipelineInv, Finish
    PROVE  PipelineInv'
<1>1. /\ stage = "queries" /\ todo = <<>> /\ sinks = <<>> /\ End(0, "done") /\ UNCHANGED <<work, outcome>>
  BY DEF Finish
<1>2. Accounting("queries", streaming, <<>>, <<>>, history, written, failed)
  BY <1>1 DEF PipelineInv, StateIs
<1>3. Verdict("ended", streaming, history, written, failed, 0, "done")
  <2>1. "done" \notin {"policy", "missing source", "uncaught"}
    OBVIOUS
  <2>. QED
    BY <1>2, <2>1 DEF Verdict, Accounting
<1>. QED
  BY <1>1, <1>3, EndedThere DEF work

LEMMA KilledKeeps ==
    ASSUME PipelineInv, Killed
    PROVE  PipelineInv'
<1>1. /\ job' = job /\ stage' = "killed" /\ scratch' = FALSE /\ streaming' = streaming
      /\ sourcesLeft' = sourcesLeft /\ todo' = todo /\ sinks' = sinks
      /\ history' = history /\ written' = written /\ failed' = failed
  BY DEF Killed, work, outcome
<1>2. Shaped("killed", streaming, sourcesLeft, todo, sinks, history)
  BY DEF PipelineInv, StateIs, Shaped, Stages
<1>3. Untouched("killed", sinks, history, written, failed)
  BY DEF Untouched
<1>4. Accounting("killed", streaming, todo, sinks, history, written, failed)
  BY DEF PipelineInv, StateIs, Accounting
<1>5. Verdict("killed", streaming, history, written, failed, exit', cause')
  BY DEF Verdict
<1>6. Scratched("killed", FALSE, orphans')
  BY DEF Scratched
<1>7. Sorting(todo, history, streaming)
  BY DEF PipelineInv, StateIs
<1>8. StateIs(stage', streaming', sourcesLeft', todo', sinks', history', written', failed', exit', cause',
              scratch', orphans')
  BY <1>1, <1>2, <1>3, <1>4, <1>5, <1>6, <1>7 DEF StateIs
<1>. QED
  BY <1>1, <1>8, JobStays DEF PipelineInv

LEMMA RerunKeeps ==
    ASSUME PipelineInv, Rerun
    PROVE  PipelineInv'
<1>1. /\ stage = "killed" /\ job' = job /\ stage' = "load" /\ streaming' = FALSE
      /\ history' = <<>> /\ written' = {} /\ failed' = {} /\ sourcesLeft' = <<>> /\ todo' = <<>> /\ sinks' = <<>>
      /\ scratch' = scratch
  BY DEF Rerun, ending
<1>2. ~scratch'
  BY <1>1 DEF PipelineInv, StateIs, Scratched
<1>3. StateIs("load", FALSE, <<>>, <<>>, <<>>, <<>>, {}, {}, exit', cause', scratch', orphans')
  BY ONLY <1>2, AtFirst
<1>4. StateIs(stage', streaming', sourcesLeft', todo', sinks', history', written', failed', exit', cause',
              scratch', orphans')
  BY <1>1, <1>3
<1>. QED
  BY <1>1, <1>4, JobStays DEF PipelineInv

LEMMA PipelineStutters ==
    ASSUME PipelineInv, UNCHANGED pipelineVars
    PROVE  PipelineInv'
<1>1. /\ job' = job /\ stage' = stage /\ streaming' = streaming
      /\ sourcesLeft' = sourcesLeft /\ todo' = todo /\ sinks' = sinks
      /\ history' = history /\ written' = written /\ failed' = failed
      /\ exit' = exit /\ cause' = cause /\ scratch' = scratch /\ orphans' = orphans
  BY DEF pipelineVars, work, outcome, ending, world
<1>2. StateIs(stage', streaming', sourcesLeft', todo', sinks', history', written', failed', exit', cause',
              scratch', orphans')
  BY <1>1 DEF PipelineInv
<1>. QED
  BY <1>1, <1>2, JobStays DEF PipelineInv

LEMMA PipelineInductive == PipelineInv /\ [PipelineNext]_pipelineVars => PipelineInv'
<1>. SUFFICES ASSUME PipelineInv, [PipelineNext]_pipelineVars PROVE PipelineInv'
  OBVIOUS
<1>1. CASE Run
  BY <1>1, RunKeeps
<1>2. CASE Validate \/ ListQueries
  BY <1>2, LooksKeep
<1>3. CASE Order
  BY <1>3, OrderKeeps
<1>4. CASE DryRun
  BY <1>4, DryRunKeeps
<1>5. CASE OpenScratch
  BY <1>5, OpenKeeps
<1>6. CASE RegisterFunctions
  BY <1>6, FunctionsKeep
<1>7. CASE LoadSource
  BY <1>7, LoadKeeps
<1>8. CASE SourcesLoaded
  BY <1>8, LoadedKeeps
<1>9. CASE RunInMemory
  BY <1>9, InMemoryKeeps
<1>10. CASE WriteInMemory
  BY <1>10, WriteKeeps
<1>11. CASE Classify
  BY <1>11, ClassifyKeeps
<1>12. CASE StreamToSink
  BY <1>12, StreamKeeps
<1>13. CASE Finish
  BY <1>13, FinishKeeps
<1>14. CASE Killed
  BY <1>14, KilledKeeps
<1>15. CASE Rerun
  BY <1>15, RerunKeeps
<1>16. CASE UNCHANGED pipelineVars
  BY <1>16, PipelineStutters
<1>. QED
  BY <1>1, <1>2, <1>3, <1>4, <1>5, <1>6, <1>7, <1>8, <1>9, <1>10, <1>11, <1>12, <1>13, <1>14, <1>15, <1>16
     DEF PipelineNext

LEMMA PipelineInvariant == PipelineSpec => []PipelineInv
<1>. QED
  BY PipelineInitially, PipelineInductive, PTL DEF PipelineSpec

--------------------------------------------------------------------------------
\* For every configuration, whichever queries are selected and whichever fail:
\* a query runs behind every query that produces what it consumes and runs at
\* all, but for the reads that a streaming run puts off.
THEOREM ConsumersAfterProducersCorrect == PipelineSpec => []ConsumersAfterProducers
<1>1. PipelineInv => ConsumersAfterProducers
  <2>. SUFFICES ASSUME PipelineInv, config.state = "read", Analysable, DistinctIds,
                       NEW q \in Range(history), NEW other \in Range(history),
                       Needs(q, other), ~(streaming /\ Deferred(other))
                PROVE  Before(other, q)
    BY DEF ConsumersAfterProducers
  <2>1. InOrderSoFar(todo, history, streaming)
    BY DEF PipelineInv, StateIs, Sorting
  <2>2. ComesBefore(history, other, q)
    BY <2>1 DEF InOrderSoFar
  <2>. QED
    BY <2>2 DEF ComesBefore, Before
<1>. QED
  BY <1>1, PipelineInvariant, PTL

\* For every configuration, every fault and every kill: a run that exits with 0,
\* whatever it has still to do, has executed and written every query it was asked
\* for, or noted the failure under a policy that says to go on; an early end has the cause its policy allows; a
\* dry run without errors has seen what a run could stop at; and no scratch
\* database outlives its run.
THEOREM EndsAsReportedCorrect == PipelineSpec => []EndsAsReported
<1>1. PipelineInv => NothingSkipped
  <2>. SUFFICES ASSUME PipelineInv, stage = "ended", job.command = "run"
                PROVE  /\ exit = 0 => /\ failed # {} => job.on_error \in {"warn", "skip"}
                                      /\ DistinctIds => \A q \in Selected :
                                             \/ <<q, 0>> \in failed
                                             \/ q \in Range(history) /\ ((streaming /\ Mutation(q)) \/ WrittenOrNoted(q))
                                             \/ streaming /\ Deferred(q) /\ \A o \in SinksOf(q) : <<q, o>> \in failed
                       /\ cause = "policy" => job.on_error \in {None, "fail"}
                       /\ cause = "uncaught" => IF streaming THEN \E q \in Selected : ~Loads(q) \/ ~TextOf(q).parses
                                                ELSE \E o \in Range(config.output) : o.cloud
    BY DEF NothingSkipped
  <2>1. /\ failed # {} => job.on_error \in {"warn", "skip"}
        /\ Verdict("ended", streaming, history, written, failed, exit, cause)
    BY DEF PipelineInv, StateIs, Accounting
  <2>2. ASSUME exit = 0, DistinctIds, NEW q \in Selected
        PROVE  \/ <<q, 0>> \in failed
               \/ q \in Range(history) /\ ((streaming /\ Mutation(q)) \/ WrittenOrNoted(q))
               \/ streaming /\ Deferred(q) /\ \A o \in SinksOf(q) : <<q, o>> \in failed
    <3>1. Range(<<>>) = {}
      BY DEF Range
    <3>2. Accounted(q, streaming, <<>>, <<>>, history, written, failed)
      BY <2>1, <2>2 DEF Verdict
    <3>. QED
      BY <3>1, <3>2 DEF Accounted, WrittenOrNoted
  <2>3. cause = "policy" => job.on_error \in {None, "fail"}
    BY <2>1 DEF Verdict
  <2>4. ASSUME cause = "uncaught"
        PROVE  IF streaming THEN \E q \in Selected : ~Loads(q) \/ ~TextOf(q).parses
               ELSE \E o \in Range(config.output) : o.cloud
    <3>1. config.state = "read" /\ job \in Jobs
      BY <2>1, <2>4 DEF Verdict, PipelineInv
    <3>2. Range(Reordered) \subseteq Selected
      BY <3>1, ReorderedFacts
    <3>. QED
      BY <2>1, <2>4, <3>2 DEF Verdict
  <2>. QED
    BY <2>1, <2>2, <2>3, <2>4
<1>2. PipelineInv => DryRunPredicts
  <2>. SUFFICES ASSUME PipelineInv, stage = "ended", cause \in {"missing source", "uncaught"},
                       \A s \in Range(config.sources) : s.at = "both"
                PROVE  DryRunErrors \/ \E o \in Range(config.output) : o.cloud
    BY DEF DryRunPredicts
  <2>1. Verdict("ended", streaming, history, written, failed, exit, cause)
    BY DEF PipelineInv, StateIs
  <2>2. cause # "missing source"
    <3>1. "both" # "config directory"
      OBVIOUS
    <3>. QED
      BY <2>1, <3>1 DEF Verdict
  <2>3. IF streaming THEN \E q \in Range(Reordered) : ~Loads(q) \/ ~TextOf(q).parses
        ELSE \E o \in Range(config.output) : o.cloud
    BY <2>1, <2>2 DEF Verdict
  <2>. QED
    BY <2>3 DEF DryRunErrors
<1>3. PipelineInv => ScratchGone
  BY DEF PipelineInv, StateIs, Scratched, ScratchGone
<1>4. PipelineInv => EndsAsReported
  BY <1>1, <1>2, <1>3 DEF EndsAsReported
<1>. QED
  BY <1>4, PipelineInvariant, PTL
--------------------------------------------------------------------------------
(* The engines of frames. *)

\* A list: a function on 1 .. n.
IsList(s) == s \in Seq(Range(s))

LEMMA ListFacts ==
    ASSUME NEW s, IsList(s)
    PROVE  Len(s) \in Nat /\ DOMAIN s = 1 .. Len(s) /\ s = [i \in 1 .. Len(s) |-> s[i]]
BY DEF IsList

LEMMA ListOf ==
    ASSUME NEW n \in Nat, NEW s, DOMAIN s = 1 .. n, s = [i \in 1 .. n |-> s[i]]
    PROVE  IsList(s) /\ Len(s) = n
<1>1. \A i \in 1 .. n : s[i] \in Range(s)
  BY DEF Range
<1>2. s \in [1 .. n -> Range(s)]
  BY <1>1
<1>. QED
  BY <1>2 DEF IsList
--------------------------------------------------------------------------------
(* Arrangements of a family. *)

LEMMA ArrangesBy ==
    ASSUME NEW rows, NEW family, NEW at, at \in [DOMAIN rows -> DOMAIN family],
           \A i, j \in DOMAIN rows : at[i] = at[j] => i = j,
           \A x \in DOMAIN family : \E i \in DOMAIN rows : at[i] = x,
           \A i \in DOMAIN rows : rows[i] = family[at[i]]
    PROVE  Arranges(rows, family)
<1>1. at \in Bijection(DOMAIN rows, DOMAIN family)
  BY Fun_IsBij
<1>. QED
  BY <1>1 DEF Arranges

LEMMA ArrangesWhat ==
    ASSUME NEW rows, NEW family, Arranges(rows, family)
    PROVE  \E at : /\ at \in [DOMAIN rows -> DOMAIN family]
                   /\ \A i, j \in DOMAIN rows : at[i] = at[j] => i = j
                   /\ \A x \in DOMAIN family : \E i \in DOMAIN rows : at[i] = x
                   /\ \A i \in DOMAIN rows : rows[i] = family[at[i]]
<1>1. PICK at \in Bijection(DOMAIN rows, DOMAIN family) : \A i \in DOMAIN rows : rows[i] = family[at[i]]
  BY DEF Arranges
<1>2. /\ at \in [DOMAIN rows -> DOMAIN family]
      /\ \A i, j \in DOMAIN rows : at[i] = at[j] => i = j
      /\ \A x \in DOMAIN family : \E i \in DOMAIN rows : at[i] = x
  BY Fun_BijectionProperties
<1>. QED
  BY <1>1, <1>2

LEMMA ArrangesItself ==
    ASSUME NEW rows
    PROVE  Arranges(rows, rows)
<1>. DEFINE at == [i \in DOMAIN rows |-> i]
<1>1. /\ at \in [DOMAIN rows -> DOMAIN rows]
      /\ \A i, j \in DOMAIN rows : at[i] = at[j] => i = j
      /\ \A x \in DOMAIN rows : \E i \in DOMAIN rows : at[i] = x
      /\ \A i \in DOMAIN rows : rows[i] = rows[at[i]]
  OBVIOUS
<1>. HIDE DEF at
<1>. QED
  BY <1>1, ArrangesBy

LEMMA ArrangesTwice ==
    ASSUME NEW a, NEW b, NEW c, Arranges(a, b), Arranges(b, c)
    PROVE  Arranges(a, c)
<1>1. PICK f : /\ f \in [DOMAIN a -> DOMAIN b]
               /\ \A i, j \in DOMAIN a : f[i] = f[j] => i = j
               /\ \A x \in DOMAIN b : \E i \in DOMAIN a : f[i] = x
               /\ \A i \in DOMAIN a : a[i] = b[f[i]]
  BY ArrangesWhat
<1>2. PICK g : /\ g \in [DOMAIN b -> DOMAIN c]
               /\ \A i, j \in DOMAIN b : g[i] = g[j] => i = j
               /\ \A x \in DOMAIN c : \E i \in DOMAIN b : g[i] = x
               /\ \A i \in DOMAIN b : b[i] = c[g[i]]
  BY ArrangesWhat
<1>. DEFINE h == [i \in DOMAIN a |-> g[f[i]]]
<1>3. /\ h \in [DOMAIN a -> DOMAIN c]
      /\ \A i \in DOMAIN a : h[i] = g[f[i]]
  BY <1>1, <1>2
<1>. HIDE DEF h
<1>4. \A i, j \in DOMAIN a : h[i] = h[j] => i = j
  BY <1>1, <1>2, <1>3
<1>5. \A x \in DOMAIN c : \E i \in DOMAIN a : h[i] = x
  BY <1>1, <1>2, <1>3
<1>6. \A i \in DOMAIN a : a[i] = c[h[i]]
  BY <1>1, <1>2, <1>3
<1>. QED
  BY <1>3, <1>4, <1>5, <1>6, ArrangesBy

LEMMA ArrangesBack ==
    ASSUME NEW a, NEW b, Arranges(a, b)
    PROVE  Arranges(b, a)
<1>1. PICK f : /\ f \in [DOMAIN a -> DOMAIN b]
               /\ \A i, j \in DOMAIN a : f[i] = f[j] => i = j
               /\ \A x \in DOMAIN b : \E i \in DOMAIN a : f[i] = x
               /\ \A i \in DOMAIN a : a[i] = b[f[i]]
  BY ArrangesWhat
<1>. DEFINE g == [x \in DOMAIN b |-> CHOOSE i \in DOMAIN a : f[i] = x]
<1>2. \A x \in DOMAIN b : g[x] \in DOMAIN a /\ f[g[x]] = x
  BY <1>1
<1>3. g \in [DOMAIN b -> DOMAIN a]
  BY <1>2
<1>. HIDE DEF g
<1>. QED
  BY <1>1, <1>2, <1>3, ArrangesBy

\* The same done to every row.
LEMMA ArrangesMapped ==
    ASSUME NEW a, NEW b, Arranges(a, b), NEW a2, NEW b2, DOMAIN a2 = DOMAIN a, DOMAIN b2 = DOMAIN b,
           \A i \in DOMAIN a, j \in DOMAIN b : a[i] = b[j] => a2[i] = b2[j]
    PROVE  Arranges(a2, b2)
<1>1. PICK f : /\ f \in [DOMAIN a -> DOMAIN b]
               /\ \A i, j \in DOMAIN a : f[i] = f[j] => i = j
               /\ \A x \in DOMAIN b : \E i \in DOMAIN a : f[i] = x
               /\ \A i \in DOMAIN a : a[i] = b[f[i]]
  BY ArrangesWhat
<1>. QED
  BY <1>1, ArrangesBy

\* A choice of rows by what they are.
LEMMA ArrangesSelected ==
    ASSUME NEW a, NEW b, Arranges(a, b), NEW S \in SUBSET DOMAIN a, NEW T \in SUBSET DOMAIN b,
           \A i \in DOMAIN a, j \in DOMAIN b : a[i] = b[j] => (i \in S <=> j \in T)
    PROVE  Arranges(Restrict(a, S), Restrict(b, T))
<1>1. PICK f : /\ f \in [DOMAIN a -> DOMAIN b]
               /\ \A i, j \in DOMAIN a : f[i] = f[j] => i = j
               /\ \A x \in DOMAIN b : \E i \in DOMAIN a : f[i] = x
               /\ \A i \in DOMAIN a : a[i] = b[f[i]]
  BY ArrangesWhat
<1>. DEFINE a2 == Restrict(a, S)
            b2 == Restrict(b, T)
            g == [i \in S |-> f[i]]
<1>2. DOMAIN a2 = S /\ DOMAIN b2 = T /\ (\A i \in S : a2[i] = a[i]) /\ (\A i \in T : b2[i] = b[i])
  BY DEF Restrict
<1>3. \A i \in S : f[i] \in T
  BY <1>1
<1>4. g \in [S -> T] /\ \A i \in S : g[i] = f[i]
  BY <1>3
<1>. HIDE DEF g, a2, b2
<1>5. \A x \in T : \E i \in S : g[i] = x
  BY <1>1, <1>4
<1>6. /\ g \in [DOMAIN a2 -> DOMAIN b2]
      /\ \A i, j \in DOMAIN a2 : g[i] = g[j] => i = j
      /\ \A i \in DOMAIN a2 : a2[i] = b2[g[i]]
  BY <1>1, <1>2, <1>3, <1>4
<1>7. Arranges(a2, b2)
  BY ONLY <1>2, <1>5, <1>6, ArrangesBy
<1>. QED
  BY <1>7 DEF a2, b2

LEMMA ShuffledArranges ==
    ASSUME NEW rows, NEW r \in Shuffled(rows)
    PROVE  Arranges(r, rows) /\ DOMAIN r = DOMAIN rows
<1>1. PICK at \in Bijection(DOMAIN rows, DOMAIN rows) : r = [i \in DOMAIN rows |-> rows[at[i]]]
  BY DEF Shuffled
<1>2. DOMAIN r = DOMAIN rows
  BY <1>1
<1>. QED
  BY <1>1, <1>2 DEF Arranges

\* The rows at some positions, in order.
LEMMA RowsAtFacts ==
    ASSUME NEW rows, IsList(rows), NEW S \in SUBSET DOMAIN rows
    PROVE  \E at : LET n == Cardinality(S) IN
              /\ n \in Nat /\ IsList(RowsAt(rows, S)) /\ Len(RowsAt(rows, S)) = n
              /\ DOMAIN RowsAt(rows, S) = 1 .. n
              /\ at \in [1 .. n -> S]
              /\ \A i, j \in 1 .. n : i < j => at[i] < at[j]
              /\ \A x \in S : \E i \in 1 .. n : at[i] = x
              /\ \A i \in 1 .. n : RowsAt(rows, S)[i] = rows[at[i]]
<1>1. Len(rows) \in Nat /\ DOMAIN rows = 1 .. Len(rows)
  BY ListFacts
<1>2. S \in SUBSET Int /\ IsFiniteSet(S)
  <2>1. IsFiniteSet(1 .. Len(rows))
    BY <1>1, FS_Interval
  <2>. QED
    BY <1>1, <2>1, FS_Subset
<1>3. PICK at : at = InOrder(S)
  OBVIOUS
<1>4. at = [n \in 1 .. Cardinality(S) |-> CHOOSE x \in S : Cardinality({y \in S : y < x}) = n - 1]
  BY <1>3 DEF InOrder
<1>5. /\ at \in Seq(S)
      /\ Cardinality(S) \in Nat /\ Len(at) = Cardinality(S) /\ DOMAIN at = 1 .. Len(at)
      /\ \A i, j \in 1 .. Len(at) : i < j => at[i] < at[j]
      /\ Range(at) = S
  BY <1>2, <1>4, AscendingSequence
<1>6. PICK r : r = RowsAt(rows, S)
  OBVIOUS
<1>7. r = [k \in DOMAIN at |-> rows[at[k]]]
  BY <1>3, <1>6 DEF RowsAt
<1>. DEFINE n == Cardinality(S)
<1>8. DOMAIN r = 1 .. n /\ r = [i \in 1 .. n |-> r[i]] /\ \A i \in 1 .. n : r[i] = rows[at[i]]
  BY <1>5, <1>7
<1>9. IsList(r) /\ Len(r) = n
  BY <1>5, <1>8, ListOf
<1>10. at \in [1 .. n -> S] /\ \A x \in S : \E i \in 1 .. n : at[i] = x
  BY <1>5 DEF Range
<1>. QED
  BY <1>5, <1>6, <1>8, <1>9, <1>10

LEMMA RowsAtArranges ==
    ASSUME NEW rows, IsList(rows), NEW S \in SUBSET DOMAIN rows
    PROVE  Arranges(RowsAt(rows, S), Restrict(rows, S)) /\ IsList(RowsAt(rows, S))
<1>1. PICK at : LET n == Cardinality(S) IN
              /\ n \in Nat /\ IsList(RowsAt(rows, S)) /\ Len(RowsAt(rows, S)) = n
              /\ DOMAIN RowsAt(rows, S) = 1 .. n
              /\ at \in [1 .. n -> S]
              /\ \A i, j \in 1 .. n : i < j => at[i] < at[j]
              /\ \A x \in S : \E i \in 1 .. n : at[i] = x
              /\ \A i \in 1 .. n : RowsAt(rows, S)[i] = rows[at[i]]
  BY SMTT(30), RowsAtFacts
<1>2. S \in SUBSET Int
  BY ListFacts
<1>3. PICK r : r = RowsAt(rows, S)
  OBVIOUS
<1>4. PICK q : q = Restrict(rows, S)
  OBVIOUS
<1>5. DOMAIN q = S /\ \A x \in S : q[x] = rows[x]
  BY <1>4 DEF Restrict
<1>6. /\ at \in [DOMAIN r -> DOMAIN q]
      /\ \A i, j \in DOMAIN r : at[i] = at[j] => i = j
      /\ \A x \in DOMAIN q : \E i \in DOMAIN r : at[i] = x
      /\ \A i \in DOMAIN r : r[i] = q[at[i]]
  <2>1. ASSUME NEW i \in DOMAIN r, NEW j \in DOMAIN r, at[i] = at[j], i # j PROVE FALSE
    <3>1. i \in 1 .. Cardinality(S) /\ j \in 1 .. Cardinality(S) /\ (i < j \/ j < i)
      BY <1>1, <1>3, <2>1
    <3>. QED
      BY <1>1, <1>2, <2>1, <3>1
  <2>. QED
    BY <1>1, <1>3, <1>5, <2>1
<1>7. Arranges(r, q)
  BY ONLY <1>6, ArrangesBy
<1>. QED
  BY <1>1, <1>3, <1>4, <1>7

LEMMA ArrangesConcatenated ==
    ASSUME NEW a, NEW b, NEW c, NEW d, IsList(a), IsList(b), IsList(c), IsList(d),
           Arranges(a, c), Arranges(b, d)
    PROVE  Arranges(a \o b, c \o d)
<1>1. /\ Len(a) \in Nat /\ DOMAIN a = 1 .. Len(a)
      /\ Len(b) \in Nat /\ DOMAIN b = 1 .. Len(b)
      /\ Len(c) \in Nat /\ DOMAIN c = 1 .. Len(c)
      /\ Len(d) \in Nat /\ DOMAIN d = 1 .. Len(d)
  BY ListFacts
<1>2. PICK f : /\ f \in [DOMAIN a -> DOMAIN c]
               /\ \A i, j \in DOMAIN a : f[i] = f[j] => i = j
               /\ \A x \in DOMAIN c : \E i \in DOMAIN a : f[i] = x
               /\ \A i \in DOMAIN a : a[i] = c[f[i]]
  BY ArrangesWhat
<1>3. PICK g : /\ g \in [DOMAIN b -> DOMAIN d]
               /\ \A i, j \in DOMAIN b : g[i] = g[j] => i = j
               /\ \A x \in DOMAIN d : \E i \in DOMAIN b : g[i] = x
               /\ \A i \in DOMAIN b : b[i] = d[g[i]]
  BY ArrangesWhat
<1>4. PICK ab : ab = a \o b
  OBVIOUS
<1>5. PICK cd : cd = c \o d
  OBVIOUS
<1>6. /\ DOMAIN ab = 1 .. (Len(a) + Len(b))
      /\ \A i \in 1 .. (Len(a) + Len(b)) : ab[i] = IF i <= Len(a) THEN a[i] ELSE b[i - Len(a)]
  BY <1>4 DEF IsList
<1>7. /\ DOMAIN cd = 1 .. (Len(c) + Len(d))
      /\ \A i \in 1 .. (Len(c) + Len(d)) : cd[i] = IF i <= Len(c) THEN c[i] ELSE d[i - Len(c)]
  BY <1>5 DEF IsList
<1>. DEFINE h == [i \in DOMAIN ab |-> IF i <= Len(a) THEN f[i] ELSE Len(c) + g[i - Len(a)]]
<1>8. \A i \in DOMAIN ab : /\ i <= Len(a) => i \in DOMAIN a /\ h[i] = f[i] /\ h[i] \in 1 .. Len(c)
                           /\ ~(i <= Len(a)) => /\ i - Len(a) \in DOMAIN b /\ h[i] = Len(c) + g[i - Len(a)]
                                                /\ g[i - Len(a)] \in 1 .. Len(d)
  BY <1>1, <1>2, <1>3, <1>6
<1>9. h \in [DOMAIN ab -> DOMAIN cd]
  <2>1. \A i \in DOMAIN ab : h[i] \in DOMAIN cd
    BY <1>1, <1>7, <1>8
  <2>. QED
    BY <2>1
<1>. HIDE DEF h
<1>10. ASSUME NEW i \in DOMAIN ab, NEW j \in DOMAIN ab, h[i] = h[j] PROVE i = j
  <2>1. CASE i <= Len(a) /\ j <= Len(a)
    BY <1>2, <1>8, <1>10, <2>1
  <2>2. CASE ~(i <= Len(a)) /\ ~(j <= Len(a))
    <3>1. g[i - Len(a)] = g[j - Len(a)]
      BY <1>1, <1>8, <1>10, <2>2
    <3>2. i - Len(a) = j - Len(a)
      BY <1>3, <1>8, <2>2, <3>1
    <3>. QED
      BY <1>1, <1>6, <3>2
  <2>3. CASE (i <= Len(a)) # (j <= Len(a))
    BY <1>1, <1>8, <1>10, <2>3
  <2>. QED
    BY <2>1, <2>2, <2>3
<1>11. ASSUME NEW x \in DOMAIN cd PROVE \E i \in DOMAIN ab : h[i] = x
  <2>1. CASE x <= Len(c)
    <3>1. PICK i \in DOMAIN a : f[i] = x
      BY <1>1, <1>2, <1>7, <2>1
    <3>. QED
      BY <1>1, <1>6, <1>8, <3>1
  <2>2. CASE ~(x <= Len(c))
    <3>0. x - Len(c) \in DOMAIN d
      BY <1>1, <1>7, <2>2
    <3>1. PICK i \in DOMAIN b : g[i] = x - Len(c)
      BY <1>3, <3>0
    <3>2. i + Len(a) \in DOMAIN ab /\ ~(i + Len(a) <= Len(a)) /\ (i + Len(a)) - Len(a) = i
      BY <1>1, <1>6, <3>1
    <3>3. h[i + Len(a)] = Len(c) + g[i]
      BY <1>8, <3>2
    <3>4. Len(c) + g[i] = x
      BY <1>1, <1>7, <3>1
    <3>. QED
      BY <3>2, <3>3, <3>4
  <2>. QED
    BY <2>1, <2>2
<1>12. ASSUME NEW i \in DOMAIN ab PROVE ab[i] = cd[h[i]]
  <2>1. CASE i <= Len(a)
    BY <1>1, <1>2, <1>6, <1>7, <1>8, <2>1
  <2>2. CASE ~(i <= Len(a))
    <3>1. h[i] \in 1 .. (Len(c) + Len(d)) /\ ~(h[i] <= Len(c)) /\ h[i] - Len(c) = g[i - Len(a)]
      BY <1>1, <1>8, <2>2
    <3>2. cd[h[i]] = d[g[i - Len(a)]] /\ ab[i] = b[i - Len(a)]
      BY <1>6, <1>7, <2>2, <3>1
    <3>. QED
      BY <1>3, <1>8, <2>2, <3>2
  <2>. QED
    BY <2>1, <2>2
<1>13. Arranges(ab, cd)
  BY ONLY <1>9, <1>10, <1>11, <1>12, ArrangesBy
<1>. QED
  BY <1>4, <1>5, <1>13
--------------------------------------------------------------------------------
(* Frames. *)

IsRow(row, cols) == row = [c \in cols |-> row[c]]

LEMMA FrameFacts ==
    ASSUME NEW f, IsFrame(f)
    PROVE  /\ IsList(f.cols) /\ IsList(f.rows)
           /\ Len(f.rows) \in Nat /\ DOMAIN f.rows = 1 .. Len(f.rows)
           /\ \A i \in DOMAIN f.rows : IsRow(f.rows[i], Columns(f)) /\ DOMAIN f.rows[i] = Columns(f)
<1>1. IsList(f.cols) /\ IsList(f.rows)
  BY DEF IsFrame, IsList, Columns
<1>2. Len(f.rows) \in Nat /\ DOMAIN f.rows = 1 .. Len(f.rows)
  BY <1>1, ListFacts
<1>3. ASSUME NEW i \in DOMAIN f.rows PROVE IsRow(f.rows[i], Columns(f)) /\ DOMAIN f.rows[i] = Columns(f)
  <2>1. f.rows[i] = [c \in Columns(f) |-> f.rows[i][c]]
    BY DEF IsFrame
  <2>. QED
    BY <2>1 DEF IsRow
<1>. QED
  BY <1>1, <1>2, <1>3

\* A frame of the parts it should have.
LEMMA FrameOfParts ==
    ASSUME NEW f, DOMAIN f = {"cols", "rows", "lazy", "order"}, f.lazy \in BOOLEAN,
           IsList(f.cols), IsList(f.rows), \A i \in DOMAIN f.rows : IsRow(f.rows[i], Range(f.cols)),
           f.order = <<>> \/ f.order[1] \in Columns(f)
    PROVE  IsFrame(f)
BY DEF IsFrame, IsRow, IsList, Columns

LEMMA EagerFrame ==
    ASSUME NEW cols, NEW rows, IsList(cols), IsList(rows), \A i \in DOMAIN rows : IsRow(rows[i], Range(cols))
    PROVE  /\ IsFrame(Eager(cols, rows)) /\ IsFrame(Lazy(cols, rows))
           /\ Eager(cols, rows).rows = rows /\ Lazy(cols, rows).rows = rows
           /\ Eager(cols, rows).cols = cols /\ Lazy(cols, rows).cols = cols
           /\ Eager(cols, rows).order = <<>> /\ Lazy(cols, rows).order = <<>>
<1>1. PICK e : e = Eager(cols, rows)
  OBVIOUS
<1>2. PICK l : l = Lazy(cols, rows)
  OBVIOUS
<1>3. /\ DOMAIN e = {"cols", "rows", "lazy", "order"} /\ e.lazy \in BOOLEAN
      /\ e.cols = cols /\ e.rows = rows /\ e.order = <<>>
  BY <1>1 DEF Eager
<1>4. /\ DOMAIN l = {"cols", "rows", "lazy", "order"} /\ l.lazy \in BOOLEAN
      /\ l.cols = cols /\ l.rows = rows /\ l.order = <<>>
  BY <1>2 DEF Lazy
<1>5. IsFrame(e) /\ IsFrame(l)
  BY <1>3, <1>4, FrameOfParts
<1>. QED
  BY <1>1, <1>2, <1>3, <1>4, <1>5

\* Some of the rows of a frame, in any order, under the same columns.
LEMMA FrameOfRows ==
    ASSUME NEW f, IsFrame(f), NEW g, DOMAIN g = {"cols", "rows", "lazy", "order"}, g.lazy \in BOOLEAN,
           g.cols = f.cols, g.order = f.order, IsList(g.rows),
           \A i \in DOMAIN g.rows : \E j \in DOMAIN f.rows : g.rows[i] = f.rows[j]
    PROVE  IsFrame(g)
<1>1. \A i \in DOMAIN g.rows : IsRow(g.rows[i], Range(g.cols))
  <2>1. \A j \in DOMAIN f.rows : IsRow(f.rows[j], Range(g.cols))
    BY FrameFacts DEF Columns
  <2>. QED
    BY <2>1
<1>2. IsList(g.cols)
  BY FrameFacts
<1>3. g.order = <<>> \/ g.order[1] \in Columns(g)
  BY DEF IsFrame, Columns
<1>. QED
  BY <1>1, <1>2, <1>3, FrameOfParts

LEMMA SomeOf ==
    ASSUME NEW rows, NEW family, Arranges(rows, family)
    PROVE  \A i \in DOMAIN rows : \E x \in DOMAIN family : rows[i] = family[x]
BY ArrangesWhat

LEMMA ShuffledList ==
    ASSUME NEW rows, IsList(rows), NEW r \in Shuffled(rows)
    PROVE  /\ IsList(r) /\ Len(r) = Len(rows) /\ DOMAIN r = DOMAIN rows /\ Arranges(r, rows)
           /\ \A i \in DOMAIN r : \E j \in DOMAIN rows : r[i] = rows[j]
<1>1. Arranges(r, rows) /\ DOMAIN r = DOMAIN rows
  BY ShuffledArranges
<1>2. PICK at \in Bijection(DOMAIN rows, DOMAIN rows) : r = [i \in DOMAIN rows |-> rows[at[i]]]
  BY DEF Shuffled
<1>3. r = [i \in DOMAIN rows |-> r[i]]
  BY <1>2
<1>4. Len(rows) \in Nat /\ DOMAIN rows = 1 .. Len(rows)
  BY ListFacts
<1>5. IsList(r) /\ Len(r) = Len(rows)
  BY <1>1, <1>3, <1>4, ListOf
<1>. QED
  BY <1>1, <1>5, SomeOf

LEMMA WithRowsFacts ==
    ASSUME NEW f, IsFrame(f), NEW rows, NEW g, g = WithRows(f, rows)
    PROVE  /\ DOMAIN g = {"cols", "rows", "lazy", "order"} /\ g.lazy = f.lazy /\ g.lazy \in BOOLEAN
           /\ g.cols = f.cols /\ g.rows = rows /\ g.order = f.order
BY DEF WithRows, IsFrame

LEMMA UnorderedFacts ==
    ASSUME NEW f, IsFrame(f), NEW g \in Unordered(f)
    PROVE  /\ IsFrame(g) /\ g.cols = f.cols /\ g.order = f.order /\ g.lazy = f.lazy
           /\ DOMAIN g.rows = DOMAIN f.rows /\ Arranges(g.rows, f.rows)
<1>1. PICK rows \in Shuffled(f.rows) : g = WithRows(f, rows)
  BY DEF Unordered
<1>2. /\ DOMAIN g = {"cols", "rows", "lazy", "order"} /\ g.lazy = f.lazy /\ g.lazy \in BOOLEAN
      /\ g.cols = f.cols /\ g.rows = rows /\ g.order = f.order
  BY <1>1, WithRowsFacts
<1>3. IsList(f.rows)
  BY FrameFacts
<1>4. /\ IsList(rows) /\ DOMAIN rows = DOMAIN f.rows /\ Arranges(rows, f.rows)
      /\ \A i \in DOMAIN rows : \E j \in DOMAIN f.rows : rows[i] = f.rows[j]
  BY <1>3, ShuffledList
<1>5. IsFrame(g)
  BY <1>2, <1>4, FrameOfRows
<1>. QED
  BY <1>2, <1>4, <1>5

\* The rows of an eager frame with an order are in that order.
KeepsOrder(f) == ~f.lazy /\ f.order # <<>> => RowsSorted(f.rows, f.order[1], f.order[2])

LEMMA ToDfFacts ==
    ASSUME NEW f, IsFrame(f), NEW g \in ToDf(f)
    PROVE  /\ IsFrame(g) /\ g.cols = f.cols /\ g.order = f.order /\ g.lazy = FALSE
           /\ DOMAIN g.rows = DOMAIN f.rows /\ Len(g.rows) = Len(f.rows) /\ Arranges(g.rows, f.rows)
           /\ KeepsOrder(f) => KeepsOrder(g)
<1>1. PICK rows \in Fetched(f) : g = [f EXCEPT !.rows = rows, !.lazy = FALSE]
  BY DEF ToDf
<1>2. /\ DOMAIN g = {"cols", "rows", "lazy", "order"} /\ g.lazy = FALSE
      /\ g.cols = f.cols /\ g.rows = rows /\ g.order = f.order
  BY <1>1 DEF IsFrame
<1>3. IsList(f.rows) /\ f.lazy \in BOOLEAN
  BY FrameFacts DEF IsFrame
<1>4. /\ (rows = f.rows /\ ~f.lazy) \/ rows \in Shuffled(f.rows)
      /\ f.lazy /\ f.order # <<>> => RowsSorted(rows, f.order[1], f.order[2])
  BY <1>1, <1>3 DEF Fetched, Ordered
<1>5. /\ IsList(rows) /\ Len(rows) = Len(f.rows) /\ DOMAIN rows = DOMAIN f.rows /\ Arranges(rows, f.rows)
      /\ \A i \in DOMAIN rows : \E j \in DOMAIN f.rows : rows[i] = f.rows[j]
  <2>1. CASE rows = f.rows
    BY <1>3, <2>1, ArrangesItself
  <2>2. CASE rows \in Shuffled(f.rows)
    BY <1>3, <2>2, ShuffledList
  <2>. QED
    BY <1>4, <2>1, <2>2
<1>6. IsFrame(g)
  BY <1>2, <1>5, FrameOfRows
<1>7. ASSUME KeepsOrder(f) PROVE KeepsOrder(g)
  <2>. SUFFICES ASSUME f.order # <<>> PROVE RowsSorted(rows, f.order[1], f.order[2])
    BY <1>2 DEF KeepsOrder
  <2>1. CASE f.lazy
    BY <1>4, <2>1
  <2>2. CASE ~f.lazy
    <3>1. rows = f.rows
      BY <1>1, <2>2 DEF Fetched
    <3>. QED
      BY <1>7, <2>2, <3>1 DEF KeepsOrder
  <2>. QED
    BY <2>1, <2>2
<1>. QED
  BY <1>2, <1>5, <1>6, <1>7
--------------------------------------------------------------------------------
(* One lemma for each operation: of a good frame, a good frame, with the rows *)
(* that are promised.                                                         *)

Good(f) == IsFrame(f) /\ KeepsOrder(f)

LEMMA GoodUnordered ==
    ASSUME NEW f, IsFrame(f), f.order = <<>>
    PROVE  Good(f)
BY DEF Good, KeepsOrder

\* A list of rows that F makes of the rows of a frame.
LEMMA MadeRows ==
    ASSUME NEW f, IsFrame(f), NEW rows, DOMAIN rows = DOMAIN f.rows, rows = [i \in DOMAIN f.rows |-> rows[i]]
    PROVE  IsList(rows) /\ Len(rows) = Len(f.rows)
<1>1. Len(f.rows) \in Nat /\ DOMAIN f.rows = 1 .. Len(f.rows)
  BY FrameFacts
<1>. QED
  BY <1>1, ListOf

LEMMA ScanStep ==
    ASSUME NEW source, IsFrame(source), IdColumn \in Columns(source), NEW g,
           g = Eager(<<IdColumn>>, [i \in DOMAIN source.rows |-> Restrict(source.rows[i], {IdColumn})])
    PROVE  Good(g) /\ ScanPromise(source, g)
<1>1. PICK rows : rows = [i \in DOMAIN source.rows |-> Restrict(source.rows[i], {IdColumn})]
  OBVIOUS
<1>2. PICK cols : cols = <<IdColumn>>
  OBVIOUS
<1>3. IsList(cols) /\ Range(cols) = {IdColumn}
  <2>1. cols = [i \in 1 .. 1 |-> cols[i]] /\ DOMAIN cols = 1 .. 1 /\ cols[1] = IdColumn
    BY <1>2
  <2>2. 1 \in Nat
    OBVIOUS
  <2>3. IsList(cols)
    BY ONLY <2>1, <2>2, ListOf
  <2>4. \A i \in 1 .. 1 : i = 1
    OBVIOUS
  <2>5. Range(cols) = {IdColumn}
    BY ONLY <2>1, <2>4 DEF Range
  <2>. QED
    BY <2>3, <2>5
<1>4. IsList(rows)
  <2>1. DOMAIN rows = DOMAIN source.rows /\ rows = [i \in DOMAIN source.rows |-> rows[i]]
    BY <1>1
  <2>2. Len(source.rows) \in Nat /\ DOMAIN source.rows = 1 .. Len(source.rows)
    BY FrameFacts
  <2>. QED
    BY ONLY <2>1, <2>2, ListOf
<1>5. \A i \in DOMAIN rows : IsRow(rows[i], Range(cols))
  BY <1>1, <1>3 DEF IsRow, Restrict
<1>6. IsFrame(g) /\ g.rows = rows /\ g.order = <<>>
  <2>1. g = Eager(cols, rows)
    BY <1>1, <1>2
  <2>2. IsList(cols) /\ IsList(rows)
    BY <1>3, <1>4
  <2>3. IsFrame(Eager(cols, rows)) /\ Eager(cols, rows).rows = rows /\ Eager(cols, rows).order = <<>>
    BY ONLY <1>5, <2>2, EagerFrame
  <2>. QED
    BY ONLY <2>1, <2>3
<1>7. Good(g)
  BY <1>6, GoodUnordered
<1>8. Arranges(rows, rows)
  BY ArrangesItself
<1>. QED
  BY <1>1, <1>6, <1>7, <1>8 DEF ScanPromise

\* What is left of ordered rows is ordered.
LEMMA SortedPart ==
    ASSUME NEW rows, IsList(rows), NEW S \in SUBSET DOMAIN rows, NEW by, NEW ascending,
           RowsSorted(rows, by, ascending)
    PROVE  RowsSorted(RowsAt(rows, S), by, ascending)
<1>1. PICK at : LET n == Cardinality(S) IN
              /\ n \in Nat /\ IsList(RowsAt(rows, S)) /\ Len(RowsAt(rows, S)) = n
              /\ DOMAIN RowsAt(rows, S) = 1 .. n
              /\ at \in [1 .. n -> S]
              /\ \A i, j \in 1 .. n : i < j => at[i] < at[j]
              /\ \A x \in S : \E i \in 1 .. n : at[i] = x
              /\ \A i \in 1 .. n : RowsAt(rows, S)[i] = rows[at[i]]
  BY SMTT(30), RowsAtFacts
<1>2. PICK r : r = RowsAt(rows, S)
  OBVIOUS
<1>. QED
  BY <1>1, <1>2 DEF RowsSorted

With(rows, c, v) == {row \in Range(rows) : row[c] = v}
Masked(f, c, v) == WithRows(f, RowsAt(f.rows, {i \in DOMAIN f.rows : f.rows[i][c] = v}))

LEMMA FilterStep ==
    ASSUME NEW before, Good(before), NEW c, NEW v, NEW keep, keep = With(before.rows, c, v),
           NEW f \in ToDf(before), NEW g, g = Masked(f, c, v)
    PROVE  Good(g) /\ FilterPromise(before, keep, g)
<1>. USE DEF With, Masked
<1>1. /\ IsFrame(f) /\ f.order = before.order /\ f.lazy = FALSE
      /\ Arranges(f.rows, before.rows) /\ KeepsOrder(f)
  BY ToDfFacts DEF Good
<1>2. IsList(f.rows)
  BY <1>1, FrameFacts
<1>. DEFINE S == {i \in DOMAIN f.rows : f.rows[i][c] = v}
            T == {i \in DOMAIN before.rows : before.rows[i] \in keep}
<1>3. PICK rows : rows = RowsAt(f.rows, S)
  OBVIOUS
<1>4. S \in SUBSET DOMAIN f.rows /\ T \in SUBSET DOMAIN before.rows
  OBVIOUS
<1>5. Arranges(rows, Restrict(f.rows, S)) /\ IsList(rows)
  BY <1>2, <1>3, <1>4, RowsAtArranges
<1>6. \A i \in DOMAIN f.rows, j \in DOMAIN before.rows : f.rows[i] = before.rows[j] => (i \in S <=> j \in T)
  BY DEF Range
<1>7. Arranges(Restrict(f.rows, S), Restrict(before.rows, T))
  BY ONLY <1>1, <1>4, <1>6, ArrangesSelected
<1>8. Arranges(rows, Restrict(before.rows, T))
  BY <1>5, <1>7, ArrangesTwice
<1>9. g = WithRows(f, rows)
  BY <1>3
<1>10. /\ DOMAIN g = {"cols", "rows", "lazy", "order"} /\ g.lazy = f.lazy /\ g.lazy \in BOOLEAN
       /\ g.cols = f.cols /\ g.rows = rows /\ g.order = f.order
  BY <1>1, <1>9, WithRowsFacts
<1>11. \A i \in DOMAIN rows : \E j \in DOMAIN f.rows : rows[i] = f.rows[j]
  <2>1. PICK q : q = Restrict(f.rows, S)
    OBVIOUS
  <2>2. DOMAIN q = S /\ \A j \in S : q[j] = f.rows[j]
    BY <2>1 DEF Restrict
  <2>3. Arranges(rows, q)
    BY <1>5, <2>1
  <2>4. \A i \in DOMAIN rows : \E j \in DOMAIN q : rows[i] = q[j]
    BY ONLY <2>3, SomeOf
  <2>. QED
    BY <2>2, <2>4
<1>12. IsFrame(g)
  BY <1>1, <1>5, <1>10, <1>11, FrameOfRows
<1>13. KeepsOrder(g)
  <2>. SUFFICES ASSUME f.order # <<>> PROVE RowsSorted(rows, f.order[1], f.order[2])
    BY <1>10 DEF KeepsOrder
  <2>1. RowsSorted(f.rows, f.order[1], f.order[2])
    BY <1>1 DEF KeepsOrder
  <2>. QED
    BY <1>2, <1>3, <1>4, <2>1, SortedPart
<1>. QED
  BY <1>8, <1>10, <1>12, <1>13 DEF Good, FilterPromise

LEMMA RenameStep ==
    ASSUME NEW before, Good(before), NEW old \in Columns(before), NEW new, new \notin Columns(before),
           NEW g, g = Renamed(before, old, new)
    PROVE  Good(g) /\ RenamePromise(before, old, new, g)
<1>0. IsFrame(before) /\ before.lazy \in BOOLEAN
  BY DEF Good, IsFrame
<1>1. PICK rows : rows = [i \in DOMAIN before.rows |-> RenamedRow(before.rows[i], old, new)]
  OBVIOUS
<1>2. PICK cols : cols = RenamedCols(before.cols, old, new)
  OBVIOUS
<1>3. /\ DOMAIN g = {"cols", "rows", "lazy", "order"} /\ g.lazy = before.lazy
      /\ g.cols = cols /\ g.rows = rows
      /\ g.order = IF before.order # <<>> /\ before.order[1] = old THEN <<>> ELSE before.order
  BY <1>1, <1>2 DEF Renamed
<1>4. IsList(cols) /\ Range(cols) = (Columns(before) \ {old}) \union {new}
  <2>1. IsList(before.cols)
    BY <1>0, FrameFacts
  <2>2. Len(before.cols) \in Nat /\ DOMAIN before.cols = 1 .. Len(before.cols)
    BY <2>1, ListFacts
  <2>3. /\ DOMAIN cols = 1 .. Len(before.cols) /\ cols = [i \in 1 .. Len(before.cols) |-> cols[i]]
        /\ \A i \in DOMAIN before.cols : cols[i] = IF before.cols[i] = old THEN new ELSE before.cols[i]
    BY <1>2, <2>2 DEF RenamedCols
  <2>4. Columns(before) = {before.cols[i] : i \in DOMAIN before.cols}
    BY DEF Columns, Range
  <2>5. Range(cols) = {cols[i] : i \in DOMAIN before.cols}
    BY <2>2, <2>3 DEF Range
  <2>6. Range(cols) = (Columns(before) \ {old}) \union {new}
    BY <2>3, <2>4, <2>5
  <2>. QED
    BY <2>2, <2>3, <2>6, ListOf
<1>5. IsList(rows) /\ DOMAIN rows = DOMAIN before.rows
  <2>1. DOMAIN rows = DOMAIN before.rows /\ rows = [i \in DOMAIN before.rows |-> rows[i]]
    BY <1>1
  <2>. QED
    BY <1>0, <2>1, MadeRows
<1>6. ASSUME NEW i \in DOMAIN rows
      PROVE  /\ IsRow(rows[i], Range(cols))
             /\ \A c \in Columns(before) \ {old} : rows[i][c] = before.rows[i][c]
  <2>1. DOMAIN before.rows[i] = Columns(before)
    BY <1>0, <1>5, FrameFacts
  <2>2. rows[i] = [c \in (Columns(before) \ {old}) \union {new} |->
                      IF c = new THEN before.rows[i][old] ELSE before.rows[i][c]]
    BY <1>1, <1>5, <2>1 DEF RenamedRow
  <2>. QED
    BY <1>4, <2>2 DEF IsRow
<1>7. g.order # <<>> => /\ g.order = before.order /\ before.order # <<>>
                        /\ before.order[1] \in Columns(before) \ {old}
  BY <1>0, <1>3 DEF IsFrame
<1>8. IsFrame(g)
  <2>1. g.order = <<>> \/ g.order[1] \in Columns(g)
    BY <1>3, <1>4, <1>7 DEF Columns
  <2>. QED
    BY <1>0, <1>3, <1>4, <1>5, <1>6, <2>1, FrameOfParts
<1>9. KeepsOrder(g)
  <2>. SUFFICES ASSUME ~before.lazy, g.order # <<>> PROVE RowsSorted(rows, g.order[1], g.order[2])
    BY <1>3 DEF KeepsOrder
  <2>. DEFINE by == before.order[1]
              ascending == before.order[2]
  <2>1. RowsSorted(before.rows, by, ascending)
    BY <1>7 DEF Good, KeepsOrder
  <2>2. \A i \in DOMAIN rows : rows[i][by] = before.rows[i][by]
    BY <1>6, <1>7
  <2>3. RowsSorted(rows, by, ascending)
    BY ONLY <1>5, <2>1, <2>2 DEF RowsSorted, Precedes
  <2>. QED
    BY <1>7, <2>3
<1>10. Arranges(rows, rows)
  BY ArrangesItself
<1>. QED
  BY <1>1, <1>3, <1>8, <1>9, <1>10 DEF Good, RenamePromise

LEMMA RangeOfRowsAt ==
    ASSUME NEW rows, IsList(rows), NEW S \in SUBSET DOMAIN rows
    PROVE  IsList(RowsAt(rows, S)) /\ Range(RowsAt(rows, S)) = {rows[i] : i \in S}
<1>1. PICK at : LET n == Cardinality(S) IN
              /\ n \in Nat /\ IsList(RowsAt(rows, S)) /\ Len(RowsAt(rows, S)) = n
              /\ DOMAIN RowsAt(rows, S) = 1 .. n
              /\ at \in [1 .. n -> S]
              /\ \A i, j \in 1 .. n : i < j => at[i] < at[j]
              /\ \A x \in S : \E i \in 1 .. n : at[i] = x
              /\ \A i \in 1 .. n : RowsAt(rows, S)[i] = rows[at[i]]
  BY SMTT(30), RowsAtFacts
<1>2. PICK r : r = RowsAt(rows, S)
  OBVIOUS
<1>3. Range(r) = {r[i] : i \in 1 .. Cardinality(S)}
  BY <1>1, <1>2 DEF Range
<1>4. Range(r) = {rows[i] : i \in S}
  BY ONLY <1>1, <1>2, <1>3
<1>. QED
  BY <1>1, <1>2, <1>4

LEMMA WithoutFacts ==
    ASSUME NEW cols, IsList(cols), NEW dropped
    PROVE  IsList(Without(cols, dropped)) /\ Range(Without(cols, dropped)) = Range(cols) \ dropped
<1>. DEFINE S == {i \in DOMAIN cols : cols[i] \notin dropped}
<1>1. S \in SUBSET DOMAIN cols
  OBVIOUS
<1>2. PICK r : r = RowsAt(cols, S)
  OBVIOUS
<1>3. IsList(r) /\ Range(r) = {cols[i] : i \in S}
  BY <1>1, <1>2, RangeOfRowsAt
<1>4. {cols[i] : i \in S} = Range(cols) \ dropped
  BY DEF Range
<1>. QED
  BY <1>2, <1>3, <1>4 DEF Without

LEMMA JoinedLists ==
    ASSUME NEW s, NEW t, IsList(s), IsList(t)
    PROVE  IsList(s \o t) /\ Range(s \o t) = Range(s) \union Range(t)
<1>1. /\ Len(s) \in Nat /\ DOMAIN s = 1 .. Len(s)
      /\ Len(t) \in Nat /\ DOMAIN t = 1 .. Len(t)
  BY ListFacts
<1>2. PICK r : r = s \o t
  OBVIOUS
<1>3. /\ DOMAIN r = 1 .. (Len(s) + Len(t))
      /\ \A i \in 1 .. (Len(s) + Len(t)) : r[i] = IF i <= Len(s) THEN s[i] ELSE t[i - Len(s)]
      /\ r = [i \in 1 .. (Len(s) + Len(t)) |-> r[i]]
  <2>1. s \in Seq(Range(s) \union Range(t)) /\ t \in Seq(Range(s) \union Range(t))
    BY WiderList DEF IsList
  <2>2. r \in Seq(Range(s) \union Range(t)) /\ Len(r) = Len(s) + Len(t)
    BY <1>2, <2>1
  <2>3. DOMAIN r = 1 .. Len(r) /\ r = [i \in 1 .. Len(r) |-> r[i]]
    BY <2>2, LenProperties
  <2>4. \A i \in 1 .. (Len(s) + Len(t)) : r[i] = IF i <= Len(s) THEN s[i] ELSE t[i - Len(s)]
    BY <1>2, <2>1, ConcatProperties
  <2>. QED
    BY ONLY <2>2, <2>3, <2>4
<1>4. IsList(r)
  <2>1. Len(s) + Len(t) \in Nat
    BY <1>1
  <2>. QED
    BY ONLY <1>3, <2>1, ListOf
<1>5. ASSUME NEW x \in Range(r) PROVE x \in Range(s) \union Range(t)
  <2>1. PICK i \in 1 .. (Len(s) + Len(t)) : x = r[i]
    BY <1>3 DEF Range
  <2>2. CASE i <= Len(s)
    BY <1>1, <1>3, <2>1, <2>2 DEF Range
  <2>3. CASE ~(i <= Len(s))
    <3>1. i - Len(s) \in DOMAIN t /\ x = t[i - Len(s)]
      BY <1>1, <1>3, <2>1, <2>3
    <3>. QED
      BY <3>1 DEF Range
  <2>. QED
    BY <2>2, <2>3
<1>6. ASSUME NEW i \in DOMAIN s PROVE s[i] \in Range(r)
  <2>1. i \in DOMAIN r /\ r[i] = s[i]
    BY <1>1, <1>3
  <2>. QED
    BY <2>1 DEF Range
<1>7. ASSUME NEW i \in DOMAIN t PROVE t[i] \in Range(r)
  <2>1. i + Len(s) \in DOMAIN r /\ ~(i + Len(s) <= Len(s)) /\ (i + Len(s)) - Len(s) = i
    BY <1>1, <1>3
  <2>2. r[i + Len(s)] = t[i]
    BY <1>3, <2>1
  <2>. QED
    BY <2>1, <2>2 DEF Range
<1>8. Range(r) = Range(s) \union Range(t)
  BY <1>5, <1>6, <1>7 DEF Range
<1>. QED
  BY <1>2, <1>4, <1>8

LEMMA AppendedList ==
    ASSUME NEW s, NEW x, IsList(s)
    PROVE  IsList(Append(s, x)) /\ Range(Append(s, x)) = Range(s) \union {x}
<1>1. Len(s) \in Nat /\ DOMAIN s = 1 .. Len(s)
  BY ListFacts
<1>2. PICK r : r = Append(s, x)
  OBVIOUS
<1>3. /\ DOMAIN r = 1 .. (Len(s) + 1) /\ r = [i \in 1 .. (Len(s) + 1) |-> r[i]]
      /\ \A i \in 1 .. Len(s) : r[i] = s[i]
      /\ r[Len(s) + 1] = x
  <2>1. s \in Seq(Range(s) \union {x})
    BY WiderList DEF IsList
  <2>2. r \in Seq(Range(s) \union {x}) /\ Len(r) = Len(s) + 1
    BY <1>2, <2>1
  <2>3. DOMAIN r = 1 .. Len(r) /\ r = [i \in 1 .. Len(r) |-> r[i]]
    BY <2>2, LenProperties
  <2>4. (\A i \in 1 .. Len(s) : r[i] = s[i]) /\ r[Len(s) + 1] = x
    BY <1>2, <2>1, AppendProperties
  <2>. QED
    BY ONLY <2>2, <2>3, <2>4
<1>4. IsList(r)
  <2>1. Len(s) + 1 \in Nat
    BY <1>1
  <2>. QED
    BY ONLY <1>3, <2>1, ListOf
<1>5. 1 .. (Len(s) + 1) = (1 .. Len(s)) \union {Len(s) + 1}
  BY <1>1
<1>6. Range(r) = Range(s) \union {x}
  BY ONLY <1>1, <1>3, <1>5 DEF Range
<1>. QED
  BY <1>2, <1>4, <1>6

\* A function of the positions of a list.
OfPositions(rows, list) == rows = [i \in DOMAIN list |-> rows[i]]

\* The same done to every row of a frame, fetched, under new columns.
LEMMA RowWiseStep ==
    ASSUME NEW before, IsFrame(before), NEW f \in ToDf(before), NEW cols, IsList(cols),
           NEW rows, OfPositions(rows, f.rows),
           NEW promised, OfPositions(promised, before.rows),
           \A i \in DOMAIN rows : IsRow(rows[i], Range(cols)),
           \A i \in DOMAIN f.rows, j \in DOMAIN before.rows : f.rows[i] = before.rows[j] => rows[i] = promised[j],
           NEW g, DOMAIN g = {"cols", "rows", "lazy", "order"}, g.lazy \in BOOLEAN,
           g.cols = cols, g.rows = rows, g.order = <<>>
    PROVE  Good(g) /\ Arranges(g.rows, promised)
<1>1. IsFrame(f) /\ Arranges(f.rows, before.rows)
  BY ToDfFacts
<1>2. DOMAIN rows = DOMAIN f.rows /\ DOMAIN promised = DOMAIN before.rows
  BY DEF OfPositions
<1>3. Arranges(rows, promised)
  <2>1. \A i \in DOMAIN f.rows, j \in DOMAIN before.rows : f.rows[i] = before.rows[j] => rows[i] = promised[j]
    OBVIOUS
  <2>. QED
    BY ONLY <1>1, <1>2, <2>1, ArrangesMapped
<1>4. IsList(rows)
  <2>1. rows = [i \in DOMAIN f.rows |-> rows[i]]
    BY DEF OfPositions
  <2>. QED
    BY <1>1, <1>2, <2>1, MadeRows
<1>5. IsFrame(g)
  BY <1>4, FrameOfParts
<1>. QED
  BY <1>3, <1>5, GoodUnordered

LEMMA AssignStep ==
    ASSUME NEW before, Good(before), NEW name, NEW value, NEW f \in ToDf(before), NEW g,
           g = Eager(IF name \in Columns(f) THEN f.cols ELSE Append(f.cols, name),
                     [i \in DOMAIN f.rows |-> Put(f.rows[i], name, value)])
    PROVE  Good(g) /\ AssignPromise(before, name, value, g)
<1>1. PICK cols : cols = IF name \in Columns(f) THEN f.cols ELSE Append(f.cols, name)
  OBVIOUS
<1>2. PICK rows : rows = [i \in DOMAIN f.rows |-> Put(f.rows[i], name, value)]
  OBVIOUS
<1>3. PICK promised : promised = [i \in DOMAIN before.rows |-> Put(before.rows[i], name, value)]
  OBVIOUS
<1>4. IsFrame(before) /\ IsFrame(f)
  BY ToDfFacts DEF Good
<1>5. IsList(f.cols)
  BY <1>4, FrameFacts
<1>6. IsList(cols) /\ Range(cols) = Columns(f) \union {name}
  BY <1>1, <1>5, AppendedList DEF Columns
<1>7. \A i \in DOMAIN rows : IsRow(rows[i], Range(cols))
  <2>1. \A i \in DOMAIN f.rows : DOMAIN f.rows[i] = Columns(f)
    BY <1>4, FrameFacts
  <2>. QED
    BY <1>2, <1>6, <2>1 DEF IsRow, Put
<1>8. /\ DOMAIN g = {"cols", "rows", "lazy", "order"} /\ g.lazy \in BOOLEAN
      /\ g.cols = cols /\ g.rows = rows /\ g.order = <<>>
  BY <1>1, <1>2 DEF Eager
<1>9. /\ OfPositions(rows, f.rows) /\ OfPositions(promised, before.rows)
      /\ \A i \in DOMAIN f.rows, j \in DOMAIN before.rows : f.rows[i] = before.rows[j] => rows[i] = promised[j]
  BY <1>2, <1>3 DEF OfPositions
<1>10. Good(g) /\ Arranges(g.rows, promised)
  <2>1. f \in ToDf(before)
    OBVIOUS
  <2>. QED
    BY ONLY <1>4, <1>6, <1>7, <1>8, <1>9, <2>1, RowWiseStep
<1>. QED
  BY <1>3, <1>10 DEF AssignPromise

Narrowed(f, dropped) ==
    [f EXCEPT !.cols = Without(f.cols, dropped),
              !.rows = [i \in DOMAIN f.rows |-> Restrict(f.rows[i], Columns(f) \ dropped)],
              !.order = <<>>]

LEMMA DropStep ==
    ASSUME NEW before, Good(before), NEW dropped, NEW f \in ToDf(before), NEW g, g = Narrowed(f, dropped)
    PROVE  Good(g) /\ DropPromise(before, dropped, g)
<1>. USE DEF Narrowed
<1>1. PICK cols : cols = Without(f.cols, dropped)
  OBVIOUS
<1>2. PICK rows : rows = [i \in DOMAIN f.rows |-> Restrict(f.rows[i], Columns(f) \ dropped)]
  OBVIOUS
<1>3. PICK promised : promised = [i \in DOMAIN before.rows |-> Restrict(before.rows[i], Columns(before) \ dropped)]
  OBVIOUS
<1>4. IsFrame(before) /\ IsFrame(f) /\ f.cols = before.cols /\ f.lazy = FALSE
  BY ToDfFacts DEF Good
<1>5. IsList(f.cols) /\ Columns(f) = Columns(before)
  BY <1>4, FrameFacts DEF Columns
<1>6. IsList(cols) /\ Range(cols) = Columns(f) \ dropped
  BY <1>1, <1>5, WithoutFacts DEF Columns
<1>7. \A i \in DOMAIN rows : IsRow(rows[i], Range(cols))
  BY <1>2, <1>6 DEF IsRow, Restrict
<1>8. /\ DOMAIN g = {"cols", "rows", "lazy", "order"} /\ g.lazy \in BOOLEAN
      /\ g.cols = cols /\ g.rows = rows /\ g.order = <<>>
  <2>1. DOMAIN f = {"cols", "rows", "lazy", "order"}
    BY <1>4 DEF IsFrame
  <2>. QED
    BY <1>1, <1>2, <1>4, <2>1
<1>9. /\ OfPositions(rows, f.rows) /\ OfPositions(promised, before.rows)
      /\ \A i \in DOMAIN f.rows, j \in DOMAIN before.rows : f.rows[i] = before.rows[j] => rows[i] = promised[j]
  BY <1>2, <1>3, <1>5 DEF OfPositions
<1>10. Good(g) /\ Arranges(g.rows, promised)
  <2>1. f \in ToDf(before)
    OBVIOUS
  <2>. QED
    BY ONLY <1>4, <1>6, <1>7, <1>8, <1>9, <2>1, RowWiseStep
<1>. QED
  BY <1>3, <1>10 DEF DropPromise

LEMMA SortStep ==
    ASSUME NEW before, Good(before), NEW c \in Columns(before), NEW ascending \in BOOLEAN, NEW lazy \in BOOLEAN,
           NEW rows \in Ordered(before.rows, c, ascending),
           NEW g, g = [before EXCEPT !.rows = rows, !.lazy = lazy, !.order = <<c, ascending>>]
    PROVE  Good(g) /\ SortPromise(before, c, ascending, g)
<1>1. IsFrame(before) /\ DOMAIN before = {"cols", "rows", "lazy", "order"}
  BY DEF Good, IsFrame
<1>2. /\ DOMAIN g = {"cols", "rows", "lazy", "order"} /\ g.lazy \in BOOLEAN
      /\ g.cols = before.cols /\ g.rows = rows /\ g.order = <<c, ascending>>
  BY <1>1
<1>3. rows \in Shuffled(before.rows) /\ RowsSorted(rows, c, ascending)
  BY DEF Ordered
<1>4. IsList(before.rows) /\ IsList(before.cols)
  BY <1>1, FrameFacts
<1>5. /\ IsList(rows) /\ Arranges(rows, before.rows)
      /\ \A i \in DOMAIN rows : \E j \in DOMAIN before.rows : rows[i] = before.rows[j]
  BY <1>3, <1>4, ShuffledList
<1>6. g.order[1] = c /\ g.order[2] = ascending
  BY <1>2
<1>7. IsFrame(g)
  <2>1. \A i \in DOMAIN rows : IsRow(rows[i], Range(g.cols))
    <3>1. \A j \in DOMAIN before.rows : IsRow(before.rows[j], Range(g.cols))
      BY <1>1, <1>2, FrameFacts DEF Columns
    <3>. QED
      BY <1>5, <3>1
  <2>2. g.order[1] \in Columns(g)
    BY <1>2, <1>6 DEF Columns
  <2>. QED
    BY <1>2, <1>4, <1>5, <2>1, <2>2, FrameOfParts
<1>. QED
  BY <1>2, <1>3, <1>5, <1>6, <1>7 DEF Good, KeepsOrder, SortPromise

\* Part of a list, by position, and the same part of another arrangement of it.
LEMMA ArrangesPart ==
    ASSUME NEW a, NEW b, Arranges(a, b), NEW S \in SUBSET DOMAIN a
    PROVE  \E T \in SUBSET DOMAIN b :
              /\ Arranges(Restrict(a, S), Restrict(b, T))
              /\ \A x \in T : \E i \in S : b[x] = a[i]
              /\ \A x \in DOMAIN b \ T : \E i \in DOMAIN a \ S : b[x] = a[i]
<1>1. PICK f : /\ f \in [DOMAIN a -> DOMAIN b]
               /\ \A i, j \in DOMAIN a : f[i] = f[j] => i = j
               /\ \A x \in DOMAIN b : \E i \in DOMAIN a : f[i] = x
               /\ \A i \in DOMAIN a : a[i] = b[f[i]]
  BY ArrangesWhat
<1>. DEFINE T == {f[i] : i \in S}
            g == [i \in S |-> f[i]]
<1>2. T \in SUBSET DOMAIN b
  BY <1>1
<1>3. PICK a2 : a2 = Restrict(a, S)
  OBVIOUS
<1>4. PICK b2 : b2 = Restrict(b, T)
  OBVIOUS
<1>5. DOMAIN a2 = S /\ DOMAIN b2 = T /\ (\A i \in S : a2[i] = a[i]) /\ (\A x \in T : b2[x] = b[x])
  BY <1>3, <1>4 DEF Restrict
<1>6. g \in [S -> T] /\ \A i \in S : g[i] = f[i]
  OBVIOUS
<1>7. \A x \in T : \E i \in S : g[i] = x
  BY <1>6
<1>10. \A x \in T : \E i \in S : b[x] = a[i]
  BY <1>1
<1>11. \A x \in DOMAIN b \ T : \E i \in DOMAIN a \ S : b[x] = a[i]
  BY <1>1
<1>. HIDE DEF g, T
<1>8. /\ g \in [DOMAIN a2 -> DOMAIN b2]
      /\ \A i, j \in DOMAIN a2 : g[i] = g[j] => i = j
      /\ \A i \in DOMAIN a2 : a2[i] = b2[g[i]]
  BY <1>1, <1>5, <1>6
<1>9. Arranges(a2, b2)
  <2>1. \A x \in DOMAIN b2 : \E i \in DOMAIN a2 : g[i] = x
    BY <1>5, <1>7
  <2>. QED
    BY ONLY <1>8, <2>1, ArrangesBy
<1>. QED
  BY <1>2, <1>3, <1>4, <1>9, <1>10, <1>11

IsSubList(r, s, first, last) ==
    /\ IsList(r) /\ Len(r) = IF first <= last THEN last - first + 1 ELSE 0
    /\ \A i \in DOMAIN r : i \in Nat /\ i + first - 1 \in first .. last /\ r[i] = s[i + first - 1]
    /\ Arranges(r, Restrict(s, first .. last))
PartOf(s, first, last) == SubSeq(s, first, last)

LEMMA SubSeqFacts ==
    ASSUME NEW s, IsList(s), NEW first \in Nat, first >= 1, NEW last \in Nat, last <= Len(s), NEW r, r = PartOf(s, first, last)
    PROVE  IsSubList(r, s, first, last)
<1>. DEFINE n == IF first <= last THEN last - first + 1 ELSE 0
<1>1. Len(s) \in Nat /\ DOMAIN s = 1 .. Len(s) /\ n \in Nat
  BY ListFacts
<1>2. DOMAIN r = 1 .. n /\ r = [i \in 1 .. n |-> r[i]] /\ \A i \in 1 .. n : r[i] = s[i + first - 1]
  <2>1. \A i \in first .. last : s[i] \in Range(s)
    BY <1>1 DEF Range
  <2>2. /\ r \in Seq(Range(s)) /\ Len(r) = n
        /\ \A i \in 1 .. last - first + 1 : r[i] = s[first + i - 1]
    BY <2>1, SubSeqProperties DEF PartOf
  <2>3. DOMAIN r = 1 .. Len(r) /\ r = [i \in 1 .. Len(r) |-> r[i]]
    BY <2>2, LenProperties
  <2>4. ASSUME NEW i \in 1 .. n PROVE r[i] = s[i + first - 1]
    <3>1. i \in 1 .. last - first + 1 /\ first + i - 1 = i + first - 1
      OBVIOUS
    <3>. QED
      BY <2>2, <3>1
  <2>. HIDE DEF n
  <2>. QED
    BY <2>2, <2>3, <2>4
<1>3. IsList(r) /\ Len(r) = n
  BY ONLY <1>1, <1>2, ListOf
<1>4. \A i \in DOMAIN r : i \in Nat /\ i + first - 1 \in first .. last
  BY <1>2
<1>5. PICK q : q = Restrict(s, first .. last)
  OBVIOUS
<1>6. DOMAIN q = first .. last /\ \A x \in first .. last : q[x] = s[x]
  BY <1>5 DEF Restrict
<1>. DEFINE at == [i \in DOMAIN r |-> i + first - 1]
<1>7. at \in [DOMAIN r -> DOMAIN q] /\ \A i \in DOMAIN r : at[i] = i + first - 1
  BY <1>4, <1>6
<1>. HIDE DEF at
<1>8. \A i, j \in DOMAIN r : at[i] = at[j] => i = j
  BY <1>4, <1>7
<1>9. ASSUME NEW x \in DOMAIN q PROVE \E i \in DOMAIN r : at[i] = x
  <2>1. x - first + 1 \in 1 .. n /\ (x - first + 1) + first - 1 = x
    BY <1>6
  <2>. QED
    BY <1>2, <1>7, <2>1
<1>10. ASSUME NEW i \in DOMAIN r PROVE r[i] = q[at[i]]
  <2>1. r[i] = s[i + first - 1] /\ i + first - 1 \in first .. last
    BY <1>2, <1>4
  <2>2. q[i + first - 1] = s[i + first - 1]
    BY <1>6, <2>1
  <2>. QED
    BY <1>7, <2>1, <2>2
<1>11. Arranges(r, q)
  BY ONLY <1>7, <1>8, <1>9, <1>10, ArrangesBy
<1>. QED
  <2>1. Len(r) = IF first <= last THEN last - first + 1 ELSE 0
    BY <1>3
  <2>2. \A i \in DOMAIN r : i \in Nat /\ i + first - 1 \in first .. last /\ r[i] = s[i + first - 1]
    BY <1>2, <1>4
  <2>3. Arranges(r, Restrict(s, first .. last))
    BY <1>5, <1>11
  <2>. QED
    BY ONLY <1>3, <2>1, <2>2, <2>3 DEF IsSubList

IsPart(rows, f, before, first, last) ==
    /\ Len(rows) = IF first <= last THEN last - first + 1 ELSE 0
    /\ Len(f.rows) = Len(before.rows) /\ DOMAIN f.rows = 1 .. Len(f.rows) /\ Len(f.rows) \in Nat
    /\ before.order # <<>> => RowsSorted(f.rows, before.order[1], before.order[2])
    /\ \E kept \in SUBSET DOMAIN before.rows :
         /\ Arranges(rows, Restrict(before.rows, kept))
         /\ \A x \in kept : \E i \in first .. last : before.rows[x] = f.rows[i]
         /\ \A x \in DOMAIN before.rows \ kept :
              \E i \in DOMAIN f.rows \ (first .. last) : before.rows[x] = f.rows[i]

\* Consecutive rows of a frame that has been fetched.
LEMMA PartOfFrame ==
    ASSUME NEW before, Good(before), NEW f \in ToDf(before), NEW first \in Nat, first >= 1,
           NEW last \in Nat, last <= Len(f.rows), NEW rows, rows = PartOf(f.rows, first, last),
           NEW g, g = WithRows(f, rows)
    PROVE  Good(g) /\ g.rows = rows /\ IsPart(rows, f, before, first, last)
<1>1. /\ IsFrame(f) /\ f.order = before.order /\ f.lazy = FALSE /\ Len(f.rows) = Len(before.rows)
      /\ Arranges(f.rows, before.rows) /\ KeepsOrder(f)
  BY ToDfFacts DEF Good
<1>2. IsList(f.rows) /\ DOMAIN f.rows = 1 .. Len(f.rows) /\ Len(f.rows) \in Nat
  BY <1>1, FrameFacts
<1>0. IsSubList(rows, f.rows, first, last)
  <2>1. /\ first \in Nat /\ first >= 1 /\ last \in Nat /\ last <= Len(f.rows)
        /\ rows = PartOf(f.rows, first, last)
    OBVIOUS
  <2>. QED
    BY ONLY <1>2, <2>1, SubSeqFacts
<1>3. /\ IsList(rows) /\ Len(rows) = IF first <= last THEN last - first + 1 ELSE 0
      /\ \A i \in DOMAIN rows : i \in Nat /\ i + first - 1 \in first .. last /\ rows[i] = f.rows[i + first - 1]
      /\ Arranges(rows, Restrict(f.rows, first .. last))
  BY <1>0 DEF IsSubList
<1>4. /\ DOMAIN g = {"cols", "rows", "lazy", "order"} /\ g.lazy = f.lazy /\ g.lazy \in BOOLEAN
      /\ g.cols = f.cols /\ g.rows = rows /\ g.order = f.order
  <2>1. g = WithRows(f, rows)
    OBVIOUS
  <2>. QED
    BY ONLY <1>1, <2>1, WithRowsFacts
<1>5. (first .. last) \subseteq DOMAIN f.rows
  BY <1>2
<1>6. IsFrame(g)
  <2>1. \A i \in DOMAIN rows : \E j \in DOMAIN f.rows : rows[i] = f.rows[j]
    BY <1>3, <1>5
  <2>2. IsList(rows)
    BY <1>3
  <2>. QED
    BY ONLY <1>1, <1>4, <2>1, <2>2, FrameOfRows
<1>7. before.order # <<>> => RowsSorted(f.rows, before.order[1], before.order[2])
  BY <1>1 DEF KeepsOrder
<1>8. KeepsOrder(g)
  <2>. SUFFICES ASSUME before.order # <<>> PROVE RowsSorted(rows, before.order[1], before.order[2])
    BY <1>1, <1>4 DEF KeepsOrder
  <2>1. ASSUME NEW i \in DOMAIN rows, NEW j \in DOMAIN rows, i < j
        PROVE  ~Precedes(rows[j], rows[i], before.order[1], before.order[2])
    <3>1. /\ i + first - 1 \in DOMAIN f.rows /\ j + first - 1 \in DOMAIN f.rows
          /\ i + first - 1 < j + first - 1
      BY <1>3, <1>5, <2>1
    <3>. QED
      BY <1>3, <1>7, <3>1 DEF RowsSorted
  <2>. QED
    BY <2>1 DEF RowsSorted
<1>9. PICK kept \in SUBSET DOMAIN before.rows :
                /\ Arranges(Restrict(f.rows, first .. last), Restrict(before.rows, kept))
                /\ \A x \in kept : \E i \in first .. last : before.rows[x] = f.rows[i]
                /\ \A x \in DOMAIN before.rows \ kept :
                     \E i \in DOMAIN f.rows \ (first .. last) : before.rows[x] = f.rows[i]
  <2>. DEFINE S == first .. last
  <2>1. S \in SUBSET DOMAIN f.rows
    BY <1>5
  <2>. HIDE DEF S
  <2>2. \E T \in SUBSET DOMAIN before.rows :
              /\ Arranges(Restrict(f.rows, S), Restrict(before.rows, T))
              /\ \A x \in T : \E i \in S : before.rows[x] = f.rows[i]
              /\ \A x \in DOMAIN before.rows \ T : \E i \in DOMAIN f.rows \ S : before.rows[x] = f.rows[i]
    BY ONLY <1>1, <2>1, ArrangesPart
  <2>. QED
    BY <2>2 DEF S
<1>10. Arranges(rows, Restrict(before.rows, kept))
  BY <1>3, <1>9, ArrangesTwice
<1>. QED
  BY <1>1, <1>2, <1>3, <1>4, <1>6, <1>7, <1>8, <1>9, <1>10 DEF Good, IsPart

LEMMA LimitStep ==
    ASSUME NEW before, Good(before), NEW n \in Nat, NEW f \in ToDf(before), NEW g,
           g = WithRows(f, SubSeq(f.rows, 1, FirstRows(n, f.rows)))
    PROVE  Good(g) /\ LimitPromise(before, n, before.order, g)
<1>0. Len(f.rows) \in Nat
  BY ToDfFacts, FrameFacts DEF Good
<1>. DEFINE m == FirstRows(n, f.rows)
<1>1. m \in Nat /\ m <= Len(f.rows) /\ 1 \in Nat /\ 1 >= 1
  BY <1>0 DEF FirstRows
<1>2. PICK rows : rows = PartOf(f.rows, 1, m)
  OBVIOUS
<1>3. g = WithRows(f, rows)
  BY <1>2 DEF PartOf
<1>. HIDE DEF m
<1>4. Good(g) /\ g.rows = rows /\ IsPart(rows, f, before, 1, m)
  <2>1. Good(before) /\ f \in ToDf(before)
    OBVIOUS
  <2>. QED
    BY ONLY <1>1, <1>2, <1>3, <2>1, PartOfFrame
<1>5. PICK kept \in SUBSET DOMAIN before.rows :
           /\ Arranges(rows, Restrict(before.rows, kept))
           /\ \A x \in kept : \E i \in 1 .. m : before.rows[x] = f.rows[i]
           /\ \A x \in DOMAIN before.rows \ kept :
                \E i \in DOMAIN f.rows \ (1 .. m) : before.rows[x] = f.rows[i]
  BY <1>4 DEF IsPart
<1>6. ASSUME before.order # <<>>, NEW k \in kept, NEW d \in DOMAIN before.rows \ kept
      PROVE  ~Precedes(before.rows[d], before.rows[k], before.order[1], before.order[2])
  <2>1. PICK i \in 1 .. m : before.rows[k] = f.rows[i]
    BY <1>5
  <2>2. PICK j \in DOMAIN f.rows \ (1 .. m) : before.rows[d] = f.rows[j]
    BY <1>5
  <2>3. i \in DOMAIN f.rows /\ i < j
    BY <1>1, <1>4 DEF IsPart
  <2>. QED
    BY <1>4, <1>6, <2>1, <2>2, <2>3 DEF RowsSorted, IsPart
<1>7. Len(g.rows) = FirstRows(n, before.rows)
  BY <1>1, <1>4 DEF m, FirstRows, IsPart
<1>. QED
  BY <1>4, <1>5, <1>6, <1>7 DEF LimitPromise

LEMMA SkipStep ==
    ASSUME NEW before, Good(before), NEW n \in Nat, NEW f \in ToDf(before), NEW g,
           g = WithRows(f, SubSeq(f.rows, n + 1, Len(f.rows)))
    PROVE  Good(g) /\ SkipPromise(before, n, before.order, g)
<1>0. Len(f.rows) \in Nat
  BY ToDfFacts, FrameFacts DEF Good
<1>. DEFINE first == n + 1
            last == Len(f.rows)
<1>1. first \in Nat /\ first >= 1 /\ last \in Nat /\ last <= Len(f.rows)
  BY <1>0
<1>2. PICK rows : rows = PartOf(f.rows, first, last)
  OBVIOUS
<1>3. g = WithRows(f, rows)
  BY <1>2 DEF PartOf
<1>. HIDE DEF first, last
<1>4. Good(g) /\ g.rows = rows /\ IsPart(rows, f, before, first, last)
  <2>1. Good(before) /\ f \in ToDf(before)
    OBVIOUS
  <2>. QED
    BY ONLY <1>1, <1>2, <1>3, <2>1, PartOfFrame
<1>5. PICK kept \in SUBSET DOMAIN before.rows :
           /\ Arranges(rows, Restrict(before.rows, kept))
           /\ \A x \in kept : \E i \in first .. last : before.rows[x] = f.rows[i]
           /\ \A x \in DOMAIN before.rows \ kept :
                \E i \in DOMAIN f.rows \ (first .. last) : before.rows[x] = f.rows[i]
  BY <1>4 DEF IsPart
<1>6. ASSUME before.order # <<>>, NEW k \in kept, NEW d \in DOMAIN before.rows \ kept
      PROVE  ~Precedes(before.rows[k], before.rows[d], before.order[1], before.order[2])
  <2>1. PICK i \in first .. last : before.rows[k] = f.rows[i]
    BY <1>5
  <2>2. PICK j \in DOMAIN f.rows \ (first .. last) : before.rows[d] = f.rows[j]
    BY <1>5
  <2>3. i \in DOMAIN f.rows /\ j < i
    BY <1>1, <1>4 DEF last, IsPart
  <2>. QED
    BY <1>4, <1>6, <2>1, <2>2, <2>3 DEF RowsSorted, IsPart
<1>7. Len(g.rows) = Len(before.rows) - FirstRows(n, before.rows)
  <2>1. /\ Len(rows) = IF n + 1 <= Len(f.rows) THEN Len(f.rows) - (n + 1) + 1 ELSE 0
        /\ Len(f.rows) = Len(before.rows) /\ Len(f.rows) \in Nat
    BY <1>4 DEF first, last, IsPart
  <2>2. Len(rows) = Len(before.rows) - (IF n < Len(before.rows) THEN n ELSE Len(before.rows))
    <3>1. PICK a : a = Len(f.rows)
      OBVIOUS
    <3>2. PICK b : b = Len(rows)
      OBVIOUS
    <3>3. a \in Nat /\ n \in Nat /\ b = IF n + 1 <= a THEN a - (n + 1) + 1 ELSE 0
      BY <2>1, <3>1, <3>2
    <3>4. b = a - (IF n < a THEN n ELSE a)
      BY ONLY <3>3
    <3>. QED
      BY <2>1, <3>1, <3>2, <3>4
  <2>. QED
    BY <1>4, <2>2 DEF FirstRows
<1>. QED
  BY <1>4, <1>5, <1>6, <1>7 DEF SkipPromise

LEMMA DistinctArranges ==
    ASSUME NEW rows, IsList(rows)
    PROVE  /\ IsList(DistinctRows(rows)) /\ Range(DistinctRows(rows)) = Range(rows)
           /\ Arranges(DistinctRows(rows), [row \in Range(rows) |-> row])
<1>. DEFINE S == {i \in DOMAIN rows : \A j \in DOMAIN rows : j < i => rows[j] # rows[i]}
<1>1. S \in SUBSET DOMAIN rows
  OBVIOUS
<1>2. PICK r : r = RowsAt(rows, S)
  OBVIOUS
<1>3. IsList(r) /\ Arranges(r, Restrict(rows, S)) /\ Range(r) = {rows[i] : i \in S}
  BY <1>1, <1>2, RowsAtArranges, RangeOfRowsAt
<1>4. Len(rows) \in Nat /\ DOMAIN rows = 1 .. Len(rows)
  BY ListFacts
<1>5. ASSUME NEW row \in Range(rows) PROVE \E i \in S : rows[i] = row
  <2>. DEFINE Its == {i \in DOMAIN rows : rows[i] = row}
  <2>1. Its \in SUBSET Nat /\ Its # {}
    BY <1>4 DEF Range
  <2>2. PICK i \in Its : \A j \in Its : i <= j
    BY <2>1, Least
  <2>. QED
    BY <1>4, <2>2
<1>6. PICK q : q = Restrict(rows, S)
  OBVIOUS
<1>7. DOMAIN q = S /\ \A i \in S : q[i] = rows[i]
  BY <1>6 DEF Restrict
<1>8. PICK family : family = [row \in Range(rows) |-> row]
  OBVIOUS
<1>9. DOMAIN family = Range(rows) /\ \A row \in Range(rows) : family[row] = row
  BY <1>8
<1>10. /\ \A i \in S : rows[i] \in Range(rows)
       /\ \A i, j \in S : rows[i] = rows[j] => i = j
  BY <1>4 DEF Range
<1>. DEFINE at == [i \in S |-> rows[i]]
<1>11. at \in [S -> Range(rows)] /\ \A i \in S : at[i] = rows[i]
  BY <1>10
<1>. HIDE DEF at, S
<1>12. Arranges(q, family)
  <2>1. at \in [DOMAIN q -> DOMAIN family]
    BY <1>7, <1>9, <1>11
  <2>2. \A i, j \in DOMAIN q : at[i] = at[j] => i = j
    BY <1>7, <1>10, <1>11
  <2>3. \A x \in DOMAIN family : \E i \in DOMAIN q : at[i] = x
    BY <1>5, <1>7, <1>9, <1>11
  <2>4. \A i \in DOMAIN q : q[i] = family[at[i]]
    BY <1>7, <1>9, <1>10, <1>11
  <2>. QED
    BY ONLY <2>1, <2>2, <2>3, <2>4, ArrangesBy
<1>13. Arranges(r, family)
  BY <1>3, <1>6, <1>12, ArrangesTwice
<1>14. Range(r) = Range(rows)
  BY <1>3, <1>5, <1>10
<1>15. r = DistinctRows(rows)
  BY <1>2 DEF S, DistinctRows
<1>. QED
  BY <1>3, <1>8, <1>13, <1>14, <1>15

LEMMA DistinctStep ==
    ASSUME NEW before, Good(before), NEW g,
           \/ g \in Unordered(Eager(before.cols, DistinctRows(before.rows)))
           \/ g = Eager(before.cols, DistinctRows(before.rows))
           \/ g = Lazy(before.cols, DistinctRows(before.rows))
    PROVE  Good(g) /\ DistinctPromise(before, g)
<1>0. IsFrame(before)
  BY DEF Good
<1>1. PICK rows : rows = DistinctRows(before.rows)
  OBVIOUS
<1>2. IsList(before.rows) /\ IsList(before.cols) /\ \A i \in DOMAIN before.rows : IsRow(before.rows[i], Range(before.cols))
  BY <1>0, FrameFacts DEF Columns
<1>3. IsList(rows) /\ Range(rows) = Range(before.rows) /\ Arranges(rows, [row \in Range(before.rows) |-> row])
  BY <1>1, <1>2, DistinctArranges
<1>4. \A i \in DOMAIN rows : IsRow(rows[i], Range(before.cols))
  BY <1>2, <1>3 DEF Range
<1>5. PICK e : e = Eager(before.cols, rows)
  OBVIOUS
<1>6. PICK l : l = Lazy(before.cols, rows)
  OBVIOUS
<1>7. IsFrame(e) /\ IsFrame(l) /\ e.rows = rows /\ l.rows = rows /\ e.order = <<>> /\ l.order = <<>>
  BY <1>2, <1>3, <1>4, <1>5, <1>6, EagerFrame
<1>8. IsFrame(g) /\ g.order = <<>> /\ Arranges(g.rows, rows)
  <2>1. CASE g = e \/ g = l
    BY <1>7, <2>1, ArrangesItself
  <2>2. CASE g \in Unordered(e)
    BY <1>7, <2>2, UnorderedFacts
  <2>. QED
    BY <1>1, <1>5, <1>6, <2>1, <2>2
<1>9. Arranges(g.rows, [row \in Range(before.rows) |-> row])
  BY <1>3, <1>8, ArrangesTwice
<1>. QED
  BY <1>8, <1>9, GoodUnordered DEF DistinctPromise

LEMMA WidenedFacts ==
    ASSUME NEW rows, IsList(rows), NEW cols
    PROVE  /\ IsList(Widened(rows, cols)) /\ Len(Widened(rows, cols)) = Len(rows)
           /\ DOMAIN Widened(rows, cols) = DOMAIN rows
           /\ \A i \in DOMAIN rows : Widened(rows, cols)[i] = Padded(rows[i], cols)
<1>1. PICK r : r = Widened(rows, cols)
  OBVIOUS
<1>2. r = [i \in DOMAIN rows |-> Padded(rows[i], cols)]
  BY <1>1 DEF Widened
<1>3. Len(rows) \in Nat /\ DOMAIN rows = 1 .. Len(rows)
  BY ListFacts
<1>4. DOMAIN r = 1 .. Len(rows) /\ r = [i \in 1 .. Len(rows) |-> r[i]]
  BY <1>2, <1>3
<1>5. IsList(r) /\ Len(r) = Len(rows)
  BY ONLY <1>3, <1>4, ListOf
<1>. QED
  BY <1>1, <1>2, <1>5

LEMMA WidenedArranges ==
    ASSUME NEW a, NEW b, IsList(a), IsList(b), Arranges(a, b), NEW cols
    PROVE  Arranges(Widened(a, cols), Widened(b, cols))
<1>1. PICK a2 : a2 = Widened(a, cols)
  OBVIOUS
<1>2. PICK b2 : b2 = Widened(b, cols)
  OBVIOUS
<1>3. DOMAIN a2 = DOMAIN a /\ \A i \in DOMAIN a : a2[i] = Padded(a[i], cols)
  BY <1>1, WidenedFacts
<1>4. DOMAIN b2 = DOMAIN b /\ \A i \in DOMAIN b : b2[i] = Padded(b[i], cols)
  BY <1>2, WidenedFacts
<1>5. \A i \in DOMAIN a, j \in DOMAIN b : a[i] = b[j] => a2[i] = b2[j]
  BY <1>3, <1>4
<1>6. Arranges(a2, b2)
  BY <1>3, <1>4, <1>5, ArrangesMapped
<1>. QED
  BY <1>1, <1>2, <1>6

PaddedInTurn(p, q, cols) ==
    [i \in 1..Len(p) + Len(q) |-> Padded(IF i <= Len(p) THEN p[i] ELSE q[i - Len(p)], cols)]
LEMMA WidenedInTurn ==
    ASSUME NEW p, NEW q, IsList(p), IsList(q), NEW cols
    PROVE  Widened(p, cols) \o Widened(q, cols) = PaddedInTurn(p, q, cols)
<1>1. /\ Len(p) \in Nat /\ DOMAIN p = 1 .. Len(p)
      /\ Len(q) \in Nat /\ DOMAIN q = 1 .. Len(q)
  BY ListFacts
<1>2. PICK a : a = Widened(p, cols)
  OBVIOUS
<1>3. PICK b : b = Widened(q, cols)
  OBVIOUS
<1>4. /\ IsList(a) /\ Len(a) = Len(p) /\ \A i \in DOMAIN p : a[i] = Padded(p[i], cols)
      /\ IsList(b) /\ Len(b) = Len(q) /\ \A i \in DOMAIN q : b[i] = Padded(q[i], cols)
  BY <1>1, <1>2, <1>3, WidenedFacts
<1>5. PICK ab : ab = a \o b
  OBVIOUS
<1>6. /\ ab = [i \in 1 .. (Len(p) + Len(q)) |-> ab[i]]
      /\ \A i \in 1 .. (Len(p) + Len(q)) : ab[i] = IF i <= Len(p) THEN a[i] ELSE b[i - Len(p)]
  <2>1. a \in Seq(Range(a) \union Range(b)) /\ b \in Seq(Range(a) \union Range(b))
    BY <1>4, WiderList DEF IsList
  <2>2. ab \in Seq(Range(a) \union Range(b)) /\ Len(ab) = Len(a) + Len(b)
    BY <1>5, <2>1
  <2>3. DOMAIN ab = 1 .. Len(ab) /\ ab = [i \in 1 .. Len(ab) |-> ab[i]]
    BY <2>2, LenProperties
  <2>4. \A i \in 1 .. (Len(a) + Len(b)) : ab[i] = IF i <= Len(a) THEN a[i] ELSE b[i - Len(a)]
    BY <1>5, <2>1, ConcatProperties
  <2>5. Len(a) = Len(p) /\ Len(b) = Len(q)
    BY <1>4
  <2>. QED
    BY ONLY <2>2, <2>3, <2>4, <2>5
<1>. DEFINE row(i) == Padded(IF i <= Len(p) THEN p[i] ELSE q[i - Len(p)], cols)
<1>7. ASSUME NEW i \in 1 .. (Len(p) + Len(q)) PROVE ab[i] = row(i)
  <2>1. CASE i <= Len(p)
    <3>1. i \in DOMAIN p /\ ab[i] = a[i]
      BY <1>1, <1>6, <2>1
    <3>2. ab[i] = Padded(p[i], cols)
      BY <1>4, <3>1
    <3>. QED
      BY <2>1, <3>2
  <2>2. CASE ~(i <= Len(p))
    <3>1. i - Len(p) \in DOMAIN q /\ ab[i] = b[i - Len(p)]
      BY <1>1, <1>6, <2>2
    <3>2. ab[i] = Padded(q[i - Len(p)], cols)
      BY <1>4, <3>1
    <3>. QED
      BY <2>2, <3>2
  <2>. QED
    BY <2>1, <2>2
<1>8. ab = [i \in 1 .. (Len(p) + Len(q)) |-> row(i)]
  <2>1. ab = [i \in 1 .. (Len(p) + Len(q)) |-> ab[i]]
    BY <1>6
  <2>. HIDE DEF row
  <2>. QED
    BY ONLY <1>7, <2>1
<1>. QED
  BY <1>2, <1>3, <1>5, <1>8 DEF PaddedInTurn

LEMMA ConcatRows ==
    ASSUME NEW x, IsFrame(x), NEW y, IsFrame(y)
    PROVE  LET cols == x.cols \o Without(y.cols, Columns(x))
           IN  /\ IsList(cols) /\ Range(cols) = Columns(x) \union Columns(y)
               /\ ConcatByName(x, y) = Eager(cols, Widened(x.rows, Range(cols)) \o Widened(y.rows, Range(cols)))
<1>1. /\ IsList(x.cols) /\ IsList(y.cols) /\ IsList(x.rows) /\ IsList(y.rows)
      /\ Len(x.rows) \in Nat /\ DOMAIN x.rows = 1 .. Len(x.rows)
      /\ Len(y.rows) \in Nat /\ DOMAIN y.rows = 1 .. Len(y.rows)
  BY FrameFacts
<1>2. PICK cols : cols = x.cols \o Without(y.cols, Columns(x))
  OBVIOUS
<1>3. IsList(cols) /\ Range(cols) = Columns(x) \union Columns(y)
  <2>1. /\ IsList(Without(y.cols, Columns(x)))
        /\ Range(Without(y.cols, Columns(x))) = Columns(y) \ Columns(x)
    BY <1>1, WithoutFacts DEF Columns
  <2>2. IsList(cols) /\ Range(cols) = Range(x.cols) \union Range(Without(y.cols, Columns(x)))
    BY ONLY <1>1, <1>2, <2>1, JoinedLists
  <2>. QED
    BY <2>1, <2>2 DEF Columns
<1>4. ConcatByName(x, y) = Eager(cols, Widened(x.rows, Range(cols)) \o Widened(y.rows, Range(cols)))
  <2>1. Widened(x.rows, Range(cols)) \o Widened(y.rows, Range(cols)) =
           PaddedInTurn(x.rows, y.rows, Range(cols))
    BY ONLY <1>1, WidenedInTurn
  <2>. QED
    BY <1>2, <2>1 DEF ConcatByName, PaddedInTurn
<1>. QED
  BY <1>2, <1>3, <1>4

\* By name: of frames with the rows, in some order, of those to be concatenated.
LEMMA ConcatStep ==
    ASSUME NEW before, IsFrame(before), NEW other, IsFrame(other),
           NEW x, IsFrame(x), x.cols = before.cols, Arranges(x.rows, before.rows),
           NEW y, IsFrame(y), y.cols = other.cols, Arranges(y.rows, other.rows),
           NEW g, g = ConcatByName(x, y)
    PROVE  Good(g) /\ ConcatPromise(before, other, g)
<1>1. PICK cols : cols = x.cols \o Without(y.cols, Columns(x))
  OBVIOUS
<1>2. PICK a : a = Widened(x.rows, Range(cols))
  OBVIOUS
<1>3. PICK b : b = Widened(y.rows, Range(cols))
  OBVIOUS
<1>4. PICK rows : rows = a \o b
  OBVIOUS
<1>5. IsList(cols) /\ Range(cols) = Columns(x) \union Columns(y) /\ g = Eager(cols, rows)
  BY <1>1, <1>2, <1>3, <1>4, ConcatRows
<1>6. IsList(x.rows) /\ IsList(y.rows) /\ IsList(before.rows) /\ IsList(other.rows)
  BY FrameFacts
<1>7. /\ IsList(a) /\ DOMAIN a = DOMAIN x.rows /\ \A i \in DOMAIN a : a[i] = Padded(x.rows[i], Range(cols))
      /\ IsList(b) /\ DOMAIN b = DOMAIN y.rows /\ \A i \in DOMAIN b : b[i] = Padded(y.rows[i], Range(cols))
  BY <1>2, <1>3, <1>6, WidenedFacts
<1>8. IsList(rows) /\ Range(rows) = Range(a) \union Range(b)
  BY <1>4, <1>7, JoinedLists
<1>9. \A i \in DOMAIN rows : IsRow(rows[i], Range(cols))
  <2>1. \A i \in DOMAIN a : IsRow(a[i], Range(cols))
    <3>1. \A i \in DOMAIN a : DOMAIN x.rows[i] = Columns(x)
      BY <1>7, FrameFacts
    <3>. QED
      BY <1>5, <1>7, <3>1 DEF IsRow, Padded
  <2>2. \A i \in DOMAIN b : IsRow(b[i], Range(cols))
    <3>1. \A i \in DOMAIN b : DOMAIN y.rows[i] = Columns(y)
      BY <1>7, FrameFacts
    <3>. QED
      BY <1>5, <1>7, <3>1 DEF IsRow, Padded
  <2>3. \A row \in Range(rows) : IsRow(row, Range(cols))
    BY <1>8, <2>1, <2>2 DEF Range
  <2>. QED
    BY <2>3 DEF Range
<1>10. IsFrame(g) /\ g.rows = rows /\ g.order = <<>>
  BY ONLY <1>5, <1>8, <1>9, EagerFrame
<1>11. Range(cols) = Columns(before) \union Columns(other)
  BY <1>5 DEF Columns
<1>12. PICK c : c = Widened(before.rows, Range(cols))
  OBVIOUS
<1>13. PICK d : d = Widened(other.rows, Range(cols))
  OBVIOUS
<1>14. IsList(c) /\ IsList(d) /\ Arranges(a, c) /\ Arranges(b, d)
  BY <1>2, <1>3, <1>6, <1>12, <1>13, WidenedFacts, WidenedArranges
<1>15. Arranges(a \o b, c \o d)
  BY ONLY <1>7, <1>14, ArrangesConcatenated
<1>. QED
  BY <1>4, <1>10, <1>11, <1>12, <1>13, <1>15, GoodUnordered DEF ConcatPromise

LEMMA PaddedItself ==
    ASSUME NEW row, NEW cols, IsRow(row, cols)
    PROVE  Padded(row, cols) = row
<1>1. DOMAIN row = cols /\ row = [c \in cols |-> row[c]]
  <2>1. row = [c \in cols |-> row[c]]
    BY DEF IsRow
  <2>. QED
    BY <2>1
<1>2. Padded(row, cols) = [c \in cols |-> row[c]]
  BY <1>1 DEF Padded
<1>. QED
  BY <1>1, <1>2

LEMMA WidenedItself ==
    ASSUME NEW rows, IsList(rows), NEW cols, \A i \in DOMAIN rows : IsRow(rows[i], cols)
    PROVE  Widened(rows, cols) = rows
<1>1. \A i \in DOMAIN rows : Padded(rows[i], cols) = rows[i]
  BY PaddedItself
<1>2. Widened(rows, cols) = [i \in DOMAIN rows |-> rows[i]]
  BY <1>1 DEF Widened
<1>. QED
  BY <1>2, ListFacts

\* By position: where the columns are the same, in the same order, it is by name.
LEMMA UnionStep ==
    ASSUME NEW before, IsFrame(before), NEW other, IsFrame(other), before.cols = other.cols,
           NEW g, g = UnionByPosition(before, other)
    PROVE  Good(g) /\ ConcatPromise(before, other, g)
<1>. DEFINE cols == Columns(before)
<1>1. /\ IsList(before.cols) /\ IsList(before.rows) /\ IsList(other.rows)
      /\ cols = Columns(other)
      /\ \A i \in DOMAIN before.rows : IsRow(before.rows[i], cols)
      /\ \A i \in DOMAIN other.rows : IsRow(other.rows[i], cols)
  BY FrameFacts DEF Columns
<1>2. \A c \in cols : other.cols[CHOOSE i \in DOMAIN before.cols : before.cols[i] = c] = c
  BY DEF Columns, Range
<1>3. PICK relabelled : relabelled = [i \in DOMAIN other.rows |->
          [c \in cols |-> other.rows[i][other.cols[CHOOSE k \in DOMAIN before.cols : before.cols[k] = c]]]]
  OBVIOUS
<1>4. relabelled = other.rows
  <2>1. ASSUME NEW i \in DOMAIN other.rows PROVE relabelled[i] = other.rows[i]
    <3>. DEFINE from(c) == other.cols[CHOOSE k \in DOMAIN before.cols : before.cols[k] = c]
    <3>0. \A c \in cols : from(c) = c
      BY <1>2
    <3>00. relabelled[i] = [c \in cols |-> other.rows[i][from(c)]]
      BY <1>3
    <3>. HIDE DEF from, cols
    <3>1. relabelled[i] = [c \in cols |-> other.rows[i][c]]
      BY ONLY <3>0, <3>00
    <3>2. other.rows[i] = [c \in cols |-> other.rows[i][c]]
      BY <1>1 DEF IsRow
    <3>. QED
      BY ONLY <3>1, <3>2
  <2>2. relabelled = [i \in DOMAIN other.rows |-> relabelled[i]]
    BY <1>3
  <2>3. other.rows = [i \in DOMAIN other.rows |-> other.rows[i]]
    BY <1>1, ListFacts
  <2>. QED
    BY ONLY <2>1, <2>2, <2>3
<1>5. PICK rows : rows = before.rows \o other.rows
  OBVIOUS
<1>6. g = Lazy(before.cols, rows)
  BY <1>3, <1>4, <1>5 DEF UnionByPosition
<1>. HIDE DEF cols
<1>7. IsList(rows) /\ Range(rows) = Range(before.rows) \union Range(other.rows)
  BY <1>1, <1>5, JoinedLists
<1>8. \A i \in DOMAIN rows : IsRow(rows[i], cols)
  <2>1. \A row \in Range(rows) : IsRow(row, cols)
    BY <1>1, <1>7 DEF Range
  <2>. QED
    BY <2>1 DEF Range
<1>9. IsFrame(g) /\ g.rows = rows /\ g.order = <<>>
  <2>1. \A i \in DOMAIN rows : IsRow(rows[i], Range(before.cols))
    BY <1>8 DEF cols, Columns
  <2>. QED
    BY ONLY <1>1, <1>6, <1>7, <2>1, EagerFrame
<1>10. Widened(before.rows, cols) = before.rows /\ Widened(other.rows, cols) = other.rows
  BY <1>1, WidenedItself
<1>11. cols = Columns(before) \union Columns(other)
  BY <1>1 DEF cols
<1>12. Arranges(rows, rows)
  BY ArrangesItself
<1>. QED
  BY <1>5, <1>9, <1>10, <1>11, <1>12, GoodUnordered DEF ConcatPromise
--------------------------------------------------------------------------------
(* Joins. *)

\* A pair of numbers as one, and back.
LEMMA PairAsNumber ==
    ASSUME NEW n \in Nat, n >= 1, NEW i \in Nat, NEW j \in 0 .. (n - 1)
    PROVE  i * n + j \in Nat /\ (i * n + j) \div n = i /\ (i * n + j) % n = j
<1>. DEFINE c == i * n + j
            q == c \div n
            r == c % n
<1>1. c \in Nat /\ i * n \in Nat
  OBVIOUS
<1>2. q \in Int /\ r \in 0 .. (n - 1) /\ c = n * q + r
  BY <1>1
<1>. HIDE DEF q, r
<1>3. n * (i - q) = r - j
  BY <1>1, <1>2
<1>4. i - q = 0
  <2>. DEFINE d == i - q
  <2>1. d \in Int /\ n * d = r - j /\ r - j < n /\ r - j > -n
    BY <1>2, <1>3
  <2>. HIDE DEF d
  <2>2. CASE d >= 1
    <3>1. n * d >= n
      BY <2>1, <2>2
    <3>. QED
      BY <2>1, <3>1
  <2>3. CASE d <= -1
    <3>1. n * d <= -n
      BY <2>1, <2>3
    <3>. QED
      BY <2>1, <3>1
  <2>4. d = 0
    BY <2>1, <2>2, <2>3
  <2>. QED
    BY <2>4 DEF d
<1>5. i = q /\ r = j
  BY <1>2, <1>3, <1>4
<1>. QED
  BY <1>1, <1>5 DEF q, r

JoinPairs(left, right, on, how, nm) ==
    MatchingPairs(left, right, on, how, nm) \union Unpaired(left, right, on, how, nm)
JoinFamily(left, right, on, how, nm) ==
    [p \in JoinPairs(left, right, on, how, nm) |-> JoinedRow(left, right, p[1], p[2])]

\* A row and its partners are the pairs of the family.
LEMMA PartnersArePairs ==
    ASSUME NEW left, IsFrame(left), NEW right, IsFrame(right), NEW on, NEW how, NEW nm
    PROVE  /\ \A i \in DOMAIN left.rows : \A j \in Partners(left, right, on, how, nm, i) :
                <<i, j>> \in JoinPairs(left, right, on, how, nm)
           /\ \A p \in JoinPairs(left, right, on, how, nm) :
                /\ p = <<p[1], p[2]>> /\ p[1] \in DOMAIN left.rows /\ p[2] \in 0 .. Len(right.rows)
                /\ p[2] \in Partners(left, right, on, how, nm, p[1])
                /\ p[2] # 0 => p[2] \in DOMAIN right.rows
<1>1. DOMAIN right.rows = 1 .. Len(right.rows) /\ Len(right.rows) \in Nat
  BY FrameFacts
<1>2. PICK pairs : pairs = MatchingPairs(left, right, on, how, nm)
  OBVIOUS
<1>3. PICK lone : lone = Unpaired(left, right, on, how, nm)
  OBVIOUS
<1>. DEFINE matching(i) == {j \in DOMAIN right.rows : MayPair(left, right, on, how, nm, i, j)}
<1>4. /\ \A p \in pairs : p[1] \in DOMAIN left.rows /\ p[2] \in matching(p[1]) /\ p = <<p[1], p[2]>>
      /\ \A i \in DOMAIN left.rows : \A j \in matching(i) : <<i, j>> \in pairs
  BY <1>2 DEF MatchingPairs
<1>5. /\ \A p \in lone : p[1] \in DOMAIN left.rows /\ p[2] = 0 /\ p = <<p[1], 0>> /\ how = "left"
                         /\ \A q \in pairs : q[1] # p[1]
      /\ \A i \in DOMAIN left.rows : how = "left" /\ (\A q \in pairs : q[1] # i) => <<i, 0>> \in lone
  BY <1>2, <1>3 DEF Unpaired
<1>6. \A i : Partners(left, right, on, how, nm, i) = IF matching(i) = {} /\ how = "left" THEN {0} ELSE matching(i)
  BY DEF Partners
<1>7. \A i \in DOMAIN left.rows : matching(i) = {} <=> \A q \in pairs : q[1] # i
  <2>1. ASSUME NEW i \in DOMAIN left.rows, matching(i) = {}, NEW q \in pairs PROVE q[1] # i
    BY <1>4, <2>1
  <2>2. ASSUME NEW i \in DOMAIN left.rows, \A q \in pairs : q[1] # i, NEW j \in matching(i) PROVE FALSE
    <3>1. <<i, j>> \in pairs /\ <<i, j>>[1] = i
      BY <1>4, <2>2
    <3>. QED
      BY <2>2, <3>1
  <2>. QED
    BY <2>1, <2>2
<1>. HIDE DEF matching
<1>8. ASSUME NEW i \in DOMAIN left.rows, NEW j \in Partners(left, right, on, how, nm, i)
      PROVE  <<i, j>> \in pairs \union lone
  <2>1. CASE matching(i) = {} /\ how = "left"
    <3>1. j = 0
      BY <1>6, <1>8, <2>1
    <3>2. <<i, 0>> \in lone
      BY <1>5, <1>7, <2>1
    <3>. QED
      BY <3>1, <3>2
  <2>2. CASE ~(matching(i) = {} /\ how = "left")
    BY <1>4, <1>6, <2>2
  <2>. QED
    BY <2>1, <2>2
<1>9. ASSUME NEW p \in pairs \union lone
      PROVE  /\ p = <<p[1], p[2]>> /\ p[1] \in DOMAIN left.rows /\ p[2] \in 0 .. Len(right.rows)
             /\ p[2] \in Partners(left, right, on, how, nm, p[1])
             /\ p[2] # 0 => p[2] \in DOMAIN right.rows
  <2>1. CASE p \in pairs
    <3>1. p[1] \in DOMAIN left.rows /\ p[2] \in matching(p[1]) /\ p = <<p[1], p[2]>>
      BY <1>4, <2>1
    <3>2. p[2] \in DOMAIN right.rows
      BY <3>1 DEF matching
    <3>3. p[2] \in Partners(left, right, on, how, nm, p[1])
      BY <1>6, <3>1
    <3>. QED
      BY <1>1, <3>1, <3>2, <3>3
  <2>2. CASE p \in lone
    <3>1. p[1] \in DOMAIN left.rows /\ p[2] = 0 /\ p = <<p[1], 0>> /\ how = "left" /\ matching(p[1]) = {}
      BY <1>5, <1>7, <2>2
    <3>2. Partners(left, right, on, how, nm, p[1]) = {0}
      BY <1>6, <3>1
    <3>. QED
      BY <1>1, <3>1, <3>2
  <2>. QED
    BY <2>1, <2>2
<1>. QED
  BY <1>2, <1>3, <1>8, <1>9 DEF JoinPairs

LEMMA JoinRowsArrange ==
    ASSUME NEW left, IsFrame(left), NEW right, IsFrame(right), NEW on, NEW how, NEW nm
    PROVE  /\ IsList(JoinRows(left, right, on, how, nm))
           /\ Arranges(JoinRows(left, right, on, how, nm), JoinFamily(left, right, on, how, nm))
<1>. DEFINE n == Len(right.rows) + 1
            partners(i) == Partners(left, right, on, how, nm, i)
            places == UNION {{i * n + j : j \in partners(i)} : i \in DOMAIN left.rows}
<1>1. PICK P : P = JoinPairs(left, right, on, how, nm)
  OBVIOUS
<1>2. /\ DOMAIN left.rows = 1 .. Len(left.rows) /\ Len(left.rows) \in Nat /\ Len(right.rows) \in Nat
      /\ n \in Nat /\ n >= 1
  BY FrameFacts
<1>3. /\ \A i \in DOMAIN left.rows : \A j \in partners(i) : <<i, j>> \in P
      /\ \A p \in P : /\ p = <<p[1], p[2]>> /\ p[1] \in DOMAIN left.rows /\ p[2] \in 0 .. Len(right.rows)
                      /\ p[2] \in partners(p[1])
  BY <1>1, PartnersArePairs
<1>4. \A p \in P : LET c == p[1] * n + p[2] IN c \in Nat /\ c \div n = p[1] /\ c % n = p[2]
  <2>. SUFFICES ASSUME NEW p \in P PROVE LET c == p[1] * n + p[2] IN c \in Nat /\ c \div n = p[1] /\ c % n = p[2]
    OBVIOUS
  <2>1. p[1] \in Nat /\ p[2] \in 0 .. (n - 1)
    BY <1>2, <1>3
  <2>. HIDE DEF n
  <2>. QED
    BY ONLY <1>2, <2>1, PairAsNumber
<1>. DEFINE code == [p \in P |-> p[1] * n + p[2]]
<1>5. places = {code[p] : p \in P}
  <2>1. ASSUME NEW c \in places PROVE \E p \in P : c = code[p]
    <3>1. PICK i \in DOMAIN left.rows : \E j \in partners(i) : c = i * n + j
      OBVIOUS
    <3>2. PICK j \in partners(i) : c = i * n + j
      BY <3>1
    <3>3. <<i, j>> \in P
      BY <1>3
    <3>. QED
      BY <3>2, <3>3
  <2>2. ASSUME NEW p \in P PROVE code[p] \in places
    <3>1. p[1] \in DOMAIN left.rows /\ p[2] \in partners(p[1]) /\ code[p] = p[1] * n + p[2]
      BY <1>3
    <3>. QED
      BY <3>1
  <2>. HIDE DEF code, places
  <2>. QED
    BY <2>1, <2>2
<1>6. /\ DOMAIN code = P
      /\ \A p \in P : code[p] \in Nat /\ code[p] \div n = p[1] /\ code[p] % n = p[2]
  BY <1>4
<1>7. \A p, q \in P : code[p] = code[q] => p = q
  <2>. SUFFICES ASSUME NEW p \in P, NEW q \in P, code[p] = code[q] PROVE p = q
    OBVIOUS
  <2>. HIDE DEF code, n
  <2>1. p[1] = q[1] /\ p[2] = q[2]
    BY <1>6
  <2>. QED
    BY <1>3, <2>1
<1>8. IsFiniteSet(P)
  <2>1. IsFiniteSet(1 .. Len(left.rows)) /\ IsFiniteSet(0 .. Len(right.rows))
    BY <1>2, FS_Interval
  <2>2. IsFiniteSet((1 .. Len(left.rows)) \X (0 .. Len(right.rows)))
    BY <2>1, FS_Product
  <2>3. P \subseteq (1 .. Len(left.rows)) \X (0 .. Len(right.rows))
    BY <1>2, <1>3
  <2>. QED
    BY <2>2, <2>3, FS_Subset
<1>. HIDE DEF code
<1>9. places \in SUBSET Int /\ IsFiniteSet(places)
  <2>. HIDE DEF places, n
  <2>1. places \in SUBSET Int
    BY <1>5, <1>6
  <2>2. code \in [P -> places] /\ \A c \in places : \E p \in P : code[p] = c
    <3>1. code = [p \in P |-> code[p]]
      BY DEF code
    <3>. QED
      BY <1>5, <3>1
  <2>3. code \in Surjection(P, places)
    BY <2>2 DEF Surjection
  <2>. QED
    BY <1>8, <2>1, <2>3, FS_Surjection
<1>10. PICK order : order = InOrder(places)
  OBVIOUS
<1>11. order = [k \in 1 .. Cardinality(places) |-> CHOOSE x \in places : Cardinality({y \in places : y < x}) = k - 1]
  BY <1>10 DEF InOrder
<1>12. /\ Cardinality(places) \in Nat /\ Len(order) = Cardinality(places) /\ DOMAIN order = 1 .. Len(order)
       /\ \A i, j \in 1 .. Len(order) : i < j => order[i] < order[j]
       /\ Range(order) = places
  BY <1>9, <1>11, AscendingSequence
<1>13. PICK rows : rows = JoinRows(left, right, on, how, nm)
  OBVIOUS
<1>14. rows = [k \in DOMAIN order |-> JoinedRow(left, right, order[k] \div n, order[k] % n)]
  BY <1>10, <1>13 DEF JoinRows
<1>15. IsList(rows) /\ DOMAIN rows = DOMAIN order
  <2>1. DOMAIN rows = 1 .. Len(order) /\ rows = [k \in 1 .. Len(order) |-> rows[k]] /\ Len(order) \in Nat
    BY <1>12, <1>14
  <2>. QED
    BY <1>12, <2>1, ListOf
<1>16. PICK family : family = JoinFamily(left, right, on, how, nm)
  OBVIOUS
<1>17. DOMAIN family = P /\ \A p \in P : family[p] = JoinedRow(left, right, p[1], p[2])
  BY <1>1, <1>16 DEF JoinFamily
<1>. HIDE DEF places, n
<1>18. \A k \in DOMAIN order : \E p \in P : order[k] = code[p]
  BY <1>5, <1>12 DEF Range
<1>. DEFINE at == [k \in DOMAIN order |-> CHOOSE p \in P : order[k] = code[p]]
<1>19. \A k \in DOMAIN order : at[k] \in P /\ order[k] = code[at[k]]
  BY <1>18
<1>20. at \in [DOMAIN rows -> DOMAIN family]
  BY <1>15, <1>17, <1>19
<1>. HIDE DEF at
<1>21. ASSUME NEW i \in DOMAIN rows, NEW j \in DOMAIN rows, at[i] = at[j] PROVE i = j
  <2>1. order[i] = order[j] /\ order[i] \in Int
    BY <1>6, <1>15, <1>19, <1>21
  <2>2. i \in 1 .. Len(order) /\ j \in 1 .. Len(order)
    BY <1>12, <1>15
  <2>3. ~(i < j) /\ ~(j < i)
    BY <1>12, <2>1, <2>2
  <2>. QED
    BY <1>12, <2>2, <2>3
<1>22. ASSUME NEW p \in DOMAIN family PROVE \E i \in DOMAIN rows : at[i] = p
  <2>1. PICK k \in DOMAIN order : order[k] = code[p]
    BY <1>5, <1>12, <1>17 DEF Range
  <2>. QED
    BY <1>7, <1>15, <1>17, <1>19, <2>1
<1>23. ASSUME NEW i \in DOMAIN rows PROVE rows[i] = family[at[i]]
  <2>1. at[i] \in P /\ order[i] = code[at[i]]
    BY <1>15, <1>19
  <2>2. order[i] \div n = at[i][1] /\ order[i] % n = at[i][2]
    BY <1>6, <2>1
  <2>. QED
    BY <1>14, <1>15, <1>17, <2>1, <2>2
<1>24. Arranges(rows, family)
  BY ONLY <1>20, <1>21, <1>22, <1>23, ArrangesBy
<1>. QED
  BY <1>13, <1>15, <1>16, <1>24

LEMMA JoinedRowShape ==
    ASSUME NEW left, IsFrame(left), NEW right, IsFrame(right), NEW i \in DOMAIN left.rows, NEW j,
           j # 0 => j \in DOMAIN right.rows
    PROVE  IsRow(JoinedRow(left, right, i, j), Columns(left) \union Columns(right))
<1>1. DOMAIN left.rows[i] = Columns(left)
  BY FrameFacts
<1>2. CASE j = 0
  BY <1>1, <1>2 DEF JoinedRow, Padded, IsRow
<1>3. CASE j # 0
  <2>1. DOMAIN right.rows[j] = Columns(right)
    BY <1>3, FrameFacts
  <2>. QED
    BY <1>1, <1>3, <2>1 DEF JoinedRow, Over, IsRow
<1>. QED
  BY <1>2, <1>3

LEMMA JoinedFrame ==
    ASSUME NEW left, IsFrame(left), NEW right, IsFrame(right), NEW on, on = Columns(left) \intersect Columns(right),
           NEW how, NEW nm, NEW e,
           \/ e = JoinWith(left, right, on, how, nm)
           \/ e = Lazy(JoinedCols(left, right, on), JoinRows(left, right, on, how, nm))
    PROVE  IsFrame(e) /\ e.order = <<>> /\ Arranges(e.rows, JoinFamily(left, right, on, how, nm))
<1>1. PICK cols : cols = JoinedCols(left, right, on)
  OBVIOUS
<1>2. PICK rows : rows = JoinRows(left, right, on, how, nm)
  OBVIOUS
<1>3. PICK family : family = JoinFamily(left, right, on, how, nm)
  OBVIOUS
<1>4. IsList(cols) /\ Range(cols) = Columns(left) \union Columns(right)
  <2>1. IsList(left.cols) /\ IsList(right.cols)
    BY FrameFacts
  <2>2. IsList(Without(right.cols, on)) /\ Range(Without(right.cols, on)) = Columns(right) \ on
    BY <2>1, WithoutFacts DEF Columns
  <2>3. cols = left.cols \o Without(right.cols, on)
    BY <1>1 DEF JoinedCols
  <2>4. IsList(cols) /\ Range(cols) = Columns(left) \union (Columns(right) \ on)
    BY <2>1, <2>2, <2>3, JoinedLists DEF Columns
  <2>. QED
    BY <2>4
<1>5. IsList(rows) /\ Arranges(rows, family)
  BY <1>2, <1>3, JoinRowsArrange
<1>6. \A i \in DOMAIN rows : IsRow(rows[i], Range(cols))
  <2>1. PICK P : P = JoinPairs(left, right, on, how, nm)
    OBVIOUS
  <2>2. DOMAIN family = P /\ \A p \in P : family[p] = JoinedRow(left, right, p[1], p[2])
    BY <1>3, <2>1 DEF JoinFamily
  <2>3. \A p \in P : p[1] \in DOMAIN left.rows /\ (p[2] # 0 => p[2] \in DOMAIN right.rows)
    BY <2>1, PartnersArePairs
  <2>4. \A p \in P : IsRow(family[p], Range(cols))
    BY <1>4, <2>2, <2>3, JoinedRowShape
  <2>5. \A i \in DOMAIN rows : \E p \in DOMAIN family : rows[i] = family[p]
    BY ONLY <1>5, SomeOf
  <2>. QED
    BY <2>2, <2>4, <2>5
<1>7. e = Eager(cols, rows) \/ e = Lazy(cols, rows)
  BY <1>1, <1>2 DEF JoinWith
<1>8. IsFrame(e) /\ e.order = <<>> /\ e.rows = rows
  <2>1. IsList(cols) /\ IsList(rows)
    BY <1>4, <1>5
  <2>2. /\ IsFrame(Eager(cols, rows)) /\ IsFrame(Lazy(cols, rows))
        /\ Eager(cols, rows).rows = rows /\ Lazy(cols, rows).rows = rows
        /\ Eager(cols, rows).order = <<>> /\ Lazy(cols, rows).order = <<>>
    BY ONLY <1>6, <2>1, EagerFrame
  <2>. QED
    BY ONLY <1>7, <2>2
<1>. QED
  BY <1>3, <1>5, <1>8

\* An inner join from the other side: the same pairs, and the same rows, as
\* rows that match have the same values in the columns they share.
LEMMA JoinSwapped ==
    ASSUME NEW left, IsFrame(left), NEW right, IsFrame(right), NEW on, on = Columns(left) \intersect Columns(right),
           NEW nm
    PROVE  Arranges(JoinFamily(right, left, on, "inner", nm), JoinFamily(left, right, on, "inner", nm))
<1>1. PICK a : a = JoinFamily(right, left, on, "inner", nm)
  OBVIOUS
<1>2. PICK b : b = JoinFamily(left, right, on, "inner", nm)
  OBVIOUS
<1>3. PICK P : P = MatchingPairs(right, left, on, "inner", nm)
  OBVIOUS
<1>4. PICK Q : Q = MatchingPairs(left, right, on, "inner", nm)
  OBVIOUS
<1>5. Unpaired(right, left, on, "inner", nm) = {} /\ Unpaired(left, right, on, "inner", nm) = {}
  <2>1. "inner" # "left"
    OBVIOUS
  <2>. QED
    BY <2>1 DEF Unpaired
<1>6. /\ DOMAIN a = P /\ \A p \in P : a[p] = JoinedRow(right, left, p[1], p[2])
      /\ DOMAIN b = Q /\ \A p \in Q : b[p] = JoinedRow(left, right, p[1], p[2])
  BY <1>1, <1>2, <1>3, <1>4, <1>5 DEF JoinFamily, JoinPairs
<1>7. "inner" # "cross"
  OBVIOUS
<1>8. /\ \A p \in P : /\ p = <<p[1], p[2]>> /\ p[1] \in DOMAIN right.rows /\ p[2] \in DOMAIN left.rows
                      /\ KeysMatch(right.rows[p[1]], left.rows[p[2]], on, nm)
      /\ \A i \in DOMAIN right.rows, j \in DOMAIN left.rows :
           KeysMatch(right.rows[i], left.rows[j], on, nm) => <<i, j>> \in P
      /\ \A p \in Q : /\ p = <<p[1], p[2]>> /\ p[1] \in DOMAIN left.rows /\ p[2] \in DOMAIN right.rows
                      /\ KeysMatch(left.rows[p[1]], right.rows[p[2]], on, nm)
      /\ \A i \in DOMAIN left.rows, j \in DOMAIN right.rows :
           KeysMatch(left.rows[i], right.rows[j], on, nm) => <<i, j>> \in Q
  BY <1>3, <1>4, <1>7 DEF MatchingPairs, MayPair
<1>9. \A l, r : KeysMatch(l, r, on, nm) <=> KeysMatch(r, l, on, nm)
  BY DEF KeysMatch
<1>. DEFINE at == [p \in P |-> <<p[2], p[1]>>]
<1>10. \A p \in P : <<p[2], p[1]>> \in Q
  BY <1>8, <1>9
<1>11. at \in [P -> Q] /\ \A p \in P : at[p] = <<p[2], p[1]>>
  BY <1>10
<1>. HIDE DEF at
<1>12. \A p, q \in P : at[p] = at[q] => p = q
  <2>. SUFFICES ASSUME NEW p \in P, NEW q \in P, at[p] = at[q] PROVE p = q
    OBVIOUS
  <2>1. p[1] = q[1] /\ p[2] = q[2]
    BY <1>11
  <2>. QED
    BY <1>8, <2>1
<1>13. \A q \in Q : \E p \in P : at[p] = q
  <2>. SUFFICES ASSUME NEW q \in Q PROVE \E p \in P : at[p] = q
    OBVIOUS
  <2>1. <<q[2], q[1]>> \in P
    BY <1>8, <1>9
  <2>2. at[<<q[2], q[1]>>] = <<q[1], q[2]>>
    BY <1>11, <2>1
  <2>. QED
    BY <1>8, <2>1, <2>2
<1>14. ASSUME NEW p \in P PROVE a[p] = b[at[p]]
  <2>. DEFINE r == right.rows[p[1]]
              l == left.rows[p[2]]
  <2>1. p[1] \in DOMAIN right.rows /\ p[2] \in DOMAIN left.rows /\ KeysMatch(r, l, on, nm)
    BY <1>8
  <2>2. p[1] # 0 /\ p[2] # 0
    BY <2>1, FrameFacts
  <2>3. DOMAIN r = Columns(right) /\ DOMAIN l = Columns(left)
    BY <2>1, FrameFacts
  <2>4. a[p] = Over(r, l)
    BY <1>6, <2>2 DEF JoinedRow
  <2>5. b[at[p]] = Over(l, r)
    <3>1. at[p] \in Q /\ at[p] = <<p[2], p[1]>>
      BY <1>10, <1>11
    <3>2. at[p][1] = p[2] /\ at[p][2] = p[1]
      BY <3>1
    <3>3. b[at[p]] = JoinedRow(left, right, p[2], p[1])
      BY <1>6, <3>1, <3>2
    <3>. QED
      BY <2>2, <3>3 DEF JoinedRow
  <2>6. \A c \in Columns(left) \intersect Columns(right) : r[c] = l[c]
    BY <2>1 DEF KeysMatch
  <2>. HIDE DEF r, l
  <2>7. Over(r, l) = Over(l, r)
    <3>. DEFINE one(c) == IF c \in Columns(right) THEN r[c] ELSE l[c]
                two(c) == IF c \in Columns(left) THEN l[c] ELSE r[c]
                all == Columns(left) \union Columns(right)
    <3>1. \A c \in all : one(c) = two(c)
      BY <2>6
    <3>2. Over(r, l) = [c \in all |-> one(c)]
      BY <2>3 DEF Over
    <3>3. Over(l, r) = [c \in all |-> two(c)]
      BY <2>3 DEF Over
    <3>. HIDE DEF one, two, all
    <3>. QED
      BY ONLY <3>1, <3>2, <3>3
  <2>. QED
    BY <2>4, <2>5, <2>7
<1>15. Arranges(a, b)
  <2>1. /\ at \in [DOMAIN a -> DOMAIN b]
        /\ \A p, q \in DOMAIN a : at[p] = at[q] => p = q
        /\ \A q \in DOMAIN b : \E p \in DOMAIN a : at[p] = q
        /\ \A p \in DOMAIN a : a[p] = b[at[p]]
    BY <1>6, <1>11, <1>12, <1>13, <1>14
  <2>. QED
    BY ONLY <2>1, ArrangesBy
<1>. QED
  BY <1>1, <1>2, <1>15

LEMMA JoinStep ==
    ASSUME NEW before, Good(before), NEW right, IsFrame(right),
           NEW on, on = Columns(before) \intersect Columns(right), NEW how, NEW g,
           \/ \E nm \in BOOLEAN :
                \/ g = JoinWith(before, right, on, how, nm)
                \/ g = Lazy(JoinedCols(before, right, on), JoinRows(before, right, on, how, nm))
                \/ g \in Unordered(JoinWith(before, right, on, how, nm))
           \/ how = "inner" /\ g = JoinWith(right, before, on, how, TRUE)
    PROVE  Good(g) /\ JoinPromise(before, right, on, how, g)
<1>0. IsFrame(before)
  BY DEF Good
<1>. SUFFICES \E nm \in BOOLEAN : /\ IsFrame(g) /\ g.order = <<>>
                                  /\ Arranges(g.rows, JoinFamily(before, right, on, how, nm))
  BY GoodUnordered DEF JoinPromise, JoinFamily, JoinPairs
<1>1. ASSUME NEW nm \in BOOLEAN,
             \/ g = JoinWith(before, right, on, how, nm)
             \/ g = Lazy(JoinedCols(before, right, on), JoinRows(before, right, on, how, nm))
      PROVE  IsFrame(g) /\ g.order = <<>> /\ Arranges(g.rows, JoinFamily(before, right, on, how, nm))
  BY <1>0, <1>1, JoinedFrame
<1>2. ASSUME NEW nm \in BOOLEAN, g \in Unordered(JoinWith(before, right, on, how, nm))
      PROVE  IsFrame(g) /\ g.order = <<>> /\ Arranges(g.rows, JoinFamily(before, right, on, how, nm))
  <2>1. PICK e : e = JoinWith(before, right, on, how, nm)
    OBVIOUS
  <2>2. IsFrame(e) /\ e.order = <<>> /\ Arranges(e.rows, JoinFamily(before, right, on, how, nm))
    BY <1>0, <2>1, JoinedFrame
  <2>3. IsFrame(g) /\ g.order = <<>> /\ Arranges(g.rows, e.rows)
    BY <1>2, <2>1, <2>2, UnorderedFacts
  <2>. QED
    BY <2>2, <2>3, ArrangesTwice
<1>3. ASSUME how = "inner", g = JoinWith(right, before, on, how, TRUE)
      PROVE  IsFrame(g) /\ g.order = <<>> /\ Arranges(g.rows, JoinFamily(before, right, on, how, TRUE))
  <2>1. on = Columns(right) \intersect Columns(before)
    OBVIOUS
  <2>2. IsFrame(g) /\ g.order = <<>> /\ Arranges(g.rows, JoinFamily(right, before, on, how, TRUE))
    BY <1>0, <1>3, <2>1, JoinedFrame
  <2>3. Arranges(JoinFamily(right, before, on, how, TRUE), JoinFamily(before, right, on, how, TRUE))
    BY <1>0, <1>3, JoinSwapped
  <2>. QED
    BY <2>2, <2>3, ArrangesTwice
<1>. QED
  BY <1>1, <1>2, <1>3

\* A finite set in a list.
LEMMA ListOfSet ==
    ASSUME NEW S, IsFiniteSet(S)
    PROVE  IsList(SetToSeq(S)) /\ Range(SetToSeq(S)) = S
<1>1. PICK f : f = SetToSeq(S)
  OBVIOUS
<1>2. Cardinality(S) \in Nat
  BY FS_CardinalityType
<1>3. PICK b \in Bijection(1 .. Cardinality(S), S) : TRUE
  BY FS_CardinalityType DEF ExistsBijection
<1>4. b \in [1 .. Cardinality(S) -> S] /\ IsInjective(b)
  <2>1. b \in [1 .. Cardinality(S) -> S] /\ \A i, j \in 1 .. Cardinality(S) : b[i] = b[j] => i = j
    BY Fun_BijectionProperties
  <2>2. DOMAIN b = 1 .. Cardinality(S)
    BY <2>1
  <2>. QED
    BY <2>1, <2>2 DEF IsInjective
<1>5. f \in [1 .. Cardinality(S) -> S] /\ IsInjective(f)
  BY <1>1, <1>4 DEF SetToSeq
<1>6. IsList(f)
  BY <1>2, <1>5, ListOf
<1>7. \A i, j \in 1 .. Cardinality(S) : f[i] = f[j] => i = j
  BY <1>5 DEF IsInjective
<1>8. Range(f) = S
  <2>1. IsFiniteSet(1 .. Cardinality(S)) /\ Cardinality(1 .. Cardinality(S)) = Cardinality(S)
    BY <1>2, FS_Interval
  <2>2. f \in Injection(1 .. Cardinality(S), S)
    BY <1>5, <1>7, Fun_IsInj
  <2>3. f \in Surjection(1 .. Cardinality(S), S)
    BY <2>1, <2>2, FS_Injection
  <2>4. \A x \in S : \E i \in 1 .. Cardinality(S) : f[i] = x
    BY <2>3 DEF Surjection
  <2>. QED
    BY <1>5, <2>4 DEF Range
<1>. QED
  BY <1>1, <1>6, <1>8

\* Specifications as BackendsAssumption has them.
AreSpecs(specs) ==
    /\ IsList(specs)
    /\ \A i \in DOMAIN specs : specs[i].func \in {"count", "sum", "min", "max"}
    /\ \A i, j \in DOMAIN specs : i # j => specs[i].out # specs[j].out

\* What a specification asks for, whatever the order they are in.
LEMMA SummaryFacts ==
    ASSUME NEW specs, AreSpecs(specs), NEW sub, IsList(sub), Range(sub) = Range(specs),
           NEW rows, NEW emptySum \in {0, Null}
    PROVE  /\ Outputs(sub) = Outputs(specs)
           /\ DOMAIN Summary(rows, sub, emptySum) = Outputs(specs)
           /\ Summarises(Summary(rows, sub, emptySum), rows, specs)
<1>1. PICK s : s = Summary(rows, sub, emptySum)
  OBVIOUS
<1>2. Outputs(sub) = Outputs(specs)
  <2>1. Outputs(sub) = {x.out : x \in Range(sub)}
    BY DEF Outputs, Range
  <2>2. Outputs(specs) = {x.out : x \in Range(specs)}
    BY DEF Outputs, Range
  <2>. QED
    BY <2>1, <2>2
<1>3. /\ DOMAIN s = Outputs(specs)
      /\ \A out \in Outputs(specs) : \A spec : spec = (CHOOSE x \in Range(specs) : x.out = out) =>
           s[out] = AggregateOf(spec.func, Present(rows, spec.src), emptySum)
  BY <1>1, <1>2 DEF Summary
<1>4. ASSUME NEW i \in DOMAIN specs
      PROVE  s[specs[i].out] \in Aggregates(specs[i].func, Present(rows, specs[i].src))
  <2>1. specs[i] \in Range(specs) /\ specs[i].out \in Outputs(specs)
    BY DEF Range, Outputs
  <2>2. PICK spec : spec = CHOOSE x \in Range(specs) : x.out = specs[i].out
    OBVIOUS
  <2>3. spec \in Range(specs) /\ spec.out = specs[i].out
    BY <2>1, <2>2
  <2>4. PICK j \in DOMAIN specs : spec = specs[j]
    BY <2>3 DEF Range
  <2>5. spec = specs[i]
    BY <2>3, <2>4 DEF AreSpecs
  <2>6. s[specs[i].out] = AggregateOf(specs[i].func, Present(rows, specs[i].src), emptySum)
    BY ONLY <1>3, <2>1, <2>2, <2>5
  <2>7. specs[i].func \in {"count", "sum", "min", "max"}
    BY DEF AreSpecs
  <2>8. \A func \in {"count", "sum", "min", "max"} : \A values :
           AggregateOf(func, values, emptySum) \in Aggregates(func, values)
    BY DEF AggregateOf, Aggregates
  <2>. QED
    BY <2>6, <2>7, <2>8
<1>. QED
  BY <1>1, <1>2, <1>3, <1>4 DEF Summarises

\* The rows of an aggregate by groups, in any order.
KeysIn(rows, by) == {Restrict(rows[i], by) : i \in DOMAIN rows}
AreGroups(rows, source, by, specs) ==
    /\ \A i \in DOMAIN rows :
         /\ DOMAIN rows[i] = by \union Outputs(specs)
         /\ Restrict(rows[i], by) \in KeysIn(source, by)
         /\ Summarises(rows[i], GroupOf(source, by, Restrict(rows[i], by)), specs)
    /\ \A i, j \in DOMAIN rows : Restrict(rows[i], by) = Restrict(rows[j], by) => i = j
    /\ \A key \in KeysIn(source, by) : Null \in Range(key) \/ \E i \in DOMAIN rows : Restrict(rows[i], by) = key

LEMMA GroupsArranged ==
    ASSUME NEW source, NEW by, NEW specs, NEW a, NEW b, AreGroups(b, source, by, specs), Arranges(a, b)
    PROVE  AreGroups(a, source, by, specs)
<1>1. PICK f : /\ f \in [DOMAIN a -> DOMAIN b]
               /\ \A i, j \in DOMAIN a : f[i] = f[j] => i = j
               /\ \A x \in DOMAIN b : \E i \in DOMAIN a : f[i] = x
               /\ \A i \in DOMAIN a : a[i] = b[f[i]]
  BY ArrangesWhat
<1>2. ASSUME NEW i \in DOMAIN a
      PROVE  /\ DOMAIN a[i] = by \union Outputs(specs)
             /\ Restrict(a[i], by) \in KeysIn(source, by)
             /\ Summarises(a[i], GroupOf(source, by, Restrict(a[i], by)), specs)
  <2>1. f[i] \in DOMAIN b /\ a[i] = b[f[i]]
    BY <1>1
  <2>. QED
    BY <2>1 DEF AreGroups
<1>3. ASSUME NEW i \in DOMAIN a, NEW j \in DOMAIN a, Restrict(a[i], by) = Restrict(a[j], by)
      PROVE  i = j
  <2>1. f[i] \in DOMAIN b /\ a[i] = b[f[i]] /\ f[j] \in DOMAIN b /\ a[j] = b[f[j]]
    BY <1>1
  <2>2. f[i] = f[j]
    BY <1>3, <2>1 DEF AreGroups
  <2>. QED
    BY <1>1, <2>2
<1>4. ASSUME NEW key \in KeysIn(source, by), Null \notin Range(key)
      PROVE  \E i \in DOMAIN a : Restrict(a[i], by) = key
  <2>1. PICK x \in DOMAIN b : Restrict(b[x], by) = key
    BY <1>4 DEF AreGroups
  <2>2. PICK i \in DOMAIN a : f[i] = x
    BY <1>1
  <2>. QED
    BY <1>1, <2>1, <2>2
<1>. QED
  BY <1>2, <1>3, <1>4 DEF AreGroups

LEMMA GroupsPromised ==
    ASSUME NEW before, NEW by, by # {}, NEW specs, NEW g, AreGroups(g.rows, before.rows, by, specs)
    PROVE  AggregatePromise(before, by, specs, g)
<1>1. \A row \in Range(g.rows) : \E i \in DOMAIN g.rows : row = g.rows[i]
  BY DEF Range
<1>2. ASSUME NEW key \in KeysIn(before.rows, by)
      PROVE  \/ Null \in Range(key) /\ \A row \in Range(g.rows) : Restrict(row, by) # key
             \/ \E i \in DOMAIN g.rows :
                  /\ \A j \in DOMAIN g.rows : Restrict(g.rows[j], by) = key <=> j = i
                  /\ Summarises(g.rows[i], GroupOf(before.rows, by, key), specs)
  <2>1. CASE \E i \in DOMAIN g.rows : Restrict(g.rows[i], by) = key
    <3>1. PICK i \in DOMAIN g.rows : Restrict(g.rows[i], by) = key
      BY <2>1
    <3>. QED
      BY <3>1 DEF AreGroups
  <2>2. CASE ~ \E i \in DOMAIN g.rows : Restrict(g.rows[i], by) = key
    BY <1>1, <2>2 DEF AreGroups
  <2>. QED
    BY <2>1, <2>2
<1>3. \A row \in Range(g.rows) : DOMAIN row = by \union Outputs(specs) /\ Restrict(row, by) \in KeysIn(before.rows, by)
  BY <1>1 DEF AreGroups
<1>. QED
  BY <1>2, <1>3 DEF AggregatePromise, KeysIn

LEMMA WholeStep ==
    ASSUME NEW before, NEW specs, AreSpecs(specs), NEW emptySum \in {0, Null},
           NEW g, g = Whole(before, specs, emptySum)
    PROVE  Good(g) /\ AggregatePromise(before, {}, specs, g)
<1>1. PICK cols : cols = [i \in DOMAIN specs |-> specs[i].out]
  OBVIOUS
<1>2. PICK row : row = Summary(before.rows, specs, emptySum)
  OBVIOUS
<1>3. DOMAIN row = Outputs(specs) /\ Summarises(row, before.rows, specs)
  BY <1>2, SummaryFacts DEF AreSpecs
<1>4. IsList(cols) /\ Range(cols) = Outputs(specs)
  <2>1. Len(specs) \in Nat /\ DOMAIN specs = 1 .. Len(specs)
    BY ListFacts DEF AreSpecs
  <2>2. DOMAIN cols = 1 .. Len(specs) /\ cols = [i \in 1 .. Len(specs) |-> cols[i]]
    BY <1>1, <2>1
  <2>3. IsList(cols)
    BY <2>1, <2>2, ListOf
  <2>4. Range(cols) = Outputs(specs)
    BY <1>1 DEF Range, Outputs
  <2>. QED
    BY <2>3, <2>4
<1>5. PICK rows : rows = <<row>>
  OBVIOUS
<1>6. DOMAIN rows = 1 .. 1 /\ rows[1] = row /\ rows = [i \in 1 .. 1 |-> rows[i]] /\ 1 \in Nat
  BY <1>5
<1>7. IsList(rows) /\ Len(rows) = 1
  BY ONLY <1>6, ListOf
<1>8. \A i \in DOMAIN rows : IsRow(rows[i], Range(cols))
  <2>1. row = [c \in DOMAIN row |-> row[c]]
    BY <1>2 DEF Summary
  <2>2. IsRow(row, Range(cols))
    BY <1>3, <1>4, <2>1 DEF IsRow
  <2>. QED
    BY <1>6, <2>2
<1>9. g = Eager(cols, rows)
  BY <1>1, <1>2, <1>5 DEF Whole
<1>10. IsFrame(g) /\ g.order = <<>> /\ g.rows = rows
  BY <1>4, <1>7, <1>8, <1>9, EagerFrame
<1>11. \A r \in Range(g.rows) : DOMAIN r = {} \union Outputs(specs)
  BY <1>3, <1>6, <1>10 DEF Range
<1>. QED
  BY <1>3, <1>6, <1>7, <1>10, <1>11, GoodUnordered DEF AggregatePromise

\* Groups of these keys: each key once, and all of those without nulls.
LEMMA GroupedFrame ==
    ASSUME NEW before, IsFrame(before), NEW by, IsFiniteSet(by), NEW specs, AreSpecs(specs),
           by \intersect Outputs(specs) = {},
           NEW sub, IsList(sub), Range(sub) = Range(specs), NEW emptySum \in {0, Null},
           NEW keys, IsList(keys), \A i, j \in DOMAIN keys : keys[i] = keys[j] => i = j,
           Range(keys) \subseteq KeysIn(before.rows, by),
           \A key \in KeysIn(before.rows, by) : Null \in Range(key) \/ key \in Range(keys),
           NEW e, e = Grouped(before, by, keys, sub, emptySum)
    PROVE  IsFrame(e) /\ e.order = <<>> /\ AreGroups(e.rows, before.rows, by, specs)
<1>1. PICK outs : outs = [i \in DOMAIN sub |-> sub[i].out]
  OBVIOUS
<1>2. IsList(outs) /\ Range(outs) = Outputs(specs)
  <2>1. Len(sub) \in Nat /\ DOMAIN sub = 1 .. Len(sub)
    BY ListFacts
  <2>2. DOMAIN outs = 1 .. Len(sub) /\ outs = [i \in 1 .. Len(sub) |-> outs[i]]
    BY <1>1, <2>1
  <2>3. IsList(outs)
    BY <2>1, <2>2, ListOf
  <2>4. Range(outs) = Outputs(sub)
    BY <1>1 DEF Range, Outputs
  <2>5. Outputs(sub) = Outputs(specs)
    BY SummaryFacts
  <2>. QED
    BY <2>3, <2>4, <2>5
<1>3. PICK cols : cols = SetToSeq(by) \o outs
  OBVIOUS
<1>4. IsList(cols) /\ Range(cols) = by \union Outputs(specs)
  <2>1. IsList(SetToSeq(by)) /\ Range(SetToSeq(by)) = by
    BY ListOfSet
  <2>. QED
    BY <1>2, <1>3, <2>1, JoinedLists
<1>5. PICK summary : /\ DOMAIN summary = DOMAIN keys
                     /\ \A i \in DOMAIN keys : summary[i] = Summary(GroupOf(before.rows, by, keys[i]), sub, emptySum)
  <2>. DEFINE s == [i \in DOMAIN keys |-> Summary(GroupOf(before.rows, by, keys[i]), sub, emptySum)]
  <2>. WITNESS s
  <2>. QED
    OBVIOUS
<1>6. \A i \in DOMAIN keys : /\ DOMAIN summary[i] = Outputs(specs)
                             /\ Summarises(summary[i], GroupOf(before.rows, by, keys[i]), specs)
  BY <1>5, SummaryFacts
<1>7. PICK rows : rows = [i \in DOMAIN keys |-> Over(keys[i], Summary(GroupOf(before.rows, by, keys[i]), sub, emptySum))]
  OBVIOUS
<1>8. DOMAIN rows = DOMAIN keys /\ \A i \in DOMAIN keys : rows[i] = Over(keys[i], summary[i])
  BY <1>5, <1>7
<1>9. IsList(rows)
  <2>1. Len(keys) \in Nat /\ DOMAIN keys = 1 .. Len(keys)
    BY ListFacts
  <2>2. rows = [i \in 1 .. Len(keys) |-> rows[i]]
    BY <1>7, <2>1
  <2>. QED
    BY <1>8, <2>1, <2>2, ListOf
<1>10. \A i \in DOMAIN keys : keys[i] \in KeysIn(before.rows, by)
  BY DEF Range
<1>11. \A key \in KeysIn(before.rows, by) : DOMAIN key = by /\ key = [c \in by |-> key[c]]
  BY DEF KeysIn, Restrict
<1>12. ASSUME NEW i \in DOMAIN keys
       PROVE  /\ DOMAIN rows[i] = by \union Outputs(specs)
              /\ IsRow(rows[i], by \union Outputs(specs))
              /\ \A c \in by : rows[i][c] = keys[i][c]
              /\ \A c \in Outputs(specs) : rows[i][c] = summary[i][c]
              /\ Restrict(rows[i], by) = keys[i]
  <2>1. PICK key : key = keys[i]
    OBVIOUS
  <2>2. PICK s : s = summary[i]
    OBVIOUS
  <2>3. PICK row : row = rows[i]
    OBVIOUS
  <2>4. DOMAIN key = by /\ key = [c \in by |-> key[c]] /\ DOMAIN s = Outputs(specs)
    BY <1>6, <1>10, <1>11, <2>1, <2>2
  <2>5. row = Over(key, s)
    BY <1>8, <2>1, <2>2, <2>3
  <2>6. /\ DOMAIN row = by \union Outputs(specs)
        /\ row = [c \in by \union Outputs(specs) |-> row[c]]
        /\ \A c \in by : row[c] = key[c]
        /\ \A c \in Outputs(specs) : row[c] = s[c]
    BY <2>4, <2>5 DEF Over
  <2>7. Restrict(row, by) = key
    BY <2>4, <2>6 DEF Restrict
  <2>. QED
    BY <2>1, <2>2, <2>3, <2>6, <2>7 DEF IsRow
<1>13. e = Eager(cols, rows)
  BY <1>1, <1>3, <1>7 DEF Grouped
<1>14. IsFrame(e) /\ e.order = <<>> /\ e.rows = rows
  <2>1. \A i \in DOMAIN rows : IsRow(rows[i], Range(cols))
    BY <1>4, <1>8, <1>12
  <2>2. IsList(cols) /\ IsList(rows)
    BY <1>4, <1>9
  <2>3. IsFrame(Eager(cols, rows)) /\ Eager(cols, rows).order = <<>> /\ Eager(cols, rows).rows = rows
    BY ONLY <2>1, <2>2, EagerFrame
  <2>. QED
    BY ONLY <1>13, <2>3
<1>15. AreGroups(rows, before.rows, by, specs)
  <2>1. ASSUME NEW i \in DOMAIN rows
        PROVE  /\ DOMAIN rows[i] = by \union Outputs(specs)
               /\ Restrict(rows[i], by) \in KeysIn(before.rows, by)
               /\ Summarises(rows[i], GroupOf(before.rows, by, Restrict(rows[i], by)), specs)
    <3>1. Summarises(summary[i], GroupOf(before.rows, by, keys[i]), specs)
      BY <1>6, <1>8
    <3>2. \A k \in DOMAIN specs : rows[i][specs[k].out] = summary[i][specs[k].out]
      BY <1>8, <1>12 DEF Outputs
    <3>3. Summarises(rows[i], GroupOf(before.rows, by, keys[i]), specs)
      BY ONLY <3>1, <3>2 DEF Summarises
    <3>. QED
      BY <1>8, <1>10, <1>12, <3>3
  <2>2. \A i, j \in DOMAIN rows : Restrict(rows[i], by) = Restrict(rows[j], by) => i = j
    BY <1>8, <1>12
  <2>3. ASSUME NEW key \in KeysIn(before.rows, by), Null \notin Range(key)
        PROVE  \E i \in DOMAIN rows : Restrict(rows[i], by) = key
    <3>1. PICK i \in DOMAIN keys : key = keys[i]
      BY <2>3 DEF Range
    <3>. QED
      BY <1>8, <1>12, <3>1
  <2>. QED
    BY <2>1, <2>2, <2>3 DEF AreGroups
<1>. QED
  BY <1>14, <1>15

\* Every key of the rows once.
LEMMA KeysFacts ==
    ASSUME NEW f, IsFrame(f), NEW by
    PROVE  /\ IsList(KeysOf(f, by)) /\ Range(KeysOf(f, by)) = KeysIn(f.rows, by)
           /\ \A i, j \in DOMAIN KeysOf(f, by) : KeysOf(f, by)[i] = KeysOf(f, by)[j] => i = j
<1>1. PICK all : all = [i \in DOMAIN f.rows |-> Restrict(f.rows[i], by)]
  OBVIOUS
<1>2. IsList(all) /\ Range(all) = KeysIn(f.rows, by)
  <2>1. DOMAIN all = DOMAIN f.rows /\ all = [i \in DOMAIN f.rows |-> all[i]]
    BY <1>1
  <2>2. IsList(all)
    BY <2>1, MadeRows
  <2>3. Range(all) = KeysIn(f.rows, by)
    BY <1>1 DEF Range, KeysIn
  <2>. QED
    BY <2>2, <2>3
<1>3. PICK keys : keys = DistinctRows(all)
  OBVIOUS
<1>4. PICK family : family = [row \in Range(all) |-> row]
  OBVIOUS
<1>5. IsList(keys) /\ Range(keys) = Range(all) /\ Arranges(keys, family)
  BY <1>2, <1>3, <1>4, DistinctArranges
<1>6. PICK at : /\ at \in [DOMAIN keys -> DOMAIN family]
                /\ \A i, j \in DOMAIN keys : at[i] = at[j] => i = j
                /\ \A x \in DOMAIN family : \E i \in DOMAIN keys : at[i] = x
                /\ \A i \in DOMAIN keys : keys[i] = family[at[i]]
  BY ONLY <1>5, ArrangesWhat
<1>7. \A i \in DOMAIN keys : keys[i] = at[i]
  BY <1>4, <1>6
<1>8. keys = KeysOf(f, by)
  BY <1>1, <1>3 DEF KeysOf
<1>. QED
  BY <1>2, <1>5, <1>6, <1>7, <1>8

LEMMA WithoutNullsFacts ==
    ASSUME NEW keys, IsList(keys), \A i, j \in DOMAIN keys : keys[i] = keys[j] => i = j
    PROVE  LET left == WithoutNulls(keys) IN
           /\ IsList(left) /\ Range(left) = {key \in Range(keys) : Null \notin Range(key)}
           /\ \A i, j \in DOMAIN left : left[i] = left[j] => i = j
<1>. DEFINE S == {i \in DOMAIN keys : Null \notin Range(keys[i])}
<1>1. S \in SUBSET DOMAIN keys
  OBVIOUS
<1>2. PICK left : left = RowsAt(keys, S)
  OBVIOUS
<1>3. left = WithoutNulls(keys)
  BY <1>2 DEF WithoutNulls
<1>4. {keys[i] : i \in S} = {key \in Range(keys) : Null \notin Range(key)}
  <2>1. Range(keys) = {keys[i] : i \in DOMAIN keys}
    BY DEF Range
  <2>. QED
    BY <2>1
<1>. HIDE DEF S
<1>5. PICK at : LET n == Cardinality(S) IN
              /\ n \in Nat /\ IsList(left) /\ Len(left) = n /\ DOMAIN left = 1 .. n
              /\ at \in [1 .. n -> S]
              /\ \A i, j \in 1 .. n : i < j => at[i] < at[j]
              /\ \A x \in S : \E i \in 1 .. n : at[i] = x
              /\ \A i \in 1 .. n : left[i] = keys[at[i]]
  BY <1>1, <1>2, RowsAtFacts
<1>6. Range(left) = {keys[i] : i \in S}
  BY <1>1, <1>2, RangeOfRowsAt
<1>7. ASSUME NEW i \in DOMAIN left, NEW j \in DOMAIN left, left[i] = left[j] PROVE i = j
  <2>1. at[i] \in DOMAIN keys /\ at[j] \in DOMAIN keys /\ at[i] = at[j]
    BY <1>1, <1>5, <1>7
  <2>2. DOMAIN keys = 1 .. Len(keys) /\ Len(keys) \in Nat
    BY ListFacts
  <2>3. ~(i < j) /\ ~(j < i)
    BY <1>5, <2>1, <2>2
  <2>. QED
    BY <1>5, <2>3
<1>. QED
  BY <1>3, <1>5, <1>6, <1>7, <1>4

LEMMA SqlAggregateStep ==
    ASSUME NEW before, IsFrame(before), NEW by, IsFiniteSet(by), NEW specs, AreSpecs(specs),
           by \intersect Outputs(specs) = {}, NEW emptySum \in {0, Null},
           NEW g \in SqlAggregate(before, by, specs, emptySum)
    PROVE  Good(g) /\ AggregatePromise(before, by, specs, g)
<1>1. CASE by = {}
  BY <1>1, WholeStep DEF SqlAggregate
<1>2. CASE by # {}
  <2>1. PICK keys : keys = KeysOf(before, by)
    OBVIOUS
  <2>2. /\ IsList(keys) /\ Range(keys) = KeysIn(before.rows, by)
        /\ \A i, j \in DOMAIN keys : keys[i] = keys[j] => i = j
    BY <2>1, KeysFacts
  <2>3. PICK e : e = Grouped(before, by, keys, specs, emptySum)
    OBVIOUS
  <2>4. IsFrame(e) /\ e.order = <<>> /\ AreGroups(e.rows, before.rows, by, specs)
    <3>1. /\ IsList(specs) /\ Range(specs) = Range(specs) /\ Range(keys) \subseteq KeysIn(before.rows, by)
          /\ \A key \in KeysIn(before.rows, by) : Null \in Range(key) \/ key \in Range(keys)
      BY <2>2 DEF AreSpecs
    <3>. QED
      BY <2>2, <2>3, <3>1, GroupedFrame
  <2>5. g \in Unordered(e)
    BY <1>2, <2>1, <2>3 DEF SqlAggregate
  <2>6. IsFrame(g) /\ g.order = <<>> /\ Arranges(g.rows, e.rows)
    BY <2>4, <2>5, UnorderedFacts
  <2>7. AreGroups(g.rows, before.rows, by, specs)
    BY <2>4, <2>6, GroupsArranged
  <2>. QED
    BY <1>2, <2>6, <2>7, GroupsPromised, GoodUnordered
<1>. QED
  BY <1>1, <1>2

\* pandas' dictionary keeps every specification when their sources differ.
LEMMA PandasAggregateStep ==
    ASSUME NEW before, IsFrame(before), NEW by, IsFiniteSet(by), NEW specs, AreSpecs(specs),
           by \intersect Outputs(specs) = {}, \A i, j \in DOMAIN specs : i # j => specs[i].src # specs[j].src,
           NEW g \in PandasAggregate(before, by, specs)
    PROVE  Good(g) /\ AggregatePromise(before, by, specs, g)
<1>1. CASE by = {}
  BY <1>1, WholeStep DEF PandasAggregate
<1>2. CASE by # {}
  <2>1. PICK all : all = KeysOf(before, by)
    OBVIOUS
  <2>2. /\ IsList(all) /\ Range(all) = KeysIn(before.rows, by)
        /\ \A i, j \in DOMAIN all : all[i] = all[j] => i = j
    BY <2>1, KeysFacts
  <2>3. PICK keys : keys = WithoutNulls(all)
    OBVIOUS
  <2>4. /\ IsList(keys) /\ Range(keys) = {key \in Range(all) : Null \notin Range(key)}
        /\ \A i, j \in DOMAIN keys : keys[i] = keys[j] => i = j
    BY <2>2, <2>3, WithoutNullsFacts
  <2>5. PICK sub : sub = LastPerSource(specs)
    OBVIOUS
  <2>6. IsList(sub) /\ Range(sub) = Range(specs)
    <3>. DEFINE S == {i \in DOMAIN specs : \A j \in DOMAIN specs : j > i => specs[j].src # specs[i].src}
    <3>1. Len(specs) \in Nat /\ DOMAIN specs = 1 .. Len(specs) /\ IsList(specs)
      BY ListFacts DEF AreSpecs
    <3>2. S = DOMAIN specs
      BY <3>1
    <3>3. sub = RowsAt(specs, DOMAIN specs)
      BY <2>5, <3>2 DEF LastPerSource
    <3>4. IsList(sub) /\ Range(sub) = {specs[i] : i \in DOMAIN specs}
      BY <3>1, <3>3, RangeOfRowsAt
    <3>. QED
      BY <3>4 DEF Range
  <2>7. g = Grouped(before, by, keys, sub, 0)
    BY <1>2, <2>1, <2>3, <2>5 DEF PandasAggregate
  <2>8. IsFrame(g) /\ g.order = <<>> /\ AreGroups(g.rows, before.rows, by, specs)
    <3>1. /\ Range(keys) \subseteq KeysIn(before.rows, by)
          /\ \A key \in KeysIn(before.rows, by) : Null \in Range(key) \/ key \in Range(keys)
      BY <2>2, <2>4
    <3>2. 0 \in {0, Null}
      OBVIOUS
    <3>. QED
      BY <2>4, <2>6, <2>7, <3>1, <3>2, GroupedFrame
  <2>. QED
    BY <1>2, <2>8, GroupsPromised, GoodUnordered
<1>. QED
  BY <1>1, <1>2
--------------------------------------------------------------------------------
(* The frame is good in every state, and so every operation keeps its promise. *)

EnginesInv == engine \in Engines /\ Good(frame)
Kept == call' # <<>> /\ ~call'.failed => Promised(call', frame, frame')

\* What a call is promised, by the operation.
LEMMA Promises ==
    ASSUME NEW c, NEW before, NEW after
    PROVE  /\ c.op = "scan_entity" => (Promised(c, before, after) <=> ScanPromise(c.args.source, after))
           /\ c.op = "filter" => (Promised(c, before, after) <=> FilterPromise(before, c.args.keep, after))
           /\ c.op = "join" => (Promised(c, before, after) <=>
                                    JoinPromise(before, c.args.right, c.args.on, c.args.how, after))
           /\ c.op = "rename" => (Promised(c, before, after) <=> RenamePromise(before, c.args.old, c.args.new, after))
           /\ c.op = "concat" => (Promised(c, before, after) <=> ConcatPromise(before, c.args.other, after))
           /\ c.op = "distinct" => (Promised(c, before, after) <=> DistinctPromise(before, after))
           /\ c.op = "assign_column" => (Promised(c, before, after) <=>
                                             AssignPromise(before, c.args.name, c.args.value, after))
           /\ c.op = "drop_columns" => (Promised(c, before, after) <=> DropPromise(before, c.args.cols, after))
           /\ c.op = "aggregate" => (Promised(c, before, after) <=>
                                         AggregatePromise(before, c.args.by, c.args.specs, after))
           /\ c.op = "sort" => (Promised(c, before, after) <=>
                                    SortPromise(before, c.args.by, c.args.ascending, after))
           /\ c.op = "limit" => (Promised(c, before, after) <=>
                                     LimitPromise(before, c.args.n, c.args.order, after))
           /\ c.op = "skip" => (Promised(c, before, after) <=>
                                    SkipPromise(before, c.args.n, c.args.order, after))
BY DEF Promised

\* What returns is one of the results; what raises leaves the frame.
Returned(op, args, results) ==
    /\ engine' = engine /\ call'.op = op /\ call'.args = args
    /\ ~call'.failed => frame' \in results
    /\ call'.failed => frame' = frame

LEMMA AssumedEngines ==
    /\ \A f \in FirstFrames \union Others : IsFrame(f)
    /\ \A f \in FirstFrames : f.order = <<>>
    /\ Engines \subseteq {"pandas", "polars", "duckdb", "spark"} /\ RowCounts \subseteq Nat
    /\ \A by \in GroupKeys : IsFiniteSet(by)
    /\ \A specs \in Aggregations :
         AreSpecs(specs) /\ ("pandas" \in Engines => \A i, j \in DOMAIN specs : i # j => specs[i].src # specs[j].src)
BY BackendsAssumption DEF AreSpecs, IsList

LEMMA ScanEntityKept ==
    ASSUME EnginesInv, ScanEntity
    PROVE  EnginesInv' /\ Kept
<1>1. Good(frame) /\ IsFrame(frame) /\ engine \in Engines
  BY DEF EnginesInv, Good
<1>2. PICK source \in Others :
        /\ IdColumn \in Columns(source)
        /\ Outcome("scan_entity", [source |-> source],
             {Eager(<<IdColumn>>, [i \in DOMAIN source.rows |-> Restrict(source.rows[i], {IdColumn})])})
  BY DEF ScanEntity
<1>3. PICK results : results =
             {Eager(<<IdColumn>>, [i \in DOMAIN source.rows |-> Restrict(source.rows[i], {IdColumn})])}
  OBVIOUS
<1>4. PICK args : args = [source |-> source]
  OBVIOUS
<1>5. Outcome("scan_entity", args, results)
  BY <1>2, <1>3, <1>4
<1>6. Returned("scan_entity", args, results)
  BY ONLY <1>5 DEF Outcome, Returned
<1>7. ASSUME ~call'.failed PROVE Good(frame') /\ ScanPromise(source, frame')
  <2>1. IsFrame(source)
    BY AssumedEngines
  <2>. QED
    BY <1>2, <1>3, <1>6, <1>7, <2>1, ScanStep DEF Returned
<1>8. ASSUME ~call'.failed PROVE Promised(call', frame, frame')
  <2>1. call'.op = "scan_entity" /\ call'.args = [source |-> source]
    BY <1>4, <1>6 DEF Returned
  <2>. QED
    BY <1>7, <1>8, <2>1, Promises
<1>. QED
  BY <1>1, <1>6, <1>7, <1>8 DEF Returned, EnginesInv, Kept

LEMMA FilterKept ==
    ASSUME EnginesInv, Filter
    PROVE  EnginesInv' /\ Kept
<1>1. Good(frame) /\ IsFrame(frame) /\ engine \in Engines
  BY DEF EnginesInv, Good
<1>2. PICK c, v :
        /\ Outcome("filter", [keep |-> {row \in Range(frame.rows) : row[c] = v}],
             {WithRows(f, RowsAt(f.rows, {i \in DOMAIN f.rows : f.rows[i][c] = v})) : f \in ToDf(frame)})
  BY ZenonT(60) DEF Filter
<1>3. PICK results : results =
             {WithRows(f, RowsAt(f.rows, {i \in DOMAIN f.rows : f.rows[i][c] = v})) : f \in ToDf(frame)}
  OBVIOUS
<1>4. PICK keep : keep = {row \in Range(frame.rows) : row[c] = v}
  OBVIOUS
<1>5. PICK args : args = [keep |-> keep]
  OBVIOUS
<1>6. Outcome("filter", args, results)
  BY <1>2, <1>3, <1>5, <1>4
<1>7. Returned("filter", args, results)
  BY ONLY <1>6 DEF Outcome, Returned
<1>8. ASSUME ~call'.failed PROVE Good(frame') /\ FilterPromise(frame, keep, frame')
  <2>1. PICK f \in ToDf(frame) : frame' = WithRows(f, RowsAt(f.rows, {i \in DOMAIN f.rows : f.rows[i][c] = v}))
    BY <1>3, <1>7, <1>8 DEF Returned
  <2>2. PICK after : after = frame'
    OBVIOUS
  <2>3. after = Masked(f, c, v) /\ keep = With(frame.rows, c, v)
    BY <1>4, <2>1, <2>2 DEF Masked, With
  <2>4. Good(after) /\ FilterPromise(frame, keep, after)
    BY ONLY <1>1, <2>3, FilterStep
  <2>. QED
    BY <2>2, <2>4
<1>9. ASSUME ~call'.failed PROVE Promised(call', frame, frame')
  <2>1. call'.op = "filter" /\ call'.args = [keep |-> keep]
    BY <1>5, <1>7 DEF Returned
  <2>. QED
    BY <1>8, <1>9, <2>1, Promises
<1>. QED
  BY <1>1, <1>7, <1>8, <1>9 DEF Returned, EnginesInv, Kept

LEMMA RenameKept ==
    ASSUME EnginesInv, Rename
    PROVE  EnginesInv' /\ Kept
<1>1. Good(frame) /\ IsFrame(frame) /\ engine \in Engines
  BY DEF EnginesInv, Good
<1>2. PICK renaming \in Renamings :
        /\ renaming[1] \in Columns(frame)
        /\ renaming[2] \notin Columns(frame)
        /\ Outcome("rename", [old |-> renaming[1], new |-> renaming[2]],
             {Renamed(frame, renaming[1], renaming[2])})
  BY DEF Rename
<1>3. PICK results : results =
             {Renamed(frame, renaming[1], renaming[2])}
  OBVIOUS
<1>4. PICK args : args = [old |-> renaming[1], new |-> renaming[2]]
  OBVIOUS
<1>5. Outcome("rename", args, results)
  BY <1>2, <1>3, <1>4
<1>6. Returned("rename", args, results)
  BY ONLY <1>5 DEF Outcome, Returned
<1>7. ASSUME ~call'.failed PROVE Good(frame') /\ RenamePromise(frame, renaming[1], renaming[2], frame')
  BY <1>1, <1>2, <1>3, <1>6, <1>7, RenameStep DEF Returned
<1>8. ASSUME ~call'.failed PROVE Promised(call', frame, frame')
  <2>1. call'.op = "rename" /\ call'.args = [old |-> renaming[1], new |-> renaming[2]]
    BY <1>4, <1>6 DEF Returned
  <2>. QED
    BY <1>7, <1>8, <2>1, Promises
<1>. QED
  BY <1>1, <1>6, <1>7, <1>8 DEF Returned, EnginesInv, Kept

LEMMA DistinctKept ==
    ASSUME EnginesInv, Distinct
    PROVE  EnginesInv' /\ Kept
<1>1. Good(frame) /\ IsFrame(frame) /\ engine \in Engines
  BY DEF EnginesInv, Good
<1>2. Outcome("distinct", <<>>,
             CASE engine = "pandas" -> PandasDistinct(frame)
               [] engine = "polars" -> PolarsDistinct(frame)
               [] engine = "duckdb" -> DuckDBDistinct(frame)
               [] engine = "spark" -> SparkDistinct(frame))
  BY DEF Distinct
<1>3. PICK results : results =
             CASE engine = "pandas" -> PandasDistinct(frame)
               [] engine = "polars" -> PolarsDistinct(frame)
               [] engine = "duckdb" -> DuckDBDistinct(frame)
               [] engine = "spark" -> SparkDistinct(frame)
  OBVIOUS
<1>4. PICK args : args = <<>>
  OBVIOUS
<1>5. Outcome("distinct", args, results)
  BY <1>2, <1>3, <1>4
<1>6. Returned("distinct", args, results)
  BY ONLY <1>5 DEF Outcome, Returned
<1>7. ASSUME ~call'.failed PROVE Good(frame') /\ DistinctPromise(frame, frame')
  <2>1. engine \in {"pandas", "polars", "duckdb", "spark"}
    BY <1>1, AssumedEngines
  <2>2. \/ frame' \in Unordered(Eager(frame.cols, DistinctRows(frame.rows)))
        \/ frame' = Eager(frame.cols, DistinctRows(frame.rows))
        \/ frame' = Lazy(frame.cols, DistinctRows(frame.rows))
    BY <1>3, <1>6, <1>7, <2>1 DEF Returned, PandasDistinct, PolarsDistinct, DuckDBDistinct, SparkDistinct
  <2>. QED
    BY <1>1, <2>2, DistinctStep
<1>8. ASSUME ~call'.failed PROVE Promised(call', frame, frame')
  <2>1. call'.op = "distinct" /\ call'.args = <<>>
    BY <1>4, <1>6 DEF Returned
  <2>. QED
    BY <1>7, <1>8, <2>1, Promises
<1>. QED
  BY <1>1, <1>6, <1>7, <1>8 DEF Returned, EnginesInv, Kept

LEMMA AssignColumnKept ==
    ASSUME EnginesInv, AssignColumn
    PROVE  EnginesInv' /\ Kept
<1>1. Good(frame) /\ IsFrame(frame) /\ engine \in Engines
  BY DEF EnginesInv, Good
<1>2. PICK name \in {r[2] : r \in Renamings} :
        /\ Outcome("assign_column", [name |-> name, value |-> 1],
             {Eager(IF name \in Columns(f) THEN f.cols ELSE Append(f.cols, name),
                    [i \in DOMAIN f.rows |-> Put(f.rows[i], name, 1)]) : f \in ToDf(frame)})
  BY DEF AssignColumn
<1>3. PICK results : results =
             {Eager(IF name \in Columns(f) THEN f.cols ELSE Append(f.cols, name),
                    [i \in DOMAIN f.rows |-> Put(f.rows[i], name, 1)]) : f \in ToDf(frame)}
  OBVIOUS
<1>4. PICK args : args = [name |-> name, value |-> 1]
  OBVIOUS
<1>5. Outcome("assign_column", args, results)
  BY <1>2, <1>3, <1>4
<1>6. Returned("assign_column", args, results)
  BY ONLY <1>5 DEF Outcome, Returned
<1>7. ASSUME ~call'.failed PROVE Good(frame') /\ AssignPromise(frame, name, 1, frame')
  <2>1. PICK f \in ToDf(frame) : frame' = Eager(IF name \in Columns(f) THEN f.cols ELSE Append(f.cols, name),
                                               [i \in DOMAIN f.rows |-> Put(f.rows[i], name, 1)])
    BY <1>3, <1>6, <1>7 DEF Returned
  <2>. QED
    BY <1>1, <2>1, AssignStep
<1>8. ASSUME ~call'.failed PROVE Promised(call', frame, frame')
  <2>1. call'.op = "assign_column" /\ call'.args = [name |-> name, value |-> 1]
    BY <1>4, <1>6 DEF Returned
  <2>. QED
    BY <1>7, <1>8, <2>1, Promises
<1>. QED
  BY <1>1, <1>6, <1>7, <1>8 DEF Returned, EnginesInv, Kept

LEMMA DropColumnsKept ==
    ASSUME EnginesInv, DropColumns
    PROVE  EnginesInv' /\ Kept
<1>1. Good(frame) /\ IsFrame(frame) /\ engine \in Engines
  BY DEF EnginesInv, Good
<1>2. PICK dropped \in JoinKeys :
        /\ Outcome("drop_columns", [cols |-> dropped],
             {[f EXCEPT !.cols = Without(f.cols, dropped),
                        !.rows = [i \in DOMAIN f.rows |-> Restrict(f.rows[i], Columns(f) \ dropped)],
                        !.order = <<>>] : f \in ToDf(frame)})
  BY DEF DropColumns
<1>3. PICK results : results =
             {[f EXCEPT !.cols = Without(f.cols, dropped),
                        !.rows = [i \in DOMAIN f.rows |-> Restrict(f.rows[i], Columns(f) \ dropped)],
                        !.order = <<>>] : f \in ToDf(frame)}
  OBVIOUS
<1>4. PICK args : args = [cols |-> dropped]
  OBVIOUS
<1>5. Outcome("drop_columns", args, results)
  BY <1>2, <1>3, <1>4
<1>6. Returned("drop_columns", args, results)
  BY ONLY <1>5 DEF Outcome, Returned
<1>7. ASSUME ~call'.failed PROVE Good(frame') /\ DropPromise(frame, dropped, frame')
  <2>1. PICK f \in ToDf(frame) :
             frame' = [f EXCEPT !.cols = Without(f.cols, dropped),
                                !.rows = [i \in DOMAIN f.rows |-> Restrict(f.rows[i], Columns(f) \ dropped)],
                                !.order = <<>>]
    BY <1>3, <1>6, <1>7 DEF Returned
  <2>2. PICK after : after = frame'
    OBVIOUS
  <2>3. after = Narrowed(f, dropped)
    BY <2>1, <2>2 DEF Narrowed
  <2>4. Good(after) /\ DropPromise(frame, dropped, after)
    BY ONLY <1>1, <2>3, DropStep
  <2>. QED
    BY <2>2, <2>4
<1>8. ASSUME ~call'.failed PROVE Promised(call', frame, frame')
  <2>1. call'.op = "drop_columns" /\ call'.args = [cols |-> dropped]
    BY <1>4, <1>6 DEF Returned
  <2>. QED
    BY <1>7, <1>8, <2>1, Promises
<1>. QED
  BY <1>1, <1>6, <1>7, <1>8 DEF Returned, EnginesInv, Kept

LEMMA SortKept ==
    ASSUME EnginesInv, Sort
    PROVE  EnginesInv' /\ Kept
<1>1. Good(frame) /\ IsFrame(frame) /\ engine \in Engines
  BY DEF EnginesInv, Good
<1>2. PICK c \in Columns(frame), ascending \in BOOLEAN :
        /\ Outcome("sort", [by |-> c, ascending |-> ascending],
             {[frame EXCEPT !.rows = rows, !.lazy = engine = "duckdb", !.order = <<c, ascending>>] :
                  rows \in Ordered(frame.rows, c, ascending)})
  BY DEF Sort
<1>3. PICK results : results =
             {[frame EXCEPT !.rows = rows, !.lazy = engine = "duckdb", !.order = <<c, ascending>>] :
                  rows \in Ordered(frame.rows, c, ascending)}
  OBVIOUS
<1>4. PICK args : args = [by |-> c, ascending |-> ascending]
  OBVIOUS
<1>5. Outcome("sort", args, results)
  BY <1>2, <1>3, <1>4
<1>6. Returned("sort", args, results)
  BY ONLY <1>5 DEF Outcome, Returned
<1>7. ASSUME ~call'.failed PROVE Good(frame') /\ SortPromise(frame, c, ascending, frame')
  <2>1. PICK rows \in Ordered(frame.rows, c, ascending) :
             frame' = [frame EXCEPT !.rows = rows, !.lazy = engine = "duckdb", !.order = <<c, ascending>>]
    BY <1>3, <1>6, <1>7 DEF Returned
  <2>2. PICK lazy \in BOOLEAN : lazy = (engine = "duckdb")
    OBVIOUS
  <2>3. frame' = [frame EXCEPT !.rows = rows, !.lazy = lazy, !.order = <<c, ascending>>]
    BY <2>1, <2>2
  <2>. QED
    BY <1>1, <2>3, SortStep
<1>8. ASSUME ~call'.failed PROVE Promised(call', frame, frame')
  <2>1. call'.op = "sort" /\ call'.args = [by |-> c, ascending |-> ascending]
    BY <1>4, <1>6 DEF Returned
  <2>. QED
    BY <1>7, <1>8, <2>1, Promises
<1>. QED
  BY <1>1, <1>6, <1>7, <1>8 DEF Returned, EnginesInv, Kept

LEMMA LimitKept ==
    ASSUME EnginesInv, Limit
    PROVE  EnginesInv' /\ Kept
<1>1. Good(frame) /\ IsFrame(frame) /\ engine \in Engines
  BY DEF EnginesInv, Good
<1>2. PICK n \in RowCounts :
        /\ Outcome("limit", [n |-> n, order |-> frame.order],
             {WithRows(f, SubSeq(f.rows, 1, FirstRows(n, f.rows))) : f \in ToDf(frame)})
  BY DEF Limit
<1>3. PICK results : results =
             {WithRows(f, SubSeq(f.rows, 1, FirstRows(n, f.rows))) : f \in ToDf(frame)}
  OBVIOUS
<1>4. PICK args : args = [n |-> n, order |-> frame.order]
  OBVIOUS
<1>5. Outcome("limit", args, results)
  BY <1>2, <1>3, <1>4
<1>6. Returned("limit", args, results)
  BY ONLY <1>5 DEF Outcome, Returned
<1>7. ASSUME ~call'.failed PROVE Good(frame') /\ LimitPromise(frame, n, frame.order, frame')
  <2>1. PICK f \in ToDf(frame) : frame' = WithRows(f, SubSeq(f.rows, 1, FirstRows(n, f.rows)))
    BY <1>3, <1>6, <1>7 DEF Returned
  <2>2. n \in Nat
    BY AssumedEngines
  <2>. QED
    BY <1>1, <2>1, <2>2, LimitStep
<1>8. ASSUME ~call'.failed PROVE Promised(call', frame, frame')
  <2>1. call'.op = "limit" /\ call'.args = [n |-> n, order |-> frame.order]
    BY <1>4, <1>6 DEF Returned
  <2>. QED
    BY <1>7, <1>8, <2>1, Promises
<1>. QED
  BY <1>1, <1>6, <1>7, <1>8 DEF Returned, EnginesInv, Kept

LEMMA SkipKept ==
    ASSUME EnginesInv, Skip
    PROVE  EnginesInv' /\ Kept
<1>1. Good(frame) /\ IsFrame(frame) /\ engine \in Engines
  BY DEF EnginesInv, Good
<1>2. PICK n \in RowCounts :
        /\ Outcome("skip", [n |-> n, order |-> frame.order],
             {WithRows(f, SubSeq(f.rows, n + 1, Len(f.rows))) : f \in ToDf(frame)})
  BY DEF Skip
<1>3. PICK results : results =
             {WithRows(f, SubSeq(f.rows, n + 1, Len(f.rows))) : f \in ToDf(frame)}
  OBVIOUS
<1>4. PICK args : args = [n |-> n, order |-> frame.order]
  OBVIOUS
<1>5. Outcome("skip", args, results)
  BY <1>2, <1>3, <1>4
<1>6. Returned("skip", args, results)
  BY ONLY <1>5 DEF Outcome, Returned
<1>7. ASSUME ~call'.failed PROVE Good(frame') /\ SkipPromise(frame, n, frame.order, frame')
  <2>1. PICK f \in ToDf(frame) : frame' = WithRows(f, SubSeq(f.rows, n + 1, Len(f.rows)))
    BY <1>3, <1>6, <1>7 DEF Returned
  <2>2. n \in Nat
    BY AssumedEngines
  <2>. QED
    BY <1>1, <2>1, <2>2, SkipStep
<1>8. ASSUME ~call'.failed PROVE Promised(call', frame, frame')
  <2>1. call'.op = "skip" /\ call'.args = [n |-> n, order |-> frame.order]
    BY <1>4, <1>6 DEF Returned
  <2>. QED
    BY <1>7, <1>8, <2>1, Promises
<1>. QED
  BY <1>1, <1>6, <1>7, <1>8 DEF Returned, EnginesInv, Kept

LEMMA ConcatKept ==
    ASSUME EnginesInv, Concat
    PROVE  EnginesInv' /\ Kept
<1>1. Good(frame) /\ IsFrame(frame) /\ engine \in Engines
  BY DEF EnginesInv, Good
<1>2. PICK other \in Others :
        /\ Outcome("concat", [other |-> other],
             CASE engine = "duckdb" -> DuckDBConcat(frame, other)
               [] engine = "polars" -> PolarsConcat(frame, other)
               [] OTHER -> {ConcatByName(frame, other)})
  BY DEF Concat
<1>3. PICK results : results =
             CASE engine = "duckdb" -> DuckDBConcat(frame, other)
               [] engine = "polars" -> PolarsConcat(frame, other)
               [] OTHER -> {ConcatByName(frame, other)}
  OBVIOUS
<1>4. PICK args : args = [other |-> other]
  OBVIOUS
<1>5. Outcome("concat", args, results)
  BY <1>2, <1>3, <1>4
<1>6. Returned("concat", args, results)
  BY ONLY <1>5 DEF Outcome, Returned
<1>7. ASSUME ~call'.failed PROVE Good(frame') /\ ConcatPromise(frame, other, frame')
  <2>1. IsFrame(other) /\ Arranges(frame.rows, frame.rows) /\ Arranges(other.rows, other.rows)
    BY AssumedEngines, ArrangesItself
  <2>2. \/ frame' = ConcatByName(frame, other)
        \/ frame.cols = other.cols /\ frame' = UnionByPosition(frame, other)
        \/ \E x \in ToDf(frame), y \in ToDf(other) : frame' = ConcatByName(x, y)
    <3>1. CASE engine = "duckdb"
      BY <1>3, <1>6, <1>7, <3>1 DEF Returned, DuckDBConcat, Compatible
    <3>2. CASE engine # "duckdb"
      BY <1>3, <1>6, <1>7, <3>2 DEF Returned, PolarsConcat
    <3>. QED
      BY <3>1, <3>2
  <2>3. CASE frame' = ConcatByName(frame, other)
    BY <1>1, <2>1, <2>3, ConcatStep
  <2>4. CASE frame.cols = other.cols /\ frame' = UnionByPosition(frame, other)
    BY <1>1, <2>1, <2>4, UnionStep
  <2>5. CASE \E x \in ToDf(frame), y \in ToDf(other) : frame' = ConcatByName(x, y)
    <3>1. PICK x \in ToDf(frame), y \in ToDf(other) : frame' = ConcatByName(x, y)
      BY <2>5
    <3>2. /\ IsFrame(x) /\ x.cols = frame.cols /\ Arranges(x.rows, frame.rows)
          /\ IsFrame(y) /\ y.cols = other.cols /\ Arranges(y.rows, other.rows)
      BY <1>1, <2>1, ToDfFacts
    <3>. QED
      BY <1>1, <2>1, <3>1, <3>2, ConcatStep
  <2>. QED
    BY <2>2, <2>3, <2>4, <2>5
<1>8. ASSUME ~call'.failed PROVE Promised(call', frame, frame')
  <2>1. call'.op = "concat" /\ call'.args = [other |-> other]
    BY <1>4, <1>6 DEF Returned
  <2>. QED
    BY <1>7, <1>8, <2>1, Promises
<1>. QED
  BY <1>1, <1>6, <1>7, <1>8 DEF Returned, EnginesInv, Kept

LEMMA JoinKept ==
    ASSUME EnginesInv, Join
    PROVE  EnginesInv' /\ Kept
<1>1. Good(frame) /\ IsFrame(frame) /\ engine \in Engines
  BY DEF EnginesInv, Good
<1>2. PICK right, on, how, strategy :
        /\ right \in Others
        /\ Columns(frame) \intersect Columns(right) = on
        /\ Outcome("join", [right |-> right, on |-> on, how |-> how],
             CASE engine = "pandas" -> PandasJoin(frame, right, on, how, strategy)
               [] engine = "polars" -> PolarsJoin(frame, right, on, how)
               [] engine = "duckdb" -> DuckDBJoin(frame, right, on, how)
               [] engine = "spark" -> SparkJoin(frame, right, on, how))
  BY ZenonT(60) DEF Join
<1>3. PICK results : results =
             CASE engine = "pandas" -> PandasJoin(frame, right, on, how, strategy)
               [] engine = "polars" -> PolarsJoin(frame, right, on, how)
               [] engine = "duckdb" -> DuckDBJoin(frame, right, on, how)
               [] engine = "spark" -> SparkJoin(frame, right, on, how)
  OBVIOUS
<1>4. PICK args : args = [right |-> right, on |-> on, how |-> how]
  OBVIOUS
<1>5. Outcome("join", args, results)
  BY <1>2, <1>3, <1>4
<1>6. Returned("join", args, results)
  BY ONLY <1>5 DEF Outcome, Returned
<1>7. ASSUME ~call'.failed PROVE Good(frame') /\ JoinPromise(frame, right, on, how, frame')
  <2>1. IsFrame(right) /\ engine \in {"pandas", "polars", "duckdb", "spark"}
    BY <1>1, <1>2, AssumedEngines
  <2>2. \/ \E nm \in BOOLEAN :
             \/ frame' = JoinWith(frame, right, on, how, nm)
             \/ frame' = Lazy(JoinedCols(frame, right, on), JoinRows(frame, right, on, how, nm))
             \/ frame' \in Unordered(JoinWith(frame, right, on, how, nm))
        \/ how = "inner" /\ frame' = JoinWith(right, frame, on, how, TRUE)
    <3>1. CASE engine = "pandas"
      BY <1>3, <1>6, <1>7, <3>1 DEF Returned, PandasJoin
    <3>2. CASE engine = "polars"
      BY <1>3, <1>6, <1>7, <3>2 DEF Returned, PolarsJoin
    <3>3. CASE engine = "duckdb"
      BY <1>3, <1>6, <1>7, <3>3 DEF Returned, DuckDBJoin, JoinLazy
    <3>4. CASE engine = "spark"
      BY <1>3, <1>6, <1>7, <3>4 DEF Returned, SparkJoin
    <3>. QED
      BY <2>1, <3>1, <3>2, <3>3, <3>4
  <2>3. on = Columns(frame) \intersect Columns(right)
    BY <1>2
  <2>. QED
    BY ONLY <1>1, <2>1, <2>2, <2>3, JoinStep
<1>8. ASSUME ~call'.failed PROVE Promised(call', frame, frame')
  <2>1. call'.op = "join" /\ call'.args = [right |-> right, on |-> on, how |-> how]
    BY <1>4, <1>6 DEF Returned
  <2>. QED
    BY <1>7, <1>8, <2>1, Promises
<1>. QED
  BY <1>1, <1>6, <1>7, <1>8 DEF Returned, EnginesInv, Kept

LEMMA AggregateKept ==
    ASSUME EnginesInv, Aggregate
    PROVE  EnginesInv' /\ Kept
<1>1. Good(frame) /\ IsFrame(frame) /\ engine \in Engines
  BY DEF EnginesInv, Good
<1>2. PICK by \in GroupKeys, specs \in Aggregations :
        /\ by \intersect Outputs(specs) = {}
        /\ Outcome("aggregate", [by |-> by, specs |-> specs],
             CASE engine = "pandas" -> PandasAggregate(frame, by, specs)
               [] engine = "polars" -> SqlAggregate(frame, by, specs, 0)
               [] engine \in {"duckdb", "spark"} -> SqlAggregate(frame, by, specs, Null))
  BY DEF Aggregate
<1>3. PICK results : results =
             CASE engine = "pandas" -> PandasAggregate(frame, by, specs)
               [] engine = "polars" -> SqlAggregate(frame, by, specs, 0)
               [] engine \in {"duckdb", "spark"} -> SqlAggregate(frame, by, specs, Null)
  OBVIOUS
<1>4. PICK args : args = [by |-> by, specs |-> specs]
  OBVIOUS
<1>5. Outcome("aggregate", args, results)
  BY <1>2, <1>3, <1>4
<1>6. Returned("aggregate", args, results)
  BY ONLY <1>5 DEF Outcome, Returned
<1>7. ASSUME ~call'.failed PROVE Good(frame') /\ AggregatePromise(frame, by, specs, frame')
  <2>1. /\ IsFiniteSet(by) /\ AreSpecs(specs) /\ engine \in {"pandas", "polars", "duckdb", "spark"}
        /\ "pandas" \in Engines => \A i, j \in DOMAIN specs : i # j => specs[i].src # specs[j].src
    BY <1>1, AssumedEngines
  <2>2. CASE engine = "pandas"
    <3>1. frame' \in PandasAggregate(frame, by, specs)
      BY <1>3, <1>6, <1>7, <2>2 DEF Returned
    <3>. QED
      BY <1>1, <1>2, <2>1, <2>2, <3>1, PandasAggregateStep
  <2>3. CASE engine # "pandas"
    <3>1. PICK emptySum \in {0, Null} : frame' \in SqlAggregate(frame, by, specs, emptySum)
      BY <1>3, <1>6, <1>7, <2>1, <2>3 DEF Returned
    <3>. QED
      BY <1>1, <1>2, <2>1, <3>1, SqlAggregateStep
  <2>. QED
    BY <2>2, <2>3
<1>8. ASSUME ~call'.failed PROVE Promised(call', frame, frame')
  <2>1. call'.op = "aggregate" /\ call'.args = [by |-> by, specs |-> specs]
    BY <1>4, <1>6 DEF Returned
  <2>. QED
    BY <1>7, <1>8, <2>1, Promises
<1>. QED
  BY <1>1, <1>6, <1>7, <1>8 DEF Returned, EnginesInv, Kept

LEMMA EnginesStep ==
    ASSUME EnginesInv, BackendsNext
    PROVE  EnginesInv' /\ Kept
BY ScanEntityKept, FilterKept, JoinKept, RenameKept, ConcatKept, DistinctKept,
   AssignColumnKept, DropColumnsKept, AggregateKept, SortKept, LimitKept, SkipKept DEF BackendsNext

LEMMA EnginesInvAlways == BackendsSpec => []EnginesInv
<1>1. BackendsInit => EnginesInv
  BY AssumedEngines, GoodUnordered DEF BackendsInit, EnginesInv
<1>2. EnginesInv /\ [BackendsNext]_backendVars => EnginesInv'
  <2>. SUFFICES ASSUME EnginesInv, [BackendsNext]_backendVars PROVE EnginesInv'
    OBVIOUS
  <2>1. CASE BackendsNext
    BY <2>1, EnginesStep
  <2>2. CASE UNCHANGED backendVars
    BY <2>2 DEF EnginesInv, backendVars
  <2>. QED
    BY <2>1, <2>2
<1>. QED
  BY <1>1, <1>2, PTL DEF BackendsSpec

\* Whichever of the four engines runs it, whatever the join strategy and
\* whether DuckDB's frame was lazy, an operation of BackendEngine
\* (backend_engine.py) that returns has the rows the protocol promises of the
\* rows it was given: for any frames, keys, aggregations and bounds.
THEOREM EnginesAgreeCorrect == BackendsSpec => EnginesAgree
<1>1. EnginesInv /\ [BackendsNext]_backendVars => [Kept]_backendVars
  BY EnginesStep
<1>. QED
  BY <1>1, EnginesInvAlways, PTL DEF BackendsSpec, EnginesAgree, Kept
================================================================================
