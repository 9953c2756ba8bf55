-------------------------- MODULE GraphIndex_proofs --------------------------
(***************************************************************************)
(* Theorems about GraphIndex, for every graph and any number of queries,   *)
(* committing threads and lookups: an index answers what its table says,   *)
(* and no index outlives the commits that it has not seen.                 *)
(***************************************************************************)
EXTENDS GraphIndex, TransactionalContext_proofs, DataInduction, FiniteSetTheorems

(* Sorted identifiers. *)

\* Every position up to the number of identifiers has its identifier, every
\* identifier its position, and later positions have larger ones.
LEMMA SortedOrder ==
    ASSUME NEW S \in SUBSET Int, IsFiniteSet(S)
    PROVE  LET n == Cardinality(S)
               s == Sorted(S)
           IN  /\ n \in Nat
               /\ s \in [1..n -> S]
               /\ \A i, j \in 1..n : i < j => s[i] < s[j]
               /\ \A x \in S : \E i \in 1..n : s[i] = x
<1>. DEFINE n == Cardinality(S)
            rank == [x \in S |-> Cardinality({y \in S : y < x})]
            Rank(x) == Cardinality(Before(S, x))
            s == Sorted(S)
<1>0. \A x \in S : Rank(x) = rank[x]
  BY DEF Before
<1>1. /\ n \in Nat
      /\ rank \in [S -> 0..(n - 1)]
      /\ \A x, y \in S : x < y => rank[x] < rank[y]
      /\ \A x, y \in S : rank[x] = rank[y] => x = y
      /\ \A i \in 1..n : \E x \in S : rank[x] = i - 1
  BY RanksEnumerate
<1>. HIDE DEF rank
<1>2. \A x \in S : Rank(x) \in Nat /\ Rank(x) < n
  BY <1>0, <1>1
<1>3. \A x, y \in S : x < y => Rank(x) < Rank(y)
  BY <1>0, <1>1
<1>4. \A x, y \in S : Rank(x) = Rank(y) => x = y
  BY <1>0, <1>1
<1>8. \A i \in 1..n : \E x \in S : Rank(x) = i - 1
  BY <1>0, <1>1
<1>. HIDE DEF Rank
<1>9. s \in [1..n -> S] /\ \A i \in 1..n : Rank(s[i]) = i - 1
  <2>1. s = [i \in 1..n |-> CHOOSE x \in S : Rank(x) = i - 1]
    BY DEF Sorted, Rank
  <2>2. ASSUME NEW i \in 1..n
        PROVE  (CHOOSE x \in S : Rank(x) = i - 1) \in S /\ Rank(CHOOSE x \in S : Rank(x) = i - 1) = i - 1
    BY <1>8
  <2>. QED
    BY <2>1, <2>2
<1>. HIDE DEF s, n
<1>10. \A i, j \in 1..n : i < j => s[i] < s[j]
  <2>. SUFFICES ASSUME NEW i \in 1..n, NEW j \in 1..n, i < j PROVE s[i] < s[j]
    OBVIOUS
  <2>1. s[i] \in S /\ s[j] \in S /\ s[i] \in Int /\ s[j] \in Int
    BY <1>9
  <2>2. i \in Int /\ j \in Int /\ i - 1 < j - 1
    BY <1>1
  <2>3. Rank(s[i]) = i - 1 /\ Rank(s[j]) = j - 1
    BY <1>9
  <2>4. s[j] < s[i] => Rank(s[j]) < Rank(s[i])
    BY <1>3, <2>1
  <2>. QED
    BY <2>1, <2>2, <2>3, <2>4
<1>11. \A x \in S : \E i \in 1..n : s[i] = x
  <2>. SUFFICES ASSUME NEW x \in S PROVE \E i \in 1..n : s[i] = x
    OBVIOUS
  <2>1. Rank(x) + 1 \in 1..n
    BY <1>1, <1>2
  <2>2. Rank(s[Rank(x) + 1]) = Rank(x) /\ s[Rank(x) + 1] \in S
    BY <1>2, <1>9, <2>1
  <2>. QED
    BY <1>4, <2>1, <2>2
<1>. QED
  BY <1>1, <1>9, <1>10, <1>11 DEF s, n

\* Binary search finds the position of an identifier that is there, and always
\* some position, whose identifier is not the one looked for if that is absent.
LEMMA SearchFinds ==
    ASSUME NEW S \in SUBSET Int, IsFiniteSet(S), NEW id \in Int
    PROVE  LET s == Sorted(S)
               p == SearchSorted(s, id)
           IN  /\ HasId(s, id) <=> id \in S
               /\ id \in S => p \in DOMAIN s /\ s[p] = id
<1>. DEFINE n == Cardinality(S)
            s == Sorted(S)
            low == {i \in DOMAIN s : s[i] < id}
            p == SearchSorted(s, id)
<1>1. /\ n \in Nat
      /\ s \in [1..n -> S]
      /\ \A i, j \in 1..n : i < j => s[i] < s[j]
      /\ \A x \in S : \E i \in 1..n : s[i] = x
  BY SortedOrder
<1>. HIDE DEF s, n
<1>2. s \in Seq(S) /\ Len(s) = n /\ DOMAIN s = 1..n
  BY <1>1
<1>3. ASSUME id \in S
      PROVE  p \in 1..n /\ s[p] = id
  <2>1. PICK i \in 1..n : s[i] = id
    BY <1>1, <1>3
  <2>2. low = 1..(i - 1)
    <3>1. ASSUME NEW j \in 1..n PROVE s[j] < id <=> j < i
      <4>1. s[j] \in Int /\ s[i] \in Int
        BY <1>1
      <4>2. j < i => s[j] < id
        BY <1>1, <2>1
      <4>3. i < j => id < s[j]
        BY <1>1, <2>1
      <4>. QED
        BY <2>1, <4>1, <4>2, <4>3
    <3>. QED
      BY <1>1, <1>2, <3>1
  <2>3. Cardinality(low) = i - 1
    <3>1. i \in Int /\ i - 1 \in Int /\ ~ (1 > i - 1 /\ i - 1 # 0)
      BY <1>1
    <3>2. Cardinality(1..(i - 1)) = IF 1 > i - 1 THEN 0 ELSE (i - 1) - 1 + 1
      BY <3>1, FS_Interval
    <3>3. Cardinality(1..(i - 1)) = i - 1
      BY <3>1, <3>2
    <3>. HIDE DEF low
    <3>. QED
      BY <2>2, <3>3
  <2>4. p = i
    BY <1>1, <1>2, <2>3 DEF SearchSorted
  <2>. QED
    BY <2>1, <2>4
<1>4. ASSUME n > 0
      PROVE  p \in 1..n
  <2>1. low \in SUBSET (1..n)
    BY <1>2
  <2>2. Cardinality(low) \in Nat
    <3>1. IsFiniteSet(1..n)
      <4>1. 1 \in Int /\ n \in Int
        BY <1>1
      <4>. QED
        BY <4>1, FS_Interval
    <3>2. IsFiniteSet(low)
      BY <2>1, <3>1, FS_Subset
    <3>. QED
      BY <3>2, FS_CardinalityType
  <2>. QED
    BY <1>1, <1>2, <1>4, <2>2 DEF SearchSorted
<1>5. HasId(s, id) => id \in S
  BY <1>1, <1>2, <1>4 DEF HasId
<1>6. id \in S => HasId(s, id)
  BY <1>1, <1>2, <1>3 DEF HasId
<1>. QED
  BY <1>2, <1>3, <1>5, <1>6 DEF s
-----------------------------------------------------------------------------
(* Each kind of index gives the answers of the rows that it was built from. *)

Edges == [id : Int, source : Nodes, target : Nodes]

\* The neighbours in an adjacency index are the edges of the table.
LEMMA NeighborsAreEdges ==
    ASSUME NEW rows \in SUBSET Edges, NEW ids
    PROVE  /\ NeighborsOutgoing(AdjacencyIndex(rows), ids) = {r \in rows : r.source \in ids}
           /\ NeighborsIncoming(AdjacencyIndex(rows), ids) = {r \in rows : r.target \in ids}
<1>. DEFINE out == [s \in {r.source : r \in rows} |->
                        {<<r.id, r.target>> : r \in {x \in rows : x.source = s}}]
            in == [d \in {r.target : r \in rows} |->
                        {<<r.id, r.source>> : r \in {x \in rows : x.target = d}}]
            Leaving(s) == {[id |-> n[1], source |-> s, target |-> n[2]] : n \in out[s]}
            Entering(d) == {[id |-> n[1], source |-> n[2], target |-> d] : n \in in[d]}
<1>1. /\ NeighborsOutgoing(AdjacencyIndex(rows), ids) = UNION {Leaving(s) : s \in ids \intersect DOMAIN out}
      /\ NeighborsIncoming(AdjacencyIndex(rows), ids) = UNION {Entering(d) : d \in ids \intersect DOMAIN in}
  BY DEF NeighborsOutgoing, NeighborsIncoming, AdjacencyIndex
<1>2. ASSUME NEW s \in DOMAIN out
      PROVE  Leaving(s) = {r \in rows : r.source = s}
  <2>1. out[s] = {<<r.id, r.target>> : r \in {x \in rows : x.source = s}}
    BY <1>2
  <2>2. ASSUME NEW z \in Leaving(s) PROVE z \in rows /\ z.source = s
    <3>0. PICK n \in out[s] : z = [id |-> n[1], source |-> s, target |-> n[2]]
      OBVIOUS
    <3>1. PICK r \in rows : r.source = s /\ n = <<r.id, r.target>>
      BY <2>1
    <3>2. z = r
      BY <3>0, <3>1 DEF Edges
    <3>. QED
      BY <3>1, <3>2
  <2>3. ASSUME NEW r \in rows, r.source = s PROVE r \in Leaving(s)
    <3>1. <<r.id, r.target>> \in out[s]
      BY <2>1, <2>3
    <3>2. r = [id |-> r.id, source |-> s, target |-> r.target]
      BY <2>3 DEF Edges
    <3>. QED
      BY <3>1, <3>2
  <2>. QED
    BY <2>2, <2>3
<1>3. ASSUME NEW d \in DOMAIN in
      PROVE  Entering(d) = {r \in rows : r.target = d}
  <2>1. in[d] = {<<r.id, r.source>> : r \in {x \in rows : x.target = d}}
    BY <1>3
  <2>2. ASSUME NEW z \in Entering(d) PROVE z \in rows /\ z.target = d
    <3>0. PICK n \in in[d] : z = [id |-> n[1], source |-> n[2], target |-> d]
      OBVIOUS
    <3>1. PICK r \in rows : r.target = d /\ n = <<r.id, r.source>>
      BY <2>1
    <3>2. z = r
      BY <3>0, <3>1 DEF Edges
    <3>. QED
      BY <3>1, <3>2
  <2>3. ASSUME NEW r \in rows, r.target = d PROVE r \in Entering(d)
    <3>1. <<r.id, r.source>> \in in[d]
      BY <2>1, <2>3
    <3>2. r = [id |-> r.id, source |-> r.source, target |-> d]
      BY <2>3 DEF Edges
    <3>. QED
      BY <3>1, <3>2
  <2>. QED
    BY <2>2, <2>3
<1>4. DOMAIN out = {r.source : r \in rows} /\ DOMAIN in = {r.target : r \in rows}
  OBVIOUS
<1>. HIDE DEF Leaving, Entering, out, in
<1>. QED
  BY <1>1, <1>2, <1>3, <1>4

\* What an index of a kind answers, that was built from the rows of a version,
\* is what these rows say.
LEMMA BuildAnswers ==
    ASSUME NEW k \in Kinds, NEW e \in Types, Serves(k, e), NEW v \in Version
    PROVE  Answers(k, e, Build(k, Rows(e, v)), v)
<1>. DEFINE rows == Rows(e, v)
            ids == {r.id : r \in rows}
<1>. SUFFICES ASSUME NEW key \in Keys(k)
              PROVE  Ask(k, Build(k, rows), key) = Direct(k, e, key, v)
  BY DEF Answers
<1>1. CASE k = "adjacency"
  <2>1. rows \in SUBSET Edges
    BY <1>1, IndexAssumption DEF Serves, Version, Edges
  <2>2. /\ key.sources \subseteq Nodes /\ key.targets \subseteq Nodes
        /\ key.sources # Nodes \/ key.sources = Nodes
    BY <1>1 DEF Keys
  <2>3. IndexedRelationshipScan(AdjacencyIndex(rows), key)
          = {r \in rows : r.source \in key.sources /\ r.target \in key.targets}
    <3>1. CASE key.sources # Nodes
      BY <2>1, <3>1, NeighborsAreEdges DEF IndexedRelationshipScan
    <3>2. CASE key.sources = Nodes
      BY <2>1, <3>2, NeighborsAreEdges DEF IndexedRelationshipScan, Edges
    <3>. QED
      BY <3>1, <3>2
  <2>. QED
    BY <1>1, <2>3 DEF Ask, Direct, Build
<1>2. CASE k = "property"
  <2>1. key.value \in Values /\ key.value # Null
    BY <1>2, IndexAssumption DEF Keys
  <2>. DEFINE idx == PropertyValueIndex(rows)
  <2>2. DOMAIN idx = {r.value : r \in rows} \ {Null}
        /\ \A val \in DOMAIN idx : idx[val] = {r.id : r \in {s \in rows : s.value = val}}
    BY DEF PropertyValueIndex
  <2>. HIDE DEF idx
  <2>3. key.value \notin DOMAIN idx => {r.id : r \in {s \in rows : s.value = key.value}} = {}
    BY <2>1, <2>2
  <2>4. (IF key.value \in DOMAIN idx THEN idx[key.value] ELSE {})
          = {r.id : r \in {s \in rows : s.value = key.value}}
    BY <2>2, <2>3
  <2>5. Build(k, rows) = idx
    BY <1>2 DEF Build, idx
  <2>6. Ask(k, idx, key) = Named(k, IF key.value \in DOMAIN idx THEN idx[key.value] ELSE {})
    BY <1>2 DEF Ask
  <2>7. Direct(k, e, key, v) = Named(k, {r.id : r \in {s \in rows : s.value = key.value}})
    BY <1>2 DEF Direct
  <2>. QED
    BY <2>4, <2>5, <2>6, <2>7
<1>3. ASSUME k \in {"label", "vectorized"}
      PROVE  /\ key.id \in Int
             /\ ids \in SUBSET Int /\ IsFiniteSet(ids)
  <2>1. e \in Entities /\ IsFiniteSet(rows)
    BY <1>3, IndexAssumption DEF Serves, Version
  <2>2. \A r \in rows : r.id \in Int
    BY <2>1, IndexAssumption DEF Version
  <2>3. [r \in rows |-> r.id] \in Surjection(rows, ids)
    BY DEF Surjection
  <2>4. IsFiniteSet(ids)
    BY <2>1, <2>3, FS_Surjection
  <2>5. key.id \in Int
    BY <1>3, IndexAssumption DEF Keys
  <2>. QED
    BY <2>2, <2>4, <2>5
<1>4. CASE k = "label"
  <2>. DEFINE has == HasId(Sorted(ids), key.id)
              is == \E r \in rows : r.id = key.id
  <2>1. has <=> is
    BY <1>3, <1>4, SearchFinds
  <2>2. has = is
    BY <2>1 DEF HasId
  <2>3. Ask(k, Build(k, rows), key) = Named(k, has)
    BY <1>4 DEF Ask, Build, EntityLabelIndex
  <2>4. Direct(k, e, key, v) = Named(k, is)
    BY <1>4 DEF Direct
  <2>. HIDE DEF has, is
  <2>. QED
    BY <2>2, <2>3, <2>4
<1>5. CASE k = "vectorized"
  <2>. DEFINE sorted == Sorted(ids)
              p == SearchSorted(sorted, key.id)
              store == VectorizedPropertyStore(rows)
  <2>1. store = [ids |-> sorted,
                 values |-> [i \in DOMAIN sorted |-> (CHOOSE r \in rows : r.id = sorted[i]).value]]
    BY DEF VectorizedPropertyStore
  <2>2. /\ HasId(sorted, key.id) <=> key.id \in ids
        /\ key.id \in ids => p \in DOMAIN sorted /\ sorted[p] = key.id
    BY <1>3, <1>5, SearchFinds
  <2>. HIDE DEF sorted
  <2>3. key.id \in ids <=> \E r \in rows : r.id = key.id
    OBVIOUS
  <2>4. Fetch(store, key.id) = IF \E r \in rows : r.id = key.id
                               THEN (CHOOSE r \in rows : r.id = key.id).value ELSE Null
    BY <2>1, <2>2, <2>3 DEF Fetch
  <2>. QED
    BY <1>5, <2>4 DEF Ask, Direct, Build
<1>. QED
  BY <1>1, <1>2, <1>4, <1>5 DEF Kinds
-----------------------------------------------------------------------------
(* The inductive invariant. *)

Lookups == [kind : Kinds, type : Types, seen : Nat, df : {NoTable} \union Version, since : Nat]

IndexTypeOK ==
    /\ ContextTypeOK
    /\ contents \in [Types -> Seq(Version)]
    /\ committed \in [Types -> Nat]
    /\ epoch \in Nat
    /\ index = [k \in Kinds |-> [e \in Types |-> index[k][e]]]
    /\ lookup = [t \in Threads |-> lookup[t]]
    /\ answer = [t \in Threads |-> answer[t]]

\* The history of a table ends with what the table holds.
HistoryOK ==
    \A e \in Types :
        /\ committed[e] \in 1..Len(contents[e])
        /\ contents[e][Len(contents[e])] = live[e]

\* The manager is behind the context or even with it, and if it is even with it
\* none of its indexes is older than the last commit.
KeptOK ==
    /\ epoch <= data_epoch
    /\ epoch = data_epoch =>
         \A k \in Kinds, e \in Types :
            index[k][e] # NoIndex => AnswersSince(k, e, index[k][e], committed[e])

\* A lookup that has seen the present epoch began after the last commit.  What
\* it would take, an index of the epoch that it has seen or the table that it has
\* read, is no older than the commits that had returned when it began.
LookupOK(l) ==
    /\ l \in Lookups
    /\ Serves(l.kind, l.type)
    /\ l.seen <= data_epoch
    /\ l.since \in 1..committed[l.type]
    /\ l.seen = data_epoch => l.since = committed[l.type]
    /\ l.df = NoTable =>
         (epoch = l.seen /\ index[l.kind][l.type] # NoIndex
            => AnswersSince(l.kind, l.type, index[l.kind][l.type], l.since))
    /\ l.df # NoTable =>
         /\ epoch = l.seen
         /\ \E j \in l.since..Len(contents[l.type]) : contents[l.type][j] = l.df

\* Only the thread that has the lock is in a lookup that counts.
LockOK == lock = NoThread \/ (lock \in Threads /\ LookupOK(lookup[lock]))

AnswerOK(a) ==
    a # Idle /\ a.indexed =>
        /\ a.kind \in Kinds /\ a.type \in Types /\ a.since \in Nat \ {0}
        /\ AnswersSince(a.kind, a.type, a.index[a.kind], a.since)

IndexInv ==
    /\ IndexTypeOK
    /\ HistoryOK
    /\ KeptOK
    /\ LockOK
    /\ \A t \in Threads : AnswerOK(answer[t])
-----------------------------------------------------------------------------
(* The invariant holds at first, and every step keeps it. *)

LEMMA IndexInvAtFirst == Init => IndexInv
<1>. SUFFICES ASSUME Init PROVE IndexInv
  OBVIOUS
<1>. USE DEF Init, ContextInit
<1>1. ContextTypeOK
  BY DEF ContextTypeOK, Version, NoTables
<1>2. \A e \in Types : live[e] \in Version /\ contents[e] = <<live[e]>>
                      /\ contents[e] \in Seq(Version) /\ Len(contents[e]) = 1
  BY DEF Version
<1>3. IndexTypeOK
  BY <1>1, <1>2 DEF IndexTypeOK, NoIndexes
<1>4. HistoryOK
  BY <1>2 DEF HistoryOK
<1>5. KeptOK
  BY DEF KeptOK, NoIndexes
<1>6. LockOK /\ \A t \in Threads : AnswerOK(answer[t])
  BY DEF LockOK, AnswerOK
<1>. QED
  BY <1>3, <1>4, <1>5, <1>6 DEF IndexInv

\* What has been held since a position has been held since, whatever is added.
LEMMA AnswersStay ==
    ASSUME IndexTypeOK,
           contents' \in [Types -> Seq(Version)],
           NEW e \in Types,
           Len(contents[e]) <= Len(contents'[e]),
           \A j \in 1..Len(contents[e]) : contents'[e][j] = contents[e][j],
           NEW k, NEW idx, NEW i \in Nat, i >= 1, AnswersSince(k, e, idx, i)
    PROVE  AnswersSince(k, e, idx, i)'
<1>1. contents[e] \in Seq(Version) /\ contents'[e] \in Seq(Version)
  BY DEF IndexTypeOK
<1>2. PICK j \in i..Len(contents[e]) : Answers(k, e, idx, contents[e][j])
  BY DEF AnswersSince
<1>3. j \in i..Len(contents'[e]) /\ contents'[e][j] = contents[e][j]
  BY <1>1, <1>2
<1>. HIDE DEF Answers
<1>4. Answers(k, e, idx, contents'[e][j])
  BY <1>2, <1>3
<1>. QED
  BY <1>3, <1>4 DEF AnswersSince

\* A step that leaves the manager, the tables and their history alone.
LEMMA QuietStep ==
    ASSUME IndexInv, ContextTypeOK',
           UNCHANGED <<live, data_epoch, lock, epoch, index, lookup, contents, committed>>,
           answer' = [t \in Threads |-> answer'[t]],
           \A t \in Threads : answer'[t] = answer[t] \/ AnswerOK(answer'[t])
    PROVE  IndexInv'
<1>1. IndexTypeOK'
  BY DEF IndexInv, IndexTypeOK
<1>2. HistoryOK'
  BY DEF IndexInv, HistoryOK
<1>3. \A k, e, idx, i : AnswersSince(k, e, idx, i)' <=> AnswersSince(k, e, idx, i)
  BY DEF AnswersSince
<1>4. KeptOK'
  BY <1>3 DEF IndexInv, KeptOK
<1>5. LockOK'
  BY <1>3 DEF IndexInv, LockOK, LookupOK
<1>6. \A t \in Threads : AnswerOK(answer[t])'
  BY <1>3 DEF IndexInv, AnswerOK
<1>. QED
  BY <1>1, <1>2, <1>4, <1>5, <1>6 DEF IndexInv

LEMMA WriteKeeps ==
    ASSUME IndexInv, NEW t \in Threads, NEW e \in Types, NEW q \in Txns, Write(t, e, q)
    PROVE  IndexInv'
<1>1. Mutate(t, e, q) /\ UNCHANGED <<managerVars, historyVars>>
  BY DEF Write
<1>2. ContextTypeOK'
  BY <1>1, ContextOperationsTyped DEF IndexInv, IndexTypeOK
<1>. QED
  BY <1>1, <1>2, QuietStep DEF Mutate, managerVars, historyVars, IndexInv, IndexTypeOK

LEMMA AbandonKeeps ==
    ASSUME IndexInv, NEW t \in Threads, Abandon(t)
    PROVE  IndexInv'
<1>1. Rollback(t) /\ UNCHANGED <<managerVars, historyVars>>
  BY DEF Abandon
<1>2. ContextTypeOK'
  BY <1>1, ContextOperationsTyped DEF IndexInv, IndexTypeOK
<1>. QED
  BY <1>1, <1>2, QuietStep DEF Rollback, managerVars, historyVars, IndexInv, IndexTypeOK

LEMMA FallbackScanKeeps ==
    ASSUME IndexInv, NEW t \in Threads, NEW e \in Types, FallbackScan(t, e)
    PROVE  IndexInv'
<1>. DEFINE v == IF lookup_cache[e] = NoTable THEN live[e] ELSE lookup_cache[e]
            a == [kind |-> "property", type |-> e, since |-> committed[e], indexed |-> FALSE,
                  index |-> Named("property", [val \in Values |-> {r.id : r \in Rows(e, v)}])]
<1>1. /\ lookup_cache' = [lookup_cache EXCEPT ![e] = v]
      /\ answer' = [answer EXCEPT ![t] = a]
      /\ UNCHANGED <<live, shadow, promoted, fill, data_epoch, lock, epoch, index, lookup, historyVars>>
  BY DEF FallbackScan
<1>2. ContextTypeOK'
  BY <1>1 DEF IndexInv, IndexTypeOK, ContextTypeOK
<1>3. AnswerOK(a)
  <2>1. ~ a.indexed
    OBVIOUS
  <2>. QED
    BY <2>1 DEF AnswerOK
<1>. HIDE DEF a, v
<1>4. answer' = [s \in Threads |-> answer'[s]] /\ \A s \in Threads : answer'[s] = answer[s] \/ answer'[s] = a
  BY <1>1 DEF IndexInv, IndexTypeOK
<1>. QED
  BY <1>1, <1>2, <1>3, <1>4, QuietStep DEF historyVars

\* A promoted table is added to the history: what was fresh stays so.
LEMMA PromoteTableKeeps ==
    ASSUME IndexInv, NEW t \in Threads, NEW e \in Types, PromoteTable(t, e)
    PROVE  IndexInv'
<1>1. /\ Promote(t, e)
      /\ live' = [live EXCEPT ![e] = shadow[t][e]]
      /\ contents' = [contents EXCEPT ![e] = Append(@, live'[e])]
      /\ UNCHANGED <<data_epoch, lock, epoch, index, lookup, answer, committed>>
  BY DEF PromoteTable, Promote, managerVars
<1>2. ContextTypeOK'
  BY <1>1, ContextOperationsTyped DEF IndexInv, IndexTypeOK
<1>3. live \in [Types -> Version] /\ live'[e] \in Version /\ contents \in [Types -> Seq(Version)]
  BY <1>2 DEF IndexInv, IndexTypeOK, ContextTypeOK
<1>4. /\ contents' \in [Types -> Seq(Version)]
      /\ Len(contents'[e]) = Len(contents[e]) + 1
      /\ contents'[e][Len(contents'[e])] = live'[e]
      /\ \A j \in 1..Len(contents[e]) : contents'[e][j] = contents[e][j]
      /\ \A d \in Types \ {e} : contents'[d] = contents[d] /\ live'[d] = live[d]
  BY <1>1, <1>3
<1>5. ASSUME NEW d \in Types
      PROVE  /\ Len(contents[d]) \in Nat /\ Len(contents'[d]) \in Nat
             /\ Len(contents[d]) <= Len(contents'[d])
             /\ \A j \in 1..Len(contents[d]) : contents'[d][j] = contents[d][j]
  <2>1. CASE d = e
    BY <1>3, <1>4, <2>1
  <2>2. CASE d # e
    BY <1>3, <1>4, <2>2
  <2>. QED
    BY <2>1, <2>2
<1>6. IndexTypeOK'
  BY <1>1, <1>2, <1>4 DEF IndexInv, IndexTypeOK
<1>7. HistoryOK'
  <2>1. ASSUME NEW d \in Types
        PROVE  committed[d] \in 1..Len(contents'[d]) /\ contents'[d][Len(contents'[d])] = live'[d]
    <3>1. committed[d] \in 1..Len(contents[d]) /\ contents[d][Len(contents[d])] = live[d]
      BY DEF IndexInv, HistoryOK
    <3>2. CASE d = e
      BY <1>4, <1>5, <3>1, <3>2
    <3>3. CASE d # e
      BY <1>4, <3>1, <3>3
    <3>. QED
      BY <3>2, <3>3
  <2>. QED
    BY <1>1, <2>1 DEF HistoryOK
<1>8. ASSUME NEW k, NEW d \in Types, NEW idx, NEW i \in Nat, i >= 1, AnswersSince(k, d, idx, i)
      PROVE  AnswersSince(k, d, idx, i)'
  BY <1>4, <1>5, <1>8, AnswersStay DEF IndexInv
<1>9. \A d \in Types : committed[d] \in Nat /\ committed[d] >= 1
  BY <1>5 DEF IndexInv, HistoryOK
<1>10. KeptOK'
  BY <1>1, <1>8, <1>9 DEF IndexInv, KeptOK
<1>11. LockOK'
  <2>. SUFFICES ASSUME lock # NoThread PROVE LookupOK(lookup[lock])' /\ lock' \in Threads
    BY <1>1 DEF LockOK
  <2>. PICK l : l = lookup[lock]
    OBVIOUS
  <2>1. lock \in Threads /\ LookupOK(l)
    BY DEF IndexInv, LockOK
  <2>2. /\ l \in Lookups /\ l.kind \in Kinds /\ l.type \in Types
        /\ l.since \in Nat /\ l.since >= 1
    BY <1>9, <2>1 DEF LookupOK, Lookups
  <2>3. AnswersSince(l.kind, l.type, index[l.kind][l.type], l.since)
          => AnswersSince(l.kind, l.type, index[l.kind][l.type], l.since)'
    BY <1>1, <1>8, <2>2
  <2>4. ASSUME NEW j \in l.since..Len(contents[l.type]), contents[l.type][j] = l.df
        PROVE  j \in l.since..Len(contents'[l.type]) /\ contents'[l.type][j] = l.df
    BY <1>5, <2>2, <2>4
  <2>5. LookupOK(l)'
    BY <1>1, <2>1, <2>3, <2>4 DEF LookupOK
  <2>. QED
    BY <1>1, <2>1, <2>5
<1>12. \A s \in Threads : AnswerOK(answer[s])'
  BY <1>1, <1>8 DEF IndexInv, AnswerOK
<1>. QED
  BY <1>6, <1>7, <1>10, <1>11, <1>12 DEF IndexInv

\* The end of a commit moves the epoch: the manager falls behind, and no
\* lookup has seen the new one.
LEMMA EndOfCommitKeeps ==
    ASSUME IndexInv, NEW t \in Threads, EndOfCommit(t)
    PROVE  IndexInv'
<1>1. /\ EndCommit(t)
      /\ live' = live /\ data_epoch' = data_epoch + 1
      /\ committed' = [e \in Types |-> Len(contents[e])]
      /\ UNCHANGED <<lock, epoch, index, lookup, answer, contents>>
  BY DEF EndOfCommit, EndCommit, managerVars
<1>2. ContextTypeOK' /\ data_epoch \in Nat
  BY <1>1, ContextOperationsTyped DEF IndexInv, IndexTypeOK, ContextTypeOK
<1>3. \A e \in Types : /\ Len(contents[e]) \in Nat /\ committed'[e] = Len(contents[e])
                      /\ committed[e] \in 1..Len(contents[e])
                      /\ contents[e][Len(contents[e])] = live[e]
  BY <1>1 DEF IndexInv, IndexTypeOK, HistoryOK
<1>4. \A k, e, idx, i : AnswersSince(k, e, idx, i)' <=> AnswersSince(k, e, idx, i)
  BY <1>1 DEF AnswersSince
<1>5. IndexTypeOK'
  BY <1>1, <1>2, <1>3 DEF IndexInv, IndexTypeOK
<1>6. HistoryOK'
  BY <1>1, <1>3 DEF HistoryOK
<1>7. KeptOK'
  BY <1>1, <1>2 DEF IndexInv, IndexTypeOK, KeptOK
<1>8. LockOK'
  <2>. SUFFICES ASSUME lock # NoThread PROVE LookupOK(lookup[lock])' /\ lock' \in Threads
    BY <1>1 DEF LockOK
  <2>. PICK l : l = lookup[lock]
    OBVIOUS
  <2>1. lock \in Threads /\ LookupOK(l)
    BY DEF IndexInv, LockOK
  <2>2. l \in Lookups /\ l.type \in Types /\ l.seen \in Nat
    BY <2>1 DEF LookupOK, Lookups
  <2>3. l.since \in 1..committed'[l.type]
    BY <1>3, <2>1, <2>2 DEF LookupOK
  <2>4. l.seen <= data_epoch' /\ l.seen # data_epoch'
    BY <1>1, <1>2, <2>1, <2>2 DEF LookupOK
  <2>5. LookupOK(l)'
    BY <1>1, <1>4, <2>1, <2>3, <2>4 DEF LookupOK
  <2>. QED
    BY <1>1, <2>1, <2>5
<1>9. \A s \in Threads : AnswerOK(answer[s])'
  BY <1>1, <1>4 DEF IndexInv, AnswerOK
<1>. QED
  BY <1>5, <1>6, <1>7, <1>8, <1>9 DEF IndexInv

\* invalidate() brings the manager to the present epoch without an index.
LEMMA InvalidateKeeps ==
    ASSUME IndexInv, ~ ConcurrentInvalidate, NEW t \in Threads, Invalidate(t)
    PROVE  IndexInv'
<1>1. /\ lock = NoThread /\ epoch' = data_epoch /\ index' = NoIndexes
      /\ UNCHANGED <<contextVars, lock, lookup, answer, contents, committed>>
  BY DEF Invalidate, historyVars
<1>2. \A k, e, idx, i : AnswersSince(k, e, idx, i)' <=> AnswersSince(k, e, idx, i)
  BY <1>1 DEF AnswersSince
<1>3. ContextTypeOK' /\ live' = live /\ data_epoch' = data_epoch /\ data_epoch \in Nat
  BY <1>1 DEF IndexInv, IndexTypeOK, ContextTypeOK, contextVars
<1>4. IndexTypeOK'
  BY <1>1, <1>3 DEF IndexInv, IndexTypeOK, NoIndexes
<1>5. HistoryOK'
  BY <1>1, <1>3 DEF IndexInv, HistoryOK
<1>6. KeptOK'
  BY <1>1, <1>3 DEF KeptOK, NoIndexes
<1>7. LockOK'
  BY <1>1 DEF LockOK
<1>8. \A s \in Threads : AnswerOK(answer[s])'
  BY <1>1, <1>2 DEF IndexInv, AnswerOK
<1>. QED
  BY <1>4, <1>5, <1>6, <1>7, <1>8 DEF IndexInv

\* A lookup that begins has seen the present epoch and every commit that returned.
LEMMA GetIndexKeeps ==
    ASSUME IndexInv, NEW t \in Threads, NEW e \in Types, NEW k \in Kinds, GetIndex(t, k, e)
    PROVE  IndexInv'
<1>. DEFINE l == [kind |-> k, type |-> e, seen |-> data_epoch, df |-> NoTable, since |-> committed[e]]
<1>1. /\ Serves(k, e) /\ lock' = t
      /\ lookup' = [lookup EXCEPT ![t] = l]
      /\ answer' = [answer EXCEPT ![t] = Idle]
      /\ UNCHANGED <<contextVars, epoch, index, contents, committed>>
  BY DEF GetIndex, historyVars
<1>2. \A c, d, idx, i : AnswersSince(c, d, idx, i)' <=> AnswersSince(c, d, idx, i)
  BY <1>1 DEF AnswersSince
<1>3. ContextTypeOK' /\ UNCHANGED <<live, data_epoch>> /\ data_epoch \in Nat
  BY <1>1 DEF IndexInv, IndexTypeOK, ContextTypeOK, contextVars
<1>4. IndexTypeOK'
  BY <1>1, <1>3 DEF IndexInv, IndexTypeOK
<1>5. HistoryOK'
  BY <1>1, <1>3 DEF IndexInv, HistoryOK
<1>6. KeptOK'
  BY <1>1, <1>2, <1>3 DEF IndexInv, KeptOK
<1>7. LockOK'
  <2>1. lock' = t /\ lookup'[t] = l
    BY <1>1 DEF IndexInv, IndexTypeOK
  <2>2. committed[e] \in Nat /\ committed[e] \in 1..committed[e]
    <3>1. contents[e] \in Seq(Version) /\ committed[e] \in 1..Len(contents[e])
      BY DEF IndexInv, IndexTypeOK, HistoryOK
    <3>. QED
      BY <3>1
  <2>3. l \in Lookups
    BY <1>3, <2>2 DEF Lookups
  <2>4. epoch = data_epoch /\ index[k][e] # NoIndex => AnswersSince(k, e, index[k][e], committed[e])
    BY DEF IndexInv, KeptOK
  <2>5. LookupOK(l)
    BY <1>1, <1>3, <2>2, <2>3, <2>4 DEF LookupOK
  <2>6. PICK m : m = l
    OBVIOUS
  <2>. HIDE DEF l
  <2>7. LookupOK(m)'
    BY <1>1, <1>2, <1>3, <2>5, <2>6 DEF LookupOK
  <2>8. lookup'[lock'] = m
    BY <2>1, <2>6
  <2>. QED
    BY <2>1, <2>7, <2>8 DEF LockOK
<1>8. \A s \in Threads : AnswerOK(answer[s])'
  <2>1. \A s \in Threads : answer'[s] = answer[s] \/ answer'[s] = Idle
    BY <1>1 DEF IndexInv, IndexTypeOK
  <2>. QED
    BY <1>2, <2>1 DEF IndexInv, AnswerOK
<1>. QED
  BY <1>4, <1>5, <1>6, <1>7, <1>8 DEF IndexInv

\* A lookup that answers gives the lock back and keeps the indexes fresh.
LEMMA AnswerKeeps ==
    ASSUME IndexInv, NEW t \in Threads, lock = t, NEW idx, Answer(t, idx),
           UNCHANGED <<contextVars, historyVars>>,
           AnswersSince(lookup[t].kind, lookup[t].type, idx, lookup[t].since),
           IndexTypeOK', KeptOK'
    PROVE  IndexInv'
<1>. DEFINE l == lookup[t]
            a == [kind |-> l.kind, type |-> l.type, index |-> Named(l.kind, idx),
                  since |-> l.since, indexed |-> TRUE]
<1>1. lock' = NoThread /\ answer' = [answer EXCEPT ![t] = a]
  BY DEF Answer
<1>2. LookupOK(l)
  BY IndexAssumption DEF IndexInv, LockOK
<1>3. AnswerOK(a)
  <2>1. l.kind \in Kinds /\ l.type \in Types /\ l.since \in Nat \ {0}
    BY <1>2 DEF LookupOK, Lookups
  <2>2. a.kind = l.kind /\ a.type = l.type /\ a.since = l.since /\ a.index[a.kind] = idx
    BY DEF Named
  <2>. HIDE DEF a, l
  <2>3. AnswersSince(a.kind, a.type, a.index[a.kind], a.since)
    BY <2>2 DEF l
  <2>. QED
    BY <2>1, <2>2, <2>3 DEF AnswerOK
<1>4. \A c, d, x, i : AnswersSince(c, d, x, i)' <=> AnswersSince(c, d, x, i)
  BY DEF AnswersSince, historyVars
<1>. HIDE DEF a
<1>5. \A s \in Threads : answer'[s] = answer[s] \/ answer'[s] = a
  BY <1>1 DEF IndexInv, IndexTypeOK
<1>6. \A s \in Threads : AnswerOK(answer'[s])
  BY <1>3, <1>5 DEF IndexInv
<1>7. \A s \in Threads : AnswerOK(answer[s])'
  BY <1>4, <1>6 DEF AnswerOK
<1>8. HistoryOK'
  BY DEF IndexInv, HistoryOK, contextVars, historyVars
<1>9. LockOK'
  BY <1>1 DEF LockOK
<1>. QED
  BY <1>7, <1>8, <1>9 DEF IndexInv

\* A lookup that has the epoch that it saw drops the other indexes, answers from
\* one that is left, or reads the table.
LEMMA CachedKeeps ==
    ASSUME IndexInv, NEW t \in Threads, Cached(t)
    PROVE  IndexInv'
<1>. PICK l : l = lookup[t]
  OBVIOUS
<1>1. /\ lock = t /\ l.df = NoTable
      /\ index' = IF l.seen # epoch THEN NoIndexes ELSE index
      /\ epoch' = l.seen
      /\ UNCHANGED <<contextVars, historyVars, lookups>>
  BY DEF Cached, CheckEpoch
<1>2. LookupOK(l)
  BY <1>1, IndexAssumption DEF IndexInv, LockOK
<1>3. /\ l \in Lookups /\ l.kind \in Kinds /\ l.type \in Types /\ l.seen \in Nat /\ l.since \in Nat
      /\ l.seen <= data_epoch
  BY <1>2 DEF LookupOK, Lookups
<1>4. \A c, d, x, i : AnswersSince(c, d, x, i)' <=> AnswersSince(c, d, x, i)
  BY <1>1 DEF AnswersSince, historyVars
<1>5. ContextTypeOK' /\ UNCHANGED <<live, data_epoch>> /\ data_epoch \in Nat
  BY <1>1 DEF IndexInv, IndexTypeOK, ContextTypeOK, contextVars
<1>6. /\ index' = [k \in Kinds |-> [e \in Types |-> index'[k][e]]]
      /\ \A k \in Kinds, e \in Types :
            index'[k][e] # NoIndex => l.seen = epoch /\ index'[k][e] = index[k][e]
  BY <1>1 DEF IndexInv, IndexTypeOK, NoIndexes
<1>7. KeptOK'
  <2>1. ASSUME epoch' = data_epoch', NEW k \in Kinds, NEW e \in Types, index'[k][e] # NoIndex
        PROVE  AnswersSince(k, e, index[k][e], committed[e])'
    <3>1. epoch = data_epoch /\ index'[k][e] = index[k][e] /\ index[k][e] # NoIndex
      BY <1>1, <1>5, <1>6, <2>1
    <3>2. AnswersSince(k, e, index[k][e], committed[e])
      BY <3>1 DEF IndexInv, KeptOK
    <3>. QED
      BY <1>1, <1>4, <3>1, <3>2 DEF historyVars
  <2>. QED
    BY <1>1, <1>3, <1>5, <2>1 DEF KeptOK
<1>8. CASE /\ index'[l.kind][l.type] # NoIndex
           /\ Answer(t, index'[l.kind][l.type])
  <2>1. AnswersSince(l.kind, l.type, index'[l.kind][l.type], l.since)
    BY <1>1, <1>2, <1>3, <1>6, <1>8 DEF LookupOK
  <2>2. IndexTypeOK'
    BY <1>1, <1>3, <1>5, <1>6, <1>8 DEF IndexInv, IndexTypeOK, Answer, historyVars
  <2>. QED
    BY <1>1, <1>7, <1>8, <2>1, <2>2, AnswerKeeps
<1>9. CASE /\ index'[l.kind][l.type] = NoIndex
           /\ lookup' = [lookup EXCEPT ![t].df = live[l.type]]
           /\ UNCHANGED <<lock, answer>>
  <2>. PICK m : m = [l EXCEPT !.df = live[l.type]]
    OBVIOUS
  <2>1. lookup'[t] = m
    BY <1>9 DEF IndexInv, IndexTypeOK
  <2>2. /\ live[l.type] \in Version
        /\ contents[l.type] \in Seq(Version) /\ committed[l.type] \in 1..Len(contents[l.type])
        /\ contents[l.type][Len(contents[l.type])] = live[l.type]
    BY <1>3 DEF IndexInv, IndexTypeOK, ContextTypeOK, HistoryOK
  <2>3. /\ m \in Lookups /\ m.kind = l.kind /\ m.type = l.type /\ m.seen = l.seen /\ m.since = l.since
        /\ m.df = live[l.type] /\ m.df # NoTable
    BY <1>3, <2>2, ContextAssumption DEF Lookups, Version
  <2>4. \E j \in l.since..Len(contents[l.type]) : contents[l.type][j] = m.df
    BY <1>2, <1>3, <2>2, <2>3 DEF LookupOK
  <2>5. LookupOK(m)'
    BY <1>1, <1>2, <1>5, <2>3, <2>4 DEF LookupOK, historyVars
  <2>6. LockOK'
    BY <1>1, <1>9, <2>1, <2>5 DEF LockOK
  <2>7. IndexTypeOK'
    BY <1>1, <1>3, <1>5, <1>6, <1>9 DEF IndexInv, IndexTypeOK, historyVars
  <2>8. HistoryOK'
    BY <1>1, <1>5 DEF IndexInv, HistoryOK, historyVars
  <2>9. \A s \in Threads : AnswerOK(answer[s])'
    BY <1>4, <1>9 DEF IndexInv, AnswerOK
  <2>. QED
    BY <1>7, <2>6, <2>7, <2>8, <2>9 DEF IndexInv
<1>. QED
  BY <1>8, <1>9 DEF Cached

\* The index that a lookup builds is of a version no older than the commits that
\* had returned when it began; if the epoch has not moved, these are all there are.
LEMMA InsertKeeps ==
    ASSUME IndexInv, NEW t \in Threads, Insert(t)
    PROVE  IndexInv'
<1>. PICK l : l = lookup[t]
  OBVIOUS
<1>. PICK idx : idx = Build(l.kind, Rows(l.type, l.df))
  OBVIOUS
<1>1. /\ lock = t /\ l.df # NoTable
      /\ index' = [index EXCEPT ![l.kind][l.type] = idx]
      /\ Answer(t, idx)
      /\ UNCHANGED <<contextVars, epoch, historyVars, lookups>>
  BY DEF Insert
<1>2. LookupOK(l)
  BY <1>1, IndexAssumption DEF IndexInv, LockOK
<1>3. /\ l \in Lookups /\ l.kind \in Kinds /\ l.type \in Types /\ l.since \in Nat
      /\ l.df \in Version /\ Serves(l.kind, l.type) /\ epoch = l.seen
  BY <1>1, <1>2 DEF LookupOK, Lookups
<1>4. AnswersSince(l.kind, l.type, idx, l.since)
  <2>1. Answers(l.kind, l.type, idx, l.df)
    BY <1>3, BuildAnswers
  <2>2. PICK j \in l.since..Len(contents[l.type]) : contents[l.type][j] = l.df
    BY <1>1, <1>2 DEF LookupOK
  <2>3. Answers(l.kind, l.type, idx, contents[l.type][j])
    BY <2>1, <2>2
  <2>. QED
    BY <2>2, <2>3 DEF AnswersSince
<1>5. \A c, d, x, i : AnswersSince(c, d, x, i)' <=> AnswersSince(c, d, x, i)
  BY <1>1 DEF AnswersSince, historyVars
<1>6. ContextTypeOK' /\ UNCHANGED <<live, data_epoch>>
  BY <1>1 DEF IndexInv, IndexTypeOK, ContextTypeOK, contextVars
<1>7. /\ index' = [k \in Kinds |-> [e \in Types |-> index'[k][e]]]
      /\ \A k \in Kinds, e \in Types :
            \/ index'[k][e] = index[k][e]
            \/ k = l.kind /\ e = l.type /\ index'[k][e] = idx
  BY <1>1, <1>3 DEF IndexInv, IndexTypeOK
<1>8. KeptOK'
  <2>1. ASSUME epoch = data_epoch, NEW k \in Kinds, NEW e \in Types, index'[k][e] # NoIndex
        PROVE  AnswersSince(k, e, index'[k][e], committed[e])
    <3>1. CASE index'[k][e] = index[k][e]
      BY <2>1, <3>1 DEF IndexInv, KeptOK
    <3>2. CASE k = l.kind /\ e = l.type /\ index'[k][e] = idx
      <4>1. l.since = committed[e]
        BY <1>2, <1>3, <2>1, <3>2 DEF LookupOK
      <4>. QED
        BY <1>4, <3>2, <4>1
    <3>. QED
      BY <1>7, <3>1, <3>2
  <2>2. epoch' = epoch /\ data_epoch' = data_epoch /\ committed' = committed
    BY <1>1, <1>6 DEF historyVars
  <2>3. epoch <= data_epoch
    BY DEF IndexInv, KeptOK
  <2>. QED
    BY <1>5, <2>1, <2>2, <2>3 DEF KeptOK
<1>9. IndexTypeOK'
  BY <1>1, <1>6, <1>7 DEF IndexInv, IndexTypeOK, Answer, historyVars
<1>. QED
  BY <1>1, <1>4, <1>8, <1>9, AnswerKeeps
-----------------------------------------------------------------------------
\* Every index that the manager keeps under the present epoch, and every answer
\* that a lookup has given, is that of its table (the _check_epoch of
\* graph_index.py and the indexes built under the manager's lock).  Nothing in
\* the repository calls invalidate() beside a lookup: it is called, if at all,
\* while nobody holds the lock.
THEOREM IndexInvariant ==
    ASSUME ~ ConcurrentInvalidate
    PROVE  Spec => []IndexInv
<1>1. ASSUME IndexInv, Next PROVE IndexInv'
  <2>1. PICK t \in Threads :
          \/ \E e \in Types, k \in Kinds : GetIndex(t, k, e)
          \/ Cached(t) \/ Insert(t) \/ Invalidate(t)
          \/ \E e \in Types : FallbackScan(t, e)
          \/ \E e \in Types, q \in Txns : Write(t, e, q)
          \/ \E e \in Types : PromoteTable(t, e)
          \/ EndOfCommit(t) \/ Abandon(t)
    BY <1>1 DEF Next
  <2>2. CASE \E e \in Types, k \in Kinds : GetIndex(t, k, e)
    BY <1>1, <2>2, GetIndexKeeps
  <2>3. CASE Cached(t)
    BY <1>1, <2>3, CachedKeeps
  <2>4. CASE Insert(t)
    BY <1>1, <2>4, InsertKeeps
  <2>5. CASE Invalidate(t)
    BY <1>1, <2>5, InvalidateKeeps
  <2>6. CASE \E e \in Types : FallbackScan(t, e)
    BY <1>1, <2>6, FallbackScanKeeps
  <2>7. CASE \E e \in Types, q \in Txns : Write(t, e, q)
    BY <1>1, <2>7, WriteKeeps
  <2>8. CASE \E e \in Types : PromoteTable(t, e)
    BY <1>1, <2>8, PromoteTableKeeps
  <2>9. CASE EndOfCommit(t)
    BY <1>1, <2>9, EndOfCommitKeeps
  <2>10. CASE Abandon(t)
    BY <1>1, <2>10, AbandonKeeps
  <2>. QED
    BY <2>1, <2>2, <2>3, <2>4, <2>5, <2>6, <2>7, <2>8, <2>9, <2>10
<1>2. ASSUME IndexInv, UNCHANGED vars PROVE IndexInv'
  <2>1. UNCHANGED <<live, data_epoch, lock, epoch, index, lookup, answer, contents, committed>>
    BY <1>2 DEF vars, contextVars, managerVars, historyVars
  <2>2. ContextTypeOK'
    BY <1>2 DEF vars, contextVars, IndexInv, IndexTypeOK, ContextTypeOK
  <2>3. answer' = [t \in Threads |-> answer'[t]]
    BY <1>2, <2>1 DEF IndexInv, IndexTypeOK
  <2>. QED
    BY <1>2, <2>1, <2>2, <2>3, QuietStep
<1>. QED
  BY <1>1, <1>2, IndexInvAtFirst, PTL DEF Spec

\* No index outlives a commit that it has not seen, of whichever kind it is
\* (GraphIndexManager._check_epoch).
THEOREM IndexFreshCorrect ==
    ASSUME ~ ConcurrentInvalidate
    PROVE  Spec => []IndexFresh
<1>1. IndexInv => IndexFresh
  BY DEF IndexInv, KeptOK, IndexFresh
<1>. QED
  BY <1>1, IndexInvariant, PTL

\* An index gives a lookup what the table has held since the last commit that
\* had returned when the lookup began (the get_* methods of GraphIndexManager).
THEOREM NoStaleLookupCorrect ==
    ASSUME ~ ConcurrentInvalidate
    PROVE  Spec => []NoStaleLookup
<1>1. IndexInv => NoStaleLookup
  BY DEF IndexInv, AnswerOK, NoStaleLookup
<1>. QED
  BY <1>1, IndexInvariant, PTL
=============================================================================
