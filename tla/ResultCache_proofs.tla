-------------------------- MODULE ResultCache_proofs --------------------------
(***************************************************************************)
(* Proofs about ReadWriteLock and ResultCache.                             *)
(*                                                                         *)
(* The lock, for every finite set of threads: the counters are exact, the  *)
(* lock excludes, writers' wake-ups are not lost, and the lock implements  *)
(* AbstractRWLock.  The inductive invariant is the conjunction of the type *)
(* invariant, the exactness of the counters and exclusion.  Exclusion      *)
(* alone is not inductive: a thread enters because a counter is 0, and     *)
(* only the exactness of the counters says that nobody is inside.          *)
(*                                                                         *)
(* The cache, for every set of threads, keys and frames, all sizes and     *)
(* every limit: its bookkeeping is exact, eviction is LRU, and it          *)
(* implements CacheContract.                                               *)
(*                                                                         *)
(* The invariant joins the lock's own (LockInv) to what holds of the data  *)
(* and to where each operation is.  The data alone would not do: an insert *)
(* keeps the keys apart only because the put that inserts has removed its  *)
(* key before, and nobody stored it again in between - that is Exclusion,  *)
(* used through Placed, which says that an operation half way through a    *)
(* put is a thread that holds the write lock.                              *)
(***************************************************************************)
EXTENDS ResultCache, DataInduction, FiniteSetTheorems, SequenceTheorems, TLAPS

LockInv == LockTypeOK /\ CountersExact /\ Exclusion

\* Where a thread is when it asks for the lock, or waits for it.
AsksToRead(t) == pc[t] \in {"idle", "readWait", "readWoken"}
AsksToWrite(t, counted) ==
    \/ counted = 0 /\ pc[t] = "idle"
    \/ counted = 1 /\ pc[t] \in {"writeWait", "writeWoken"}

-----------------------------------------------------------------------------
(***************************************************************************)
(* The sets the counters stand for.                                        *)
(***************************************************************************)

\* The sets of threads that the counters count are finite, so their
\* cardinalities are natural numbers.
LEMMA CountedSetsFinite ==
    /\ IsFiniteSet(Readers) /\ Cardinality(Readers) \in Nat
    /\ IsFiniteSet(Writers) /\ Cardinality(Writers) \in Nat
    /\ IsFiniteSet(WaitingWriters) /\ Cardinality(WaitingWriters) \in Nat
<1>1. /\ Readers \in SUBSET Threads
      /\ Writers \in SUBSET Threads
      /\ WaitingWriters \in SUBSET Threads
  BY DEF Readers, Writers, WaitingWriters, At
<1>2. IsFiniteSet(Threads)
  BY ThreadsAssumption
<1>. QED
  BY <1>1, <1>2, FS_Subset, FS_CardinalityType

\* A counter that is 0 says that nobody is there.
LEMMA ZeroMeansEmpty ==
    ASSUME LockInv
    PROVE  /\ active_readers = 0 => Readers = {}
           /\ active_writers = 0 => Writers = {}
  BY CountedSetsFinite, FS_EmptySet DEF LockInv, CountersExact

\* The invariant depends on pc only through the three counted sets: a step that
\* leaves them and the counters as they are preserves it.
LEMMA SameSets ==
    ASSUME LockInv, LockTypeOK',
           Readers' = Readers, Writers' = Writers, WaitingWriters' = WaitingWriters,
           UNCHANGED <<active_readers, active_writers, waiting_writers, write_owner>>
    PROVE  LockInv'
  BY DEF LockInv, CountersExact, Exclusion

\* A notify moves a writer from one kind of waiting to another.
LEMMA NotifyKeepsSets ==
    ASSUME NEW pcs \in [Threads -> PCs], NEW pcs2, NotifyWriter(pcs, pcs2)
    PROVE  /\ pcs2 \in [Threads -> PCs]
           /\ \A w \in Threads :
                /\ (pcs2[w] = "reading") <=> (pcs[w] = "reading")
                /\ (pcs2[w] = "writing") <=> (pcs[w] = "writing")
                /\ (pcs2[w] \in {"writeWait", "writeWoken"})
                     <=> (pcs[w] \in {"writeWait", "writeWoken"})
<1>1. CASE {w \in Threads : pcs[w] = "writeWait"} = {}
  BY <1>1 DEF NotifyWriter
<1>2. CASE {w \in Threads : pcs[w] = "writeWait"} # {}
  <2>1. PICK w \in Threads : pcs[w] = "writeWait" /\ pcs2 = [pcs EXCEPT ![w] = "writeWoken"]
    BY <1>2 DEF NotifyWriter
  <2>. QED
    BY <2>1 DEF PCs
<1>. QED
  BY <1>1, <1>2

-----------------------------------------------------------------------------
(***************************************************************************)
(* Each way in which a thread can move preserves the invariant, and is the *)
(* step of AbstractRWLock that it should be, or none.                      *)
(***************************************************************************)

LEMMA LockInitInv == LockInit => LockInv
<1>. SUFFICES ASSUME LockInit PROVE LockInv
  OBVIOUS
<1>1. Readers = {} /\ Writers = {} /\ WaitingWriters = {}
  BY DEF LockInit, Readers, Writers, WaitingWriters, At
<1>2. LockTypeOK
  BY DEF LockInit, LockTypeOK, PCs
<1>3. CountersExact
  BY <1>1, FS_EmptySet, ThreadsAssumption DEF LockInit, CountersExact
<1>. QED
  BY <1>1, <1>2, <1>3 DEF LockInv, Exclusion

LEMMA EnterReadCorrect ==
    ASSUME LockInv, NEW t \in Threads, AsksToRead(t), EnterRead(t)
    PROVE  LockInv' /\ Promise!GrantRead(t)
<1>1. LockTypeOK'
  BY DEF LockInv, LockTypeOK, EnterRead, Goto, PCs
<1>2. /\ Readers' = Readers \union {t}
      /\ t \notin Readers
      /\ Writers' = Writers
      /\ WaitingWriters' = WaitingWriters
  BY DEF LockInv, LockTypeOK, AsksToRead, EnterRead, Goto,
         Readers, Writers, WaitingWriters, At
<1>3. Cardinality(Readers') = Cardinality(Readers) + 1
  BY <1>2, CountedSetsFinite, FS_AddElement
<1>4. CountersExact'
  BY <1>2, <1>3 DEF LockInv, CountersExact, EnterRead
<1>5. Writers = {}
  BY ZeroMeansEmpty DEF EnterRead, MayRead
<1>6. Promise!GrantRead(t)
  BY <1>2, <1>5 DEF Promise!GrantRead
<1>. QED
  BY <1>1, <1>2, <1>4, <1>5, <1>6 DEF LockInv, Exclusion

LEMMA ReadStaysCorrect ==
    ASSUME LockInv, NEW t \in Threads, AsksToRead(t),
           NEW where \in {"idle", "readWait"}, ReadStays(t, where)
    PROVE  LockInv' /\ UNCHANGED Promise!vars
<1>1. LockTypeOK'
  BY DEF LockInv, LockTypeOK, ReadStays, Goto, PCs
<1>2. /\ Readers' = Readers
      /\ Writers' = Writers
      /\ WaitingWriters' = WaitingWriters
  BY DEF LockInv, LockTypeOK, AsksToRead, ReadStays, Goto,
         Readers, Writers, WaitingWriters, At
<1>. QED
  BY <1>1, <1>2, SameSets DEF ReadStays, Promise!vars

LEMMA ReleaseReadCorrect ==
    ASSUME LockInv, NEW t \in Threads, ReleaseRead(t)
    PROVE  LockInv' /\ Promise!Release(t)
<1>. DEFINE released == [pc EXCEPT ![t] = "idle"]
<1>1. released \in [Threads -> PCs] /\ pc[t] = "reading"
  BY DEF LockInv, LockTypeOK, ReleaseRead, PCs
<1>2. /\ pc' \in [Threads -> PCs]
      /\ \A w \in Threads :
           /\ (pc'[w] = "reading") <=> (released[w] = "reading")
           /\ (pc'[w] = "writing") <=> (released[w] = "writing")
           /\ (pc'[w] \in {"writeWait", "writeWoken"})
                <=> (released[w] \in {"writeWait", "writeWoken"})
  <2>1. CASE pc' = released
    BY <1>1, <2>1
  <2>2. CASE NotifyWriter(released, pc')
    BY <1>1, <2>2, NotifyKeepsSets
  <2>. QED
    BY <2>1, <2>2 DEF ReleaseRead
<1>3. /\ Readers' = Readers \ {t}
      /\ t \in Readers
      /\ Writers' = Writers
      /\ WaitingWriters' = WaitingWriters
  BY <1>1, <1>2 DEF LockInv, LockTypeOK, Readers, Writers, WaitingWriters, At
<1>4. Cardinality(Readers') = Cardinality(Readers) - 1 /\ Cardinality(Readers') \in Nat
  BY <1>3, CountedSetsFinite, FS_RemoveElement, FS_CardinalityType
<1>5. CountersExact'
  BY <1>3, <1>4 DEF LockInv, CountersExact, ReleaseRead
<1>6. LockTypeOK'
  BY <1>2, <1>4 DEF LockInv, LockTypeOK, CountersExact, ReleaseRead
<1>7. Writers = {}
  BY <1>3 DEF LockInv, Exclusion
<1>8. Promise!Release(t)
  BY <1>3, <1>7 DEF Promise!Release
<1>. QED
  BY <1>3, <1>5, <1>6, <1>8 DEF LockInv, Exclusion

LEMMA EnterWriteCorrect ==
    ASSUME LockInv, NEW t \in Threads, NEW counted \in {0, 1},
           AsksToWrite(t, counted), EnterWrite(t, counted)
    PROVE  LockInv' /\ Promise!GrantWrite(t)
<1>1. /\ Readers' = Readers
      /\ Writers' = Writers \union {t}
      /\ t \notin Writers
      /\ WaitingWriters' = WaitingWriters \ {t}
      /\ t \in WaitingWriters <=> counted = 1
  BY DEF LockInv, LockTypeOK, AsksToWrite, EnterWrite, Goto,
         Readers, Writers, WaitingWriters, At
<1>2. Readers = {} /\ Writers = {}
  BY ZeroMeansEmpty DEF EnterWrite, MayWrite
<1>3. Cardinality(Writers') = Cardinality(Writers) + 1
  BY <1>1, CountedSetsFinite, FS_AddElement
<1>4. /\ Cardinality(WaitingWriters') = Cardinality(WaitingWriters) - counted
      /\ Cardinality(WaitingWriters') \in Nat
  BY <1>1, CountedSetsFinite, FS_RemoveElement, FS_CardinalityType
<1>5. \A u \in Threads : (write_owner' = u) <=> (u \in Writers')
  BY <1>1, <1>2 DEF EnterWrite
<1>6. CountersExact'
  BY <1>1, <1>3, <1>4, <1>5 DEF LockInv, CountersExact, EnterWrite
<1>7. LockTypeOK'
  BY <1>4 DEF LockInv, LockTypeOK, CountersExact, EnterWrite, Goto, PCs
<1>8. Exclusion'
  BY <1>1, <1>2 DEF Exclusion
<1>9. Promise!GrantWrite(t)
  BY <1>1, <1>2 DEF Promise!GrantWrite
<1>. QED
  BY <1>6, <1>7, <1>8, <1>9 DEF LockInv

LEMMA WaitWriteCorrect ==
    ASSUME LockInv, NEW t \in Threads, NEW counted \in {0, 1},
           AsksToWrite(t, counted), WaitWrite(t, counted)
    PROVE  LockInv' /\ UNCHANGED Promise!vars
<1>1. /\ Readers' = Readers
      /\ Writers' = Writers
      /\ WaitingWriters' = WaitingWriters \union {t}
      /\ t \in WaitingWriters <=> counted = 1
  BY DEF LockInv, LockTypeOK, AsksToWrite, WaitWrite, Goto,
         Readers, Writers, WaitingWriters, At
<1>2. Cardinality(WaitingWriters') = Cardinality(WaitingWriters) + 1 - counted
  <2>1. CASE counted = 0
    <3>1. t \notin WaitingWriters
      BY <1>1, <2>1
    <3>2. Cardinality(WaitingWriters') = Cardinality(WaitingWriters) + 1
      BY <1>1, <3>1, CountedSetsFinite, FS_AddElement
    <3>. QED
      BY <2>1, <3>2, CountedSetsFinite
  <2>2. CASE counted = 1
    <3>1. WaitingWriters' = WaitingWriters
      BY <1>1, <2>2
    <3>. QED
      BY <2>2, <3>1, CountedSetsFinite
  <2>. QED
    BY <2>1, <2>2
<1>3. CountersExact'
  BY <1>1, <1>2 DEF LockInv, CountersExact, WaitWrite
<1>4. LockTypeOK'
  BY DEF LockInv, LockTypeOK, WaitWrite, Goto, PCs
<1>. QED
  BY <1>1, <1>3, <1>4 DEF LockInv, Exclusion, Promise!vars

LEMMA GiveUpWriteCorrect ==
    ASSUME LockInv, NEW t \in Threads, NEW counted \in {0, 1},
           AsksToWrite(t, counted), GiveUpWrite(t, counted)
    PROVE  LockInv' /\ UNCHANGED Promise!vars
<1>1. /\ Readers' = Readers
      /\ Writers' = Writers
      /\ WaitingWriters' = WaitingWriters \ {t}
      /\ t \in WaitingWriters <=> counted = 1
  BY DEF LockInv, LockTypeOK, AsksToWrite, GiveUpWrite, Goto,
         Readers, Writers, WaitingWriters, At
<1>2. /\ Cardinality(WaitingWriters') = Cardinality(WaitingWriters) - counted
      /\ Cardinality(WaitingWriters') \in Nat
  BY <1>1, CountedSetsFinite, FS_RemoveElement, FS_CardinalityType
<1>3. CountersExact'
  BY <1>1, <1>2 DEF LockInv, CountersExact, GiveUpWrite
<1>4. LockTypeOK'
  BY <1>2 DEF LockInv, LockTypeOK, CountersExact, GiveUpWrite, Goto, PCs
<1>. QED
  BY <1>1, <1>3, <1>4 DEF LockInv, Exclusion, Promise!vars

LEMMA ReleaseWriteCorrect ==
    ASSUME LockInv, NEW t \in Threads, ReleaseWrite(t)
    PROVE  LockInv' /\ Promise!Release(t)
<1>. DEFINE released == [u \in Threads |->
                          IF u = t THEN "idle"
                          ELSE IF pc[u] = "readWait" THEN "readWoken" ELSE pc[u]]
<1>1. /\ released \in [Threads -> PCs]
      /\ pc[t] = "writing"
      /\ NotifyWriter(released, pc')
  BY DEF LockInv, LockTypeOK, ReleaseWrite, PCs
<1>2. /\ pc' \in [Threads -> PCs]
      /\ \A w \in Threads :
           /\ (pc'[w] = "reading") <=> (released[w] = "reading")
           /\ (pc'[w] = "writing") <=> (released[w] = "writing")
           /\ (pc'[w] \in {"writeWait", "writeWoken"})
                <=> (released[w] \in {"writeWait", "writeWoken"})
  BY <1>1, NotifyKeepsSets
<1>3. /\ Readers' = Readers
      /\ Writers' = Writers \ {t}
      /\ t \in Writers
      /\ WaitingWriters' = WaitingWriters
  BY <1>1, <1>2 DEF LockInv, LockTypeOK, Readers, Writers, WaitingWriters, At
<1>4. Writers' = {}
  BY <1>3 DEF LockInv, Exclusion
<1>5. Cardinality(Writers') = Cardinality(Writers) - 1 /\ Cardinality(Writers') \in Nat
  BY <1>3, CountedSetsFinite, FS_RemoveElement, FS_CardinalityType
<1>6. \A u \in Threads : (write_owner' = u) <=> (u \in Writers')
  BY <1>4, ThreadsAssumption DEF ReleaseWrite
<1>7. CountersExact'
  BY <1>3, <1>5, <1>6 DEF LockInv, CountersExact, ReleaseWrite
<1>8. LockTypeOK'
  BY <1>2, <1>5 DEF LockInv, LockTypeOK, CountersExact, ReleaseWrite
<1>9. Exclusion'
  BY <1>4 DEF Exclusion
<1>10. Readers = {}
  BY <1>3 DEF LockInv, Exclusion
<1>11. Promise!Release(t)
  BY <1>3, <1>10 DEF Promise!Release
<1>. QED
  BY <1>7, <1>8, <1>9, <1>11 DEF LockInv

\* Every step of the lock preserves LockInv, and is a step of AbstractRWLock or
\* invisible to the lock's users.
LEMMA LockStepCorrect ==
    ASSUME LockInv, NEW t \in Threads, LockStep(t)
    PROVE  LockInv' /\ [Promise!Next]_(Promise!vars)
<1>1. CASE AcquireRead(t) \/ WakeRead(t) \/ TimeoutRead(t)
  <2>1. AsksToRead(t)
    BY <1>1 DEF AcquireRead, WakeRead, TimeoutRead, AsksToRead
  <2>2. \/ EnterRead(t)
        \/ \E where \in {"idle", "readWait"} : ReadStays(t, where)
    BY <1>1 DEF AcquireRead, WakeRead, TimeoutRead
  <2>. QED
    BY <2>1, <2>2, EnterReadCorrect, ReadStaysCorrect DEF Promise!Next
<1>2. CASE AcquireWrite(t) \/ WakeWrite(t) \/ TimeoutWrite(t)
  <2>1. PICK counted \in {0, 1} :
          /\ AsksToWrite(t, counted)
          /\ \/ EnterWrite(t, counted)
             \/ WaitWrite(t, counted)
             \/ GiveUpWrite(t, counted)
    BY <1>2 DEF AcquireWrite, WakeWrite, TimeoutWrite, AsksToWrite
  <2>. QED
    BY <2>1, EnterWriteCorrect, WaitWriteCorrect, GiveUpWriteCorrect
    DEF Promise!Next
<1>3. CASE ReleaseRead(t)
  BY <1>3, ReleaseReadCorrect DEF Promise!Next
<1>4. CASE ReleaseWrite(t)
  BY <1>4, ReleaseWriteCorrect DEF Promise!Next
<1>. QED
  BY <1>1, <1>2, <1>3, <1>4 DEF LockStep, LockReturns

LEMMA LockNextCorrect ==
    LockInv /\ [LockNext]_lockVars => LockInv' /\ [Promise!Next]_(Promise!vars)
<1>1. ASSUME LockInv, UNCHANGED lockVars
      PROVE  LockInv' /\ UNCHANGED Promise!vars
  BY <1>1 DEF lockVars, LockInv, LockTypeOK, CountersExact, Exclusion,
              Readers, Writers, WaitingWriters, At, Promise!vars
<1>. QED
  BY <1>1, LockStepCorrect DEF LockNext

-----------------------------------------------------------------------------
(***************************************************************************)
(* Writers' wake-ups.  NoLostWriterWakeup needs only the types: the lock   *)
(* becomes free only in a release, and each release that frees it notifies.*)
(***************************************************************************)

\* After a notify, either no writer sleeps or one has been woken.
LEMMA NotifyWakesSomeone ==
    ASSUME NEW pcs \in [Threads -> PCs], NEW pcs2, NotifyWriter(pcs, pcs2)
    PROVE  (\E w \in Threads : pcs2[w] = "writeWait")
             => (\E w \in Threads : pcs2[w] = "writeWoken")
<1>1. CASE {w \in Threads : pcs[w] = "writeWait"} = {}
  BY <1>1 DEF NotifyWriter
<1>2. CASE {w \in Threads : pcs[w] = "writeWait"} # {}
  BY <1>2 DEF NotifyWriter
<1>. QED
  BY <1>1, <1>2

LEMMA LockStepLosesNoWakeup ==
    ASSUME LockInv, NoLostWriterWakeup, NEW t \in Threads, LockStep(t)
    PROVE  NoLostWriterWakeup'
<1>. USE DEF NoLostWriterWakeup, MayWrite
<1>1. CASE EnterRead(t)
  BY <1>1 DEF EnterRead, LockInv, LockTypeOK
<1>2. ASSUME AsksToRead(t), NEW where \in {"idle", "readWait"}, ReadStays(t, where)
      PROVE  NoLostWriterWakeup'
  BY <1>2 DEF AsksToRead, ReadStays, Goto, At, LockInv, LockTypeOK
<1>3. ASSUME NEW counted \in {0, 1}, EnterWrite(t, counted)
      PROVE  NoLostWriterWakeup'
  BY <1>3 DEF EnterWrite, LockInv, LockTypeOK
<1>4. ASSUME NEW counted \in {0, 1}, WaitWrite(t, counted) \/ GiveUpWrite(t, counted)
      PROVE  NoLostWriterWakeup'
  BY <1>4 DEF WaitWrite, GiveUpWrite
<1>5. CASE ReleaseRead(t)
  <2>. DEFINE released == [pc EXCEPT ![t] = "idle"]
  <2>1. CASE active_readers' # 0
    BY <2>1
  <2>2. CASE active_readers' = 0
    <3>1. released \in [Threads -> PCs] /\ NotifyWriter(released, pc')
      BY <1>5, <2>2 DEF ReleaseRead, LockInv, LockTypeOK, PCs
    <3>. QED
      BY <3>1, NotifyWakesSomeone DEF At
  <2>. QED
    BY <2>1, <2>2
<1>6. CASE ReleaseWrite(t)
  <2>. DEFINE released == [u \in Threads |->
                            IF u = t THEN "idle"
                            ELSE IF pc[u] = "readWait" THEN "readWoken" ELSE pc[u]]
  <2>1. released \in [Threads -> PCs] /\ NotifyWriter(released, pc')
    BY <1>6 DEF ReleaseWrite, LockInv, LockTypeOK, PCs
  <2>. QED
    BY <2>1, NotifyWakesSomeone DEF At
<1>7. CASE AcquireRead(t) \/ WakeRead(t) \/ TimeoutRead(t)
  BY <1>1, <1>2, <1>7 DEF AcquireRead, WakeRead, TimeoutRead, AsksToRead
<1>8. CASE AcquireWrite(t) \/ WakeWrite(t) \/ TimeoutWrite(t)
  BY <1>3, <1>4, <1>8 DEF AcquireWrite, WakeWrite, TimeoutWrite
<1>. QED
  BY <1>5, <1>6, <1>7, <1>8 DEF LockStep, LockReturns

-----------------------------------------------------------------------------
\* The inductive invariant holds in every reachable state.
THEOREM LockInvariant == LockSpec => []LockInv
  BY LockInitInv, LockNextCorrect, PTL DEF LockSpec

\* The variables of the lock keep their types; in particular no counter ever
\* goes below 0, whatever timeouts and notifies coincide.
THEOREM LockTypeCorrect == LockSpec => []LockTypeOK
<1>1. LockInv => LockTypeOK
  BY DEF LockInv
<1>. QED
  BY <1>1, LockInvariant, PTL

\* _active_readers, _active_writers, _waiting_writers and _write_owner say
\* exactly who reads, writes and waits to write.
THEOREM CountersCorrect == LockSpec => []CountersExact
<1>1. LockInv => CountersExact
  BY DEF LockInv
<1>. QED
  BY <1>1, LockInvariant, PTL

\* A writer is alone with the lock.
THEOREM ExclusionCorrect == LockSpec => []Exclusion
<1>1. LockInv => Exclusion
  BY DEF LockInv
<1>. QED
  BY <1>1, LockInvariant, PTL

\* A writer never sleeps beside a free lock that nobody is about to take: a
\* release that frees the lock has notified a sleeping writer.
THEOREM NoLostWriterWakeupCorrect == LockSpec => []NoLostWriterWakeup
<1>1. LockInit => NoLostWriterWakeup
  BY DEF LockInit, NoLostWriterWakeup, At
<1>2. LockInv /\ NoLostWriterWakeup /\ [LockNext]_lockVars => NoLostWriterWakeup'
  <2>1. ASSUME NoLostWriterWakeup, UNCHANGED lockVars
        PROVE  NoLostWriterWakeup'
    BY <2>1 DEF NoLostWriterWakeup, MayWrite, At, lockVars
  <2>. QED
    BY <2>1, LockStepLosesNoWakeup DEF LockNext
<1>. QED
  BY <1>1, <1>2, LockInvariant, PTL DEF LockSpec

\* The counters and condition variables implement the readers-writer lock that
\* the users of the cache rely on.
THEOREM LockImplementsPromise == LockSpec => ImplementsPromise
<1>1. LockInit => Promise!Init
  BY DEF LockInit, Promise!Init, Readers, Writers, At
<1>. QED
  BY <1>1, LockNextCorrect, LockInvariant, PTL
  DEF LockSpec, ImplementsPromise, Promise!Spec

--------------------------------------------------------------------------------
(* The cache over the lock. *)

\* No key is stored twice.
UniqueKeys ==
    \A i, j \in DOMAIN entries : entries[i].key = entries[j].key => i = j

\* Of the data: no key twice, no entry from a later generation, the byte count
\* exact and within the limit, the entries in the order of their last use.
DataInv ==
    /\ entries \in Seq(Entry)
    /\ generation \in Nat
    /\ invalidations \in Nat
    /\ UniqueKeys
    /\ \A i \in DOMAIN entries : entries[i].gen <= generation
    /\ current_size = TotalBytes(entries)
    /\ current_size <= MaxSizeBytes
    /\ LeastRecentFirst

\* Where the operation of t is: between the parts of a put it holds the lock,
\* its key is not stored, and what it stores fits into the cache.
Placed(t) ==
    /\ op[t].name \in {"evict", "finished"} => pc[t] = "writing"
    /\ op[t].name = "evict" => op[t].key \notin Stored
    /\ op[t].name \in {"put", "evict"} => BytesOf[op[t].df] <= MaxSizeBytes
    /\ op[t].name # "finished" => answer[t] = NoFrame

\* The inductive invariant.
CacheInv ==
    /\ LockInv
    /\ DataInv
    /\ op \in [Threads -> Ops]
    /\ answer \in [Threads -> Frames \union {NoFrame}]
    /\ \A t \in Threads : Placed(t)
-----------------------------------------------------------------------------
(***************************************************************************)
(* Lists of entries, and the bytes in them.                                *)
(***************************************************************************)

\* The parts of a stored entry have their types.
LEMMA EntryParts ==
    ASSUME NEW es \in Seq(Entry), NEW n \in 1 .. Len(es)
    PROVE  /\ es[n] \in Entry
           /\ es[n].key \in Keys /\ es[n].df \in Frames /\ es[n].gen \in Nat
           /\ BytesOf[es[n].df] \in Nat
<1>1. es[n] \in Entry
  OBVIOUS
<1>. QED
  BY <1>1, CacheAssumption DEF Entry

\* The recursive function RunningBytes exists, and is the running sum of the sizes.
LEMMA RunningBytesExact ==
    ASSUME NEW es \in Seq(Entry)
    PROVE  /\ RunningBytes(es) \in [0 .. Len(es) -> Nat]
           /\ RunningSum(RunningBytes(es), [n \in 1 .. Len(es) |-> BytesOf[es[n].df]], Len(es))
<1>. DEFINE N == Len(es)
            w == [n \in 1 .. N |-> BytesOf[es[n].df]]
            Solves(f) == f = [n \in 0 .. N |-> IF n = 0 THEN 0 ELSE f[n - 1] + BytesOf[es[n].df]]
<1>1. N \in Nat /\ \A n \in 1 .. N : w[n] \in Nat /\ w[n] = BytesOf[es[n].df]
  BY EntryParts
<1>. HIDE DEF w
<1>2. PICK f \in [0 .. N -> Nat] : RunningSum(f, w, N)
  BY <1>1, RunningSumExists
<1>3. Solves(f)
  <2>1. \A n \in 0 .. N : f[n] = IF n = 0 THEN 0 ELSE f[n - 1] + BytesOf[es[n].df]
    <3>1. \A n \in 1 .. N : f[n] = f[n - 1] + w[n]
      BY <1>2 DEF RunningSum
    <3>2. f[0] = 0
      BY <1>2 DEF RunningSum
    <3>. QED
      BY <1>1, <3>1, <3>2
  <2>. QED
    BY <2>1
<1>4. RunningBytes(es) = CHOOSE g : Solves(g)
  BY DEF RunningBytes
<1>5. Solves(RunningBytes(es))
  BY <1>3, <1>4
<1>6. ASSUME NEW g, Solves(g) PROVE RunningSum(g, w, N)
  <2>1. \A n \in 0 .. N : g[n] = IF n = 0 THEN 0 ELSE g[n - 1] + BytesOf[es[n].df]
    BY <1>6
  <2>2. g[0] = 0
    BY <2>1, <1>1
  <2>3. \A n \in 1 .. N : g[n] = g[n - 1] + w[n]
    BY <2>1, <1>1
  <2>4. g = [n \in 0 .. N |-> g[n]]
    BY <1>6
  <2>. QED
    BY <2>2, <2>3, <2>4 DEF RunningSum
<1>7. RunningSum(RunningBytes(es), w, N)
  BY <1>5, <1>6
<1>8. RunningBytes(es) = f
  BY <1>1, <1>2, <1>7, RunningSumUnique
<1>. QED
  BY <1>2, <1>7, <1>8 DEF w

\* Nothing stored is no bytes.
LEMMA BytesOfNone == TotalBytes(<<>>) = 0
<1>1. <<>> \in Seq(Entry) /\ Len(<<>>) = 0
  OBVIOUS
<1>. QED
  BY <1>1, RunningBytesExact DEF TotalBytes, RunningSum

\* A total of bytes is a natural number.
LEMMA BytesNatural ==
    ASSUME NEW es \in Seq(Entry)
    PROVE  TotalBytes(es) \in Nat
<1>1. Len(es) \in 0 .. Len(es)
  OBVIOUS
<1>. QED
  BY <1>1, RunningBytesExact DEF TotalBytes

\* An entry added adds its bytes.
LEMMA BytesOfAppend ==
    ASSUME NEW es \in Seq(Entry), NEW e \in Entry
    PROVE  TotalBytes(Append(es, e)) = TotalBytes(es) + BytesOf[e.df]
<1>. DEFINE fs == Append(es, e)
            N == Len(es)
            w == [n \in 1 .. N |-> BytesOf[es[n].df]]
            w2 == [n \in 1 .. (N + 1) |-> BytesOf[fs[n].df]]
<1>1. fs \in Seq(Entry) /\ Len(fs) = N + 1 /\ N \in Nat
  OBVIOUS
<1>2. /\ \A n \in 1 .. (N + 1) : w2[n] \in Nat
      /\ \A n \in 1 .. N : w[n] = w2[n]
      /\ w2[N + 1] = BytesOf[e.df]
  <2>1. \A n \in 1 .. (N + 1) : w2[n] \in Nat
    BY <1>1, EntryParts
  <2>2. /\ \A n \in 1 .. N : fs[n] = es[n]
        /\ fs[N + 1] = e
    BY <1>1
  <2>. HIDE DEF fs, N
  <2>. QED
    BY <1>1, <2>1, <2>2
<1>3. RunningBytes(es) \in [0 .. N -> Nat] /\ RunningSum(RunningBytes(es), w, N)
  BY RunningBytesExact
<1>4. RunningSum(RunningBytes(fs), w2, N + 1)
  BY <1>1, RunningBytesExact
<1>. HIDE DEF fs, N, w, w2
<1>5. RunningBytes(fs)[N + 1] = RunningBytes(es)[N] + w2[N + 1]
  BY <1>1, <1>2, <1>3, <1>4, RunningSumAppend
<1>. QED
  BY <1>1, <1>2, <1>5 DEF TotalBytes, fs, N

\* An entry removed takes its bytes away.
LEMMA BytesOfRemove ==
    ASSUME NEW es \in Seq(Entry), NEW i \in 1 .. Len(es)
    PROVE  TotalBytes(RemoveAt(es, i)) = TotalBytes(es) - BytesOf[es[i].df]
<1>. DEFINE fs == RemoveAt(es, i)
            N == Len(es) - 1
            w == [n \in 1 .. (N + 1) |-> BytesOf[es[n].df]]
            w2 == [n \in 1 .. N |-> BytesOf[fs[n].df]]
<1>1. fs \in Seq(Entry) /\ Len(fs) = N /\ Len(es) = N + 1 /\ N \in Nat /\ i \in 1 .. (N + 1)
  BY RemoveAtShape
<1>2. \A n \in 1 .. N : fs[n] = IF n < i THEN es[n] ELSE es[n + 1]
  BY RemoveAtShape
<1>3. \A n \in 1 .. (N + 1) : w[n] \in Nat
  BY <1>1, EntryParts
<1>. HIDE DEF fs, N
<1>4. TakenOut(w2, w, i, N)
  BY <1>1, <1>2, <1>3 DEF TakenOut
<1>5. w[i] = BytesOf[es[i].df]
  BY <1>1
<1>6. RunningSum(RunningBytes(es), w, Len(es))
  BY <1>1, RunningBytesExact
<1>7. RunningSum(RunningBytes(fs), w2, N)
  BY <1>1, RunningBytesExact
<1>. HIDE DEF w, w2
<1>8. RunningBytes(fs)[N] = RunningBytes(es)[Len(es)] - w[i]
  BY <1>1, <1>4, <1>6, <1>7, RunningSumRemove
<1>. QED
  BY <1>1, <1>5, <1>8 DEF TotalBytes, fs

\* popitem(last=False) takes out the first entry.
LEMMA TailIsRemoval ==
    ASSUME NEW S, NEW s \in Seq(S), s # <<>>
    PROVE  Tail(s) = RemoveAt(s, 1) /\ Head(s) = s[1] /\ 1 \in 1 .. Len(s)
<1>1. Len(s) \in Nat /\ Len(s) # 0
  OBVIOUS
<1>2. /\ Tail(s) \in Seq(S) /\ Len(Tail(s)) = Len(s) - 1
      /\ \A n \in 1 .. (Len(s) - 1) : Tail(s)[n] = s[n + 1]
  BY <1>1
<1>3. /\ RemoveAt(s, 1) \in Seq(S) /\ Len(RemoveAt(s, 1)) = Len(s) - 1
      /\ \A n \in 1 .. (Len(s) - 1) : RemoveAt(s, 1)[n] = s[n + 1]
  BY <1>1, RemoveAtShape
<1>4. Tail(s) = RemoveAt(s, 1)
  BY <1>1, <1>2, <1>3
<1>. QED
  BY <1>1, <1>4
-----------------------------------------------------------------------------
(***************************************************************************)
(* What the cache remembers, from outside (the mapping to CacheContract).  *)
(***************************************************************************)

\* What a list of entries remembers in a generation.
Memory(es, g) ==
    [k \in Keys |->
       LET fresh == {i \in {j \in DOMAIN es : es[j].key = k} : es[i].gen = g}
       IN  IF fresh = {} THEN NoFrame ELSE es[CHOOSE i \in fresh : TRUE].df]

\* No key twice, for any list of entries.
KeysDiffer(es) == \A i, j \in DOMAIN es : es[i].key = es[j].key => i = j

\* The mapping, before and after a step.
LEMMA RememberedIsMemory ==
    /\ Remembered = Memory(entries, generation)
    /\ Remembered' = Memory(entries', generation')
  BY DEF Remembered, Memory, IndexOf

\* A key remembers its entry of the current generation, if there is one.
LEMMA MemoryExact ==
    ASSUME NEW es, NEW g, KeysDiffer(es), NEW k \in Keys
    PROVE  /\ \A i \in DOMAIN es : es[i].key = k /\ es[i].gen = g => Memory(es, g)[k] = es[i].df
           /\ (\A i \in DOMAIN es : es[i].key = k => es[i].gen # g) => Memory(es, g)[k] = NoFrame
<1>. DEFINE fresh == {i \in {j \in DOMAIN es : es[j].key = k} : es[i].gen = g}
<1>1. Memory(es, g)[k] = IF fresh = {} THEN NoFrame ELSE es[CHOOSE i \in fresh : TRUE].df
  BY DEF Memory
<1>2. ASSUME NEW i \in DOMAIN es, es[i].key = k, es[i].gen = g
      PROVE  Memory(es, g)[k] = es[i].df
  <2>1. i \in fresh
    BY <1>2
  <2>2. (CHOOSE j \in fresh : TRUE) \in fresh
    BY <2>1
  <2>3. (CHOOSE j \in fresh : TRUE) = i
    BY <1>2, <2>2 DEF KeysDiffer
  <2>. QED
    BY <1>1, <2>1, <2>3
<1>3. ASSUME \A i \in DOMAIN es : es[i].key = k => es[i].gen # g
      PROVE  Memory(es, g)[k] = NoFrame
  <2>1. fresh = {}
    BY <1>3
  <2>. QED
    BY <1>1, <2>1
<1>. QED
  BY <1>2, <1>3

\* Two lists have the same entry under k.
SameUnder(es, fs, k) ==
    /\ \A m \in DOMAIN es : es[m].key = k => \E n \in DOMAIN fs : fs[n] = es[m]
    /\ \A n \in DOMAIN fs : fs[n].key = k => \E m \in DOMAIN es : fs[n] = es[m]

\* Lists with the same entry under a key remember the same under it.
LEMMA SameMemory ==
    ASSUME NEW es, NEW fs, NEW g, KeysDiffer(es), KeysDiffer(fs), NEW k \in Keys,
           SameUnder(es, fs, k)
    PROVE  Memory(fs, g)[k] = Memory(es, g)[k]
<1>1. CASE \E i \in DOMAIN es : es[i].key = k /\ es[i].gen = g
  <2>1. PICK i \in DOMAIN es : es[i].key = k /\ es[i].gen = g
    BY <1>1
  <2>2. PICK j \in DOMAIN fs : fs[j] = es[i]
    BY <2>1 DEF SameUnder
  <2>. QED
    BY <2>1, <2>2, MemoryExact
<1>2. CASE ~ \E i \in DOMAIN es : es[i].key = k /\ es[i].gen = g
  <2>1. \A j \in DOMAIN fs : fs[j].key = k => fs[j].gen # g
    BY <1>2 DEF SameUnder
  <2>. QED
    BY <1>2, <2>1, MemoryExact
<1>. QED
  BY <1>1, <1>2
-----------------------------------------------------------------------------
(***************************************************************************)
(* What can happen to the data, and what it does to what is remembered.    *)
(***************************************************************************)

\* Nothing happens.
LEMMA DataStill ==
    ASSUME DataInv, UNCHANGED dataVars
    PROVE  DataInv' /\ Stored' = Stored /\ Remembered' = Remembered
<1>. USE DEF dataVars
<1>1. Stored' = Stored
  BY DEF Stored
<1>2. Remembered' = Remembered
  BY DEF Remembered, IndexOf
<1>3. DataInv'
  BY DEF DataInv, UniqueKeys, LeastRecentFirst
<1>. QED
  BY <1>1, <1>2, <1>3

\* An entry is taken out: its key is forgotten.
LEMMA RemovalCorrect ==
    ASSUME DataInv, NEW i \in DOMAIN entries,
           entries' = RemoveAt(entries, i),
           current_size' = current_size - BytesOf[entries[i].df],
           UNCHANGED <<generation, recency, invalidations>>
    PROVE  /\ DataInv'
           /\ Stored' = Stored \ {entries[i].key}
           /\ \A k \in Keys : Remembered'[k] = IF k = entries[i].key THEN NoFrame ELSE Remembered[k]
<1>. DEFINE N == Len(entries)
            k0 == entries[i].key
            from(n) == IF n < i THEN n ELSE n + 1
<1>0. entries \in Seq(Entry) /\ N \in Nat /\ i \in 1 .. N /\ DOMAIN entries = 1 .. N
  BY DEF DataInv
<1>1. /\ entries' \in Seq(Entry)
      /\ DOMAIN entries' = 1 .. (N - 1)
      /\ \A n \in 1 .. (N - 1) : entries'[n] = entries[from(n)]
  <2>1. /\ entries' \in Seq(Entry) /\ Len(entries') = N - 1
        /\ \A n \in 1 .. (N - 1) : entries'[n] = IF n < i THEN entries[n] ELSE entries[n + 1]
    BY <1>0, RemoveAtShape
  <2>2. DOMAIN entries' = 1 .. Len(entries')
    BY <2>1
  <2>3. \A n \in 1 .. (N - 1) : entries'[n] = entries[from(n)]
    BY ONLY <2>1
  <2>. QED
    BY ONLY <2>1, <2>2, <2>3
<1>2. /\ \A n \in 1 .. (N - 1) : from(n) \in 1 .. N /\ from(n) # i
      /\ \A m, n \in 1 .. (N - 1) : m < n => from(m) < from(n)
      /\ \A m, n \in 1 .. (N - 1) : from(m) = from(n) => m = n
      /\ \A m \in 1 .. N : m # i => \E n \in 1 .. (N - 1) : m = from(n)
  <2>1. ASSUME NEW m \in 1 .. N, m # i PROVE \E n \in 1 .. (N - 1) : m = from(n)
    <3>1. CASE m < i
      BY <1>0, <3>1
    <3>2. CASE m > i
      <4>1. m - 1 \in 1 .. (N - 1) /\ from(m - 1) = m
        BY <1>0, <3>2
      <4>. QED
        BY <4>1
    <3>. QED
      BY <1>0, <2>1, <3>1, <3>2
  <2>. QED
    BY <1>0, <2>1
<1>. HIDE DEF from, N
<1>3. KeysDiffer(entries)
  BY DEF DataInv, UniqueKeys, KeysDiffer
<1>4. KeysDiffer(entries')
  BY <1>0, <1>1, <1>2, <1>3 DEF KeysDiffer
<1>5. \A n \in 1 .. (N - 1) : entries'[n].key # k0
  BY <1>0, <1>1, <1>2, <1>3 DEF KeysDiffer
<1>6. \A m \in 1 .. N : m # i => \E n \in 1 .. (N - 1) : entries'[n] = entries[m]
  BY <1>1, <1>2
<1>7. Stored' = Stored \ {k0}
  <2>1. ASSUME NEW k \in Stored' PROVE k \in Stored \ {k0}
    <3>1. PICK n \in 1 .. (N - 1) : k = entries'[n].key
      BY <1>1, <2>1 DEF Stored
    <3>. QED
      BY <1>0, <1>1, <1>2, <1>5, <3>1 DEF Stored
  <2>2. ASSUME NEW k \in Stored \ {k0} PROVE k \in Stored'
    <3>1. PICK m \in 1 .. N : k = entries[m].key
      BY <1>0, <2>2 DEF Stored
    <3>2. m # i
      BY <2>2, <3>1
    <3>. QED
      BY <1>1, <1>6, <3>1, <3>2 DEF Stored
  <2>. QED
    BY <2>1, <2>2
<1>8. ASSUME NEW k \in Keys
      PROVE  Remembered'[k] = IF k = k0 THEN NoFrame ELSE Remembered[k]
  <2>1. CASE k = k0
    <3>1. \A n \in DOMAIN entries' : entries'[n].key = k => entries'[n].gen # generation
      BY <1>1, <1>5, <2>1
    <3>2. Memory(entries', generation)[k] = NoFrame
      BY <1>4, <3>1, MemoryExact
    <3>. QED
      BY <2>1, <3>2, RememberedIsMemory
  <2>2. CASE k # k0
    <3>1. \A m \in DOMAIN entries : entries[m].key = k =>
            \E n \in DOMAIN entries' : entries'[n] = entries[m]
      BY <1>0, <1>1, <1>6, <2>2
    <3>2. \A n \in DOMAIN entries' : \E m \in DOMAIN entries : entries'[n] = entries[m]
      BY <1>0, <1>1, <1>2
    <3>3. SameUnder(entries, entries', k)
      BY <3>1, <3>2 DEF SameUnder
    <3>4. Memory(entries', generation)[k] = Memory(entries, generation)[k]
      BY <1>3, <1>4, <3>3, SameMemory
    <3>. QED
      BY <2>2, <3>4, RememberedIsMemory
  <2>. QED
    BY <2>1, <2>2
<1>9. DataInv'
  <2>1. UniqueKeys'
    BY <1>4 DEF UniqueKeys, KeysDiffer
  <2>2. \A n \in DOMAIN entries' : entries'[n].gen <= generation'
    BY <1>0, <1>1, <1>2 DEF DataInv
  <2>3. current_size' = TotalBytes(entries')
    BY <1>0, BytesOfRemove DEF DataInv, N
  <2>4. current_size' <= MaxSizeBytes
    <3>1. current_size \in Nat /\ BytesOf[entries[i].df] \in Nat /\ current_size <= MaxSizeBytes
      BY <1>0, BytesNatural, EntryParts DEF DataInv, N
    <3>. QED
      BY <3>1, CacheAssumption
  <2>5. LeastRecentFirst'
    BY <1>0, <1>1, <1>2 DEF DataInv, LeastRecentFirst
  <2>. QED
    BY <1>1, <2>1, <2>2, <2>3, <2>4, <2>5 DEF DataInv
<1>. QED
  BY <1>7, <1>8, <1>9

\* A new entry at the end, for a key that is not stored and now used last.
LEMMA InsertionCorrect ==
    ASSUME DataInv, NEW e \in Entry, e.key \notin Stored, e.gen = generation,
           entries' = Append(entries, e),
           current_size' = current_size + BytesOf[e.df],
           current_size + BytesOf[e.df] <= MaxSizeBytes,
           recency' = Use(e.key),
           UNCHANGED <<generation, invalidations>>
    PROVE  /\ DataInv'
           /\ Stored' = Stored \union {e.key}
           /\ \A k \in Keys : Remembered'[k] = IF k = e.key THEN e.df ELSE Remembered[k]
<1>. DEFINE N == Len(entries)
<1>0. entries \in Seq(Entry) /\ N \in Nat /\ DOMAIN entries = 1 .. N
  BY DEF DataInv
<1>1. /\ entries' \in Seq(Entry)
      /\ DOMAIN entries' = 1 .. (N + 1)
      /\ \A n \in 1 .. N : entries'[n] = entries[n]
      /\ entries'[N + 1] = e
  BY <1>0
<1>2. KeysDiffer(entries)
  BY DEF DataInv, UniqueKeys, KeysDiffer
<1>3. \A n \in 1 .. N : entries[n].key # e.key
  BY <1>0 DEF Stored
<1>. HIDE DEF N
<1>4. KeysDiffer(entries')
  <2>. SUFFICES ASSUME NEW i \in 1 .. (N + 1), NEW j \in 1 .. (N + 1),
                       entries'[i].key = entries'[j].key
                PROVE  i = j
    BY <1>1 DEF KeysDiffer
  <2>1. CASE i \in 1 .. N /\ j \in 1 .. N
    BY <1>0, <1>1, <1>2, <2>1 DEF KeysDiffer
  <2>2. CASE i = N + 1 \/ j = N + 1
    BY <1>0, <1>1, <1>3, <2>2
  <2>. QED
    BY <1>0, <2>1, <2>2
<1>5. Stored' = Stored \union {e.key}
  <2>1. ASSUME NEW k \in Stored' PROVE k \in Stored \union {e.key}
    <3>1. PICK n \in 1 .. (N + 1) : k = entries'[n].key
      BY <1>1, <2>1 DEF Stored
    <3>2. n \in 1 .. N \/ n = N + 1
      BY <1>0
    <3>. QED
      BY <1>0, <1>1, <3>1, <3>2 DEF Stored
  <2>2. \A k \in Stored : k \in Stored'
    BY <1>0, <1>1 DEF Stored
  <2>3. e.key \in Stored'
    <3>1. N + 1 \in DOMAIN entries'
      BY <1>0, <1>1
    <3>. QED
      BY <1>1, <3>1 DEF Stored
  <2>. QED
    BY <2>1, <2>2, <2>3
<1>6. ASSUME NEW k \in Keys
      PROVE  Remembered'[k] = IF k = e.key THEN e.df ELSE Remembered[k]
  <2>1. CASE k = e.key
    <3>1. N + 1 \in DOMAIN entries' /\ entries'[N + 1].key = k /\ entries'[N + 1].gen = generation
      BY <1>0, <1>1, <2>1
    <3>2. Memory(entries', generation)[k] = entries'[N + 1].df
      BY <1>4, <3>1, MemoryExact
    <3>. QED
      BY <1>1, <2>1, <3>2, RememberedIsMemory
  <2>2. CASE k # e.key
    <3>1. \A m \in DOMAIN entries : entries[m].key = k =>
            \E n \in DOMAIN entries' : entries'[n] = entries[m]
      BY <1>0, <1>1
    <3>2. \A n \in DOMAIN entries' : entries'[n].key = k =>
            \E m \in DOMAIN entries : entries'[n] = entries[m]
      <4>1. ASSUME NEW n \in DOMAIN entries', entries'[n].key = k
            PROVE  \E m \in DOMAIN entries : entries'[n] = entries[m]
        <5>1. n \in 1 .. N
          BY <1>0, <1>1, <2>2, <4>1
        <5>. QED
          BY <1>0, <1>1, <5>1
      <4>. QED
        BY <4>1
    <3>3. SameUnder(entries, entries', k)
      BY <3>1, <3>2 DEF SameUnder
    <3>4. Memory(entries', generation)[k] = Memory(entries, generation)[k]
      BY <1>2, <1>4, <3>3, SameMemory
    <3>. QED
      BY <2>2, <3>4, RememberedIsMemory
  <2>. QED
    BY <2>1, <2>2
<1>7. DataInv'
  <2>1. UniqueKeys'
    BY <1>4 DEF UniqueKeys, KeysDiffer
  <2>2. ASSUME NEW n \in DOMAIN entries' PROVE entries'[n].gen <= generation'
    <3>1. CASE n \in 1 .. N
      BY <1>0, <1>1, <3>1 DEF DataInv
    <3>2. CASE n = N + 1
      BY <1>1, <3>2 DEF DataInv
    <3>. QED
      BY <1>0, <1>1, <3>1, <3>2
  <2>3. current_size' = TotalBytes(entries')
    BY <1>0, BytesOfAppend DEF DataInv
  <2>4. LeastRecentFirst'
    <3>. SUFFICES ASSUME NEW i \in 1 .. (N + 1), NEW j \in 1 .. (N + 1), i < j
                  PROVE  <<entries'[i].key, entries'[j].key>> \in recency'
      BY <1>1 DEF LeastRecentFirst
    <3>1. i \in 1 .. N /\ entries'[i] = entries[i] /\ entries[i].key \in Stored \ {e.key}
      BY <1>0, <1>1, <1>3 DEF Stored
    <3>2. CASE j \in 1 .. N
      <4>1. entries'[j] = entries[j] /\ entries[j].key \in Stored \ {e.key}
        BY <1>0, <1>1, <1>3, <3>2 DEF Stored
      <4>2. <<entries[i].key, entries[j].key>> \in recency
        BY <1>0, <3>1, <3>2 DEF DataInv, LeastRecentFirst
      <4>. QED
        BY <3>1, <4>1, <4>2 DEF Use
    <3>3. CASE j = N + 1
      BY <1>1, <3>1, <3>3 DEF Use
    <3>4. j \in 1 .. N \/ j = N + 1
      BY <1>0
    <3>. QED
      BY <3>2, <3>3, <3>4
  <2>5. current_size' <= MaxSizeBytes
    OBVIOUS
  <2>. QED
    BY <1>1, <2>1, <2>2, <2>3, <2>4, <2>5 DEF DataInv
<1>. QED
  BY <1>5, <1>6, <1>7

\* Where the n-th of N places gets its element from when the i-th moves to the end.
FromOf(n, i, N) == IF n = N THEN i ELSE IF n < i THEN n ELSE n + 1

\* The places move up to close the gap, in their order, and every place is taken.
LEMMA MovedToEnd ==
    ASSUME NEW N \in Nat, NEW i \in 1 .. N
    PROVE  /\ \A n \in 1 .. N : FromOf(n, i, N) \in 1 .. N
           /\ FromOf(N, i, N) = i /\ N \in 1 .. N
           /\ \A m, n \in 1 .. N : m < n /\ n # N => FromOf(m, i, N) < FromOf(n, i, N)
           /\ \A m \in 1 .. N : m # N => FromOf(m, i, N) # i
           /\ \A m, n \in 1 .. N : FromOf(m, i, N) = FromOf(n, i, N) => m = n
           /\ \A m \in 1 .. N : \E n \in 1 .. N : m = FromOf(n, i, N)
<1>1. ASSUME NEW m \in 1 .. N PROVE \E n \in 1 .. N : m = FromOf(n, i, N)
  <2>1. CASE m = i
    <3>1. N \in 1 .. N /\ FromOf(N, i, N) = m
      BY <2>1 DEF FromOf
    <3>. QED
      BY <3>1
  <2>2. CASE m < i
    <3>1. FromOf(m, i, N) = m
      BY <2>2 DEF FromOf
    <3>. QED
      BY <3>1
  <2>3. CASE m > i
    <3>1. m - 1 \in 1 .. N /\ FromOf(m - 1, i, N) = m
      BY <2>3 DEF FromOf
    <3>. QED
      BY <3>1
  <2>. QED
    BY <2>1, <2>2, <2>3
<1>. QED
  BY <1>1 DEF FromOf

\* A hit: the entry moves to the end, and its key is now the one used last.
LEMMA TouchCorrect ==
    ASSUME DataInv, NEW i \in DOMAIN entries,
           entries' = Append(RemoveAt(entries, i), entries[i]),
           recency' = Use(entries[i].key),
           UNCHANGED <<current_size, generation, invalidations>>
    PROVE  /\ DataInv'
           /\ Stored' = Stored
           /\ \A k \in Keys : Remembered'[k] = Remembered[k]
<1>. DEFINE N == Len(entries)
            k0 == entries[i].key
            from(n) == FromOf(n, i, N)
<1>0. entries \in Seq(Entry) /\ N \in Nat /\ i \in 1 .. N /\ DOMAIN entries = 1 .. N
  BY DEF DataInv
<1>1. /\ entries' \in Seq(Entry)
      /\ DOMAIN entries' = 1 .. N
      /\ \A n \in 1 .. N : entries'[n] = entries[from(n)]
  <2>. DEFINE rest == RemoveAt(entries, i)
  <2>1. /\ rest \in Seq(Entry) /\ Len(rest) = N - 1
        /\ \A n \in 1 .. (N - 1) : rest[n] = IF n < i THEN entries[n] ELSE entries[n + 1]
    BY <1>0, RemoveAtShape
  <2>2. entries[i] \in Entry /\ entries' = Append(rest, entries[i])
    BY <1>0
  <2>. HIDE DEF rest
  <2>. HIDE DEF N
  <2>3. /\ entries' \in Seq(Entry) /\ Len(entries') = N /\ entries'[N] = entries[i]
        /\ \A n \in 1 .. (N - 1) : entries'[n] = rest[n]
    <3>1. Len(rest) + 1 = N
      BY <1>0, <2>1
    <3>2. /\ entries' \in Seq(Entry) /\ Len(entries') = Len(rest) + 1
          /\ entries'[Len(rest) + 1] = entries[i]
          /\ \A n \in 1 .. Len(rest) : entries'[n] = rest[n]
      BY <2>1, <2>2
    <3>. QED
      BY <2>1, <3>1, <3>2
  <2>4. ASSUME NEW n \in 1 .. N PROVE entries'[n] = entries[from(n)]
    <3>1. CASE n = N
      BY <2>3, <3>1 DEF FromOf
    <3>2. CASE n # N
      <4>1. n \in 1 .. (N - 1)
        BY <1>0, <3>2
      <4>. QED
        BY <2>1, <2>3, <3>2, <4>1 DEF FromOf
    <3>. QED
      BY <3>1, <3>2
  <2>5. DOMAIN entries' = 1 .. N
    BY <2>3
  <2>6. \A n \in 1 .. N : entries'[n] = entries[from(n)]
    BY ONLY <2>4
  <2>. QED
    BY ONLY <2>3, <2>5, <2>6
<1>2. /\ \A n \in 1 .. N : from(n) \in 1 .. N
      /\ from(N) = i /\ N \in 1 .. N
      /\ \A m, n \in 1 .. N : m < n /\ n # N => from(m) < from(n)
      /\ \A m \in 1 .. N : m # N => from(m) # i
      /\ \A m, n \in 1 .. N : from(m) = from(n) => m = n
      /\ \A m \in 1 .. N : \E n \in 1 .. N : m = from(n)
  BY <1>0, MovedToEnd
<1>. HIDE DEF from, N
<1>3. KeysDiffer(entries)
  BY DEF DataInv, UniqueKeys, KeysDiffer
<1>4. KeysDiffer(entries')
  <2>. SUFFICES ASSUME NEW m \in 1 .. N, NEW n \in 1 .. N, entries'[m].key = entries'[n].key
                PROVE  m = n
    BY <1>1 DEF KeysDiffer
  <2>1. from(m) = from(n)
    <3>1. entries'[m] = entries[from(m)] /\ entries'[n] = entries[from(n)]
      BY <1>1
    <3>2. from(m) \in DOMAIN entries /\ from(n) \in DOMAIN entries
      BY <1>0, <1>2
    <3>. QED
      BY <1>3, <3>1, <3>2 DEF KeysDiffer
  <2>. QED
    BY <1>2, <2>1
<1>5. /\ \A m \in 1 .. N : \E n \in 1 .. N : entries'[n] = entries[m]
      /\ \A n \in 1 .. N : \E m \in 1 .. N : entries'[n] = entries[m]
  <2>1. ASSUME NEW m \in 1 .. N PROVE \E n \in 1 .. N : entries'[n] = entries[m]
    <3>1. PICK n \in 1 .. N : m = from(n)
      BY <1>2
    <3>. QED
      BY <1>1, <3>1
  <2>2. ASSUME NEW n \in 1 .. N PROVE \E m \in 1 .. N : entries'[n] = entries[m]
    BY <1>1, <1>2
  <2>. QED
    BY <2>1, <2>2
<1>6. Stored' = Stored
  <2>1. ASSUME NEW k \in Stored' PROVE k \in Stored
    <3>1. PICK n \in 1 .. N : k = entries'[n].key
      BY <1>1, <2>1 DEF Stored
    <3>. QED
      BY <1>0, <1>5, <3>1 DEF Stored
  <2>2. ASSUME NEW k \in Stored PROVE k \in Stored'
    <3>1. PICK m \in 1 .. N : k = entries[m].key
      BY <1>0, <2>2 DEF Stored
    <3>. QED
      BY <1>1, <1>5, <3>1 DEF Stored
  <2>. QED
    BY <2>1, <2>2
<1>7. ASSUME NEW k \in Keys PROVE Remembered'[k] = Remembered[k]
  <2>1. SameUnder(entries, entries', k)
    <3>1. DOMAIN entries = 1 .. N /\ DOMAIN entries' = 1 .. N
      BY <1>0, <1>1
    <3>2. \A m \in DOMAIN entries : \E n \in DOMAIN entries' : entries'[n] = entries[m]
      BY <1>5, <3>1
    <3>3. \A n \in DOMAIN entries' : \E m \in DOMAIN entries : entries'[n] = entries[m]
      BY <1>5, <3>1
    <3>. QED
      BY <3>2, <3>3 DEF SameUnder
  <2>2. Memory(entries', generation)[k] = Memory(entries, generation)[k]
    BY <1>3, <1>4, <2>1, SameMemory
  <2>. QED
    BY <2>2, RememberedIsMemory
<1>8. DataInv'
  <2>1. UniqueKeys'
    BY <1>4 DEF UniqueKeys, KeysDiffer
  <2>2. \A n \in DOMAIN entries' : entries'[n].gen <= generation'
    <3>1. \A m \in 1 .. N : entries[m].gen <= generation'
      BY <1>0 DEF DataInv
    <3>. QED
      BY ONLY <1>1, <1>5, <3>1
  <2>3. current_size' = TotalBytes(entries')
    <3>1. RemoveAt(entries, i) \in Seq(Entry) /\ entries[i] \in Entry
      BY <1>0, RemoveAtShape DEF N
    <3>2. /\ TotalBytes(entries') = TotalBytes(RemoveAt(entries, i)) + BytesOf[entries[i].df]
          /\ TotalBytes(RemoveAt(entries, i)) = TotalBytes(entries) - BytesOf[entries[i].df]
          /\ TotalBytes(entries) \in Nat /\ BytesOf[entries[i].df] \in Nat
      BY <1>0, <3>1, BytesOfAppend, BytesOfRemove, BytesNatural, EntryParts DEF N
    <3>. QED
      BY <3>2 DEF DataInv
  <2>4. LeastRecentFirst'
    <3>. SUFFICES ASSUME NEW m \in 1 .. N, NEW n \in 1 .. N, m < n
                  PROVE  <<entries'[m].key, entries'[n].key>> \in recency'
      BY <1>1 DEF LeastRecentFirst
    <3>1. m # N
      BY <1>0
    <3>2. entries[from(m)].key \in Stored \ {k0}
      BY <1>0, <1>2, <1>3, <3>1 DEF Stored, KeysDiffer
    <3>3. CASE n = N
      <4>1. entries'[n].key = k0
        BY <1>0, <1>1, <1>2, <3>3
      <4>. QED
        BY <1>1, <3>2, <4>1 DEF Use
    <3>4. CASE n # N
      <4>1. entries[from(n)].key \in Stored \ {k0}
        BY <1>0, <1>2, <1>3, <3>4 DEF Stored, KeysDiffer
      <4>2. <<entries[from(m)].key, entries[from(n)].key>> \in recency
        BY <1>0, <1>2, <3>4 DEF DataInv, LeastRecentFirst
      <4>. QED
        BY <1>1, <3>2, <4>1, <4>2 DEF Use
    <3>. QED
      BY <3>3, <3>4
  <2>. QED
    BY <1>1, <2>1, <2>2, <2>3, <2>4 DEF DataInv
<1>. QED
  BY <1>6, <1>7, <1>8

\* invalidate: every entry is of an older generation from now on.
LEMMA InvalidationCorrect ==
    ASSUME DataInv, generation' = generation + 1, invalidations' = invalidations + 1,
           UNCHANGED <<entries, current_size, recency>>
    PROVE  /\ DataInv'
           /\ Stored' = Stored
           /\ \A k \in Keys : Remembered'[k] = NoFrame
<1>1. DataInv'
  <2>1. \A i \in DOMAIN entries : entries[i].gen <= generation + 1
    <3>1. \A i \in DOMAIN entries : entries[i].gen \in Nat
      BY EntryParts DEF DataInv
    <3>. QED
      BY <3>1 DEF DataInv
  <2>. QED
    BY <2>1 DEF DataInv, UniqueKeys, LeastRecentFirst
<1>2. ASSUME NEW k \in Keys PROVE Remembered'[k] = NoFrame
  <2>1. \A i \in DOMAIN entries : entries[i].gen # generation + 1
    <3>1. \A i \in DOMAIN entries : entries[i].gen \in Nat
      BY EntryParts DEF DataInv
    <3>. QED
      BY <3>1 DEF DataInv
  <2>2. KeysDiffer(entries)
    BY DEF DataInv, UniqueKeys, KeysDiffer
  <2>3. Memory(entries, generation + 1)[k] = NoFrame
    BY <2>1, <2>2, MemoryExact
  <2>. QED
    BY <2>3, RememberedIsMemory
<1>. QED
  BY <1>1, <1>2 DEF Stored

\* clear, and the new cache: nothing is stored.
LEMMA EmptyCorrect ==
    ASSUME entries = <<>>, current_size = 0, generation \in Nat, invalidations \in Nat
    PROVE  DataInv /\ Stored = {} /\ \A k \in Keys : Remembered[k] = NoFrame
<1>1. DOMAIN entries = {} /\ entries \in Seq(Entry)
  OBVIOUS
<1>2. \A k \in Keys : Remembered[k] = NoFrame
  BY <1>1 DEF Remembered, IndexOf
<1>3. DataInv
  BY <1>1, BytesOfNone, CacheAssumption DEF DataInv, UniqueKeys, LeastRecentFirst
<1>. QED
  BY <1>1, <1>2, <1>3 DEF Stored
-----------------------------------------------------------------------------
(***************************************************************************)
(* Operations and the lock.                                                *)
(***************************************************************************)

\* What the operations are made of.
LEMMA OpsShape ==
    /\ NoOp \in Ops /\ NoOp.name = "none"
    /\ Finished \in Ops /\ Finished.name = "finished"
    /\ Simple("stats").name = "stats"
    /\ Calls \subseteq Ops
    /\ \A k \in Keys, f \in Frames : Evicting(k, f) \in Ops
    /\ \A o \in Ops :
         /\ o.name \in {"get", "put", "evict"} => o.key \in Keys
         /\ o.name \in {"put", "evict"} => o.df \in Frames
    /\ \A o \in Calls : o.name \in {"get", "put", "invalidate", "clear", "stats"}
<1>1. ASSUME NEW o \in Calls
      PROVE  /\ o.name \in {"get", "put"} => o.key \in Keys
             /\ o.name = "put" => o.df \in Frames
             /\ o.name \in {"get", "put", "invalidate", "clear", "stats"}
  <2>1. CASE o \in {Lookup(k) : k \in Keys}
    BY <2>1 DEF Lookup
  <2>2. CASE o \in UNION {{Store(k, f) : f \in ResultsOf[k]} : k \in Keys}
    <3>1. PICK k \in Keys : \E f \in ResultsOf[k] : o = Store(k, f)
      BY <2>2
    <3>2. PICK f \in ResultsOf[k] : o = Store(k, f)
      BY <3>1
    <3>3. f \in Frames
      BY CacheAssumption
    <3>. QED
      BY <3>2, <3>3 DEF Store
  <2>3. CASE o \in {Simple(n) : n \in {"invalidate", "clear", "stats"}}
    BY <2>3 DEF Simple
  <2>4. \/ o \in {Lookup(k) : k \in Keys}
        \/ o \in UNION {{Store(k, f) : f \in ResultsOf[k]} : k \in Keys}
        \/ o \in {Simple(n) : n \in {"invalidate", "clear", "stats"}}
    BY Zenon DEF Calls
  <2>. QED
    BY <2>1, <2>2, <2>3, <2>4
<1>2. ASSUME NEW o \in Ops
      PROVE  /\ o.name \in {"get", "put", "evict"} => o.key \in Keys
             /\ o.name \in {"put", "evict"} => o.df \in Frames
  <2>1. CASE o \in Calls
    BY <1>1, <2>1
  <2>2. CASE o \in {NoOp, Finished}
    BY <2>2 DEF NoOp, Finished
  <2>3. CASE o \in {Evicting(k, f) : k \in Keys, f \in Frames}
    BY <2>3 DEF Evicting
  <2>. QED
    BY <2>1, <2>2, <2>3 DEF Ops
<1>3. \A k \in Keys, f \in Frames : Evicting(k, f) \in Ops
  BY DEF Ops
<1>. QED
  BY <1>1, <1>2, <1>3 DEF Ops, NoOp, Finished, Simple

\* A thread that writes is the only one.
LEMMA WriterAlone ==
    ASSUME LockInv, NEW t \in Threads, pc[t] = "writing"
    PROVE  Writers = {t} /\ \A u \in Threads : u # t => pc[u] # "writing"
  BY DEF LockInv, Exclusion, Writers, At

\* A step of a thread on the lock neither lets another in to write nor puts it out.
LEMMA OthersStay ==
    ASSUME LockInv, NEW t \in Threads, LockStep(t), NEW u \in Threads, u # t
    PROVE  (pc'[u] = "writing") <=> (pc[u] = "writing")
<1>. USE DEF LockInv, LockTypeOK
<1>1. CASE ReleaseRead(t)
  <2>. DEFINE released == [pc EXCEPT ![t] = "idle"]
  <2>1. released \in [Threads -> PCs]
    BY DEF PCs
  <2>2. CASE pc' = released
    BY <2>2
  <2>3. CASE NotifyWriter(released, pc')
    <3>. HIDE DEF released
    <3>1. (pc'[u] = "writing") <=> (released[u] = "writing")
      BY <2>1, <2>3, NotifyKeepsSets
    <3>. QED
      BY <3>1 DEF released
  <2>. QED
    BY <1>1, <2>2, <2>3 DEF ReleaseRead
<1>2. CASE ReleaseWrite(t)
  <2>. DEFINE released == [v \in Threads |->
                            IF v = t THEN "idle"
                            ELSE IF pc[v] = "readWait" THEN "readWoken" ELSE pc[v]]
  <2>1. released \in [Threads -> PCs] /\ NotifyWriter(released, pc')
    BY <1>2 DEF ReleaseWrite, PCs
  <2>2. (released[u] = "writing") <=> (pc[u] = "writing")
    OBVIOUS
  <2>. HIDE DEF released
  <2>. QED
    BY <2>1, <2>2, NotifyKeepsSets
<1>3. CASE AcquireRead(t) \/ WakeRead(t) \/ TimeoutRead(t)
  BY <1>3 DEF AcquireRead, WakeRead, TimeoutRead, EnterRead, ReadStays, Goto
<1>4. CASE AcquireWrite(t) \/ WakeWrite(t) \/ TimeoutWrite(t)
  BY <1>4 DEF AcquireWrite, WakeWrite, TimeoutWrite, EnterWrite, WaitWrite, GiveUpWrite, Goto
<1>. QED
  BY <1>1, <1>2, <1>3, <1>4 DEF LockStep, LockReturns

\* A step of t leaves the others where they are: the data changes only under t's lock.
LEMMA OthersPlaced ==
    ASSUME CacheInv, NEW t \in Threads, NEW u \in Threads, u # t,
           (pc'[u] = "writing") <=> (pc[u] = "writing"),
           op'[u] = op[u], answer'[u] = answer[u],
           Stored' = Stored \/ pc[t] = "writing"
    PROVE  Placed(u)'
<1>1. Placed(u)
  BY DEF CacheInv
<1>2. op[u].name = "evict" => Stored' = Stored
  BY <1>1, WriterAlone DEF CacheInv, Placed
<1>. QED
  BY <1>1, <1>2 DEF Placed

\* The mapping of the operations to what is asked, after a step.
LEMMA AskedAfter ==
    ASSUME op \in [Threads -> Ops], NEW t \in Threads, NEW o, op' = [op EXCEPT ![t] = o]
    PROVE  Asked' = [Asked EXCEPT ![t] = IF o.name = "get" THEN {o.key} ELSE {}]
  BY DEF Asked

\* What is remembered is a function on the keys.
LEMMA RememberedIsFunction ==
    /\ Remembered = [k \in Keys |-> Remembered[k]]
    /\ Remembered' = [k \in Keys |-> Remembered'[k]]
  BY DEF Remembered

\* The invariant after a step of t, from its parts.
LEMMA Assemble ==
    ASSUME CacheInv, NEW t \in Threads, NEW o \in Ops, NEW a \in Frames \union {NoFrame},
           op' = [op EXCEPT ![t] = o], answer' = [answer EXCEPT ![t] = a],
           LockInv', DataInv', Placed(t)',
           \A u \in Threads : u # t => ((pc'[u] = "writing") <=> (pc[u] = "writing")),
           Stored' = Stored \/ pc[t] = "writing"
    PROVE  CacheInv'
<1>1. op' \in [Threads -> Ops] /\ answer' \in [Threads -> Frames \union {NoFrame}]
  BY DEF CacheInv
<1>2. ASSUME NEW u \in Threads PROVE Placed(u)'
  <2>1. CASE u = t
    BY <2>1
  <2>2. CASE u # t
    <3>1. op'[u] = op[u] /\ answer'[u] = answer[u]
      BY <2>2 DEF CacheInv
    <3>. QED
      BY <2>2, <3>1, OthersPlaced
  <2>. QED
    BY <2>1, <2>2
<1>. QED
  BY <1>1, <1>2 DEF CacheInv
-----------------------------------------------------------------------------
(***************************************************************************)
(* The steps: each preserves the invariant, and is a step of CacheContract *)
(* or invisible from outside.                                              *)
(***************************************************************************)

\* A new cache.
LEMMA InitCorrect == Init => CacheInv /\ Contract!Init
<1>. SUFFICES ASSUME Init PROVE CacheInv /\ Contract!Init
  OBVIOUS
<1>1. LockInv
  BY LockInitInv DEF Init
<1>2. DataInv /\ Stored = {} /\ \A k \in Keys : Remembered[k] = NoFrame
  BY EmptyCorrect DEF Init
<1>3. op \in [Threads -> Ops] /\ answer \in [Threads -> Frames \union {NoFrame}]
  BY OpsShape DEF Init
<1>4. \A t \in Threads : op[t].name = "none" /\ Placed(t)
  BY OpsShape DEF Init, Placed
<1>5. Contract!Init
  <2>1. Remembered = [k \in Keys |-> NoFrame]
    BY <1>2, RememberedIsFunction
  <2>2. Asked = [t \in Threads |-> {}]
    BY <1>4 DEF Asked
  <2>. QED
    BY <2>1, <2>2 DEF Init, Contract!Init
<1>. QED
  BY <1>1, <1>2, <1>3, <1>4, <1>5 DEF CacheInv

\* A call is an Ask when it is a get.
LEMMA CallCorrect ==
    ASSUME CacheInv, NEW t \in Threads, NEW o \in Calls, Call(t, o)
    PROVE  CacheInv' /\ [Contract!Next]_(Contract!vars)
<1>1. LockStep(t)
  BY DEF Call, LockStep
<1>2. LockInv'
  BY <1>1, LockStepCorrect DEF CacheInv
<1>3. DataInv' /\ Stored' = Stored /\ Remembered' = Remembered
  BY DataStill DEF Call, CacheInv
<1>4. op[t].name = "none" /\ answer[t] = NoFrame
  BY OpsShape DEF Call, CacheInv, Placed
<1>5. /\ op' = [op EXCEPT ![t] = o] /\ op'[t] = o
      /\ answer' = answer /\ answer = [answer EXCEPT ![t] = NoFrame]
  BY <1>4 DEF Call, CacheInv
<1>6. CacheInv'
  <2>1. o.name \in {"get", "put", "invalidate", "clear", "stats"} /\ o \in Ops
    BY OpsShape
  <2>2. Placed(t)'
    BY <1>4, <1>5, <2>1 DEF Placed, Call, ReachesLock
  <2>3. answer' = [answer EXCEPT ![t] = NoFrame]
    BY <1>5
  <2>. QED
    BY <1>1, <1>2, <1>3, <1>5, <2>1, <2>2, <2>3, OthersStay, Assemble DEF CacheInv
<1>7. [Contract!Next]_(Contract!vars)
  <2>1. Asked' = [Asked EXCEPT ![t] = IF o.name = "get" THEN {o.key} ELSE {}] /\ Asked[t] = {}
    BY <1>4, <1>5, AskedAfter DEF CacheInv, Asked
  <2>2. CASE o.name = "get"
    <3>1. o.key \in Keys
      BY <2>2, OpsShape
    <3>2. Contract!Ask(t, o.key)
      BY <1>3, <1>5, <2>1, <2>2 DEF Contract!Ask, Call, dataVars
    <3>. QED
      BY <3>1, <3>2 DEF Contract!Next
  <2>3. CASE o.name # "get"
    <3>1. Asked' = Asked
      BY <2>1, <2>3 DEF Asked
    <3>. QED
      BY <1>3, <1>5, <3>1 DEF Contract!vars, Call, dataVars
  <2>. QED
    BY <2>2, <2>3
<1>. QED
  BY <1>6, <1>7

\* Waiting for the lock is invisible.
LEMMA LockWaitCorrect ==
    ASSUME CacheInv, NEW t \in Threads, LockWait(t)
    PROVE  CacheInv' /\ UNCHANGED Contract!vars
<1>1. LockStep(t)
  BY DEF LockWait, LockStep, LockReturns
<1>2. LockInv'
  BY <1>1, LockStepCorrect DEF CacheInv
<1>3. DataInv' /\ Stored' = Stored /\ Remembered' = Remembered
  BY DataStill DEF LockWait, CacheInv, cacheVars, dataVars
<1>4. op' = op /\ answer' = answer
  BY DEF LockWait, cacheVars
<1>5. pc[t] # "writing"
  BY DEF LockWait, WakeRead, WakeWrite, TimeoutRead, TimeoutWrite
<1>6. Placed(t)'
  BY <1>3, <1>4, <1>5 DEF CacheInv, Placed
<1>7. op[t] \in Ops /\ op' = [op EXCEPT ![t] = op[t]]
      /\ answer[t] \in Frames \union {NoFrame} /\ answer' = [answer EXCEPT ![t] = answer[t]]
  BY <1>4 DEF CacheInv
<1>8. CacheInv'
  BY <1>1, <1>2, <1>3, <1>6, <1>7, OthersStay, Assemble DEF CacheInv
<1>9. UNCHANGED Contract!vars
  BY <1>3, <1>4 DEF Contract!vars, Asked, LockWait, cacheVars
<1>. QED
  BY <1>8, <1>9

\* A get that never got the lock is a Miss.
LEMMA TimedOutCorrect ==
    ASSUME CacheInv, NEW t \in Threads, TimedOut(t)
    PROVE  CacheInv' /\ [Contract!Next]_(Contract!vars)
<1>1. LockInv' /\ pc' = pc
  BY DEF TimedOut, CacheInv, LockInv, LockTypeOK, CountersExact, Exclusion, lockVars,
         Readers, Writers, WaitingWriters, At
<1>2. DataInv' /\ Stored' = Stored /\ Remembered' = Remembered
  BY DataStill DEF TimedOut, CacheInv
<1>3. op' = [op EXCEPT ![t] = NoOp] /\ op'[t] = NoOp /\ answer' = answer
  BY DEF TimedOut, CacheInv
<1>4. answer[t] = NoFrame /\ answer' = [answer EXCEPT ![t] = NoFrame]
  BY <1>3 DEF TimedOut, CacheInv, Placed
<1>5. Placed(t)'
  BY <1>3, <1>4, OpsShape DEF Placed
<1>6. CacheInv'
  BY <1>1, <1>2, <1>3, <1>4, <1>5, OpsShape, Assemble
<1>7. Contract!Miss(t)
  <2>1. Asked' = [Asked EXCEPT ![t] = {}]
    BY <1>3, AskedAfter, OpsShape DEF CacheInv
  <2>. QED
    BY <1>2, <1>3, <2>1 DEF Contract!Miss, TimedOut, dataVars
<1>. QED
  BY <1>6, <1>7 DEF Contract!Next

\* Leaving gives up the lock and what the get found.
LEMMA LeaveCorrect ==
    ASSUME CacheInv, NEW t \in Threads, Leave(t)
    PROVE  CacheInv' /\ [Contract!Next]_(Contract!vars)
<1>1. LockStep(t)
  BY DEF Leave, LockStep, LockReturns
<1>2. LockInv'
  BY <1>1, LockStepCorrect DEF CacheInv
<1>3. DataInv' /\ Stored' = Stored /\ Remembered' = Remembered
  BY DataStill DEF Leave, CacheInv
<1>4. /\ op' = [op EXCEPT ![t] = NoOp] /\ op'[t] = NoOp
      /\ answer' = [answer EXCEPT ![t] = NoFrame] /\ answer'[t] = NoFrame
  BY DEF Leave, CacheInv
<1>5. Placed(t)'
  BY <1>4, OpsShape DEF Placed
<1>6. CacheInv'
  BY <1>1, <1>2, <1>3, <1>4, <1>5, OthersStay, OpsShape, Assemble DEF CacheInv
<1>7. Contract!Return(t)
  <2>1. op[t].name \in {"finished", "stats"}
    BY OpsShape DEF Leave
  <2>2. Asked' = [Asked EXCEPT ![t] = {}] /\ Asked[t] = {}
    BY <1>4, <2>1, AskedAfter, OpsShape DEF CacheInv, Asked
  <2>3. Asked' = Asked
    BY <2>2 DEF Asked
  <2>. QED
    BY <1>3, <1>4, <2>3 DEF Contract!Return, Leave, dataVars
<1>. QED
  BY <1>6, <1>7 DEF Contract!Next

\* The invariant after a step of a thread that holds the write lock.
LEMMA WorkAssemble ==
    ASSUME CacheInv, NEW t \in Threads, pc[t] = "writing", UNCHANGED lockVars,
           NEW o \in Ops, NEW a \in Frames \union {NoFrame},
           op' = [op EXCEPT ![t] = o], answer' = [answer EXCEPT ![t] = a],
           DataInv', Placed(t)'
    PROVE  CacheInv'
<1>1. LockInv' /\ pc' = pc
  BY DEF CacheInv, LockInv, LockTypeOK, CountersExact, Exclusion, lockVars,
         Readers, Writers, WaitingWriters, At
<1>. QED
  BY <1>1, Assemble

\* An operation that ends here, with what it found.
LEMMA DoneAssemble ==
    ASSUME CacheInv, NEW t \in Threads, pc[t] = "writing", UNCHANGED lockVars,
           Done(t), NEW a \in Frames \union {NoFrame}, answer' = [answer EXCEPT ![t] = a],
           DataInv'
    PROVE  /\ CacheInv'
           /\ Asked' = [Asked EXCEPT ![t] = {}]
<1>1. op' = [op EXCEPT ![t] = Finished] /\ op'[t] = Finished /\ pc' = pc
  BY DEF Done, CacheInv, lockVars
<1>2. Placed(t)'
  BY <1>1, OpsShape DEF Placed
<1>3. Asked' = [Asked EXCEPT ![t] = {}]
  BY <1>1, AskedAfter, OpsShape DEF CacheInv
<1>. QED
  BY <1>1, <1>2, <1>3, OpsShape, WorkAssemble

\* A get is a Hit, or a Miss after which the entry may be gone.
LEMMA GetCorrect ==
    ASSUME CacheInv, NEW t \in Threads, Get(t)
    PROVE  CacheInv' /\ [Contract!Next]_(Contract!vars)
<1>. DEFINE k == op[t].key
<1>1. pc[t] = "writing" /\ op[t].name = "get" /\ op[t] \in Ops /\ k \in Keys
  BY OpsShape DEF Get, Inside, CacheInv
<1>2. Asked[t] = {k} /\ answer[t] = NoFrame
  BY <1>1 DEF Asked, CacheInv, Placed
<1>3. answer = [answer EXCEPT ![t] = NoFrame]
  BY <1>2 DEF CacheInv
<1>. HIDE DEF k
<1>4. CASE Missed(t)
  <2>1. DataInv' /\ Remembered' = Remembered
    BY <1>4, DataStill DEF Missed, CacheInv
  <2>2. Done(t) /\ UNCHANGED lockVars /\ answer' = [answer EXCEPT ![t] = NoFrame]
    BY <1>3, <1>4 DEF Missed
  <2>3. CacheInv' /\ Asked' = [Asked EXCEPT ![t] = {}]
    BY <1>1, <2>1, <2>2, DoneAssemble
  <2>4. Contract!Miss(t)
    BY <1>4, <2>1, <2>3 DEF Contract!Miss, Missed, dataVars
  <2>. QED
    BY <2>3, <2>4 DEF Contract!Next
<1>5. ASSUME NEW i \in IndexOf(k), Drop(t, i)
      PROVE  CacheInv' /\ Contract!Miss(t)
  <2>1. i \in DOMAIN entries /\ entries[i].key = k
    BY DEF IndexOf
  <2>2. /\ DataInv'
        /\ \A x \in Keys : Remembered'[x] = IF x = k THEN NoFrame ELSE Remembered[x]
    BY <1>5, <2>1, RemovalCorrect DEF Drop, CacheInv
  <2>3. Done(t) /\ UNCHANGED lockVars /\ answer' = [answer EXCEPT ![t] = NoFrame]
    BY <1>3, <1>5 DEF Drop
  <2>4. CacheInv' /\ Asked' = [Asked EXCEPT ![t] = {}]
    BY <1>1, <2>2, <2>3, DoneAssemble
  <2>5. Remembered' = Contract!Without({k})
    BY <2>2, RememberedIsFunction DEF Contract!Without
  <2>6. Contract!Miss(t)
    BY <1>2, <1>5, <2>4, <2>5 DEF Contract!Miss, Drop
  <2>. QED
    BY <2>4, <2>6
<1>6. ASSUME NEW i \in IndexOf(k), entries[i].gen = generation, HitAndTouch(t, i)
      PROVE  CacheInv' /\ Contract!Hit(t, k)
  <2>1. i \in DOMAIN entries /\ entries[i].key = k /\ entries[i].df \in Frames
    BY EntryParts DEF IndexOf, CacheInv, DataInv
  <2>2. DataInv' /\ \A x \in Keys : Remembered'[x] = Remembered[x]
    BY <1>6, <2>1, TouchCorrect DEF HitAndTouch, CacheInv
  <2>3. Done(t) /\ UNCHANGED lockVars /\ answer' = [answer EXCEPT ![t] = entries[i].df]
    BY <1>6 DEF HitAndTouch
  <2>4. CacheInv' /\ Asked' = [Asked EXCEPT ![t] = {}]
    BY <1>1, <2>1, <2>2, <2>3, DoneAssemble
  <2>5. Remembered[k] = entries[i].df
    <3>1. KeysDiffer(entries)
      BY DEF CacheInv, DataInv, UniqueKeys, KeysDiffer
    <3>. QED
      BY <1>1, <1>6, <2>1, <3>1, MemoryExact, RememberedIsMemory
  <2>6. Remembered' = Remembered
    BY <2>2, RememberedIsFunction
  <2>7. Remembered[k] # NoFrame
    BY <2>1, <2>5, CacheAssumption
  <2>. QED
    BY <1>2, <1>6, <2>3, <2>4, <2>5, <2>6, <2>7 DEF Contract!Hit, HitAndTouch
<1>7. \/ Missed(t)
      \/ \E i \in IndexOf(k) : Drop(t, i) \/ (entries[i].gen = generation /\ HitAndTouch(t, i))
  BY DEF Get, k
<1>. QED
  BY <1>1, <1>4, <1>5, <1>6, <1>7 DEF Contract!Next

\* The first part of a put forgets the key.
LEMMA PutRemoveOldCorrect ==
    ASSUME CacheInv, NEW t \in Threads, PutRemoveOld(t)
    PROVE  CacheInv' /\ Contract!Forget({op[t].key})
<1>. DEFINE k == op[t].key
            f == op[t].df
<1>1. /\ pc[t] = "writing" /\ op[t].name = "put"
      /\ k \in Keys /\ f \in Frames
  BY OpsShape DEF PutRemoveOld, Inside, CacheInv
<1>2. BytesOf[f] <= MaxSizeBytes /\ answer[t] = NoFrame
  BY <1>1 DEF CacheInv, Placed
<1>3. /\ Evicting(k, f) \in Ops
      /\ Evicting(k, f).name = "evict" /\ Evicting(k, f).key = k /\ Evicting(k, f).df = f
  BY <1>1, OpsShape DEF Evicting
<1>4. /\ UNCHANGED lockVars
      /\ op' = [op EXCEPT ![t] = Evicting(k, f)] /\ op'[t] = Evicting(k, f)
      /\ answer' = answer /\ answer' = [answer EXCEPT ![t] = NoFrame]
      /\ UNCHANGED <<generation, recency, invalidations>>
  BY <1>2 DEF PutRemoveOld, CacheInv
<1>. HIDE DEF k, f
<1>5. /\ DataInv' /\ k \notin Stored'
      /\ \A x \in Keys : Remembered'[x] = IF x = k THEN NoFrame ELSE Remembered[x]
  <2>1. CASE IndexOf(k) = {}
    <3>1. k \notin Stored
      BY <2>1 DEF Stored, IndexOf
    <3>2. DataInv' /\ Stored' = Stored /\ Remembered' = Remembered
      BY <1>4, <2>1, DataStill DEF PutRemoveOld, dataVars, CacheInv, k
    <3>3. Remembered[k] = NoFrame
      BY <1>1, <2>1 DEF Remembered
    <3>. QED
      BY <3>1, <3>2, <3>3
  <2>2. ASSUME NEW i \in IndexOf(k),
               entries' = RemoveAt(entries, i),
               current_size' = current_size - BytesOf[entries[i].df]
        PROVE  /\ DataInv' /\ k \notin Stored'
               /\ \A x \in Keys : Remembered'[x] = IF x = k THEN NoFrame ELSE Remembered[x]
    <3>1. i \in DOMAIN entries /\ entries[i].key = k
      BY DEF IndexOf
    <3>. QED
      BY <1>4, <2>2, <3>1, RemovalCorrect DEF CacheInv
  <2>. QED
    BY <2>1, <2>2 DEF PutRemoveOld, k
<1>6. Placed(t)'
  BY <1>1, <1>2, <1>3, <1>4, <1>5 DEF Placed, lockVars
<1>7. CacheInv'
  BY <1>1, <1>3, <1>4, <1>5, <1>6, WorkAssemble
<1>8. Asked' = Asked
  <2>1. Asked' = [Asked EXCEPT ![t] = {}] /\ Asked[t] = {}
    BY <1>1, <1>3, <1>4, AskedAfter DEF CacheInv, Asked
  <2>. QED
    BY <2>1 DEF Asked
<1>9. Remembered' = Contract!Without({k})
  BY <1>5, RememberedIsFunction DEF Contract!Without
<1>. QED
  BY <1>4, <1>7, <1>8, <1>9 DEF Contract!Forget, k

\* The eviction loop takes out the first entry.
LEMMA EvictedFirst ==
    ASSUME CacheInv, NEW t \in Threads, PutEvict(t)
    PROVE  /\ 1 \in DOMAIN entries /\ entries[1].key \in Keys
           /\ DataInv'
           /\ Stored' = Stored \ {entries[1].key}
           /\ \A x \in Keys : Remembered'[x] = IF x = entries[1].key THEN NoFrame ELSE Remembered[x]
<1>1. entries \in Seq(Entry) /\ entries # <<>>
  BY DEF CacheInv, DataInv, PutEvict, NoRoom
<1>2. /\ Tail(entries) = RemoveAt(entries, 1) /\ Head(entries) = entries[1]
      /\ 1 \in 1 .. Len(entries) /\ 1 \in DOMAIN entries
  BY <1>1, TailIsRemoval
<1>3. entries[1].key \in Keys
  BY <1>1, <1>2, EntryParts
<1>4. /\ entries' = RemoveAt(entries, 1)
      /\ current_size' = current_size - BytesOf[entries[1].df]
      /\ UNCHANGED <<generation, recency, invalidations>>
  BY <1>2 DEF PutEvict
<1>. QED
  BY <1>2, <1>3, <1>4, RemovalCorrect DEF CacheInv

\* The eviction loop forgets one more key.
LEMMA PutEvictCorrect ==
    ASSUME CacheInv, NEW t \in Threads, PutEvict(t)
    PROVE  CacheInv' /\ [Contract!Next]_(Contract!vars)
<1>1. pc[t] = "writing" /\ op[t].name = "evict"
  BY DEF PutEvict, Inside
<1>2. /\ UNCHANGED lockVars /\ op' = op /\ answer' = answer
      /\ op[t] \in Ops /\ op' = [op EXCEPT ![t] = op[t]]
      /\ answer[t] \in Frames \union {NoFrame} /\ answer' = [answer EXCEPT ![t] = answer[t]]
      /\ invalidations' = invalidations
  BY DEF PutEvict, CacheInv
<1>3. Placed(t)'
  BY <1>1, <1>2, EvictedFirst DEF CacheInv, Placed, lockVars
<1>4. CacheInv'
  BY <1>1, <1>2, <1>3, EvictedFirst, WorkAssemble
<1>5. Remembered' = Contract!Without({entries[1].key})
  BY EvictedFirst, RememberedIsFunction DEF Contract!Without
<1>6. Asked' = Asked
  BY <1>2 DEF Asked
<1>7. Contract!Forget({entries[1].key}) /\ {entries[1].key} \in SUBSET Keys
  BY <1>2, <1>5, <1>6, EvictedFirst DEF Contract!Forget
<1>. QED
  BY <1>4, <1>7 DEF Contract!Next

\* The last part of a put remembers the frame, and puts nothing out.
LEMMA PutInsertCorrect ==
    ASSUME CacheInv, NEW t \in Threads, PutInsert(t)
    PROVE  /\ CacheInv' /\ [Contract!Next]_(Contract!vars)
           /\ Stored \subseteq Stored'
<1>. DEFINE k == op[t].key
            f == op[t].df
            e == [key |-> k, df |-> f, gen |-> generation]
<1>1. /\ pc[t] = "writing" /\ op[t].name = "evict"
      /\ k \in Keys /\ f \in Frames /\ generation \in Nat
      /\ BytesOf[f] \in Nat
  BY OpsShape, CacheAssumption DEF PutInsert, Inside, CacheInv, DataInv
<1>2. k \notin Stored /\ BytesOf[f] <= MaxSizeBytes /\ answer[t] = NoFrame
  BY <1>1 DEF CacheInv, Placed
<1>3. e \in Entry /\ e.key = k /\ e.df = f /\ e.gen = generation
  BY <1>1 DEF Entry
<1>4. /\ entries' = Append(entries, e) /\ current_size' = current_size + BytesOf[f]
      /\ recency' = Use(k) /\ Done(t) /\ UNCHANGED lockVars
      /\ answer' = answer /\ answer' = [answer EXCEPT ![t] = NoFrame]
      /\ UNCHANGED <<generation, invalidations>>
  BY <1>2 DEF PutInsert, CacheInv
<1>5. current_size + BytesOf[f] <= MaxSizeBytes
  <2>1. current_size \in Nat
    BY BytesNatural DEF CacheInv, DataInv
  <2>2. CASE entries = <<>>
    BY <1>1, <1>2, <2>1, <2>2, BytesOfNone DEF CacheInv, DataInv
  <2>3. CASE entries # <<>>
    BY <1>1, <2>1, <2>3, CacheAssumption DEF PutInsert, NoRoom
  <2>. QED
    BY <2>2, <2>3
<1>. HIDE DEF e, k, f
<1>6. /\ DataInv' /\ Stored' = Stored \union {k}
      /\ \A x \in Keys : Remembered'[x] = IF x = k THEN f ELSE Remembered[x]
  <2>1. DataInv
    BY DEF CacheInv
  <2>. QED
    BY <1>2, <1>3, <1>4, <1>5, <2>1, InsertionCorrect
<1>7. CacheInv' /\ Asked' = [Asked EXCEPT ![t] = {}]
  BY <1>1, <1>4, <1>6, DoneAssemble
<1>8. Contract!Remember(k, f)
  <2>1. Asked' = Asked
    BY <1>1, <1>7 DEF Asked
  <2>2. Remembered' = [Remembered EXCEPT ![k] = f]
    BY <1>1, <1>6, RememberedIsFunction
  <2>. QED
    BY <1>4, <2>1, <2>2 DEF Contract!Remember
<1>. QED
  BY <1>1, <1>6, <1>7, <1>8 DEF Contract!Next

\* invalidate forgets everything and begins a new era.
LEMMA InvalidateCorrect ==
    ASSUME CacheInv, NEW t \in Threads, Invalidate(t)
    PROVE  CacheInv' /\ Contract!Invalidate
<1>1. pc[t] = "writing" /\ op[t].name = "invalidate"
  BY DEF Invalidate, Inside
<1>2. /\ Done(t) /\ UNCHANGED lockVars
      /\ answer' = answer /\ answer' = [answer EXCEPT ![t] = NoFrame]
  BY <1>1 DEF Invalidate, CacheInv, Placed
<1>3. DataInv' /\ \A k \in Keys : Remembered'[k] = NoFrame
  BY InvalidationCorrect DEF Invalidate, CacheInv
<1>4. CacheInv' /\ Asked' = [Asked EXCEPT ![t] = {}]
  BY <1>1, <1>2, <1>3, DoneAssemble
<1>5. Asked' = Asked
  BY <1>1, <1>4 DEF Asked
<1>6. Remembered' = Contract!Without(Keys)
  BY <1>3, RememberedIsFunction DEF Contract!Without
<1>. QED
  BY <1>2, <1>4, <1>5, <1>6 DEF Contract!Invalidate, Invalidate

\* clear forgets everything.
LEMMA ClearCorrect ==
    ASSUME CacheInv, NEW t \in Threads, Clear(t)
    PROVE  CacheInv' /\ Contract!Forget(Keys)
<1>1. pc[t] = "writing" /\ op[t].name = "clear"
  BY DEF Clear, Inside
<1>2. /\ Done(t) /\ UNCHANGED lockVars
      /\ answer' = answer /\ answer' = [answer EXCEPT ![t] = NoFrame]
  BY <1>1 DEF Clear, CacheInv, Placed
<1>3. /\ entries' = <<>> /\ current_size' = 0
      /\ generation' = generation /\ generation' \in Nat
      /\ invalidations' = invalidations /\ invalidations' \in Nat
  BY DEF Clear, CacheInv, DataInv
<1>4. DataInv' /\ \A k \in Keys : Remembered'[k] = NoFrame
  <2>1. DOMAIN entries' = {} /\ entries' \in Seq(Entry)
    BY <1>3
  <2>2. \A k \in Keys : Remembered'[k] = NoFrame
    BY <2>1 DEF Remembered, IndexOf
  <2>3. DataInv'
    BY <1>3, <2>1, BytesOfNone, CacheAssumption DEF DataInv, UniqueKeys, LeastRecentFirst
  <2>. QED
    BY <2>2, <2>3
<1>5. CacheInv' /\ Asked' = [Asked EXCEPT ![t] = {}]
  BY <1>1, <1>2, <1>4, DoneAssemble
<1>6. Asked' = Asked
  BY <1>1, <1>5 DEF Asked
<1>7. Remembered' = Contract!Without(Keys)
  BY <1>4, RememberedIsFunction DEF Contract!Without
<1>. QED
  BY <1>2, <1>3, <1>5, <1>6, <1>7 DEF Contract!Forget

-----------------------------------------------------------------------------
\* Every step preserves the invariant, and is a step of CacheContract or a stutter.
LEMMA NextCorrect ==
    CacheInv /\ [Next]_vars => CacheInv' /\ [Contract!Next]_(Contract!vars)
<1>1. ASSUME CacheInv, UNCHANGED vars
      PROVE  CacheInv' /\ UNCHANGED Contract!vars
  <2>1. UNCHANGED <<lockVars, dataVars, op, answer>>
    BY <1>1 DEF vars, cacheVars, dataVars
  <2>2. DataInv' /\ Stored' = Stored /\ Remembered' = Remembered
    BY <1>1, <2>1, DataStill DEF CacheInv
  <2>3. LockInv'
    BY <1>1, <2>1 DEF CacheInv, LockInv, LockTypeOK, CountersExact, Exclusion, lockVars,
                     Readers, Writers, WaitingWriters, At
  <2>4. \A t \in Threads : Placed(t)'
    BY <1>1, <2>1, <2>2 DEF CacheInv, Placed, lockVars
  <2>5. CacheInv'
    BY <1>1, <2>1, <2>2, <2>3, <2>4 DEF CacheInv
  <2>. QED
    BY <2>1, <2>2, <2>5 DEF Contract!vars, Asked, dataVars
<1>2. ASSUME CacheInv, NEW t \in Threads, Work(t)
      PROVE  CacheInv' /\ [Contract!Next]_(Contract!vars)
  <2>1. CASE Get(t)
    BY <1>2, <2>1, GetCorrect
  <2>2. CASE PutRemoveOld(t)
    <3>1. {op[t].key} \in SUBSET Keys
      BY <1>2, <2>2, OpsShape DEF PutRemoveOld, Inside, CacheInv
    <3>. QED
      BY <1>2, <2>2, <3>1, PutRemoveOldCorrect DEF Contract!Next
  <2>3. CASE PutEvict(t)
    BY <1>2, <2>3, PutEvictCorrect
  <2>4. CASE PutInsert(t)
    BY <1>2, <2>4, PutInsertCorrect
  <2>5. CASE Invalidate(t)
    BY <1>2, <2>5, InvalidateCorrect DEF Contract!Next
  <2>6. CASE Clear(t)
    <3>1. Keys \in SUBSET Keys
      OBVIOUS
    <3>. QED
      BY <1>2, <2>6, <3>1, ClearCorrect DEF Contract!Next
  <2>. QED
    BY <1>2, <2>1, <2>2, <2>3, <2>4, <2>5, <2>6 DEF Work
<1>3. ASSUME CacheInv, Next
      PROVE  CacheInv' /\ [Contract!Next]_(Contract!vars)
  BY <1>2, <1>3, CallCorrect, LockWaitCorrect, TimedOutCorrect, LeaveCorrect DEF Next, Proceed
<1>. QED
  BY <1>1, <1>3

\* The inductive invariant holds in every reachable state.
THEOREM CacheInvariant == Spec => []CacheInv
  BY InitCorrect, NextCorrect, PTL DEF Spec

\* _current_size_bytes is exactly the bytes of the entries and within the limit,
\* and no key is stored twice, for every cache size and any number of threads.
THEOREM BookkeepingCorrect == Spec => []BookkeepingExact
<1>1. CacheInv => BookkeepingExact
  BY DEF CacheInv, DataInv, UniqueKeys, BookkeepingExact, IsInjective
<1>. QED
  BY <1>1, CacheInvariant, PTL

\* A hit returns the frame stored last under the key since the last invalidation:
\* the locked, lazily invalidated, evicting cache implements CacheContract.
THEOREM CacheImplementsContract == Spec => ImplementsContract
  BY InitCorrect, NextCorrect, CacheInvariant, PTL DEF Spec, ImplementsContract, Contract!Spec

\* What a put evicts was used before everything that it keeps, and room was needed.
LEMMA StepEvictsLeastRecent ==
    ASSUME CacheInv, [Next]_vars, NEW t \in Threads, NEW victim \in Stored \ Stored',
           op[t].name = "evict", Writers = {t}
    PROVE  /\ TotalBytes(entries) + BytesOf[op[t].df] > MaxSizeBytes
           /\ \A survivor \in Stored' : <<victim, survivor>> \in recency
<1>1. pc[t] = "writing" /\ \A u \in Threads : u # t => pc[u] # "writing"
  <2>1. pc[t] = "writing"
    BY DEF Writers, At
  <2>. QED
    BY <2>1, WriterAlone DEF CacheInv
<1>2. ~UNCHANGED entries
  BY DEF Stored
<1>3. PICK u \in Threads : Work(u)
  BY <1>2 DEF Next, Proceed, Call, LockWait, TimedOut, Leave, vars, cacheVars, dataVars
<1>4. u = t
  BY <1>1, <1>3 DEF Work, Get, PutRemoveOld, PutEvict, PutInsert, Invalidate, Clear, Inside
<1>5. PutEvict(t)
  <2>1. ~PutInsert(t)
    BY PutInsertCorrect
  <2>. QED
    BY <1>3, <1>4, <2>1 DEF Work, Get, PutRemoveOld, Invalidate, Clear, Inside
<1>6. /\ 1 \in DOMAIN entries /\ victim = entries[1].key
      /\ Stored' = Stored \ {victim}
  BY <1>5, EvictedFirst
<1>7. ASSUME NEW survivor \in Stored' PROVE <<victim, survivor>> \in recency
  <2>1. PICK j \in DOMAIN entries : survivor = entries[j].key /\ j # 1
    BY <1>6 DEF Stored
  <2>2. 1 < j
    BY <2>1 DEF CacheInv, DataInv
  <2>. QED
    BY <1>6, <2>1, <2>2 DEF CacheInv, DataInv, LeastRecentFirst
<1>. QED
  BY <1>5, <1>7 DEF PutEvict, NoRoom, CacheInv, DataInv

\* The cache is LRU: the order of the entries is the order of use, and the eviction
\* loop of put goes by it and only as far as it needs to.
THEOREM EvictionCorrect == Spec => EvictionIsLru
<1>1. CacheInv => LeastRecentFirst
  BY DEF CacheInv, DataInv
<1>2. CacheInv /\ [Next]_vars =>
        [\A t \in Threads, victim \in Stored \ Stored' :
           op[t].name = "evict" /\ Writers = {t} =>
             /\ TotalBytes(entries) + BytesOf[op[t].df] > MaxSizeBytes
             /\ \A survivor \in Stored' : <<victim, survivor>> \in recency]_vars
  BY StepEvictsLeastRecent
<1>. QED
  BY <1>1, <1>2, CacheInvariant, PTL DEF Spec, EvictionIsLru, EvictsOnlyLeastRecent
=============================================================================
