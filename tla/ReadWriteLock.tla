---------------------------- MODULE ReadWriteLock ----------------------------
(***************************************************************************)
(* The readers-writer lock of result_cache.py: three counters guarded by   *)
(* one mutex, two condition variables, timeouts on every wait, and a       *)
(* preference for writers (a reader does not enter while a writer waits).  *)
(*                                                                         *)
(* A step of the model is one critical section of `_state_lock`.  A thread *)
(* leaves the mutex only by returning or by Condition.wait(), so these are *)
(* the interleavings the code has.  A thread waiting on a condition is in  *)
(* its wait set until it is notified ("...woken") or its timeout expires.  *)
(* A woken thread may find its deadline passed when it re-checks, so the   *)
(* re-check may give up; this covers a notify that lands on a waiter whose *)
(* timeout has already expired.                                            *)
(***************************************************************************)
EXTENDS Naturals, FiniteSets

CONSTANTS
    Threads,    \* the threads that use the lock
    NoThread    \* the value None of `_write_owner`

ASSUME ThreadsAssumption == IsFiniteSet(Threads) /\ NoThread \notin Threads

VARIABLES
    pc,                 \* where each thread is with respect to the lock
    active_readers,     \* _active_readers
    active_writers,     \* _active_writers
    waiting_writers,    \* _waiting_writers
    write_owner         \* _write_owner

lockVars == <<pc, active_readers, active_writers, waiting_writers, write_owner>>

PCs == {"idle",
        "readWait", "readWoken", "reading",
        "writeWait", "writeWoken", "writing"}

At(where) == {t \in Threads : pc[t] = where}

Readers == At("reading")
Writers == At("writing")
WaitingWriters == At("writeWait") \union At("writeWoken")

Goto(t, where) == pc' = [pc EXCEPT ![t] = where]

LockInit ==
    /\ pc = [t \in Threads |-> "idle"]
    /\ active_readers = 0
    /\ active_writers = 0
    /\ waiting_writers = 0
    /\ write_owner = NoThread
-----------------------------------------------------------------------------
(***************************************************************************)
(* Readers.                                                                *)
(***************************************************************************)

ReadersEnterWhileWriting == waiting_writers = 0   \* mutant: forgets the active writer

\* The negation of the loop condition of acquire_read.
MayRead == active_writers = 0 /\ waiting_writers = 0

EnterRead(t) ==
    /\ MayRead
    /\ Goto(t, "reading")
    /\ active_readers' = active_readers + 1
    /\ UNCHANGED <<active_writers, waiting_writers, write_owner>>

ReadStays(t, where) ==
    /\ ~MayRead
    /\ Goto(t, where)
    /\ UNCHANGED <<active_readers, active_writers, waiting_writers, write_owner>>

\* acquire_read up to the first wait: enter, wait, or (timeout 0) give up.
AcquireRead(t) ==
    /\ pc[t] = "idle"
    /\ EnterRead(t) \/ ReadStays(t, "readWait") \/ ReadStays(t, "idle")

\* _readers_ok.wait() returned because of a notify: the loop runs again.
WakeRead(t) ==
    /\ pc[t] = "readWoken"
    /\ EnterRead(t) \/ ReadStays(t, "readWait") \/ ReadStays(t, "idle")

\* _readers_ok.wait() returned because the time was up.
TimeoutRead(t) ==
    /\ pc[t] = "readWait"
    /\ EnterRead(t) \/ ReadStays(t, "idle")

\* What `_writers_ok.notify()` does to pc: it wakes one waiting writer, if any.
NotifyWriter(pcs, pcs2) ==
    LET asleep == {w \in Threads : pcs[w] = "writeWait"}
    IN  IF asleep = {} THEN pcs2 = pcs
        ELSE \E w \in asleep : pcs2 = [pcs EXCEPT ![w] = "writeWoken"]

ReleaseReadSilently(t) ==   \* mutant: the last reader does not notify
    /\ pc[t] = "reading"
    /\ active_readers' = active_readers - 1
    /\ pc' = [pc EXCEPT ![t] = "idle"]
    /\ UNCHANGED <<active_writers, waiting_writers, write_owner>>

ReleaseRead(t) ==
    /\ pc[t] = "reading"
    /\ active_readers' = active_readers - 1
    /\ LET released == [pc EXCEPT ![t] = "idle"]
       IN  IF active_readers' = 0 THEN NotifyWriter(released, pc')
           ELSE pc' = released
    /\ UNCHANGED <<active_writers, waiting_writers, write_owner>>
-----------------------------------------------------------------------------
(***************************************************************************)
(* Writers.  `_waiting_writers` counts a thread from its first check until *)
(* the finally clause of acquire_write, which runs in the same critical    *)
(* section as the check that ends the loop.                                *)
(***************************************************************************)

WriteIgnoresReaders == active_writers = 0   \* mutant

MayWrite == active_readers = 0 /\ active_writers = 0

\* `counted` is 1 when this thread is already in _waiting_writers.
EnterWrite(t, counted) ==
    /\ MayWrite
    /\ Goto(t, "writing")
    /\ active_writers' = active_writers + 1
    /\ waiting_writers' = waiting_writers - counted
    /\ write_owner' = t
    /\ UNCHANGED active_readers

WaitWrite(t, counted) ==
    /\ ~MayWrite
    /\ Goto(t, "writeWait")
    /\ waiting_writers' = waiting_writers + 1 - counted
    /\ UNCHANGED <<active_readers, active_writers, write_owner>>

LeaksWaitingCount(t, counted) ==   \* mutant: no finally clause
    /\ ~MayWrite
    /\ Goto(t, "idle")
    /\ UNCHANGED <<active_readers, active_writers, waiting_writers, write_owner>>

GiveUpWrite(t, counted) ==
    /\ ~MayWrite
    /\ Goto(t, "idle")
    /\ waiting_writers' = waiting_writers - counted
    /\ UNCHANGED <<active_readers, active_writers, write_owner>>

\* The re-entrancy check comes first and outside the mutex: a thread that owns
\* the write lock gets False at once, with nothing changed.
AcquireWrite(t) ==
    /\ write_owner # t
    /\ pc[t] = "idle"
    /\ EnterWrite(t, 0) \/ WaitWrite(t, 0) \/ GiveUpWrite(t, 0)

WakeWrite(t) ==
    /\ pc[t] = "writeWoken"
    /\ EnterWrite(t, 1) \/ WaitWrite(t, 1) \/ GiveUpWrite(t, 1)

TimeoutWriteIgnored(t) ==   \* mutant: the deadline is not checked
    /\ pc[t] = "writeWait"
    /\ EnterWrite(t, 1)

TimeoutWrite(t) ==
    /\ pc[t] = "writeWait"
    /\ EnterWrite(t, 1) \/ GiveUpWrite(t, 1)

\* readers_ok.notify_all() and then writers_ok.notify().
ReleaseWrite(t) ==
    /\ pc[t] = "writing"
    /\ active_writers' = active_writers - 1
    /\ write_owner' = NoThread
    /\ LET released == [u \in Threads |->
                          IF u = t THEN "idle"
                          ELSE IF pc[u] = "readWait" THEN "readWoken" ELSE pc[u]]
       IN  NotifyWriter(released, pc')
    /\ UNCHANGED <<active_readers, waiting_writers>>
-----------------------------------------------------------------------------
LockReturns(t) == WakeRead(t) \/ WakeWrite(t) \/ ReleaseRead(t) \/ ReleaseWrite(t)

LockStep(t) ==
    \/ AcquireRead(t) \/ AcquireWrite(t)
    \/ TimeoutRead(t) \/ TimeoutWrite(t)
    \/ LockReturns(t)

LockNext == \E t \in Threads : LockStep(t)

\* Every holder releases (the callers release in a finally clause) and a
\* notified thread runs.  Timeouts are not assumed to fire: what follows holds
\* for arbitrarily long ones.
LockFairness == \A t \in Threads : WF_lockVars(LockReturns(t))

LockSpec == LockInit /\ [][LockNext]_lockVars /\ LockFairness
-----------------------------------------------------------------------------
\* The counters of the lock are never negative and the owner is a thread or None.
LockTypeOK ==
    /\ pc \in [Threads -> PCs]
    /\ active_readers \in Nat
    /\ active_writers \in Nat
    /\ waiting_writers \in Nat
    /\ write_owner \in Threads \union {NoThread}

\* The counters of the code are the sizes of the sets they stand for, whatever
\* mix of notifies, timeouts and late wake-ups led here, and the owner recorded
\* for diagnostics and for the re-entrancy check is the thread that writes.
CountersExact ==
    /\ active_readers = Cardinality(Readers)
    /\ active_writers = Cardinality(Writers)
    /\ waiting_writers = Cardinality(WaitingWriters)
    /\ \A t \in Threads : (write_owner = t) <=> (t \in Writers)

\* Nobody reads while somebody writes, and at most one thread writes.
Exclusion ==
    /\ Writers # {} => Readers = {}
    /\ \A t, u \in Writers : t = u

\* No lost wake-up for writers: when the lock is free and a writer sleeps in
\* the wait set, some other waiter has been notified and will run, and it
\* passes the lock on when it releases.
NoLostWriterWakeup ==
    (MayWrite /\ At("writeWait") # {}) => At("writeWoken") # {}

\* The counters implement the lock that users expect.
Promise == INSTANCE AbstractRWLock WITH readers <- Readers, writers <- Writers
ImplementsPromise == Promise!Spec

\* Writer preference: once a writer waits, new readers stay out and some
\* writer gets the lock (or every waiting writer gave up).
SomeWriterProceeds ==
    (waiting_writers > 0) ~> (active_writers > 0 \/ waiting_writers = 0)

\* A reader asleep in the wait set is blocked by a writer that holds the lock
\* or waits for it: the only two reasons for which acquire_read waits.
NoStrandedReader ==
    \A t \in Threads : pc[t] = "readWait" => ~MayRead
=============================================================================
