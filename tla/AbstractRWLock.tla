--------------------------- MODULE AbstractRWLock ---------------------------
(***************************************************************************)
(* What a readers-writer lock promises its users: any number of threads    *)
(* may hold it for reading, or exactly one thread for writing.  There are  *)
(* no counters, no condition variables and no timeouts here; a thread that *)
(* gives up waiting simply takes no step.                                  *)
(***************************************************************************)
CONSTANT Threads

VARIABLES
    readers,    \* the threads that hold the lock for reading
    writers     \* the threads that hold it for writing: never more than one

vars == <<readers, writers>>

Init ==
    /\ readers = {}
    /\ writers = {}

GrantRead(t) ==
    /\ writers = {}
    /\ t \notin readers
    /\ readers' = readers \union {t}
    /\ UNCHANGED writers

GrantWrite(t) ==
    /\ writers = {}
    /\ readers = {}
    /\ writers' = {t}
    /\ UNCHANGED readers

Release(t) ==
    /\ t \in readers \union writers
    /\ readers' = readers \ {t}
    /\ writers' = writers \ {t}

Next == \E t \in Threads : GrantRead(t) \/ GrantWrite(t) \/ Release(t)

Spec == Init /\ [][Next]_vars
=============================================================================
