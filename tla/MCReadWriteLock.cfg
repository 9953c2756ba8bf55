SPECIFICATION LockSpec
CONSTANTS
    Threads = {t1, t2, t3, t4}
    NoThread = NoThread
INVARIANTS
    CountersExact
    Exclusion
    NoLostWriterWakeup
PROPERTIES
    ImplementsPromise
    SomeWriterProceeds
