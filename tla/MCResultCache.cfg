SPECIFICATION Spec
CONSTANTS
    Threads = {t1, t2}
    NoThread = NoThread
    k1 = k1
    k2 = k2
    k3 = k3
    small = small
    large = large
    huge = huge
    Keys = {k1, k2, k3}
    Frames = {small, large, huge}
    NoFrame = NoFrame
    ResultsOf <- MCResultsOf
    BytesOf <- MCBytesOf
    MaxSizeBytes = 2
    ExpiryOn = TRUE
    GenerationBound = 1
INVARIANTS
    BookkeepingExact
PROPERTIES
    EvictionIsLru
    ImplementsContract
    EveryCallReturns
