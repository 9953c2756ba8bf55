SPECIFICATION Spec
CONSTANTS
    Main = main
    worker = worker
    Threads = {main, worker}
    a = a
    b = b
    Types = {a, b}
    TxnBound = 2
    Txns <- MCTxns
    Programs <- MCPrograms
    Deployments <- MCDeployments
    NoTable = NoTable
    NoFill = NoFill
    NoQuery = NoQuery
    NoResult = NoResult
    Unread = Unread
INVARIANTS
    EngineTypeOK
    NoDirtyRead
    CommittedStays
    SequentialCoherence
    LookupCacheFresh
    AlarmConfined
PROPERTIES
    TimedQueryReturns
CHECK_DEADLOCK FALSE
