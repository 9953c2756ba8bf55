SPECIFICATION Spec
CONSTANTS
    Main = main
    worker = worker
    Threads = {main, worker}
    a = a
    b = b
    Types = {a, b}
    TxnBound = 2
    Txns <- MCTxns
    Programs <- MCPrograms
    Deployments <- TimedMain
    NoTable = NoTable
    NoFill = NoFill
    NoQuery = NoQuery
    NoResult = NoResult
    Unread = Unread
INVARIANT
    AllOrNothing
CHECK_DEADLOCK FALSE
