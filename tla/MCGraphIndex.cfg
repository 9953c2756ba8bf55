SPECIFICATION Spec
CONSTANTS
    reader = reader
    writer = writer
    q1 = q1
    q2 = q2
    P = P
    R = R
    x = x
    y = y
    Threads = {reader, writer}
    Committers = {writer}
    Types = {P, R}
    Entities = {P}
    Txns = {q1, q2}
    Values = {x, y}
    Nodes = {1, 2, 3}
    Rows <- MCRows
    Null = Null
    NoTable = NoTable
    NoFill = NoFill
    NoThread = NoThread
    NoIndex = NoIndex
    Idle = Idle
    ConcurrentInvalidate = FALSE
    LookupBound = 3
INVARIANTS IndexFresh NoStaleLookup
PROPERTY LookupReturns
CHECK_DEADLOCK FALSE
