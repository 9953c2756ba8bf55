SPECIFICATION MCSpec
CONSTANTS
    t1 = t1
    t2 = t2
    w1 = w1
    w2 = w2
    Clients = {t1, t2}
    WorkerIds = {w1, w2}
    DispatchBound = 3
    Status = {"active", "draining"}
    TimeBound = 3
    Requesters = {t1, t2}
    Callers = {"alice", "none"}
    NoCaller = "none"
    Unit = 2
    Qps = 1
    Burst = 2
    NoBucket = NoBucket
    NotCalling = NotCalling
    NoLimiter = NoLimiter
    LimiterBound = 1
    Selectors = {t1, t2}
    Chain <- MCChain
    Installed = {"polars", "pandas"}
    Threshold = 2
    Timeout = 1
    Labels = {"Person", "KNOWS"}
    EntityLabels = {"Person"}
    Sources <- MCSources
    Null = Null
    RegistrationBound = 3
    Agents = {"ann", "bob"}
    Files = {"f", "g"}
    IntentBound = 4
    Events = {"login", "query"}
    NoSignature = NoSignature
    Limits = {0, 1, 2}
    RecordBound = 5
    Metered = {t1, t2}
    MaxSamples = 2
    RateWindow = 1
    SlowThreshold = 1
    Elapsed = {1, 2}
    ErrorTypes = {"timeout", "syntax"}
    NotRecording = NotRecording
    EventBound = 4
INVARIANTS ClusterBalanced AdmissionExact BreakerExact LedgersExact StoresExact
PROPERTY Recovers
CHECK_DEADLOCK FALSE
