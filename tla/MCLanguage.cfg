SPECIFICATION MCSpec
CONSTANTS
    a = a
    b = b
    each = each
    Null = Null
    True = True
    False = False
    NoFrame = NoFrame
    NoPredicate = NoPredicate
    NoRel = NoRel
    EntityTypes = {"Person", "City"}
    RelTypes = {"KNOWS"}
    Props = {"x", "y"}
    InitialTables <- MCInitialTables
    Patterns <- MCPatterns
    Creations <- MCCreations
    Predicates <- MCPredicates
    Settings <- MCSettings
    OnMatches <- MCOnMatches
    OnCreates <- MCOnCreates
    Removals <- MCRemovals
    Targets = {a, b}
    Projections <- MCProjections
    Foreaches <- MCForeaches
    InnerClauses <- MCInnerClauses
    ClauseBound = 4
    QueryBound = 2
    RowBound = 3
    EdgeLists <- MCEdgeLists
    StartRows <- MCStartRows
    Ranges <- MCRanges
    Unbounded = Unbounded
    NoLimit = NoLimit
    Limits = {NoLimit, 1, 3}
    MaxUnboundedHops = 4
    MaxFrontierRows = 4
    MaxTotalRows = 9
    JoinedFrames <- MCJoinedFrames
    Terms <- MCTerms
    Depth <- MCDepth
    Bindings <- MCBindings
    WherePredicates <- MCWherePredicates
    FrameRows <- MCFrameRows
    AggregatedRows <- MCAggregatedRows
    AggregateItems <- MCAggregateItems
    Submissions <- MCSubmissions
    WithStar <- MCWithStar
INVARIANTS ExpansionIsWalks LeapfrogIsJoin EvaluationExact ProducersFirst
PROPERTIES ImplementsGraph KeepsCacheCurrent
CHECK_DEADLOCK FALSE
