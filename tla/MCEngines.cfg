SPECIFICATION MCSpec
CONSTANTS
    Null = Null
    IdColumn = "__ID__"
    Engines = {"pandas", "polars", "duckdb", "spark"}
    FirstFrames <- MCFirstFrames
    Others <- MCOthers
    JoinKeys <- MCJoinKeys
    Strategies = {"auto", "broadcast"}
    Renamings <- MCRenamings
    GroupKeys <- MCGroupKeys
    Aggregations <- MCAggregations
    RowCounts = {0, 1, 2}
    OperationBound = 3
    RowBound = 4
    None = None
    Jobs <- MCJobs
    FaultBound = 2
    RunBound = 2
    Graph <- MCGraph
    Asked <- Asks
    Budgets = {200, Null}
    Sizes <- MCSizes
    SessionBound = 2
    EntitySources <- MCEntitySources
    RelationshipSources <- MCRelationshipSources
    UserFunctions <- MCUserFunctions
    CycleEvery = 3
    Questions <- MCQuestions
    QuestionBound = 2
INVARIANTS RelationsKeepMeaning ConsumersAfterProducers EndsAsReported PlansKeepRows
PROPERTIES EnginesAgree
CHECK_DEADLOCK FALSE
