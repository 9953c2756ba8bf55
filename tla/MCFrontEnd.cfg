CONSTANTS
    Absent = Absent
    Menu <- MCMenu
    Other <- MCOther
    MaxClauses = 3
SPECIFICATION FrontEndSpec
INVARIANTS
    OnlyKnownLosses
    PruningInvisible
    ValidationExact
    RewritesKeepMeaning
CHECK_DEADLOCK FALSE
