SPECIFICATION MCSpec
CONSTANTS
    t1 = t1
    t2 = t2
    None = None
    Thread = {t1, t2}
    WindowType = "COUNT"
    WindowSize = 2
    MinimumCalls = 2
    RateNum = 1
    RateDen = 1
    OpenDuration = 1
    HalfOpenMax = 2
    MaxConcurrent = 1
    PoolSize = 1
    MaxAttempts = 2
    MaxTokens = 8
    TokenCost = 2
    MaxTime = 1
    MaxCalls = 3
    MaxResets = 1
SYMMETRY Symmetry
CHECK_DEADLOCK FALSE
INVARIANTS
    TypeOK
    BreakerExact
    OutageRetriesBounded
    WorkDoneOnce
    ViewsExact
    CrawlsRight
    SolutionsRight
PROPERTIES
    StepsRight
