SPECIFICATION MCSpec
CONSTANTS
    t1 = t1
    t2 = t2
    t3 = t3
    w1 = w1
    w2 = w2
    c1 = c1
    c2 = c2
    None = None
    Task <- MCTask3
    Priority <- MCPriority3
    MaxAttempts <- MCMaxAttempts3
    Worker = {w1, w2}
    Closer = {c1, c2}
    MaxTime = 1
    MaxSubmit = 3
SYMMETRY MCSymmetry
CHECK_DEADLOCK FALSE
INVARIANTS
    TypeOK
    OnePlace
    WaitingExact
    OutstandingExact
    DependenciesFirst
    FailureCascades
    NoLostWakeup
    ShutdownSettles
PROPERTIES
    TerminalStays
