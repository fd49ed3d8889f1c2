SPECIFICATION Spec
CONSTANTS
    t1 = t1
    t2 = t2
    t3 = t3
    w1 = w1
    w2 = w2
    c1 = c1
    c2 = c2
    None = None
    Task <- MCTask2
    Priority <- MCPriority2
    MaxAttempts <- MCMaxAttempts2
    Worker = {w1}
    Closer = {c1}
    MaxTime = 0
    MaxSubmit = 2
CHECK_DEADLOCK FALSE
INVARIANTS
    CancelledWhenRequested
