SPECIFICATION SharedSpec
CONSTANTS
    p1 = p1
    k1 = k1
    r1 = r1
    r2 = r2
    r3 = r3
    t1 = t1
    t2 = t2
    b1 = b1
    b2 = b2
    None = None
    Pay = {p1}
    Key = {k1}
    RKey = {r1, r2, r3}
    KeyOf <- OneKey
    Amount <- Three
    RAmount <- SomeRefunds
    Declined = {}
    RDeclined = {}
    Thread = {t1, t2}
    Relay = {b1, b2}
    MaxAttempts = 1
    MaxPublished = 2
CHECK_DEADLOCK FALSE
INVARIANTS
    ChargedWhenShared
