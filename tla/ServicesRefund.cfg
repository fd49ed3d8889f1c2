SPECIFICATION SeatsSpec
CONSTANTS
    t1 = t1
    t2 = t2
    b1 = b1
    b2 = b2
    ka = ka
    kb = kb
    kc = kc
    small = small
    large = large
    c1 = c1
    w1 = w1
    None = None
    Seat = {1, 2}
    Booking = {b1, b2}
    SeatsOf <- SameSeats
    Thread = {t1, t2}
    HoldTtl = 1
    StartTime = 3
    MaxTime = 2
CHECK_DEADLOCK FALSE
INVARIANTS
    RefundedOnce
