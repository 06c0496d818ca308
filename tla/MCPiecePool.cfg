SPECIFICATION PoolSpec
CONSTANTS
    t1 = t1
    t2 = t2
    c1 = c1
    c2 = c2
    Providers = {t1, t2}
    Callers = {c1, c2}
    Indices = {0, 1}
    PieceLength <- MCLength
    Capacity = 4
    MaxAttempts = 2
    MaxOpens = 2
SYMMETRY MCSymmetry
INVARIANTS
    CapacityHolds
    CounterIsTruthful
CHECK_DEADLOCK FALSE
