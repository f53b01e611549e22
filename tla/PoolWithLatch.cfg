SPECIFICATION SpecAll
CONSTANTS
    Workers = {w1, w2, w3}
    Tasks = {k1, k2, k3}
    NoTask = none
    Waiters = {main, other}
    Counters = {k1, k2, k3}
    Count = 2
INVARIANTS
    PassesAfterCount
    NoneBlockedAtZero
    PoolSound
PROPERTIES
    PoolProgress
CHECK_DEADLOCK FALSE
