SPECIFICATION Spec
CONSTANTS
    Threads = {t1}
    Addr = {a1, a2}
    NoTimer = NoTimer
    Idle = Idle
    MaxTimers = 1
    MaxOps = 1
    Horizon = 2
    Intervals = {0}
    Jumps = {}
    MaxJumps = 0
INVARIANT
    ReturnsOwnId
