SPECIFICATION FairSpec
CONSTANTS
    Threads = {t1}
    Addr = {a1, a2}
    NoTimer = NoTimer
    Idle = Idle
    MaxTimers = 2
    MaxOps = 2
    Horizon = 3
    Intervals = {0, 1}
    Jumps = {2}
    MaxJumps = 1
INVARIANTS
    ListsSound
    AlarmSound
PROPERTIES
    DeletedWhenOver
    CancelsReach
    TimersRun
