SPECIFICATION ThreadSpec
CONSTANTS
    owner = owner
    t1 = t1
    f1 = f1
    f2 = f2
    c1 = c1
    c2 = c2
    Threads = {owner, t1}
    Owner = owner
    Functors = {f1, f2}
    Channels = {c1, c2}
    WakeupChannel = wakeupChannel
    NoChannel = null
    MaxWakeups = 1
INVARIANTS
    NoLostWakeup
    NoLostQuit
    NoStaleDispatch
PROPERTIES
    RunsOnceInOrder
    LoopProgress
\* The destructor ends the life of the system.
CHECK_DEADLOCK FALSE
