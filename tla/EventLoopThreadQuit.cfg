SPECIFICATION ThreadSpec
CONSTANTS
    owner = owner
    f1 = f1
    c1 = c1
    Threads = {owner}
    Owner = owner
    Functors = {f1}
    Channels = {c1}
    WakeupChannel = wakeupChannel
    NoChannel = null
    MaxWakeups = 1
PROPERTY
    DestructorReturns
CHECK_DEADLOCK FALSE
