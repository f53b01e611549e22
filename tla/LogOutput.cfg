SPECIFICATION SpecBoth
CONSTANTS
    SIZE = 12
    kMaxNumericSize = 4
    Bits = 4
    PointerBits = 1
    Threads = {t1, t2}
    Zones = {z1}
    NoZone = NoZone
    Sinks = {stdout, file}
    Levels = {2, 5}
    StringLens = {4}
    DoubleLens = {3}
    MaxPieces = 2
    MaxMessages = 2
    MaxSecond = 2
    MaxSets = 1
    rollSize_ = 4
    flushInterval_ = 1
    checkEveryN_ = 2
    kRollPerSeconds_ = 4
    Lens = {1, 4}
    MaxTime = 4
    MaxLines = 4
    MaxJumps = 1
    MaxFailures = 1
INVARIANTS
    LinesWhole
    StampsRight
    Bounded
PROPERTIES
    IsSink
CHECK_DEADLOCK FALSE
