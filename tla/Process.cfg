SPECIFICATION SpecAll
CONSTANTS
    Threads = {t1, t2}
    Tids = {1, 2, 3, 4}
    Main = 1
    FewTids = {1, 2, 3}
    MaxValues = 3
    Fds = {1, 2}
    MaxOps = 3
    kBufferSize = 3
    MaxSizes = {2, 4, 7}
    MaxFile = 5
    MaxCalls = 2
INVARIANTS
    ThreadsSound
    NoFalseClaim
    ValuesOwned
    ScanRight
    ReadsWhole
SYMMETRY ObjectsAlike
CHECK_DEADLOCK FALSE
