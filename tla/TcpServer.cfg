SPECIFICATION FairSpec
CONSTANTS
    MaxConns = 2
    MaxFds = 2
    MaxOthers = 1
    Threads = {t1}
    MaxStarts = 2
INVARIANTS
    Sound
    Ownership
    Lifecycle
PROPERTIES
    EndNoticed
    ServerAnswers
