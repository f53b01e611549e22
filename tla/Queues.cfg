SPECIFICATION SpecEither
CONSTANTS
    Threads = {t1, t2, t3}
    Values = {v1, v2}
    NoValue = none
    MaxQueue = 3
    maxSize = 3
INVARIANTS
    NoLostNotify
    BoundedSound
PROPERTIES
    BoundedIsFifo
    QueueProgress
