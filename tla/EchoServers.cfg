SPECIFICATION Spec
CONSTANTS
    Clients = {c1, c2, c3}
    BufSize = 4
    Lines <- MCLines
    MaxFds = 2
    EventsSize = 1
    MaxLines = 1
INVARIANTS
    EchoSound
PROPERTIES
    EchoProgress
CHECK_DEADLOCK FALSE
