SPECIFICATION PollerSpec
CONSTANTS
    Fds = {0, 1, 2}
    kInitEventListSize = 1
    NotInList = NotInList
INVARIANTS
    StructuresMatch
PROPERTIES
    PollsAsPromised
