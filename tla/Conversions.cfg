SPECIFICATION SpecAll
CONSTANTS
    FirstYears <- Decades
    YearsEach = 10
    ClockTimes = {0, 1, 45296, 86399}
    Kinds <- LocalKinds
    MaxTypes = 2
    Changes <- ChangeTimes
    MaxChanges = 2
    charcnt = 12
    EastOfUtc = {28800}
    Times <- AllTimes
    Bits = 12
    PointerBits = 12
    Chars = {0, 40, 41, 200}
    MaxText = 3
INVARIANTS
    CalendarRight
    ZoneRight
    TextRight
CHECK_DEADLOCK FALSE
