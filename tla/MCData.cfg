CONSTANTS
    Base = 2
    CheapPrepend = 1
    InitialSize = 2
    ExtraSize = 2
    Widths = {1, 2}
    Data <- MCStrings
    Patterns <- MCPatterns
    MaxReadable = 4
    Threads = {t1}
    Instants <- MCInstants
    Files <- MCFiles
    Offsets = {28800}
    Pieces <- MCPieces
    Levels = {0, 4}
    MaxPieces = 2
    Bits = 10
    FirstYear = 1900
    LastYear = 2500
    UtcSeconds <- MCUtcSeconds
    LocalSeconds <- MCLocalSeconds
SPECIFICATION DataSpec
INVARIANTS
    IndexOrder
    StampRight
    LineBounded
    ConvertRight
    CalendarRight
    LocalTimeRight
PROPERTY ImplementsByteQueue
CHECK_DEADLOCK FALSE
