CONSTANTS
    Threads = {t1}
    Instants <- MCInstants
    Files <- MCFiles
    Offsets = {28800}
    Pieces <- MCPieces
    Levels = {0, 4}
    MaxPieces = 2
    Bits = 10
    FirstYear = 1900
    LastYear = 2500
    UtcSeconds <- MCUtcSeconds
    LocalSeconds <- MCLocalSeconds
SPECIFICATION LogSpec
INVARIANT FromUtcIsTimegm
CHECK_DEADLOCK FALSE
