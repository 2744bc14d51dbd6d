CONSTANTS
    Capacity = 2
    KeepLimit = 2
    MaxLines = 7
    RollSize = 2
    CheckEveryN = 2
    RollPerSeconds = 2
    MaxTime = 3
SPECIFICATION FairSpec
INVARIANTS
    SparesReturn
    LinesInOrder
PROPERTIES
    LineWritten
    StopReturns
