CONSTANTS
    LoopThread = loop
    Posters = {p1, p2}
    MaxFunctors = 4
SPECIFICATION FairSpec
INVARIANTS
    NoLostWakeup
    QuitIsSeen
    QueueInOrder
PROPERTIES
    ImplementsExecutor
    QueuedRuns
    QuitReturns
