CONSTANTS
    Addrs = {a1, a2}
    Posters = {p1}
    Delays = {1}
    Intervals = {0, 1}
    MaxCreated = 3
    MaxQueued = 1
    Off = off
SPECIFICATION FairSpec
INVARIANTS
    QueueConsistent
    ExpiredLive
    CancelSticks
PROPERTIES
    TimerLeaves
