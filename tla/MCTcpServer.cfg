CONSTANTS
    MaxThreads = 2
    MaxConns = 4
    Fds = {0, 1, 2, 3}
    AcceptErrors = {"ECONNABORTED"}
SPECIFICATION FairSpec
INVARIANTS
    FdsOwned
    NoAssertFails
    Balanced
PROPERTIES
    StartListens
    ClientServed
    ClosedIsReleased
CHECK_DEADLOCK FALSE
