CONSTANTS
    InitRetryDelay = 2
    MaxRetryDelay = 5
    MaxSocket = 3
SPECIFICATION FairSpec
INVARIANTS
    NoAssertFails
    SocketsOwned
    OneAttempt
PROPERTIES
    ConnectSucceeds
    StopStops
