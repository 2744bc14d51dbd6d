CONSTANTS
    Users = {u1}
    Ops = {"send", "shutdown", "forceClose", "forceCloseWithDelay", "startRead"}
    UserOps = {"send", "shutdown", "forceClose", "forceCloseWithDelay", "startRead"}
    MsgLen = 2
    MaxBytes = 4
    MaxQueue = 2
    HighWaterMark = 3
SPECIFICATION FairSpec
INVARIANTS
    NoAssertFails
    StreamInOrder
    OutputWatched
PROPERTIES
    ShutdownCompletes
    ClosedIsDestroyed
