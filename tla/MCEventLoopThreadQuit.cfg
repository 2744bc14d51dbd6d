CONSTANTS
    LoopThread = loop
    Owner = o
    Posters = {o, p1}
    MaxFunctors = 1
SPECIFICATION ThreadFairSpec
PROPERTY DtorReturns
