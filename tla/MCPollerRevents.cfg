CONSTANTS
    c1 = c1
    c2 = c2
    c3 = c3
    Channels <- MCChannels
    Fd <- MCFd
    None = None
    InitEventListSize = 1
    MaxEventList = 2
SPECIFICATION Spec
INVARIANT ReportedIsHandled
