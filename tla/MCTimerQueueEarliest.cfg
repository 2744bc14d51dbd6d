CONSTANTS
    Addrs = {a1, a2}
    Posters = {p1}
    Delays = {1, 3}
    Intervals = {0}
    MaxCreated = 2
    MaxQueued = 1
    Off = off
SPECIFICATION Spec
INVARIANT TimerfdEarliest
