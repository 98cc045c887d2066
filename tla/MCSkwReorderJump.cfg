SPECIFICATION Spec
CONSTANTS
    SnMod = 16
    BufSize = 2
    Start = 14
    MaxN = 18
    MaxLost = 3
    MaxBars = 0
    MaxSessions = 1
    Timeout = 1
    Amsdus = {}
    Tainted = {}
INVARIANTS InOrder
CHECK_DEADLOCK FALSE
