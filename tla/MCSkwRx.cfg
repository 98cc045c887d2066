SPECIFICATION MCSpec
CONSTANTS
    SnMod = 16
    BufSize = 2
    Start = 14
    MaxN = 18
    MaxLost = 2
    MaxBars = 1
    MaxSessions = 1
    Timeout = 1
    Amsdus = {15}
    Tainted = {}
INVARIANTS
    
    RxInOrder
    RxSound
PROPERTIES
    
    FramesArrive
CHECK_DEADLOCK FALSE
