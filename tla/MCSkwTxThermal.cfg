SPECIFICATION FairSpec
CONSTANTS
    NAcs = 1
    MaxFrames = 2
    RingSize = 4
    IdxMod = 4
    PktLimit = 2
    FwBufs = 2
    High = 3
    Low = 2
    MaxTrips = 1
    MaxGone = 0
    MaxErrors = 0
    MaxResets = 0
PROPERTIES EveryFrameSent
CHECK_DEADLOCK FALSE
