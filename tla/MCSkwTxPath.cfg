SPECIFICATION MCSpec
CONSTANTS
    NAcs = 1
    MaxFrames = 4
    RingSize = 4
    IdxMod = 8
    PktLimit = 2
    FwBufs = 2
    High = 3
    Low = 2
    MaxTrips = 1
    MaxGone = 1
    MaxErrors = 1
    MaxResets = 1
    BufLoads <- XmitLoads
    BufGrant = 2
    RegThreads = {"t1", "t2"}
    RegChunks = 2
    RegFaults = 2
INVARIANTS
    NoFrameLost
    CreditHonoured
    BuffersOwned
    RegSound
PROPERTIES
    FramesEnd
CHECK_DEADLOCK FALSE
